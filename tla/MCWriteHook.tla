---------------------------- MODULE MCWriteHook ----------------------------
(* The instance of WriteHook for TLC.                                      *)
EXTENDS WriteHook
=============================================================================
