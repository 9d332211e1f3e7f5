---------------------------- MODULE MCOpcWorker ----------------------------
(* Instances of OpcWorker for TLC.                                         *)
EXTENDS OpcWorker
AllFaults == FaultKinds
=============================================================================
