--------------------------- MODULE MCHmiSession ---------------------------
(* Instance of HmiSession for TLC: two controllers, one of them in control *)
(* at first, and an operator.                                              *)
EXTENDS HmiSession

CONSTANTS a, b

MCFirstModes == {[c \in {a, b} |-> IF c = a THEN 0 ELSE 2]}
=============================================================================
