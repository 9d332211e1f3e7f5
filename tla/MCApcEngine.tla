---------------------------- MODULE MCApcEngine ----------------------------
(* Instances of ApcEngine for TLC.                                         *)
EXTENDS ApcEngine

\* limit pairs <<low-low, high-high>>; 0, the fallback value, is outside Base
Base         == <<1, 2>>
Point        == <<1, 1>>
Narrowed     == {<<1, 1>>}
NoLimitPairs == {}
=============================================================================
