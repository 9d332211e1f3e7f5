----------------------------- MODULE Filtering -----------------------------
(***************************************************************************)
(* filter of a list: its elements that are in keep, in their order.  It is *)
(* a recursive function, which can be proved about, unlike SelectSeq.      *)
(***************************************************************************)
EXTENDS Naturals, Sequences

Kept(s, keep) ==
  LET kept[n \in 0..Len(s)] ==
        IF n = 0 THEN <<>> ELSE IF s[n] \in keep THEN Append(kept[n-1], s[n]) ELSE kept[n-1]
  IN  kept[Len(s)]
=============================================================================
