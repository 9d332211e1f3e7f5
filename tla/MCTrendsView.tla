--------------------------- MODULE MCTrendsView ---------------------------
(* Instance of TrendsView for TLC: one controller with two tags, and one   *)
(* whose model cannot be loaded; windows of two lengths, the preload of    *)
(* which differs.                                                          *)
EXTENDS TrendsView

CONSTANTS p, q

MCTagLists == {{p, q}, {}}
MCPresets == {{p, q}, {}}
MCFilters == {{p, q}, {p}}
MCBase == [k \in {p, q} |-> k]
MCRanges == {1, 2}
MCPreload == [r \in {1, 2} |-> 2 - r]
=============================================================================
