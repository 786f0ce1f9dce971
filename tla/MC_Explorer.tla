---------------------------- MODULE MC_Explorer ----------------------------
(* Three entries, one more than are explored at once.                       *)
EXTENDS Explorer

CONSTANTS e1, e2, e3

MCEntries == {e1, e2, e3}
=============================================================================
