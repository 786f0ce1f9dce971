---------------------------- MODULE MC_AIProtocol ----------------------------
(* Two calls, which may ask the same or not, of a preflight, a review and an  *)
(* untracked question.                                                        *)
EXTENDS AIProtocol, TLC

CONSTANTS c1, c2
MCCalls == {c1, c2}
MCIdentities == [track : Tracks, subject : {"s"}]
Symmetry == Permutations(MCCalls)
==============================================================================
