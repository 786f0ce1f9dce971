------------------------ MODULE MC_CandidateAnalysis ------------------------
(* Three candidates, one more than are analysed at once.                    *)
EXTENDS CandidateAnalysis

CONSTANTS l2, other, third

MCCandidates == {l2, other, third}
MCL2 == {l2}
=============================================================================
