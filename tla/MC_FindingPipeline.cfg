SPECIFICATION PipelineSpec
CONSTANTS
    Cand = {c1, c2}
    Chains = {"k1", "k2"}
    KeysOf <- MCKeysOf
    Starts <- MCStarts
    Answers <- MCAnswers
    MaxL1 = 1
    HighRisk = 2
    SkipL1 = TRUE
    PriorityClean = TRUE
    Demote = TRUE
CONSTANTS
    c1 = c1
    c2 = c2
INVARIANTS StatusIsEarned PartialRunDismissesNothing GradeNeedsProof
           
CHECK_DEADLOCK FALSE
