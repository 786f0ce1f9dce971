CONSTANTS
    l2 = l2
    other = other
    third = third
    Candidates <- MCCandidates
    L2 <- MCL2
    CandidateConcurrency = 2
    MaxRequestsPerRun = 3
    RequestLimits = {2, 4}
    MaxExpansions = 2
    MaxVerifyRounds = 2
SPECIFICATION Spec
INVARIANTS
    BudgetKept
    StatusIsTruthful
PROPERTY
    StageEnds
CHECK_DEADLOCK FALSE
