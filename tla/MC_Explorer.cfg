CONSTANTS
    e1 = e1
    e2 = e2
    e3 = e3
    Entries <- MCEntries
    EntryConcurrency = 2
    MaxRounds = 2
    MaxProposals = 1
    MaxCandidates = 1
    MaxDiveRounds = 2
    MaxRequestsPerRun = 5
    MaxPartials = 2
SPECIFICATION Spec
INVARIANTS
    SoftCap
    NothingLost
    LedgersAgree
PROPERTY
    StageEnds
CHECK_DEADLOCK FALSE
