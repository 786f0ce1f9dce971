CONSTANTS
    b1 = b1
    b2 = b2
    a1 = a1
    a2 = a2
    r1 = r1
    r2 = r2
    r3 = r3
    Batches <- MCBatches
    Assets <- MCAssets
    AssetsOf <- MCAssetsOf
    Runners <- MCRunners
    BatchOf <- MCBatchOf
    MaxAiCallsChoices <- MCMaxAiCallsChoices
    MaxConcurrentRunsChoices <- MCMaxConcurrentRunsChoices
    MaxRequestsPerRun = 1
    MaxDeletions = 1
SPECIFICATION Spec
INVARIANTS
    ClaimedOnce
    NothingDangles
    SoftCap
PROPERTIES
    BatchesFinish
CHECK_DEADLOCK FALSE
