CONSTANTS
    k1 = k1
    Pipeline <- MCPipeline
    Dirs <- MCDirs
    SourceChoices <- MCSourceChoices
    Cleaners <- MCCleaners
    MaxFaults = 1
SPECIFICATION RunSpec
INVARIANTS
    EndIsRecorded
    ManifestNeverAhead
    CleanupHolds
PROPERTIES
    Terminates
CHECK_DEADLOCK FALSE
