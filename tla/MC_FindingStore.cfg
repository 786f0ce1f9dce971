SPECIFICATION Spec
CONSTANTS
    Findings <- MC_Findings
    Reviewers = {r1, r2}
    Reporters = {g1}
    Requests <- MC_Requests
    RequestIds = {"q1"}
    Scans <- MC_Scans
    BatchSize = 1
    MaxKills = 1
INVARIANTS
    HistoryIsAChain
    ReplacedWhole
    FilesFollow
CHECK_DEADLOCK FALSE
SYMMETRY MC_Symmetry
