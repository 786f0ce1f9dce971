SPECIFICATION SliceSpec
CONSTANTS
    Method <- MC_Method
    Classes <- MC_Classes
    Simple <- MC_Simple
    LastLine <- MC_LastLine
    Calls <- MC_Calls
    AmbiguousIn = {2, 5}
    Guards <- MC_Guards
    Words <- MC_Words
    Lifecycle = {"onCreate"}
    SliceCandidates <- MC_Candidates
    Slices = {1, 2}
    Requests <- MC_Requests
    MaxRequests = 1
    MaxContexts = 5
    MaxAdditions = 4
    MaxBytes = 19
    MaxTokens = 18
    MaxLines = 5
    MaxMethods = 2
    MaxExtensions = 2
    HalfWindow = 1
INVARIANTS
    ProofIsSent
    AnswersAreTruthful
    EdgesAreTheCalls
CHECK_DEADLOCK FALSE
