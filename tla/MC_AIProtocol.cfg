SPECIFICATION Spec
CONSTANTS
    c1 = c1
    c2 = c2
    Calls <- MCCalls
    Identities <- MCIdentities
    MaxKills = 1
    MaxCorruptions = 1
SYMMETRY Symmetry
INVARIANTS
    HitIsAccepted
    OutcomeIsTheAnswer
    BreaksOnFatal
CHECK_DEADLOCK FALSE
