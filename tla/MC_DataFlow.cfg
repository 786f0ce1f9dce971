SPECIFICATION FlowSpec
CONSTANTS
    intent = intent
    x = x
    y = y
    k = k
    Locals <- MCLocals
    Param <- intent
    Keys <- MCKeys
    MaxSteps = 4
    MaxCallDepth = 1
    MaxChains = 2
SYMMETRY Symmetry
CONSTRAINT NotBlurred
INVARIANTS
    NothingMissed
    NothingInvented
CHECK_DEADLOCK FALSE
