CONSTANTS
    JobCount <- MCJobCount
    MaxConcurrency <- MCMaxConcurrency
SPECIFICATION Spec
PROPERTIES
    OpenCircuitOnlyDrains
    ImplementsPool
CHECK_DEADLOCK FALSE
