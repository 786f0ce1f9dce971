SPECIFICATION RulesSpec
CONSTANTS
    None = None
    Catalog <- MCCatalog
    PlatformNames <- MCPlatformNames
    Scenarios <- MCScenarios
    MaxWorkers = 2
    Wall = 2
INVARIANTS
    ExposedIsReported
    ReportedIsReachable
    AnswerIsWhole
PROPERTY
    RulesFinish
