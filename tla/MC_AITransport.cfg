CONSTANTS
    c1 = c1
    c2 = c2
    c3 = c3
    scan1 = scan1
    scan2 = scan2
    Calls <- MCCalls
    Tasks <- MCTasks
    TaskOf <- MCTaskOf
    ProviderMaxInFlight = 2
    MaxConcurrentChoices <- MCMaxConcurrentChoices
    MaxAttempts = 2
    MaxCooldown = 1
    MaxRetryAfter = 2
SPECIFICATION Spec
INVARIANTS
    ResultIsHonest
PROPERTIES
    SentOnlyWhenCool
    NoRequestAfterFatal
    CallsReturn
CHECK_DEADLOCK FALSE
