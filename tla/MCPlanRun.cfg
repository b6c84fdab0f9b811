SPECIFICATION LiveSpec
CONSTANTS
    Steerers = {s1}
    CallIds = {c1}
    InitialSteps = 2
    Limit = 4
    RetryBudget = 1
    MaxCalls = 2
CHECK_DEADLOCK FALSE
INVARIANTS
    TypeOK
    DependenciesFirst
    KeyRunsOnce
    DoneMeansDone
    CrashIsVisible
PROPERTIES
    UncertainForGood
    PlanEnds
