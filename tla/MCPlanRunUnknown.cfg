SPECIFICATION Spec
CONSTANTS
    Steerers = {}
    CallIds = {c1, c2}
    InitialSteps = 1
    Limit = 3
    RetryBudget = 1
    MaxCalls = 2
CHECK_DEADLOCK FALSE
PROPERTIES
    NoRetryOfUnknown
