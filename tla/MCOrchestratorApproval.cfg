SPECIFICATION Spec
CONSTANTS
    Cancellers = {}
    Deciders = {d1}
    MaxJobs = 1
    MaxConfirms = 2
    MaxTurns = 1
    Pausable = {}
    Cap = 1
    PoolSize = 1
INVARIANTS
    ApprovalReachesItsOwnConfirm
CHECK_DEADLOCK FALSE
