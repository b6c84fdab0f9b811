SPECIFICATION LiveSpec
CONSTANTS
    Cancellers = {k1}
    Deciders = {d1}
    MaxJobs = 2
    MaxConfirms = 1
    MaxTurns = 2
    Pausable = {1}
    Cap = 2
    PoolSize = 1
INVARIANTS
    TypeOK
    CancelReachesSubtree
    ApprovalSpentOnce
    NoGhostConfirm
PROPERTIES
    ImplementsJobLife
    SettledIsFinal
    EveryJobReports
CHECK_DEADLOCK FALSE
