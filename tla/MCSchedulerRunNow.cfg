SPECIFICATION LiveSpec
CONSTANTS
    Schedules = {s1}
    Loop = loop
    Callers = {"api"}
    MaxTime = 2
    MaxAhead = 1
    MaxRev = 1
    MaxRuns = 2
    MaxJobs = 5
    MaxManual = 1
    MaxCrashes = 1
    MaxRetries = 0
    CatchupScan = 2
    Capacity = 1
    Endings = {"cancelled"}
    FastJobs = FALSE
INVARIANTS
    RunningWillSettle
PROPERTIES
    QueuedIsServed
