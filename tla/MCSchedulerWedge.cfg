SPECIFICATION Spec
CONSTANTS
    Schedules = {s1}
    Loop = loop
    Callers = {}
    MaxTime = 2
    MaxAhead = 1
    MaxRev = 1
    MaxRuns = 2
    MaxJobs = 2
    MaxManual = 0
    MaxCrashes = 0
    MaxRetries = 0
    CatchupScan = 2
    Capacity = 2
    Endings = {"done", "cancelled", "transient", "permanent"}
    FastJobs = TRUE
INVARIANTS
    RunningWillSettle
