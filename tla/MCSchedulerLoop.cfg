SPECIFICATION Spec
CONSTANTS
    Schedules = {s1}
    Loop = loop
    Callers = {}
    MaxTime = 3
    MaxAhead = 1
    MaxRev = 2
    MaxRuns = 4
    MaxJobs = 4
    MaxManual = 0
    MaxCrashes = 1
    MaxRetries = 1
    CatchupScan = 1
    Capacity = 2
    Endings = {"done", "cancelled", "transient", "permanent"}
    FastJobs = TRUE
INVARIANTS
    TypeOK
    NoOverlap
    LiveJobIsTracked
    AttemptsBounded
    OccurrenceLostOnlyWithStaleRow
PROPERTIES
    FinishedIsFinal
