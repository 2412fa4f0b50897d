SPECIFICATION FairSpec
CONSTANTS
    Jobs = {j1}
    Workers = {w1, w2}
    Handlers = {h1}
    MaxCrashes = 2
    MaxTimeouts = 1
    SlowJobs = TRUE
    NoJob = NoJob
INVARIANTS
    OneExecutor
    AcceptedIsKept
    CompletedIsPublished
PROPERTIES
    LifecycleSpec
    JobsEnd
CHECK_DEADLOCK FALSE
