SPECIFICATION Spec
CONSTANTS
    Jobs = {j1}
    Workers = {w1, w2}
    Handlers = {h1}
    MaxCrashes = 1
    MaxTimeouts = 1
    SlowJobs = FALSE
    NoJob = NoJob
SYMMETRY ProcessSymmetry
INVARIANTS
    RecoveredByOne
CHECK_DEADLOCK FALSE
