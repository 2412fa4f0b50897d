SPECIFICATION Spec
CONSTANTS
    StageCount = 2
    ArtifactCount = 2
    Unsupported <- MCUnsupported
    FailStage = 2
    Params <- Plain
    Runs = {r1}
    Workers = {w1, w2}
    MaxDelivery = 5
    MaxCrashes = 1
    MaxLapses = 0
    NoWorker = NoWorker
    NoRun = NoRun
SYMMETRY WorkerSymmetry
INVARIANTS
    InfrastructureNeverFails
CHECK_DEADLOCK FALSE
