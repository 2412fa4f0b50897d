SPECIFICATION Spec
CONSTANTS
    StageCount = 2
    ArtifactCount = 2
    Unsupported <- MCUnsupported
    FailStage = 2
    Params <- Mixed
    Runs = {r1}
    Workers = {w1, w2}
    MaxDelivery = 2
    MaxCrashes = 1
    MaxLapses = 1
    NoWorker = NoWorker
    NoRun = NoRun
SYMMETRY WorkerSymmetry
INVARIANTS
    TypeOK
    TerminalIsSettled
    PublishedIsComplete
    SettledIsTerminal
    CancellationBound
    OneExecutor
PROPERTIES
    LifecycleSpec
CHECK_DEADLOCK FALSE
