SPECIFICATION FairSpec
CONSTANTS
    StageCount = 1
    ArtifactCount = 1
    Unsupported <- NoUnsupported
    FailStage = 1
    Params <- Plain
    Runs = {r1}
    Workers = {w1, w2}
    MaxDelivery = 5
    MaxCrashes = 1
    MaxLapses = 1
    NoWorker = NoWorker
    NoRun = NoRun
PROPERTIES
    AcceptedRunEnds
    CancelledWhileQueuedNeverWorks
CHECK_DEADLOCK FALSE
