SPECIFICATION FairSpec
CONSTANTS
    MinObservations = 2
    MinRows = 4
    ShortTimes <- MCShortTimes
    BinLength = 5
    Top = 2
    BlockLength = 6
    MaxGap = 4
    SprintSpeed = 2
    MinSprint = 3
    Runs <- MCRuns
    Workers <- MCWorkers
    Videos <- MCVideos
    Hosts <- MCHosts
    Loads <- MCLoads
    MaxEvents = 1
    NoRun = NoRun
INVARIANTS
    ResultsAreOwn
    ReportAgrees

PROPERTIES
    BuildsEnd
CHECK_DEADLOCK FALSE
