SPECIFICATION FairSpec
CONSTANTS
    t1 = t1
    t2 = t2
    Threads <- MCThreads
    Runs <- MCRuns
    Menus <- MCMenus
    Dockets <- MCDockets
    Others = {"report"}
    TextLength <- MCTextLength
    MaxAnswerChars = 8
    MaxRequests = 4
    MaxCost = 16
    OutputPrice = 2
    OutputSize = 1
    MaxModelTurns = 3
    MaxToolCalls = 3
    ModelTimeout = 1
    TotalTimeout = 2
    MaxPromptChars = 3
    ResultSize = 1
    None = None
    NotAsked = NotAsked
INVARIANTS
    SpendingIsBounded
    OnlyRetrievedIsShown
    AnswersAreGrounded
    OfferedIsCitable
    TraceTellsWhatWasSent
    LimitsHold
PROPERTIES
    QuestionsEnd
CHECK_DEADLOCK FALSE
