SPECIFICATION Spec
CONSTANTS
    Runs = {r1, r2, r3}
    Handlers = {h1, h2}
    first = first
    second = second
    big = big
    Contents <- MCContents
    Size <- MCSize
    MaxUploadBytes = 1
    MaxRequests = 3
    MaxPuts = 2
    MaxFaults = 1
    MaxCrashes = 1
    None = None
SYMMETRY Symmetry
INVARIANTS
    OneJob
    AttemptsFormAChain
    JobHasItsInput
    NothingIsStranded
PROPERTIES
    LedgerSpec
CHECK_DEADLOCK FALSE
