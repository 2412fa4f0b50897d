SPECIFICATION Spec
CONSTANTS
    Runs = {r1}
    Handlers = {h1, h2}
    first = first
    second = second
    big = big
    Contents <- MCContents
    Size <- MCSize
    MaxUploadBytes = 1
    MaxRequests = 3
    MaxPuts = 1
    MaxFaults = 1
    MaxCrashes = 0
    None = None
SYMMETRY Symmetry
INVARIANTS
    AnsweredIsSent
CHECK_DEADLOCK FALSE
