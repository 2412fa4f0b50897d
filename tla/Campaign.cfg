SPECIFICATION Spec
CONSTANTS
    a = a
    b = b
    label = label
    p1 = p1
    p2 = p2
    Label = label
    Claims <- MCClaims
    Tools <- MCTools
    Owner <- MCOwner
    MaxToolCalls = 4
    MinN <- MCMinN
    Threshold <- MCThreshold
    MaxTurns = 2
    Targets <- MCTargets
    Processes = {p1, p2}
    Loads <- MCLoads
    MaxFailures = 3
    ProbeRequests = 5
    HardRequests = 5
    HardCost = 15
    AgentRequests = 8
    AgentCost = 30
    OutputPrice = 2
    OutputSize = 1
    MaxMishaps = 1
INVARIANTS
    SpendingIsApproved
    PassIsEarned
    CapsAreNobodysFailure
    ControlsAreTold
