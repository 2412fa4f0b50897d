SPECIFICATION Spec
CONSTANTS
    None = None
    Runs = {r1}
    Importers = {p1, p2}
    Handlers = {h1}
    SourceCount = 2
    MinimumCount = 1
    VersionCount = 1
    MaxChanges = 2
    MaxFaults = 1
    MaxCrashes = 1
    Artifacts <- MCArtifacts
    Contents <- MCContents
    Checksums <- MCChecksums
INVARIANTS
    ImportIsFaithful
PROPERTIES
    NothingIsLost
SYMMETRY MCSymmetry
CHECK_DEADLOCK FALSE
