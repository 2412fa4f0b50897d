SPECIFICATION Spec
CONSTANTS
    Tracklets <- MCTracklets
    None = None
    Gated = Gated
    Classes = {"person", "keeper", "ball"}
    Eligible = {"person", "keeper"}
    Teams = {"A", "B"}
    MaxGap = 3
    CutBirths = 2
    Scenes <- MCScenes
    Drafts <- MCDrafts
    Requests <- MCRequests
    Margin = 1
    Players <- MCPlayers
    Truths <- MCTruths
    Scopes <- MCScopes
    MaxLog = 3
INVARIANTS
    ArtifactsAreAccepted
    SeparatedStayApart
    ConfirmedIsHuman
    DecisionsAreHonoured
    EvaluationAgrees
CHECK_DEADLOCK FALSE
