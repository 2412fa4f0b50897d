------------------------------ MODULE Routing -------------------------------
(***************************************************************************)
(* The routing of questions (copilot/grounding.py, route_question): a      *)
(* closed vocabulary decides which claims may answer a question.           *)
(*                                                                         *)
(* A question is the set of its words.  Each class of words the router     *)
(* tells apart is present with one word, or with one for each of the       *)
(* classes it overlaps; "fouls" stands for every word outside it.          *)
(***************************************************************************)
EXTENDS FiniteSets

Label == "output_nature"

TrackCountClaims == {"diag_tracking", "diag_legacy_tracking"}
ReliabilityClaims ==
    TrackCountClaims \union {"diag_synthetic", "diag_duration", "diag_short_tracklets",
                             "diag_insufficient", "diag_reliability_scope"}
DiagnosticClaims ==
    ReliabilityClaims \union {"diag_assignment", "diag_active", "diag_interpretation",
                              "diag_ground_truth"}
LimitClaims == {"missing_evidence", "boundaries"}
ModelClaims == {"model_details", "model_references"}
SummaryClaims ==
    {Label, "run_status", "model_details", "artifact_integrity", "diag_synthetic"}
    \union TrackCountClaims \union LimitClaims

\* A specific word decides the question; a broad one counts without any.
SpecificClaims ==
    [reliable |-> ReliabilityClaims,
     short |-> {"diag_short_tracklets"},
     model |-> ModelClaims,
     weights |-> ModelClaims,
     checksum |-> {"provenance"},
     assigned |-> {"diag_assignment"},
     active |-> {"diag_active"},
     insufficient |-> {"diag_insufficient"},
     interpretation |-> {"diag_interpretation"},
     ground |-> {"diag_ground_truth"},
     truth |-> {"diag_ground_truth"},
     median |-> {"diag_duration", "diag_active"},
     missing |-> {"missing_evidence", "no_missing_evidence"}]

BroadClaims ==
    [failed |-> {"run_status"},
     status |-> {"run_status"},
     real |-> {Label},
     provenance |-> ModelClaims \union {"provenance", "source_duration"},
     artifact |-> {"artifact_integrity"},
     integrity |-> {"artifact_integrity"},
     passed |-> {"artifact_integrity"},
     tracklet |-> TrackCountClaims,
     detection |-> TrackCountClaims,
     count |-> TrackCountClaims,
     tracking |-> DiagnosticClaims,
     limits |-> LimitClaims]

Specific == DOMAIN SpecificClaims
Broad == DOMAIN BroadClaims
GeneralWords == {"summary"}
LengthWords == {"long"}
VideoWords == {"video"}
QuantityWords == {"many"}
FunctionWords == {"the", "which", "long"} \union QuantityWords
OutcomeWords == {"failed"}
TrackletWords == {"tracklet"}
ListedWords == TrackletWords \union {"detection", "artifact"}
CountableWords == ListedWords \union {"model"}
KnownWords == FunctionWords \union GeneralWords \union LengthWords \union VideoWords
              \union Specific \union Broad
Words == KnownWords \union {"fouls"}

\* The words one of which must stand beside a word for it to mean anything.
SubjectOf ==
    LET tracking == {"tracklet", "detection"} IN
    [active |-> tracking, assigned |-> tracking, count |-> tracking,
     insufficient |-> tracking, median |-> tracking, short |-> tracking,
     ground |-> {"truth"}, truth |-> {"ground"},
     passed |-> {"artifact", "integrity"}]

Meets(words, others) == words \intersect others # {}

NamesItsSubject(words) ==
    /\ Meets(words, QuantityWords) => Meets(words, CountableWords)
    /\ ~("which" \in words /\ Meets(words, ListedWords))
    /\ ~(Meets(words, OutcomeWords) /\ Meets(words, Specific))
    /\ ~("reliable" \in words /\ Meets(words, VideoWords \union LengthWords))
    /\ \A w \in words \intersect DOMAIN SubjectOf : Meets(words, SubjectOf[w])

Unsupported == [scope |-> "unsupported", claims |-> {}]
General == [scope |-> "general", claims |-> SummaryClaims]
Supported(claims) ==
    IF claims = {} THEN Unsupported ELSE [scope |-> "supported", claims |-> claims]

LengthClaims(words) ==
    (IF Meets(words, VideoWords) THEN {"source_duration"} ELSE {})
    \union (IF Meets(words, TrackletWords) THEN {"diag_duration"} ELSE {})

NamedClaims(words) ==
    IF Meets(words, Specific)
    THEN UNION {SpecificClaims[w] : w \in words \intersect Specific}
    ELSE UNION {BroadClaims[w] : w \in words \intersect Broad}

\* A blank question asks for the overview; one with an unknown word, or whose
\* words lack their subject, is refused.
RouteQuestion(words) ==
    IF words = {} THEN General
    ELSE IF ~(words \subseteq KnownWords) \/ ~NamesItsSubject(words) THEN Unsupported
    ELSE IF Meets(words, LengthWords)
    THEN IF "short" \in words THEN Unsupported ELSE Supported(LengthClaims(words))
    ELSE IF Meets(words, GeneralWords) /\ NamedClaims(words) \subseteq {Label}
    THEN IF Meets(words, VideoWords) THEN Unsupported ELSE General
    ELSE Supported(NamedClaims(words))

=============================================================================
