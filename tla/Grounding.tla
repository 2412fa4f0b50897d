----------------------------- MODULE Grounding ------------------------------
(***************************************************************************)
(* The grounding policy (copilot/grounding.py): the catalog of claims of   *)
(* one run, the claims a question may be answered from, the rendering of a *)
(* selection and the validation of its citations.                          *)
(*                                                                         *)
(* A claim is its id: its citations follow from the evidence, and its text,*)
(* authored by the server, is a length.                                    *)
(***************************************************************************)
EXTENDS Evidence, Routing, Integers, Sequences

CONSTANTS
    TextLength,      \* length of the text of each claim
    MaxAnswerChars   \* bound of an answer

ClaimIds ==
    DiagnosticClaims \union LimitClaims \union ModelClaims
    \union {Label, "run_status", "provenance", "artifact_integrity",
            "source_duration", "no_missing_evidence"}

ASSUME GroundingAssumption ==
    /\ TextLength \in [ClaimIds -> Nat \ {0}]
    /\ MaxAnswerChars \in Nat
    \* Every claim fits beside the label.
    /\ \A c \in ClaimIds : TextLength[Label] + 1 + TextLength[c] <= MaxAnswerChars

(***************************************************************************)
(* The catalog                                                             *)
(***************************************************************************)

\* Citations of the manifest, and of the diagnostics artifact with the schema
\* its bytes name; a path that is not in the snapshot is not cited.
Cite(evidence, paths) ==
    {[path |-> p, artifact |-> None, schema |-> None] :
        p \in paths \intersect FieldPaths(evidence)}

CiteDiagnostics(evidence, fields) ==
    {[path |-> p, artifact |-> Diagnostics, schema |-> evidence.diagnostics.schema] :
        p \in {<<"diagnostics", f>> : f \in fields} \intersect FieldPaths(evidence)}

\* A measure was present and is not stated, so "valid" would be untrue.
WithheldAMeasure(evidence) ==
    /\ evidence.diagnostics.schema = RealSchema
    /\ \/ evidence.diagnostics.measure["fraction"] = "unusable"
       \/ evidence.diagnostics.measure["short"] \in {"unusable", "mixed"}

NothingIsMissing(evidence) ==
    /\ evidence.diagnostics # None
    /\ evidence.nature # "unverified_or_partial"
    /\ AllVerified(evidence)
    /\ ~WithheldAMeasure(evidence)

\* The claim that states each measure.
MeasureClaim ==
    [diag_assignment |-> "fraction", diag_duration |-> "duration",
     diag_active |-> "active", diag_short_tracklets |-> "short",
     diag_insufficient |-> "insufficient"]

Stated(read, measure) == read.measure[measure] \in {"mixed", "good"}

\* The claims the diagnostics allow.
DiagnosticIdsOf(read) ==
    IF read.schema = SyntheticSchema
    THEN IF read.quality = "synthetic" THEN {"diag_synthetic"}
         ELSE IF read.legacy THEN {"diag_legacy_tracking", "diag_reliability_scope"}
         ELSE {}
    ELSE {"diag_tracking"}
         \union {c \in DOMAIN MeasureClaim : Stated(read, MeasureClaim[c])}
         \union (IF read.interpretation = "descriptive_only"
                 THEN {"diag_interpretation"} ELSE {})
         \union (IF read.truth = "not_measured" THEN {"diag_ground_truth"} ELSE {})
         \union (IF read.truth # "measured" THEN {"diag_reliability_scope"} ELSE {})

\* The fields each of them cites.
FieldsOf(read, c) ==
    CASE c = "diag_synthetic" -> {"quality"}
      [] c = "diag_legacy_tracking" -> {"legacy"}
      [] c = "diag_tracking" -> {"counts"}
      [] c = "diag_interpretation" -> {"interpretation"}
      [] c = "diag_ground_truth" -> {"truth"}
      [] c = "diag_reliability_scope" ->
            IF read.legacy THEN {"legacy"}
            ELSE IF read.truth # "absent" THEN {"truth"} ELSE {"counts"}
      [] OTHER -> {MeasureClaim[c]}

\* The claims about the manifest and about the evidence itself.
ManifestIds(evidence) ==
    {Label, "run_status", "provenance", "model_references", "artifact_integrity",
     "boundaries"}
    \union (IF evidence.models = "named" THEN {"model_details"} ELSE {})
    \union (IF evidence.duration THEN {"source_duration"} ELSE {})
    \union (IF evidence.missing THEN {"missing_evidence"}
            ELSE IF NothingIsMissing(evidence) THEN {"no_missing_evidence"} ELSE {})

ManifestPaths(evidence, c) ==
    CASE c = Label -> {<<"output_nature">>}
      [] c = "run_status" -> {<<"run">>}
      [] c = "provenance" -> {<<"code">>}
      [] c \in ModelClaims -> {<<"models">>}
      [] c = "artifact_integrity" ->
            IF DOMAIN evidence.verified = {} THEN {<<"artifacts">>}
            ELSE {<<"artifacts", a>> : a \in DOMAIN evidence.verified}
      [] c = "source_duration" -> {<<"source_duration">>}
      [] c \in {"missing_evidence", "no_missing_evidence"} -> {<<"missing_evidence">>}
      [] OTHER -> {<<"limitations">>}

\* Two of them also cite the schema of the diagnostics.
ManifestCitations(evidence, c) ==
    Cite(evidence, ManifestPaths(evidence, c))
    \union (IF \/ c = Label /\ evidence.nature = "verified_real"
               \/ c = "no_missing_evidence"
            THEN CiteDiagnostics(evidence, {"schema"}) ELSE {})

Citations(evidence, c) ==
    IF c \in ManifestIds(evidence) THEN ManifestCitations(evidence, c)
    ELSE CiteDiagnostics(evidence, FieldsOf(evidence.diagnostics, c))

\* Every claim of the run that has something to cite.
BuildCatalog(evidence) ==
    LET ids == ManifestIds(evidence)
               \union (IF evidence.diagnostics = None THEN {}
                       ELSE DiagnosticIdsOf(evidence.diagnostics)) IN
    {c \in ids : Citations(evidence, c) # {}}

(***************************************************************************)
(* Selection and rendering                                                 *)
(***************************************************************************)

\* The claims a question may be answered from, and the label.
Eligible(catalog, route) == catalog \intersect (route.claims \union {Label})

\* Mutant: the label answers any question.
MutantCanAnswer(ids, route) == ids \intersect (route.claims \union {Label}) # {}

CanAnswer(ids, route) == ids \intersect route.claims # {}

\* The claims in the order the catalog is built in, and those of a catalog.
ClaimOrder ==
    <<Label, "run_status", "provenance", "model_references", "model_details",
      "artifact_integrity", "source_duration", "diag_synthetic", "diag_legacy_tracking",
      "diag_tracking", "diag_assignment", "diag_duration", "diag_active",
      "diag_short_tracklets", "diag_insufficient", "diag_interpretation",
      "diag_ground_truth", "diag_reliability_scope", "missing_evidence",
      "no_missing_evidence", "boundaries">>

InOrder(ids) ==
    LET upTo[k \in 0 .. Len(ClaimOrder)] ==
            IF k = 0 THEN <<>>
            ELSE IF ClaimOrder[k] \in ids THEN Append(upTo[k - 1], ClaimOrder[k])
            ELSE upTo[k - 1]
    IN upTo[Len(ClaimOrder)]

Ids(selection) == {selection[i] : i \in DOMAIN selection}

\* A claim beside those an answer shows so far, when it fits.
Add(answer, c) ==
    LET length == answer.length + 1 + TextLength[c] IN
    IF c \in answer.shown \/ length > MaxAnswerChars THEN answer
    ELSE [shown |-> answer.shown \union {c}, length |-> length]

\* The claims an answer shows, the label first: a claim that does not fit is left
\* out whole, and the next is tried.
Rendered(selection) ==
    LET after[k \in 0 .. Len(selection)] ==
            IF k = 0 THEN [shown |-> {Label}, length |-> TextLength[Label]]
            ELSE Add(after[k - 1], selection[k])
    IN after[Len(selection)].shown

IsForged(catalog, selection) == ~(Ids(selection) \subseteq catalog)

\* Nothing is shown when the selection does not address the question.
ClaimsToRender(catalog, selection, route) ==
    IF Label \in catalog /\ CanAnswer(Ids(selection), route)
    THEN Rendered(selection)
    ELSE {}

RenderedCitations(evidence, shown) == UNION {Citations(evidence, c) : c \in shown}

\* Every citation resolves to the evidence of this run, and one that names an
\* artifact to one that passed verification under the same schema.
ValidCitations(evidence, citations) ==
    \A c \in citations :
        /\ c.path \in FieldPaths(evidence)
        /\ c.artifact # None =>
              /\ c.artifact \in DOMAIN evidence.verified
              /\ evidence.verified[c.artifact]
              /\ c.schema \in {None, evidence.declared}

=============================================================================
