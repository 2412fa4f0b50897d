------------------------------ MODULE Evidence ------------------------------
(***************************************************************************)
(* The evidence of one run (copilot/evidence.py): what the copilot may say *)
(* about it, built from the manifest and from the diagnostics artifact.    *)
(*                                                                         *)
(* The bytes of an artifact are checked against the manifest twice, once   *)
(* to read the diagnostics and once to stamp every artifact; the module    *)
(* has one operator for each, so that the store may change in between.     *)
(***************************************************************************)
EXTENDS FiniteSets

CONSTANTS
    Others,   \* registered artifacts other than the diagnostics
    None

ASSUME EvidenceAssumption ==
    "analysis-diagnostics" \notin Others /\ None # "analysis-diagnostics"

Diagnostics == "analysis-diagnostics"
Artifacts == Others \union {Diagnostics}

Profiles == {"demo_fast", "v1_compat", "unknown"}
RealSchema == "v2"
SyntheticSchema == "v1"
Schemas == {RealSchema, SyntheticSchema, "unapproved"}
Qualities == {"absent", "unverified", "synthetic", "other", "malformed"}

\* The optional measures of the real schema that a claim is made of.
Measures == {"fraction", "duration", "active", "short", "insufficient"}

\* What the artifact says of a measure: nothing; a value the type checks drop;
\* a value that passes them and no claim can state (a fraction above one, a
\* distribution with no median, a table whose every row disagrees with its key);
\* a table some rows of which are such; a value a claim can state.
MeasureStates == {"absent", "malformed", "unusable", "mixed", "good"}

Registrations == [json : BOOLEAN, small : BOOLEAN,
                  declared : Schemas \union {None}]

\* The bytes of the diagnostics, as the parser finds them.
Payloads == [readable : BOOLEAN, own : BOOLEAN, schema : Schemas,
             quality : Qualities, core : BOOLEAN,
             measure : [Measures -> MeasureStates],
             interpretation : {"absent", "descriptive_only", "other"},
             truth : {"absent", "not_measured", "measured"},
             legacy : BOOLEAN]

Manifests == [status : {"succeeded", "partial", "running", "failed"},
              profile : Profiles, version : Profiles,
              diagnostics : Registrations \union {None},
              payload : Payloads,
              others : SUBSET Others,
              duration : BOOLEAN,
              models : {"none", "named", "unnamed"}]

Registered(run) ==
    run.others \union (IF run.diagnostics = None THEN {} ELSE {Diagnostics})

(***************************************************************************)
(* Reading the diagnostics                                                 *)
(***************************************************************************)

\* The fields that pass the checks of the real schema, None when one of the
\* required ones does not.
ApprovedReal(payload) ==
    IF ~payload.core \/ payload.quality = "malformed" THEN None
    ELSE [schema |-> RealSchema,
          quality |-> payload.quality,
          measure |-> [m \in Measures |->
                          IF payload.measure[m] = "malformed" THEN "absent"
                          ELSE payload.measure[m]],
          interpretation |-> payload.interpretation,
          truth |-> payload.truth,
          legacy |-> FALSE]

\* Measures of this schema are never read; a malformed label is dropped.
ApprovedSynthetic(payload) ==
    [schema |-> SyntheticSchema,
     quality |-> IF payload.quality = "malformed" THEN "absent" ELSE payload.quality,
     measure |-> [m \in Measures |-> "absent"],
     interpretation |-> "absent",
     truth |-> "absent",
     legacy |-> payload.legacy /\ payload.quality # "synthetic"]

\* Mutant: the registered schema is not compared with that of the bytes.
MutantAcceptable(run, intact) ==
    /\ run.diagnostics # None
    /\ run.diagnostics.json /\ run.diagnostics.small
    /\ Diagnostics \in intact
    /\ run.payload.readable /\ run.payload.own
    /\ run.payload.schema \in {RealSchema, SyntheticSchema}

Acceptable(run, intact) ==
    /\ run.diagnostics # None
    /\ run.diagnostics.json /\ run.diagnostics.small
    /\ Diagnostics \in intact
    /\ run.payload.readable /\ run.payload.own
    /\ run.payload.schema \in {RealSchema, SyntheticSchema}
    /\ run.diagnostics.declared \in {None, run.payload.schema}

\* What the diagnostics say, given the artifacts that are intact: None, with a
\* reason among the missing evidence, whatever it is that is wrong.
LoadDiagnostics(run, intact) ==
    IF ~Acceptable(run, intact) THEN None
    ELSE IF run.payload.schema = RealSchema THEN ApprovedReal(run.payload)
    ELSE ApprovedSynthetic(run.payload)

(***************************************************************************)
(* The snapshot                                                            *)
(***************************************************************************)

IsSynthetic(run, read) ==
    \/ "demo_fast" \in {run.profile, run.version}
    \/ read # None /\ read.quality = "synthetic"

IsVerifiedReal(run, read) ==
    /\ ~IsSynthetic(run, read)
    /\ run.profile = "v1_compat" /\ run.version = "v1_compat"
    /\ read # None
    /\ read.schema = RealSchema
    /\ read.quality \in {"absent", "unverified"}

OutputNature(run, read) ==
    IF IsSynthetic(run, read) THEN "synthetic"
    ELSE IF IsVerifiedReal(run, read) THEN "verified_real"
    ELSE "unverified_or_partial"

\* The evidence built from what was read of the diagnostics and from the second
\* look at every registered artifact.
BuildEvidence(run, read, intact) ==
    [status |-> run.status,
     nature |-> OutputNature(run, read),
     diagnostics |-> read,
     declared |-> IF run.diagnostics = None THEN None ELSE run.diagnostics.declared,
     verified |-> [a \in Registered(run) |-> a \in intact],
     missing |-> read = None,
     duration |-> run.duration,
     models |-> run.models]

(***************************************************************************)
(* Citations                                                               *)
(***************************************************************************)

AllVerified(evidence) == \A a \in DOMAIN evidence.verified : evidence.verified[a]

\* The paths of the snapshot a citation may name: a field, a field of the
\* diagnostics, or the integrity of an artifact.
FieldPaths(evidence) ==
    {<<"output_nature">>, <<"run">>, <<"code">>, <<"models">>, <<"artifacts">>,
     <<"limitations">>, <<"missing_evidence">>}
    \union (IF evidence.duration THEN {<<"source_duration">>} ELSE {})
    \union {<<"artifacts", a>> : a \in DOMAIN evidence.verified}
    \union (IF evidence.diagnostics = None THEN {}
            ELSE LET read == evidence.diagnostics IN
                 {<<"diagnostics", f>> : f \in
                     {"schema"}
                     \union (IF read.schema = RealSchema THEN {"counts"} ELSE {})
                     \union (IF read.quality # "absent" THEN {"quality"} ELSE {})
                     \union {m \in Measures : read.measure[m] # "absent"}
                     \union (IF read.interpretation # "absent" THEN {"interpretation"} ELSE {})
                     \union (IF read.truth # "absent" THEN {"truth"} ELSE {})
                     \union (IF read.legacy THEN {"legacy"} ELSE {})})

=============================================================================
