---------------------------- MODULE AnalysisRun ----------------------------
(***************************************************************************)
(* The analysis-run contract (contracts/v1/analysis_run.py) and the        *)
(* provider-neutral lifecycle rules (storage/lifecycle.py).                *)
(*                                                                         *)
(* A manifest keeps the status of the attempt, one status per stage record *)
(* and the artifacts it references.  Timestamps, messages and provenance   *)
(* are abstracted: no operation below branches on them except to reject a  *)
(* change of provenance, which no caller attempts.                         *)
(***************************************************************************)
EXTENDS Integers

CONSTANTS
    StageCount,     \* number of stage records of an attempt (9 in the code)
    Unsupported,    \* stages the v1_compat profile marks not required
    ArtifactCount   \* number of artifacts one execution publishes

ASSUME ContractAssumption ==
    /\ StageCount \in Nat \ {0}
    /\ ArtifactCount \in Nat \ {0}
    /\ Unsupported \subseteq 1 .. StageCount - 1

Stages == 1 .. StageCount
LastStage == StageCount          \* artifact_publication, required by every profile
Artifacts == 1 .. ArtifactCount

Profiles == {"demo_fast", "v1_compat", "test_fail"}

TerminalStatus == {"succeeded", "partial", "failed", "cancelled"}
RunStatus == {"queued", "running"} \union TerminalStatus

StageStatus ==
    {"queued", "running", "succeeded", "partial", "failed", "cancelled", "skipped"}

\* "absent" stands for a run the repository has no record of.
Manifest == [status : RunStatus \union {"absent"},
             stages : [Stages -> StageStatus],
             artifacts : SUBSET Artifacts]

IsTerminal(m) == m.status \in TerminalStatus

NoManifest ==
    [status |-> "absent", stages |-> [s \in Stages |-> "queued"], artifacts |-> {}]

(***************************************************************************)
(* Building manifests                                                      *)
(***************************************************************************)

\* The stage records an attempt of this profile must complete.
Required(profile) ==
    IF profile = "v1_compat" THEN Stages \ Unsupported ELSE Stages

New == [NoManifest EXCEPT !.status = "queued"]

Start(m) == [m EXCEPT !.status = "running"]

WithStage(m, s, status) == [m EXCEPT !.stages[s] = status]

Succeed(m) == [m EXCEPT !.status = "succeeded", !.artifacts = Artifacts]

\* The controlled partial stop of the executor: the last stage turns partial.
CompletePartial(m) ==
    [m EXCEPT !.status = "partial",
              !.artifacts = Artifacts,
              !.stages[LastStage] = "partial"]

\* Close the active stage s with status, if it is running.
CloseStage(m, s, status) ==
    IF m.stages[s] = "running" THEN WithStage(m, s, status) ELSE m

Fail(m, s) == [CloseStage(m, s, "failed") EXCEPT !.status = "failed"]

Cancel(m, s) == [CloseStage(m, s, "cancelled") EXCEPT !.status = "cancelled"]

\* Stages the executor's loop does not pass over.
Pending(m) == {s \in Stages : m.stages[s] \notin {"succeeded", "skipped"}}

\* The stage an execution with local manifest m is at: the first pending one,
\* or the last stage once the loop is over.
ActiveStage(m) ==
    IF Pending(m) = {}
    THEN LastStage
    ELSE CHOOSE s \in Pending(m) : \A t \in Pending(m) : s <= t

(***************************************************************************)
(* Validation of a manifest, run whenever one is built or loaded           *)
(***************************************************************************)

HasStage(m, statuses) == \E s \in Stages : m.stages[s] \in statuses

ValidQueued(m) ==
    m.status = "queued" =>
        /\ m.artifacts = {}
        /\ \A s \in Stages : m.stages[s] = "queued"

ValidRunning(m) == m.status = "running" => m.artifacts = {}

ValidSucceeded(m, required) ==
    m.status = "succeeded" =>
        /\ m.artifacts # {}
        /\ ~HasStage(m, {"queued", "running"})
        /\ \A s \in required : m.stages[s] = "succeeded"

ValidPartial(m, required) ==
    m.status = "partial" =>
        /\ m.artifacts # {}
        /\ ~HasStage(m, {"queued", "running"})
        /\ \E s \in required :
               m.stages[s] \in {"partial", "failed", "cancelled", "skipped"}

\* Mutant: a stage left running is not noticed.
MutantValidStopped(m) == m.status \in {"failed", "cancelled"} => m.artifacts = {}

ValidStopped(m) ==
    m.status \in {"failed", "cancelled"} =>
        /\ m.artifacts = {}
        /\ ~HasStage(m, {"running"})

Valid(m, required) ==
    /\ ValidQueued(m)
    /\ ValidRunning(m)
    /\ ValidSucceeded(m, required)
    /\ ValidPartial(m, required)
    /\ ValidStopped(m)

(***************************************************************************)
(* ALLOWED_STATUS_TRANSITIONS and ensure_transition_allowed                *)
(***************************************************************************)

AllowedTransitions ==
    ({"queued"} \X {"queued", "running", "failed", "cancelled"})
        \union ({"running"} \X {"running", "succeeded", "partial", "failed", "cancelled"})

\* Mutant: terminal attempts may be replaced.
MutantTransitionAllowed(current, updated) == updated.status # "queued"

TransitionAllowed(current, updated) ==
    <<current.status, updated.status>> \in AllowedTransitions

=============================================================================
