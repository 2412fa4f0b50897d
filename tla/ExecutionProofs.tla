-------------------------- MODULE ExecutionProofs --------------------------
(***************************************************************************)
(* Theorems about Execution, for any number of runs, workers, stages and   *)
(* artifacts and any bound on crashes, lost locks and deliveries.          *)
(***************************************************************************)
EXTENDS Execution, WellFoundedInduction, TLAPS

(***************************************************************************)
(* Manifests: every operation of the contract builds a manifest.           *)
(***************************************************************************)

\* The stage an execution is at is one of the attempt's stages.
LEMMA ActiveStageType ==
    ASSUME NEW m \in Manifest
    PROVE  ActiveStage(m) \in Stages
<1>1. CASE Pending(m) = {}
  BY <1>1, ContractAssumption DEF ActiveStage, LastStage, Stages
<1>2. CASE Pending(m) # {}
  <2>1. Pending(m) \subseteq Stages /\ Pending(m) \in SUBSET Nat
    BY ContractAssumption DEF Pending, Stages
  <2>2. PICK s \in Pending(m) : \A t \in Pending(m) : ~ (<<t, s>> \in OpToRel(<, Nat))
    BY <1>2, <2>1, NatLessThanWellFounded, WFMin
  <2>3. ASSUME NEW t \in Pending(m)
        PROVE  s <= t
    <3>1. t \in Nat /\ s \in Nat
      BY <2>1
    <3>2. t < s => <<t, s>> \in OpToRel(<, Nat)
      BY <3>1, Zenon DEF OpToRel
    <3>3. ~ (t < s)
      BY <2>2, <3>2, Zenon
    <3>. QED  BY <3>1, <3>3
  <2>. QED  BY <1>2, <2>1, <2>3 DEF ActiveStage
<1>. QED  BY <1>1, <1>2

LEMMA LastStageType == LastStage \in Stages
BY ContractAssumption DEF LastStage, Stages

LEMMA NewType == NoManifest \in Manifest /\ New \in Manifest
BY DEF NoManifest, New, Manifest, StageStatus, RunStatus

LEMMA WithStageType ==
    ASSUME NEW m \in Manifest, NEW s \in Stages, NEW status \in StageStatus
    PROVE  WithStage(m, s, status) \in Manifest
BY DEF WithStage, Manifest

LEMMA StartType ==
    ASSUME NEW m \in Manifest
    PROVE  Start(m) \in Manifest
BY DEF Start, Manifest, RunStatus

LEMMA OutcomeType ==
    ASSUME NEW r, NEW m \in Manifest
    PROVE  Outcome(r, m) \in Manifest
<1>1. Succeed(m) \in Manifest
  BY DEF Succeed, Manifest, RunStatus, TerminalStatus
<1>2. CompletePartial(m) \in Manifest
  BY LastStageType DEF CompletePartial, Manifest, RunStatus, TerminalStatus, StageStatus
<1>. QED  BY <1>1, <1>2 DEF Outcome

LEMMA CloseStageType ==
    ASSUME NEW m \in Manifest, NEW s \in Stages, NEW status \in StageStatus
    PROVE  CloseStage(m, s, status) \in Manifest
BY WithStageType DEF CloseStage

LEMMA StopType ==
    ASSUME NEW m \in Manifest, NEW s \in Stages
    PROVE  Fail(m, s) \in Manifest /\ Cancel(m, s) \in Manifest
<1>1. CloseStage(m, s, "failed") \in Manifest /\ CloseStage(m, s, "cancelled") \in Manifest
  BY CloseStageType DEF StageStatus
<1>. QED  BY <1>1 DEF Fail, Cancel, Manifest, RunStatus, TerminalStatus

(***************************************************************************)
(* Type correctness                                                        *)
(***************************************************************************)

\* The part of TypeOK about the variables of the workers.
WorkersOK ==
    /\ pc \in [Workers -> Points]
    /\ job \in [Workers -> Runs \union {NoRun}]
    /\ \A w \in Workers : pc[w] # "idle" => job[w] \in Runs
    /\ snap \in [Workers -> Manifest]
    /\ delivery \in [Workers -> Nat]
    /\ late \in [Workers -> Nat]

\* The part about everything else.
SharedOK ==
    /\ params \in [Runs -> Params]
    /\ db \in [Runs -> Manifest]
    /\ cancelFlag \in [Runs -> BOOLEAN]
    /\ files \in [Runs -> [Artifacts -> Nat]]
    /\ submission \in [Runs -> {"none", "created", "failing", "accepted", "rejected"}]
    /\ cancelling \in SUBSET Runs
    /\ message \in [Runs -> {"none", "ready", "done", "dead"}]
    /\ owner \in [Runs -> Workers \union {NoWorker}]
    /\ deliveries \in [Runs -> Nat]
    /\ crashes \in 0 .. MaxCrashes
    /\ lapses \in 0 .. MaxLapses
    /\ errors \in SUBSET Runs

LEMMA TypeParts == TypeOK <=> SharedOK /\ WorkersOK
BY Zenon DEF TypeOK, SharedOK, WorkersOK

LEMMA TypePartsNext == TypeOK' <=> SharedOK' /\ WorkersOK'
BY Zenon DEF TypeOK, SharedOK, WorkersOK

LEMMA SaveType ==
    ASSUME db \in [Runs -> Manifest], NEW r \in Runs, NEW m \in Manifest,
           Save(r, m) \/ SaveRefused(r, m)
    PROVE  db' \in [Runs -> Manifest]
BY DEF Save, SaveRefused

LEMMA BackToClaimType ==
    ASSUME WorkersOK, NEW w \in Workers, BackToClaim(w)
    PROVE  WorkersOK'
BY NewType DEF WorkersOK, BackToClaim, GoTo, Points

\* A worker that moves within a job keeps the variables it does not touch.
LEMMA GoToType ==
    ASSUME WorkersOK, NEW w \in Workers, NEW point \in Points, pc[w] # "idle",
           GoTo(w, point), UNCHANGED <<job, delivery>>,
           snap' \in [Workers -> Manifest], late' \in [Workers -> Nat]
    PROVE  WorkersOK'
BY DEF WorkersOK, GoTo

LEMMA ReturnType ==
    ASSUME WorkersOK, NEW w \in Workers, NEW status, pc[w] # "idle", Return(w, status)
    PROVE  WorkersOK'
<1>1. CASE status = "cancelled"
  BY <1>1, BackToClaimType DEF Return
<1>2. CASE status # "cancelled"
  <2>1. "settle" \in Points
    BY DEF Points
  <2>. QED  BY <1>2, <2>1, GoToType DEF Return, WorkersOK
<1>. QED  BY <1>1, <1>2

LEMMA SettleType ==
    ASSUME TypeOK, NEW w \in Workers, NEW result \in {"done", "dead"}, pc[w] # "idle",
           SettleAs(w, result),
           UNCHANGED <<params, storeVars, apiVars, deliveries, budgetVars, errors>>
    PROVE  TypeOK'
<1>1. WorkersOK'
  BY TypeParts, BackToClaimType DEF SettleAs, Restart
<1>2. job[w] \in Runs
  BY DEF TypeOK
<1>3. SharedOK'
  BY <1>2, TypeParts DEF SettleAs, SharedOK, storeVars, apiVars, budgetVars
<1>. QED  BY <1>1, <1>3, TypePartsNext

LEMMA InitType == Init => TypeOK
<1>. SUFFICES ASSUME Init PROVE TypeOK
  OBVIOUS
<1>1. WorkersOK
  BY NewType DEF Init, WorkersOK, Points
<1>2. SharedOK
  BY NewType, ExecutionAssumption DEF Init, SharedOK
<1>. QED  BY <1>1, <1>2, TypeParts

LEMMA SubmitType ==
    ASSUME TypeOK, NEW r \in Runs, Submit(r)
    PROVE  TypeOK'
<1>. USE TypeParts
<1>1. CASE Create(r)
  BY <1>1, NewType, TypePartsNext DEF Create, SharedOK, WorkersOK, queueVars, workerVars, budgetVars
<1>2. CASE Enqueue(r)
  BY <1>2, TypePartsNext DEF Enqueue, SharedOK, WorkersOK, storeVars, workerVars, budgetVars
<1>3. CASE RejectSubmission(r)
  <2>1. Fail(New, LastStage) \in Manifest
    BY NewType, LastStageType, StopType
  <2>2. db' \in [Runs -> Manifest]
    BY <1>3, <2>1, SaveType DEF RejectSubmission, SharedOK
  <2>. QED
    BY <1>3, <2>2, TypePartsNext DEF RejectSubmission, SharedOK, WorkersOK, queueVars, workerVars, budgetVars
<1>. QED  BY <1>1, <1>2, <1>3 DEF Submit

LEMMA RequestCancelType ==
    ASSUME TypeOK, NEW r \in Runs, RequestCancel(r)
    PROVE  TypeOK'
<1>. USE TypeParts
<1>1. CASE ReadForCancel(r)
  BY <1>1, TypePartsNext DEF ReadForCancel, SharedOK, WorkersOK, storeVars, queueVars, workerVars, budgetVars
<1>2. CASE SaveCancelQueued(r)
  <2>1. Cancel(New, LastStage) \in Manifest
    BY NewType, LastStageType, StopType
  <2>2. db' \in [Runs -> Manifest]
    BY <1>2, <2>1, SaveType DEF SaveCancelQueued, SharedOK
  <2>. QED
    BY <1>2, <2>2, TypePartsNext DEF SaveCancelQueued, SharedOK, WorkersOK, queueVars, workerVars, budgetVars
<1>3. CASE RequestCancellation(r)
  BY <1>3, TypePartsNext DEF RequestCancellation, SharedOK, WorkersOK, apiVars, queueVars, workerVars, budgetVars
<1>. QED  BY <1>1, <1>2, <1>3 DEF RequestCancel

LEMMA BrokerType ==
    ASSUME TypeOK, NEW r \in Runs, LoseLock(r) \/ ExpireLock(r)
    PROVE  TypeOK'
<1>. USE TypeParts
<1>1. CASE LoseLock(r)
  BY <1>1, TypePartsNext, ExecutionAssumption DEF LoseLock, SharedOK, WorkersOK, storeVars, apiVars, workerVars
<1>2. CASE ExpireLock(r)
  BY <1>2, TypePartsNext DEF ExpireLock, SharedOK, WorkersOK, storeVars, apiVars, workerVars, budgetVars
<1>. QED  BY <1>1, <1>2

LEMMA ReceiveType ==
    ASSUME TypeOK, NEW w \in Workers, NEW r \in Runs, Receive(w, r)
    PROVE  TypeOK'
<1>. USE TypeParts
<1>1. WorkersOK'
  BY DEF Receive, WorkersOK, SharedOK, GoTo, Points
<1>2. SharedOK'
  BY DEF Receive, SharedOK, storeVars, apiVars, budgetVars
<1>. QED  BY <1>1, <1>2, TypePartsNext

\* A step of a worker that leaves the manifests and the queue alone, and moves
\* to a point with a manifest in hand.
LEMMA LocalStepType ==
    ASSUME TypeOK, NEW w \in Workers, NEW point \in Points, pc[w] # "idle",
           GoTo(w, point), LocalStep(w), snap' \in [Workers -> Manifest],
           errors' \in SUBSET Runs
    PROVE  TypeOK'
<1>. USE TypeParts
<1>1. WorkersOK'
  BY GoToType DEF LocalStep, WorkersOK
<1>2. SharedOK'
  BY DEF LocalStep, SharedOK, storeVars, apiVars, queueVars, budgetVars
<1>. QED  BY <1>1, <1>2, TypePartsNext

LEMMA ClaimType ==
    ASSUME TypeOK, NEW w \in Workers, Claim(w)
    PROVE  TypeOK'
<1>1. CASE DeadLetter(w)
  BY <1>1, SettleType DEF DeadLetter
<1>2. CASE Inspect(w)
  <2>1. PICK point \in {"drain", "load"} : GoTo(w, point)
    BY <1>2 DEF Inspect
  <2>. QED  BY <1>2, <2>1, LocalStepType DEF Inspect, TypeOK, Points, Executing
<1>3. CASE Drain(w)
  BY <1>3, SettleType DEF Drain
<1>. QED  BY <1>1, <1>2, <1>3 DEF Claim

\* A step of a worker that saves, or fails to save, a manifest of its run.
LEMMA SaveStepType ==
    ASSUME TypeOK, NEW r \in Runs, NEW m \in Manifest,
           Save(r, m) \/ SaveRefused(r, m),
           WorkersOK', UNCHANGED <<params, cancelFlag, files, apiVars, queueVars, budgetVars, errors>>
    PROVE  TypeOK'
<1>1. db' \in [Runs -> Manifest]
  BY SaveType, TypeParts DEF SharedOK
<1>2. SharedOK'
  BY <1>1, TypeParts DEF SharedOK, apiVars, queueVars, budgetVars
<1>. QED  BY <1>2, TypePartsNext

\* A step of a worker that changes only the workers and the history of errors.
LEMMA QuietStepType ==
    ASSUME TypeOK, WorkersOK', errors' \in SUBSET Runs,
           UNCHANGED <<params, storeVars, apiVars, queueVars, budgetVars>>
    PROVE  TypeOK'
<1>1. SharedOK'
  BY TypeParts DEF SharedOK, storeVars, apiVars, queueVars, budgetVars
<1>. QED  BY <1>1, TypePartsNext

LEMMA SaveStageType ==
    ASSUME TypeOK, NEW w \in Workers, NEW status \in StageStatus, NEW next \in Points,
           pc[w] # "idle", SaveStage(w, status, next)
    PROVE  TypeOK'
<1> DEFINE updated == WithStage(snap[w], ActiveStage(snap[w]), status)
<1>1. job[w] \in Runs /\ snap[w] \in Manifest
  BY DEF TypeOK
<1>2. updated \in Manifest
  BY <1>1, ActiveStageType, WithStageType
<1>. HIDE DEF updated
<1>3. Save(job[w], updated) \/ SaveRefused(job[w], updated)
  BY DEF SaveStage, updated
<1>4. PICK point \in Points : GoTo(w, point)
  BY DEF SaveStage, Points, Executing, Guarded
<1>a. snap' = snap \/ snap' = [snap EXCEPT ![w] = updated]
  BY DEF SaveStage, updated
<1>b. late' = late \/ late' = [late EXCEPT ![w] = @ + 1]
  BY DEF SaveStage
<1>5. snap' \in [Workers -> Manifest] /\ late' \in [Workers -> Nat]
  BY <1>2, <1>a, <1>b DEF TypeOK
<1>6. WorkersOK'
  BY <1>4, <1>5, GoToType, TypeParts DEF SaveStage
<1>. QED  BY <1>1, <1>2, <1>3, <1>6, SaveStepType DEF SaveStage

LEMMA ExecuteType ==
    ASSUME TypeOK, NEW w \in Workers, Execute(w)
    PROVE  TypeOK'
<1> DEFINE r == job[w]
<1>1. pc[w] # "idle"
  BY DEF Execute, Load, Precheck, StartRun, BeginStage, SkipStage, StartStage, Checkpoint,
         FinishStage, Build, Publish, Verify, Finish, HandleCancellation, SaveCancel,
         HandleFailure, SaveFail
<1>2. /\ r \in Runs
      /\ db[r] \in Manifest
      /\ snap[w] \in Manifest
      /\ ActiveStage(snap[w]) \in Stages
  BY <1>1, ActiveStageType DEF TypeOK
<1>3. WorkersOK /\ errors \in SUBSET Runs
  BY TypeParts DEF SharedOK
<1>. HIDE DEF r
<1>4. CASE Load(w)
  <2>1. CASE Return(w, db[job[w]].status)
    <3>1. WorkersOK'
      BY <1>1, <1>3, <2>1, ReturnType
    <3>. QED  BY <1>3, <1>4, <3>1, QuietStepType DEF Load
  <2>2. CASE ~ Return(w, db[job[w]].status)
    <3>1. PICK point \in {"precheck", "stage"} : GoTo(w, point)
      BY <1>4, <2>2 DEF Load
    <3>2. snap' = [snap EXCEPT ![w] = db[r]] /\ UNCHANGED <<job, delivery, late>>
      BY <1>4, <2>2 DEF Load, r
    <3>3. snap' \in [Workers -> Manifest] /\ late' \in [Workers -> Nat]
      BY <1>2, <1>3, <3>2 DEF WorkersOK
    <3>4. WorkersOK'
      BY <1>1, <1>3, <3>1, <3>2, <3>3, GoToType DEF Points, Executing, Guarded
    <3>. QED  BY <1>3, <1>4, <3>4, QuietStepType DEF Load
  <2>. QED  BY <2>1, <2>2
<1>5. CASE Precheck(w)
  <2>1. Cancel(snap[w], ActiveStage(snap[w])) \in Manifest /\ Start(snap[w]) \in Manifest
    BY <1>2, StopType, StartType
  <2>2. snap' \in [Workers -> Manifest]
    BY <1>3, <1>5, <2>1 DEF Precheck, WorkersOK
  <2>3. PICK point \in {"saveCancel", "start"} : GoTo(w, point)
    BY <1>5 DEF Precheck
  <2>. QED  BY <1>1, <1>3, <1>5, <2>2, <2>3, LocalStepType DEF Precheck, Points, Executing, Guarded
<1>6. CASE StartRun(w)
  <2>1. CASE Restart(w)
    <3>1. WorkersOK'
      BY <1>3, <2>1, BackToClaimType DEF Restart
    <3>. QED  BY <1>2, <1>6, <3>1, SaveStepType DEF StartRun, r
  <2>2. CASE GoTo(w, "stage") /\ UNCHANGED <<job, snap, delivery, late>>
    <3>1. WorkersOK'
      BY <1>1, <1>3, <2>2, GoToType DEF WorkersOK, Points, Executing, Guarded
    <3>. QED  BY <1>2, <1>6, <3>1, SaveStepType DEF StartRun, r
  <2>. QED  BY <1>6, <2>1, <2>2 DEF StartRun
<1>7. CASE BeginStage(w)
  <2>1. PICK point \in {"build", "skipStage", "cancelled", "failed", "startStage"} : GoTo(w, point)
    BY <1>7 DEF BeginStage
  <2>2. snap' \in [Workers -> Manifest] /\ errors' \in SUBSET Runs
    BY <1>2, <1>3, <1>7 DEF BeginStage, WorkersOK, r
  <2>. QED  BY <1>1, <1>7, <2>1, <2>2, LocalStepType DEF BeginStage, Points, Executing, Guarded
<1>8. CASE SkipStage(w) \/ StartStage(w) \/ FinishStage(w)
  <2>1. {"stage", "work"} \subseteq Points /\ {"skipped", "running", "succeeded"} \subseteq StageStatus
    BY DEF Points, Executing, Guarded, StageStatus
  <2>. QED  BY <1>1, <1>8, <2>1, SaveStageType DEF SkipStage, StartStage, FinishStage
<1>9. CASE Checkpoint(w)
  <2>1. PICK point \in {"cancelled", "finishStage"} : GoTo(w, point)
    BY <1>9 DEF Checkpoint
  <2>. QED  BY <1>1, <1>3, <1>9, <2>1, LocalStepType DEF Checkpoint, WorkersOK, Points, Executing, Guarded
<1>10. CASE Build(w)
  <2>1. PICK point \in {"publish", "cancelled"} : GoTo(w, point)
    BY <1>10 DEF Build
  <2>. QED  BY <1>1, <1>3, <1>10, <2>1, LocalStepType DEF Build, WorkersOK, Points, Executing, Guarded
<1>11. CASE Publish(w)
  <2>1. PICK point \in {"verify", "publish", "failed"} : GoTo(w, point)
    BY <1>11 DEF Publish
  <2>2. WorkersOK'
    BY <1>1, <1>3, <1>11, <2>1, GoToType DEF Publish, WorkersOK, Points, Executing, Guarded
  <2>3. files' \in [Runs -> [Artifacts -> Nat]]
    <3>1. CASE files' = files
      BY <3>1 DEF TypeOK
    <3>2. CASE files' # files
      <4>1. PICK a \in Artifacts : files' = [files EXCEPT ![r][a] = delivery[w]]
        BY <1>11, <3>2 DEF Publish, r
      <4>. QED  BY <1>2, <4>1 DEF TypeOK
    <3>. QED  BY <3>1, <3>2
  <2>4. SharedOK'
    BY <1>11, <2>3, TypeParts DEF Publish, SharedOK, apiVars, queueVars, budgetVars
  <2>. QED  BY <2>2, <2>4, TypePartsNext
<1>12. CASE Verify(w)
  <2>1. Outcome(r, db[r]) \in Manifest
    BY <1>2, OutcomeType
  <2>2. snap' \in [Workers -> Manifest]
    BY <1>3, <1>12, <2>1 DEF Verify, WorkersOK, r
  <2>3. PICK point \in {"finish", "failed"} : GoTo(w, point)
    BY <1>12 DEF Verify
  <2>. QED  BY <1>1, <1>3, <1>12, <2>2, <2>3, LocalStepType DEF Verify, Points, Executing, Guarded
<1>13. CASE Finish(w)
  <2>1. PICK point \in {"settle", "failed"} : GoTo(w, point)
    BY <1>13 DEF Finish
  <2>2. WorkersOK'
    BY <1>1, <1>3, <1>13, <2>1, GoToType DEF Finish, WorkersOK, Points, Executing, Guarded
  <2>. QED  BY <1>2, <1>13, <2>2, SaveStepType DEF Finish, r
<1>14. CASE HandleCancellation(w)
  <2>1. CASE Restart(w)
    <3>1. WorkersOK'
      BY <1>3, <2>1, BackToClaimType DEF Restart
    <3>. QED  BY <1>3, <1>14, <3>1, QuietStepType DEF HandleCancellation
  <2>2. CASE ~ Restart(w)
    <3>1. Cancel(db[r], ActiveStage(snap[w])) \in Manifest
      BY <1>2, StopType
    <3>2. /\ GoTo(w, "saveCancel")
          /\ snap' = [snap EXCEPT ![w] = Cancel(db[r], ActiveStage(snap[w]))]
          /\ UNCHANGED <<job, delivery, late>>
      BY <1>14, <2>2 DEF HandleCancellation, r
    <3>3. WorkersOK'
      BY <1>1, <1>3, <3>1, <3>2, GoToType DEF WorkersOK, Points, Executing, Guarded
    <3>. QED  BY <1>3, <1>14, <3>3, QuietStepType DEF HandleCancellation
  <2>. QED  BY <2>1, <2>2
<1>15. CASE SaveCancel(w)
  <2>1. WorkersOK'
    BY <1>1, <1>3, <1>15, ReturnType, BackToClaimType DEF SaveCancel, Restart
  <2>. QED  BY <1>2, <1>15, <2>1, SaveStepType DEF SaveCancel, r
<1>16. CASE HandleFailure(w)
  <2>1. CASE Restart(w) \/ Return(w, db[job[w]].status)
    <3>1. WorkersOK'
      BY <1>1, <1>3, <2>1, ReturnType, BackToClaimType DEF Restart
    <3>. QED  BY <1>3, <1>16, <3>1, QuietStepType DEF HandleFailure
  <2>2. CASE ~ (Restart(w) \/ Return(w, db[job[w]].status))
    <3>1. Fail(db[r], ActiveStage(snap[w])) \in Manifest
      BY <1>2, StopType
    <3>2. /\ GoTo(w, "saveFail")
          /\ snap' = [snap EXCEPT ![w] = Fail(db[r], ActiveStage(snap[w]))]
          /\ UNCHANGED <<job, delivery, late>>
      BY <1>16, <2>2 DEF HandleFailure, r
    <3>3. WorkersOK'
      BY <1>1, <1>3, <3>1, <3>2, GoToType DEF WorkersOK, Points, Executing, Guarded
    <3>. QED  BY <1>3, <1>16, <3>3, QuietStepType DEF HandleFailure
  <2>. QED  BY <2>1, <2>2
<1>17. CASE SaveFail(w)
  <2>1. WorkersOK'
    BY <1>1, <1>3, <1>17, ReturnType, BackToClaimType DEF SaveFail, Restart
  <2>. QED  BY <1>2, <1>17, <2>1, SaveStepType DEF SaveFail, r
<1>. QED
  BY <1>4, <1>5, <1>6, <1>7, <1>8, <1>9, <1>10, <1>11, <1>12, <1>13, <1>14, <1>15,
     <1>16, <1>17 DEF Execute

LEMMA EnvironmentType ==
    ASSUME TypeOK, NEW w \in Workers, Fault(w) \/ Crash(w)
    PROVE  TypeOK'
<1>1. CASE Fault(w)
  <2>1. pc[w] # "idle" /\ "failed" \in Points
    BY <1>1 DEF Fault, Guarded, Points, Executing
  <2>2. snap' \in [Workers -> Manifest] /\ errors' \in SUBSET Runs
    BY <1>1, <2>1 DEF Fault, TypeOK
  <2>. QED  BY <1>1, <2>1, <2>2, LocalStepType DEF Fault
<1>2. CASE Crash(w)
  <2>1. WorkersOK'
    BY <1>2, TypeParts, BackToClaimType DEF Crash, Restart
  <2>2. SharedOK'
    BY <1>2, TypeParts, ExecutionAssumption DEF Crash, SharedOK, storeVars, apiVars, queueVars
  <2>. QED  BY <2>1, <2>2, TypePartsNext
<1>. QED  BY <1>1, <1>2

\* Every step of every process keeps every variable in its type: the manifests
\* written by overlapping executions are always manifests of the contract.
LEMMA NextType == TypeOK /\ [Next]_vars => TypeOK'
<1>. SUFFICES ASSUME TypeOK, [Next]_vars PROVE TypeOK'
  OBVIOUS
<1>1. ASSUME NEW w \in Workers, Settle(w)
      PROVE  TypeOK'
  BY <1>1, SettleType DEF Settle
<1>2. ASSUME NEW w \in Workers, WorkerStep(w)
      PROVE  TypeOK'
  BY <1>1, <1>2, ClaimType, ExecuteType DEF WorkerStep
<1>3. CASE UNCHANGED vars
  BY <1>3 DEF TypeOK, vars, storeVars, apiVars, queueVars, workerVars, budgetVars
<1>. QED
  BY <1>2, <1>3, SubmitType, RequestCancelType, BrokerType, ReceiveType, EnvironmentType DEF Next

\* Type correctness of the execution plane, for any number of runs, workers,
\* stages and artifacts.
THEOREM TypeCorrect == Spec => []TypeOK
BY InitType, NextType, PTL DEF Spec

(***************************************************************************)
(* The inductive invariant.  What a worker is about to save is known from  *)
(* the point it has reached, whatever the row holds by then; what the row  *)
(* accepts is decided by TransitionAllowed.  Together they say what a row  *)
(* can hold.                                                               *)
(***************************************************************************)

AllQueued(m) == \A s \in Stages : m.stages[s] = "queued"

\* Manifests that are saved over a row of r, never over a new one.
Savable(r, m) ==
    /\ m \in Manifest
    /\ m.status \in {"running"} \union TerminalStatus
    /\ m.status \in {"running", "failed", "cancelled"} => m.artifacts = {}
    /\ m.status \in {"succeeded", "partial"} => m.artifacts = Artifacts
    /\ m.status \in TerminalStatus => ~ HasStage(m, {"running"})
    /\ m.status = "succeeded" => \A s \in RequiredOf(r) : m.stages[s] = "succeeded"

\* A row is absent, as it was created, or holds a manifest that was saved.
RowOK(r) ==
    /\ submission[r] = "none" <=> db[r].status = "absent"
    /\ db[r].status = "absent" => db[r].artifacts = {}
    /\ db[r].status = "queued" => AllQueued(db[r]) /\ db[r].artifacts = {}
    /\ db[r].status \notin {"absent", "queued"} => Savable(r, db[r])

\* The local manifest of a worker, point by point.
SnapOK(w) ==
    /\ pc[w] = "load" => db[job[w]].status # "absent"
    /\ pc[w] = "precheck" =>
           snap[w].status = "queued" /\ AllQueued(snap[w]) /\ snap[w].artifacts = {}
    /\ pc[w] \in {"start"} \union (Guarded \ {"finish"}) =>
           snap[w].status = "running" /\ snap[w].artifacts = {}
    /\ pc[w] \in {"start", "finish", "saveCancel", "saveFail"} => Savable(job[w], snap[w])
    /\ pc[w] = "finish" => snap[w].status \in {"succeeded", "partial"}
    /\ pc[w] = "saveCancel" => snap[w].status = "cancelled"
    /\ pc[w] = "saveFail" => snap[w].status = "failed"
    /\ pc[w] \in {"drain", "settle"} => IsTerminal(db[job[w]])

IInv ==
    /\ TypeOK
    /\ \A r \in Runs : RowOK(r)
    /\ \A w \in Workers : SnapOK(w)
    /\ AcknowledgedIsTerminal
    /\ RejectedIsTerminal

(***************************************************************************)
(* What the manifests that are saved look like                             *)
(***************************************************************************)

LEMMA TransitionShape ==
    ASSUME NEW current, NEW updated, TransitionAllowed(current, updated)
    PROVE  /\ current.status \in {"queued", "running"}
           /\ updated.status \in {"succeeded", "partial"} => current.status = "running"
           /\ updated.status = "queued" => current.status = "queued"
           /\ updated.status \in RunStatus
BY DEF TransitionAllowed, AllowedTransitions, RunStatus, TerminalStatus

LEMMA FailAllowed ==
    ASSUME NEW m \in Manifest, NEW s, NEW k, m.status \in {"queued", "running"}
    PROVE  TransitionAllowed(m, Fail(k, s))
BY DEF TransitionAllowed, AllowedTransitions, Fail

LEMMA StopShape ==
    ASSUME NEW m \in Manifest, NEW s \in Stages
    PROVE  /\ Fail(m, s).status = "failed" /\ Fail(m, s).artifacts = m.artifacts
           /\ Cancel(m, s).status = "cancelled" /\ Cancel(m, s).artifacts = m.artifacts
           /\ AllQueued(m) => /\ ~ HasStage(Fail(m, s), {"running"})
                              /\ ~ HasStage(Cancel(m, s), {"running"})
<1>1. ASSUME NEW status \in {"failed", "cancelled"}
      PROVE  /\ CloseStage(m, s, status) \in Manifest
             /\ CloseStage(m, s, status).artifacts = m.artifacts
             /\ AllQueued(m) => CloseStage(m, s, status) = m
  BY CloseStageType DEF CloseStage, WithStage, Manifest, AllQueued, StageStatus
<1>2. ASSUME NEW k \in Manifest, NEW status
      PROVE  /\ [k EXCEPT !.status = status].status = status
             /\ [k EXCEPT !.status = status].artifacts = k.artifacts
             /\ [k EXCEPT !.status = status].stages = k.stages
  BY DEF Manifest
<1>. QED
  BY <1>1, <1>2 DEF Fail, Cancel, HasStage, AllQueued

LEMMA SavableStop ==
    ASSUME NEW r, NEW m \in Manifest, m.status \in {"failed", "cancelled"},
           m.artifacts = {}, ~ HasStage(m, {"running"})
    PROVE  Savable(r, m)
BY DEF Savable, TerminalStatus

LEMMA SavableStage ==
    ASSUME NEW r, NEW m \in Manifest, m.status = "running", m.artifacts = {},
           NEW s \in Stages, NEW status \in StageStatus
    PROVE  /\ WithStage(m, s, status).status = "running"
           /\ WithStage(m, s, status).artifacts = {}
           /\ Savable(r, WithStage(m, s, status))
<1>1. WithStage(m, s, status) \in Manifest
  BY WithStageType
<1>2. /\ WithStage(m, s, status).status = "running"
      /\ WithStage(m, s, status).artifacts = {}
  BY DEF WithStage, Manifest
<1>. QED  BY <1>1, <1>2 DEF Savable, TerminalStatus

\* The contract's validation lets through only a complete outcome.
LEMMA SavableOutcome ==
    ASSUME NEW r, NEW m \in Manifest, Valid(Outcome(r, m), RequiredOf(r))
    PROVE  /\ Savable(r, Outcome(r, m))
           /\ Outcome(r, m).status \in {"succeeded", "partial"}
<1> DEFINE o == Outcome(r, m)
<1>1. o \in Manifest
  BY OutcomeType
<1>2. o.status \in {"succeeded", "partial"} /\ o.artifacts = Artifacts
  BY DEF Outcome, Succeed, CompletePartial, Manifest
<1>. HIDE DEF o
<1>3. ~ HasStage(o, {"queued", "running"})
  BY <1>2 DEF Valid, ValidSucceeded, ValidPartial, o
<1>4. o.status = "succeeded" => \A s \in RequiredOf(r) : o.stages[s] = "succeeded"
  BY DEF Valid, ValidSucceeded, o
<1>. QED  BY <1>1, <1>2, <1>3, <1>4 DEF Savable, TerminalStatus, HasStage, o

LEMMA ValidStop ==
    ASSUME NEW m, NEW required, Valid(m, required), m.status \in {"failed", "cancelled"}
    PROVE  m.artifacts = {} /\ ~ HasStage(m, {"running"})
BY DEF Valid, ValidStopped

(***************************************************************************)
(* How one step changes the rows                                           *)
(***************************************************************************)

SameSubmitted == \A q \in Runs : submission[q] = "none" <=> submission'[q] = "none"

RowsStep ==
    /\ params' = params
    /\ \/ db' = db /\ SameSubmitted
       \/ \E r \in Runs :
              /\ submission[r] = "none"
              /\ db' = [db EXCEPT ![r] = New]
              /\ submission' = [submission EXCEPT ![r] = "created"]
       \/ \E r \in Runs, m \in Manifest : Savable(r, m) /\ Save(r, m) /\ SameSubmitted

LEMMA RowsStepOK ==
    ASSUME TypeOK, \A r \in Runs : RowOK(r), RowsStep, NEW q \in Runs
    PROVE  /\ RowOK(q)'
           /\ IsTerminal(db[q]) => db'[q] = db[q]
           /\ db[q].status # "absent" => db'[q].status # "absent"
           /\ submission[q] # "none" => submission'[q] # "none"
<1>1. CASE db' = db /\ SameSubmitted
  BY <1>1 DEF RowsStep, RowOK, Savable, RequiredOf, SameSubmitted
<1>2. ASSUME NEW r \in Runs,
             submission[r] = "none",
             db' = [db EXCEPT ![r] = New],
             submission' = [submission EXCEPT ![r] = "created"]
      PROVE  /\ RowOK(q)'
             /\ IsTerminal(db[q]) => db'[q] = db[q]
             /\ db[q].status # "absent" => db'[q].status # "absent"
             /\ submission[q] # "none" => submission'[q] # "none"
  <2>1. New.status = "queued" /\ AllQueued(New) /\ New.artifacts = {}
    BY DEF New, NoManifest, AllQueued
  <2>2. CASE q = r
    <3>1. db[q].status = "absent" /\ db'[q] = New /\ submission'[q] = "created"
      BY <1>2, <2>2 DEF TypeOK, RowOK
    <3>. QED  BY <2>1, <3>1 DEF RowOK, IsTerminal, TerminalStatus, AllQueued
  <2>3. CASE q # r
    <3>1. db'[q] = db[q] /\ submission'[q] = submission[q]
      BY <1>2, <2>3 DEF TypeOK
    <3>. QED  BY <3>1 DEF RowsStep, RowOK, Savable, RequiredOf
  <2>. QED  BY <2>2, <2>3
<1>3. ASSUME NEW r \in Runs, NEW m \in Manifest, Savable(r, m), Save(r, m), SameSubmitted
      PROVE  /\ RowOK(q)'
             /\ IsTerminal(db[q]) => db'[q] = db[q]
             /\ db[q].status # "absent" => db'[q].status # "absent"
             /\ submission[q] # "none" => submission'[q] # "none"
  <2>1. submission[q] = "none" <=> submission'[q] = "none"
    BY <1>3 DEF SameSubmitted
  <2>2. CASE q = r
    <3>1. db'[q] = m
      BY <1>3, <2>2 DEF Save, TypeOK
    <3>2. db[q].status \in {"queued", "running"}
      BY <1>3, <2>2, TransitionShape DEF Save
    <3>3. m.status \notin {"absent", "queued"}
      BY <1>3 DEF Savable, TerminalStatus
    <3>4. Savable(q, db[q])'
      BY <1>3, <2>2, <3>1 DEF RowsStep, Savable, RequiredOf
    <3>. QED  BY <2>1, <3>1, <3>2, <3>3, <3>4 DEF RowOK, IsTerminal, TerminalStatus
  <2>3. CASE q # r
    <3>1. db'[q] = db[q]
      BY <1>3, <2>3 DEF Save, TypeOK
    <3>. QED  BY <2>1, <3>1 DEF RowsStep, RowOK, Savable, RequiredOf
  <2>. QED  BY <2>2, <2>3
<1>. QED  BY <1>1, <1>2, <1>3 DEF RowsStep

LEMMA SubmitRows ==
    ASSUME IInv, NEW r \in Runs, Submit(r)
    PROVE  RowsStep
<1>1. CASE Create(r)
  BY <1>1 DEF Create, RowsStep
<1>2. CASE Enqueue(r)
  BY <1>2 DEF Enqueue, storeVars, RowsStep, SameSubmitted, IInv, TypeOK
<1>3. CASE RejectSubmission(r)
  <2>1. Savable(r, Fail(New, LastStage)) /\ Fail(New, LastStage) \in Manifest
    <3>1. New \in Manifest /\ LastStage \in Stages /\ AllQueued(New) /\ New.artifacts = {}
      BY NewType, LastStageType DEF New, NoManifest, AllQueued
    <3>. QED  BY <3>1, StopType, StopShape, SavableStop
  <2>2. SameSubmitted
    BY <1>3 DEF RejectSubmission, SameSubmitted, IInv, TypeOK
  <2>3. CASE Save(r, Fail(New, LastStage))
    BY <1>3, <2>1, <2>2, <2>3 DEF RejectSubmission, RowsStep
  <2>4. CASE SaveRefused(r, Fail(New, LastStage))
    BY <1>3, <2>2, <2>4 DEF RejectSubmission, SaveRefused, RowsStep
  <2>. QED  BY <1>3, <2>3, <2>4 DEF RejectSubmission
<1>. QED  BY <1>1, <1>2, <1>3 DEF Submit

\* Steps that leave the rows and the submissions alone.
LEMMA QuietRows ==
    ASSUME UNCHANGED <<params, db, submission>>
    PROVE  RowsStep
BY DEF RowsStep, SameSubmitted

LEMMA SaveRows ==
    ASSUME NEW r \in Runs, NEW m, Savable(r, m), Save(r, m) \/ SaveRefused(r, m),
           UNCHANGED <<params, submission>>
    PROVE  RowsStep
BY DEF SaveRefused, Savable, RowsStep, SameSubmitted

LEMMA RequestCancelRows ==
    ASSUME IInv, NEW r \in Runs, RequestCancel(r)
    PROVE  RowsStep
<1>1. CASE ReadForCancel(r) \/ RequestCancellation(r)
  BY <1>1, QuietRows DEF ReadForCancel, RequestCancellation, storeVars, apiVars
<1>2. CASE SaveCancelQueued(r)
  <2>1. New \in Manifest /\ LastStage \in Stages /\ AllQueued(New) /\ New.artifacts = {}
    BY NewType, LastStageType DEF New, NoManifest, AllQueued
  <2>2. Savable(r, Cancel(New, LastStage))
    BY <2>1, StopType, StopShape, SavableStop
  <2>. QED  BY <1>2, <2>2, SaveRows DEF SaveCancelQueued
<1>. QED  BY <1>1, <1>2 DEF RequestCancel

LEMMA WorkerRows ==
    ASSUME IInv, NEW w \in Workers, WorkerStep(w)
    PROVE  RowsStep
<1> DEFINE r == job[w]
<1>1. CASE Claim(w) \/ Settle(w)
  BY <1>1, QuietRows
     DEF Claim, DeadLetter, Inspect, Drain, Settle, LocalStep, storeVars, apiVars
<1>2. CASE Load(w) \/ Precheck(w) \/ BeginStage(w) \/ Checkpoint(w) \/ Build(w) \/ Publish(w)
           \/ Verify(w) \/ HandleCancellation(w) \/ HandleFailure(w)
  BY <1>2, QuietRows
     DEF Load, Precheck, BeginStage, Checkpoint, Build, Publish, Verify, HandleCancellation,
         HandleFailure, LocalStep, storeVars, apiVars
<1>3. CASE StartRun(w) \/ Finish(w) \/ SaveCancel(w) \/ SaveFail(w)
  <2>1. pc[w] \in {"start", "finish", "saveCancel", "saveFail"}
    BY <1>3 DEF StartRun, Finish, SaveCancel, SaveFail
  <2>2. r \in Runs /\ Savable(r, snap[w])
    BY <2>1 DEF IInv, TypeOK, SnapOK
  <2>3. Save(r, snap[w]) \/ SaveRefused(r, snap[w])
    BY <1>3 DEF StartRun, Finish, SaveCancel, SaveFail
  <2>4. UNCHANGED <<params, submission>>
    BY <1>3 DEF StartRun, Finish, SaveCancel, SaveFail, apiVars
  <2>. QED  BY <2>2, <2>3, <2>4, SaveRows
<1>4. CASE SkipStage(w) \/ StartStage(w) \/ FinishStage(w)
  <2>1. PICK status \in {"skipped", "running", "succeeded"}, next \in Points : SaveStage(w, status, next)
    BY <1>4 DEF SkipStage, StartStage, FinishStage, Points, Executing, Guarded
  <2>2. pc[w] \in Guarded \ {"finish"} /\ pc[w] # "idle"
    BY <1>4 DEF SkipStage, StartStage, FinishStage, Guarded
  <2>3. r \in Runs /\ snap[w] \in Manifest /\ snap[w].status = "running" /\ snap[w].artifacts = {}
    BY <2>2 DEF IInv, TypeOK, SnapOK
  <2>4. ActiveStage(snap[w]) \in Stages /\ status \in StageStatus
    BY <2>1, <2>3, ActiveStageType DEF StageStatus
  <2>5. Savable(r, WithStage(snap[w], ActiveStage(snap[w]), status))
    BY <2>3, <2>4, SavableStage
  <2>. QED  BY <2>1, <2>3, <2>5, SaveRows DEF SaveStage, apiVars
<1>. QED  BY <1>1, <1>2, <1>3, <1>4 DEF WorkerStep, Execute

LEMMA NextRows == IInv /\ [Next]_vars => RowsStep
<1>. SUFFICES ASSUME IInv, [Next]_vars PROVE RowsStep
  OBVIOUS
<1>1. ASSUME NEW r \in Runs, LoseLock(r) \/ ExpireLock(r)
      PROVE  RowsStep
  BY <1>1, QuietRows DEF LoseLock, ExpireLock, storeVars, apiVars
<1>2. ASSUME NEW w \in Workers, NEW r \in Runs, Receive(w, r)
      PROVE  RowsStep
  BY <1>2, QuietRows DEF Receive, storeVars, apiVars
<1>3. ASSUME NEW w \in Workers, Fault(w) \/ Crash(w)
      PROVE  RowsStep
  BY <1>3, QuietRows DEF Fault, Crash, LocalStep, storeVars, apiVars
<1>4. CASE UNCHANGED vars
  BY <1>4, QuietRows DEF vars, storeVars, apiVars
<1>. QED
  BY <1>1, <1>2, <1>3, <1>4, SubmitRows, RequestCancelRows, WorkerRows DEF Next

(***************************************************************************)
(* How one step changes the workers                                        *)
(***************************************************************************)

Waits(v) == pc'[v] = pc[v] /\ job'[v] = job[v] /\ snap'[v] = snap[v]

\* A worker that does not move is not disturbed by what happens to the rows.
LEMMA SnapWaits ==
    ASSUME IInv, RowsStep, NEW v \in Workers, Waits(v)
    PROVE  SnapOK(v)'
<1>1. CASE pc[v] = "idle"
  BY <1>1 DEF Waits, SnapOK, Guarded
<1>2. CASE pc[v] # "idle"
  <2>1. job[v] \in Runs
    BY <1>2 DEF IInv, TypeOK
  <2>2. /\ IsTerminal(db[job[v]]) => IsTerminal(db'[job[v]])
        /\ db[job[v]].status # "absent" => db'[job[v]].status # "absent"
    BY <2>1, RowsStepOK DEF IInv
  <2>3. Savable(job[v], snap[v]) => Savable(job[v], snap[v])'
    BY <2>1 DEF Waits, RowsStep, Savable, RequiredOf
  <2>. QED  BY <2>2, <2>3 DEF Waits, SnapOK, IInv, AllQueued, Savable, RequiredOf
<1>. QED  BY <1>1, <1>2

LEMMA BackToClaimOthers ==
    ASSUME TypeOK, NEW w \in Workers, BackToClaim(w)
    PROVE  /\ pc'[w] = "idle" /\ SnapOK(w)'
           /\ \A v \in Workers \ {w} : Waits(v)
BY DEF TypeOK, BackToClaim, GoTo, Waits, SnapOK, Guarded

LEMMA GoToOthers ==
    ASSUME TypeOK, NEW w \in Workers, NEW point, GoTo(w, point), job' = job,
           snap' = snap \/ \E m : snap' = [snap EXCEPT ![w] = m]
    PROVE  /\ pc'[w] = point
           /\ \A v \in Workers \ {w} : Waits(v)
BY DEF TypeOK, GoTo, Waits

\* A worker at one of the points where the local manifest no longer matters.
LEMMA SnapFree ==
    ASSUME NEW w \in Workers, pc'[w] \in {"idle", "claimed", "cancelled", "failed"}
    PROVE  SnapOK(w)'
BY DEF SnapOK, Guarded

LEMMA SnapDone ==
    ASSUME NEW w \in Workers, pc'[w] \in {"drain", "settle"}, IsTerminal(db'[job'[w]])
    PROVE  SnapOK(w)'
BY DEF SnapOK, Guarded

LEMMA ReturnSnap ==
    ASSUME TypeOK, NEW w \in Workers, NEW status, Return(w, status),
           status = "cancelled" \/ IsTerminal(db'[job[w]])
    PROVE  /\ SnapOK(w)'
           /\ \A v \in Workers \ {w} : Waits(v)
<1>1. CASE status = "cancelled"
  BY <1>1, BackToClaimOthers DEF Return
<1>2. CASE status # "cancelled"
  <2>1. GoTo(w, "settle") /\ UNCHANGED <<job, snap>>
    BY <1>2 DEF Return
  <2>. QED  BY <1>2, <2>1, GoToOthers, SnapDone
<1>. QED  BY <1>1, <1>2

LEMMA ExecuteSnap ==
    ASSUME IInv, RowsStep, NEW w \in Workers, Execute(w)
    PROVE  /\ SnapOK(w)'
           /\ \A v \in Workers \ {w} : Waits(v)
<1> DEFINE r == job[w]
           Goal == SnapOK(w)' /\ \A v \in Workers \ {w} : Waits(v)
<1>1. pc[w] # "idle" /\ TypeOK
  BY DEF IInv, Execute, Load, Precheck, StartRun, BeginStage, SkipStage, StartStage, Checkpoint,
         FinishStage, Build, Publish, Verify, Finish, HandleCancellation, SaveCancel,
         HandleFailure, SaveFail
<1>2. /\ r \in Runs
      /\ db[r] \in Manifest
      /\ snap[w] \in Manifest
      /\ ActiveStage(snap[w]) \in Stages
      /\ params'[r] = params[r]
  BY <1>1, ActiveStageType DEF TypeOK, RowsStep
<1>3. /\ SnapOK(w) /\ RowOK(r)
      /\ IsTerminal(db[r]) => db'[r] = db[r]
  BY <1>2, RowsStepOK DEF IInv
<1>4. ASSUME NEW m \in Manifest, snap' = [snap EXCEPT ![w] = m]
      PROVE  snap'[w] = m
  BY <1>4 DEF IInv, TypeOK
<1>5. ASSUME NEW m, Savable(r, m), job' = job
      PROVE  Savable(job[w], m)'
  BY <1>2, <1>5 DEF Savable, RequiredOf
<1>. HIDE DEF r
<1>6. CASE Load(w)
  <2>1. CASE IsTerminal(db[r])
    <3>1. Return(w, db[r].status) /\ IsTerminal(db'[r])
      BY <1>3, <1>6, <2>1 DEF Load, r
    <3>. QED  BY <1>1, <3>1, ReturnSnap DEF r
  <2>2. CASE ~ IsTerminal(db[r])
    <3>1. /\ GoTo(w, IF db[r].status = "queued" THEN "precheck" ELSE "stage")
          /\ snap' = [snap EXCEPT ![w] = db[r]]
          /\ job' = job
      BY <1>6, <2>2 DEF Load, r
    <3>2. /\ pc'[w] = IF db[r].status = "queued" THEN "precheck" ELSE "stage"
          /\ snap'[w] = db[r]
          /\ \A v \in Workers \ {w} : Waits(v)
      BY <1>1, <1>2, <1>4, <3>1, GoToOthers
    <3>3. db[r].status \in {"queued", "running"}
      BY <1>2, <1>3, <1>6, <2>2 DEF Load, SnapOK, r, Manifest, RunStatus, IsTerminal
    <3>4. SnapOK(w)'
      BY <1>3, <3>2, <3>3 DEF SnapOK, RowOK, AllQueued, Guarded, Savable
    <3>. QED  BY <3>2, <3>4
  <2>. QED  BY <2>1, <2>2
<1>7. CASE Precheck(w)
  <2>1. /\ snap[w].status = "queued" /\ AllQueued(snap[w]) /\ snap[w].artifacts = {}
        /\ job' = job
    BY <1>3, <1>7 DEF Precheck, SnapOK, LocalStep
  <2>2. CASE CancellationRequested(r)
    <3> DEFINE m == Cancel(snap[w], ActiveStage(snap[w]))
    <3>1. m \in Manifest /\ m.status = "cancelled" /\ Savable(r, m)
      BY <1>2, <2>1, StopType, StopShape, SavableStop
    <3>. HIDE DEF m
    <3>2. GoTo(w, "saveCancel") /\ snap' = [snap EXCEPT ![w] = m]
      BY <1>7, <2>2 DEF Precheck, m, r
    <3>3. pc'[w] = "saveCancel" /\ snap'[w] = m /\ \A v \in Workers \ {w} : Waits(v)
      BY <1>1, <1>4, <2>1, <3>1, <3>2, GoToOthers
    <3>. QED  BY <1>5, <2>1, <3>1, <3>3 DEF SnapOK, Guarded, r
  <2>3. CASE ~ CancellationRequested(r)
    <3> DEFINE m == Start(snap[w])
    <3>1. m \in Manifest /\ m.status = "running" /\ m.artifacts = {}
      BY <1>2, <2>1, StartType DEF Start, Manifest
    <3>. HIDE DEF m
    <3>2. Savable(r, m)
      BY <3>1 DEF Savable, TerminalStatus
    <3>3. GoTo(w, "start") /\ snap' = [snap EXCEPT ![w] = m]
      BY <1>7, <2>3 DEF Precheck, m, r
    <3>4. pc'[w] = "start" /\ snap'[w] = m /\ \A v \in Workers \ {w} : Waits(v)
      BY <1>1, <1>4, <2>1, <3>1, <3>3, GoToOthers
    <3>. QED  BY <1>5, <2>1, <3>1, <3>2, <3>4 DEF SnapOK, Guarded, r
  <2>. QED  BY <2>2, <2>3
<1>8. CASE StartRun(w)
  <2>1. CASE Restart(w)
    BY <1>1, <2>1, BackToClaimOthers DEF Restart
  <2>2. CASE GoTo(w, "stage") /\ UNCHANGED <<job, snap>>
    <3>1. pc'[w] = "stage" /\ \A v \in Workers \ {w} : Waits(v)
      BY <1>1, <2>2, GoToOthers
    <3>. QED  BY <1>3, <1>8, <2>2, <3>1 DEF StartRun, SnapOK, Guarded
  <2>. QED  BY <1>8, <2>1, <2>2 DEF StartRun
<1>9. CASE BeginStage(w) \/ Checkpoint(w) \/ Build(w)
  <2>1. PICK point \in {"build", "skipStage", "cancelled", "failed", "startStage", "finishStage", "publish"} :
            GoTo(w, point)
    BY <1>9 DEF BeginStage, Checkpoint, Build
  <2>2. UNCHANGED <<job, snap>> /\ pc[w] \in Guarded \ {"finish"}
    BY <1>9 DEF BeginStage, Checkpoint, Build, LocalStep, Guarded
  <2>3. pc'[w] = point /\ \A v \in Workers \ {w} : Waits(v)
    BY <1>1, <2>1, <2>2, GoToOthers
  <2>. QED  BY <1>3, <2>2, <2>3 DEF SnapOK, Guarded
<1>10. CASE SkipStage(w) \/ StartStage(w) \/ FinishStage(w)
  <2>1. PICK status \in {"skipped", "running", "succeeded"}, next \in {"stage", "work"} :
            SaveStage(w, status, next)
    BY <1>10 DEF SkipStage, StartStage, FinishStage
  <2>2. snap[w].status = "running" /\ snap[w].artifacts = {}
    BY <1>3, <1>10 DEF SkipStage, StartStage, FinishStage, SnapOK, Guarded
  <2> DEFINE m == WithStage(snap[w], ActiveStage(snap[w]), status)
  <2>3. m \in Manifest /\ m.status = "running" /\ m.artifacts = {}
    <3>1. status \in StageStatus
      BY DEF StageStatus
    <3>2. m \in Manifest
      BY <1>2, <3>1, WithStageType
    <3>3. m.status = "running" /\ m.artifacts = {} /\ Savable(r, m)
      BY <1>2, <2>2, <3>1, SavableStage
    <3>. QED  BY <3>2, <3>3
  <2>4. \/ GoTo(w, next) /\ snap' = [snap EXCEPT ![w] = m]
        \/ GoTo(w, "failed") /\ UNCHANGED snap
    BY <2>1 DEF SaveStage
  <2>. HIDE DEF m
  <2>5. job' = job
    BY <2>1 DEF SaveStage
  <2>6. CASE GoTo(w, "failed") /\ UNCHANGED snap
    BY <1>1, <2>5, <2>6, GoToOthers, SnapFree
  <2>7. CASE GoTo(w, next) /\ snap' = [snap EXCEPT ![w] = m]
    <3>1. pc'[w] = next /\ snap'[w] = m /\ \A v \in Workers \ {w} : Waits(v)
      BY <1>1, <1>4, <2>3, <2>5, <2>7, GoToOthers
    <3>. QED  BY <2>3, <3>1 DEF SnapOK, Guarded
  <2>. QED  BY <2>4, <2>6, <2>7
<1>11. CASE Publish(w)
  <2>1. PICK point \in {"verify", "publish", "failed"} : GoTo(w, point)
    BY <1>11 DEF Publish
  <2>2. UNCHANGED <<job, snap>>
    BY <1>11 DEF Publish
  <2>3. pc'[w] = point /\ \A v \in Workers \ {w} : Waits(v)
    BY <1>1, <2>1, <2>2, GoToOthers
  <2>. QED  BY <1>3, <1>11, <2>2, <2>3 DEF Publish, SnapOK, Guarded
<1>12. CASE Verify(w)
  <2> DEFINE m == Outcome(r, db[r])
  <2>1. \/ GoTo(w, "failed") /\ UNCHANGED snap
        \/ GoTo(w, "finish") /\ snap' = [snap EXCEPT ![w] = m] /\ Valid(m, RequiredOf(r))
    BY <1>12 DEF Verify, r
  <2>2. job' = job
    BY <1>12 DEF Verify, LocalStep
  <2>3. CASE GoTo(w, "failed") /\ UNCHANGED snap
    BY <1>1, <2>2, <2>3, GoToOthers, SnapFree
  <2>4. CASE GoTo(w, "finish") /\ snap' = [snap EXCEPT ![w] = m] /\ Valid(m, RequiredOf(r))
    <3>1. m \in Manifest /\ Savable(r, m) /\ m.status \in {"succeeded", "partial"}
      BY <1>2, <2>4, OutcomeType, SavableOutcome
    <3>. HIDE DEF m
    <3>2. pc'[w] = "finish" /\ snap'[w] = m /\ \A v \in Workers \ {w} : Waits(v)
      BY <1>1, <1>4, <2>2, <2>4, <3>1, GoToOthers
    <3>. QED  BY <1>5, <2>2, <3>1, <3>2 DEF SnapOK, Guarded, r
  <2>. QED  BY <2>1, <2>3, <2>4
<1>13. CASE Finish(w)
  <2>1. UNCHANGED <<job, snap>>
    BY <1>13 DEF Finish
  <2>2. CASE GoTo(w, "failed")
    BY <1>1, <2>1, <2>2, GoToOthers, SnapFree
  <2>3. CASE GoTo(w, "settle") /\ Save(r, snap[w])
    <3>1. snap[w].status \in {"succeeded", "partial"} /\ db'[r] = snap[w]
      BY <1>2, <1>3, <1>13, <2>3 DEF Finish, SnapOK, Save, IInv, TypeOK
    <3>2. pc'[w] = "settle" /\ \A v \in Workers \ {w} : Waits(v)
      BY <1>1, <2>1, <2>3, GoToOthers
    <3>. QED  BY <2>1, <3>1, <3>2, SnapDone DEF IsTerminal, TerminalStatus, r
  <2>. QED  BY <1>13, <2>2, <2>3 DEF Finish, r
<1>14. CASE HandleCancellation(w)
  <2> DEFINE m == Cancel(db[r], ActiveStage(snap[w]))
  <2>1. CASE Restart(w)
    BY <1>1, <2>1, BackToClaimOthers DEF Restart
  <2>2. CASE ~ Restart(w)
    <3>1. /\ GoTo(w, "saveCancel") /\ snap' = [snap EXCEPT ![w] = m] /\ job' = job
          /\ Valid(m, RequiredOf(r))
      BY <1>14, <2>2 DEF HandleCancellation, r
    <3>2. m \in Manifest /\ m.status = "cancelled"
      BY <1>2, StopType, StopShape
    <3>. HIDE DEF m
    <3>3. Savable(r, m)
      BY <3>1, <3>2, ValidStop, SavableStop
    <3>4. pc'[w] = "saveCancel" /\ snap'[w] = m /\ \A v \in Workers \ {w} : Waits(v)
      BY <1>1, <1>4, <3>1, <3>2, GoToOthers
    <3>. QED  BY <1>5, <3>1, <3>2, <3>3, <3>4 DEF SnapOK, Guarded, r
  <2>. QED  BY <2>1, <2>2
<1>15. CASE SaveCancel(w)
  <2>1. CASE Restart(w)
    BY <1>1, <2>1, BackToClaimOthers DEF Restart
  <2>2. CASE Return(w, "cancelled")
    BY <1>1, <2>2, ReturnSnap
  <2>. QED  BY <1>15, <2>1, <2>2 DEF SaveCancel
<1>16. CASE HandleFailure(w)
  <2> DEFINE m == Fail(db[r], ActiveStage(snap[w]))
  <2>1. CASE Restart(w)
    BY <1>1, <2>1, BackToClaimOthers DEF Restart
  <2>2. CASE IsTerminal(db[r])
    <3>1. Return(w, db[r].status) /\ IsTerminal(db'[r])
      BY <1>3, <1>16, <2>2 DEF HandleFailure, r
    <3>. QED  BY <1>1, <3>1, ReturnSnap DEF r
  <2>3. CASE ~ Restart(w) /\ ~ IsTerminal(db[r])
    <3>1. /\ GoTo(w, "saveFail") /\ snap' = [snap EXCEPT ![w] = m] /\ job' = job
          /\ Valid(m, RequiredOf(r))
      BY <1>16, <2>3 DEF HandleFailure, r
    <3>2. m \in Manifest /\ m.status = "failed"
      BY <1>2, StopType, StopShape
    <3>. HIDE DEF m
    <3>3. Savable(r, m)
      BY <3>1, <3>2, ValidStop, SavableStop
    <3>4. pc'[w] = "saveFail" /\ snap'[w] = m /\ \A v \in Workers \ {w} : Waits(v)
      BY <1>1, <1>4, <3>1, <3>2, GoToOthers
    <3>. QED  BY <1>5, <3>1, <3>2, <3>3, <3>4 DEF SnapOK, Guarded, r
  <2>. QED  BY <2>1, <2>2, <2>3
<1>17. CASE SaveFail(w)
  <2>1. CASE Restart(w)
    BY <1>1, <2>1, BackToClaimOthers DEF Restart
  <2>2. CASE Return(w, "failed") /\ Save(r, snap[w])
    <3>1. snap[w].status = "failed" /\ db'[r] = snap[w]
      BY <1>2, <1>3, <1>17, <2>2 DEF SaveFail, SnapOK, Save, IInv, TypeOK
    <3>2. IsTerminal(db'[r])
      BY <3>1 DEF IsTerminal, TerminalStatus
    <3>. QED  BY <1>1, <2>2, <3>2, ReturnSnap DEF r
  <2>. QED  BY <1>17, <2>1, <2>2 DEF SaveFail, r
<1>. QED
  BY <1>6, <1>7, <1>8, <1>9, <1>10, <1>11, <1>12, <1>13, <1>14, <1>15, <1>16, <1>17 DEF Execute

LEMMA SettleAsOthers ==
    ASSUME TypeOK, NEW w \in Workers, NEW result, SettleAs(w, result)
    PROVE  /\ SnapOK(w)'
           /\ \A v \in Workers \ {w} : Waits(v)
BY BackToClaimOthers DEF SettleAs, Restart

LEMMA NextSnap ==
    ASSUME IInv, RowsStep, [Next]_vars, NEW v \in Workers
    PROVE  SnapOK(v)'
<1>. USE DEF IInv
<1>1. ASSUME Waits(v)
      PROVE  SnapOK(v)'
  BY <1>1, SnapWaits
<1>2. CASE UNCHANGED vars
  BY <1>1, <1>2 DEF vars, workerVars, Waits
<1>3. ASSUME NEW r \in Runs, Submit(r) \/ RequestCancel(r) \/ LoseLock(r) \/ ExpireLock(r)
      PROVE  SnapOK(v)'
  <2>1. UNCHANGED workerVars
    BY <1>3 DEF Submit, Create, Enqueue, RejectSubmission, RequestCancel, ReadForCancel,
                SaveCancelQueued, RequestCancellation, LoseLock, ExpireLock
  <2>. QED  BY <1>1, <2>1 DEF workerVars, Waits
<1>4. ASSUME NEW w \in Workers, NEW r \in Runs, Receive(w, r)
      PROVE  SnapOK(v)'
  <2>1. pc'[w] = "claimed" /\ (v # w => Waits(v))
    BY <1>4 DEF Receive, TypeOK, GoTo, Waits
  <2>. QED  BY <1>1, <2>1, SnapFree
<1>5. ASSUME NEW w \in Workers, Claim(w) \/ Settle(w)
      PROVE  SnapOK(v)'
  <2>1. CASE DeadLetter(w) \/ Drain(w) \/ Settle(w)
    BY <1>1, <2>1, SettleAsOthers DEF DeadLetter, Drain, Settle
  <2>2. CASE Inspect(w)
    <3>1. /\ pc'[w] = IF IsTerminal(db[job[w]]) THEN "drain" ELSE "load"
          /\ job' = job /\ db' = db /\ job[w] \in Runs
          /\ v # w => Waits(v)
      BY <2>2, GoToOthers DEF Inspect, LocalStep, storeVars, TypeOK
    <3>2. ~ IsTerminal(db[job[w]]) => db[job[w]].status # "absent"
      BY <2>2 DEF Inspect, NotDeliverable
    <3>3. SnapOK(w)'
      BY <3>1, <3>2 DEF SnapOK, Guarded
    <3>. QED  BY <1>1, <3>1, <3>3
  <2>. QED  BY <1>5, <2>1, <2>2 DEF Claim
<1>6. ASSUME NEW w \in Workers, Execute(w)
      PROVE  SnapOK(v)'
  BY <1>1, <1>6, ExecuteSnap
<1>7. ASSUME NEW w \in Workers, Fault(w)
      PROVE  SnapOK(v)'
  <2>1. pc'[w] = "failed" /\ (v # w => Waits(v))
    BY <1>7, GoToOthers DEF Fault, LocalStep
  <2>. QED  BY <1>1, <2>1, SnapFree
<1>8. ASSUME NEW w \in Workers, Crash(w)
      PROVE  SnapOK(v)'
  BY <1>1, <1>8, BackToClaimOthers DEF Crash, Restart
<1>. QED
  BY <1>2, <1>3, <1>4, <1>5, <1>6, <1>7, <1>8 DEF Next, WorkerStep

\* A message becomes done only when a worker settles a terminal run.
LEMMA NextAcknowledged ==
    ASSUME IInv, RowsStep, [Next]_vars
    PROVE  AcknowledgedIsTerminal'
<1>. SUFFICES ASSUME NEW r \in Runs, message'[r] = "done"
              PROVE  IsTerminal(db'[r])
  BY DEF AcknowledgedIsTerminal
<1>1. IsTerminal(db[r]) => IsTerminal(db'[r])
  BY RowsStepOK DEF IInv
<1>2. CASE message[r] = "done"
  BY <1>1, <1>2 DEF IInv, AcknowledgedIsTerminal
<1>3. CASE message[r] # "done"
  <2>1. PICK w \in Workers : (Drain(w) \/ Settle(w)) /\ job[w] = r
    <3>1. ASSUME NEW q \in Runs, Submit(q) \/ RequestCancel(q) \/ LoseLock(q) \/ ExpireLock(q)
          PROVE  message'[r] # "done"
      BY <1>3, <3>1
         DEF Submit, Create, Enqueue, RejectSubmission, RequestCancel, ReadForCancel,
             SaveCancelQueued, RequestCancellation, LoseLock, ExpireLock, queueVars, IInv, TypeOK
    <3>2. ASSUME NEW w \in Workers, NEW q \in Runs, Receive(w, q)
          PROVE  message'[r] # "done"
      BY <1>3, <3>2 DEF Receive
    <3>3. ASSUME NEW w \in Workers, Execute(w) \/ Inspect(w) \/ Fault(w) \/ Crash(w)
          PROVE  message'[r] # "done"
      BY <1>3, <3>3
         DEF Execute, Load, Precheck, StartRun, BeginStage, SkipStage, StartStage, Checkpoint,
             FinishStage, Build, Publish, Verify, Finish, HandleCancellation, SaveCancel,
             HandleFailure, SaveFail, SaveStage, Inspect, Fault, Crash, LocalStep, queueVars
    <3>4. ASSUME NEW w \in Workers, DeadLetter(w)
          PROVE  message'[r] # "done"
      BY <1>3, <3>4 DEF DeadLetter, SettleAs, IInv, TypeOK
    <3>5. ASSUME NEW w \in Workers, Drain(w) \/ Settle(w)
          PROVE  job[w] = r
      BY <1>3, <3>5 DEF Drain, Settle, SettleAs, IInv, TypeOK
    <3>6. CASE UNCHANGED vars
      BY <1>3, <3>6 DEF vars, queueVars
    <3>. QED
      BY <3>1, <3>2, <3>3, <3>4, <3>5, <3>6 DEF Next, WorkerStep, Claim
  <2>2. pc[w] \in {"drain", "settle"} /\ SnapOK(w)
    BY <2>1 DEF Drain, Settle, IInv
  <2>. QED  BY <1>1, <2>1, <2>2 DEF SnapOK
<1>. QED  BY <1>2, <1>3

\* A submission is rejected only when its run can no longer go on: the save of
\* the failed manifest is refused only by a terminal row.
LEMMA NextRejected ==
    ASSUME IInv, RowsStep, [Next]_vars
    PROVE  RejectedIsTerminal'
<1>. SUFFICES ASSUME NEW r \in Runs, submission'[r] = "rejected"
              PROVE  IsTerminal(db'[r])
  BY DEF RejectedIsTerminal
<1>1. IsTerminal(db[r]) => IsTerminal(db'[r])
  BY RowsStepOK DEF IInv
<1>2. CASE submission[r] = "rejected"
  BY <1>1, <1>2 DEF IInv, RejectedIsTerminal
<1>3. CASE submission[r] # "rejected"
  <2>1. RejectSubmission(r)
    <3>1. ASSUME NEW q \in Runs, Create(q) \/ Enqueue(q) \/ RequestCancel(q) \/ LoseLock(q) \/ ExpireLock(q)
          PROVE  submission'[r] # "rejected"
      BY <1>3, <3>1
         DEF Create, Enqueue, RequestCancel, ReadForCancel, SaveCancelQueued,
             RequestCancellation, LoseLock, ExpireLock, apiVars, IInv, TypeOK
    <3>2. ASSUME NEW q \in Runs, RejectSubmission(q), q # r
          PROVE  submission'[r] # "rejected"
      BY <1>3, <3>2 DEF RejectSubmission, IInv, TypeOK
    <3>3. ASSUME NEW w \in Workers, Fault(w) \/ Crash(w) \/ Claim(w) \/ Settle(w) \/ Execute(w)
                                      \/ \E q \in Runs : Receive(w, q)
          PROVE  submission'[r] # "rejected"
      BY <1>3, <3>3
         DEF Execute, Load, Precheck, StartRun, BeginStage, SkipStage, StartStage, Checkpoint,
             FinishStage, Build, Publish, Verify, Finish, HandleCancellation, SaveCancel,
             HandleFailure, SaveFail, SaveStage, Claim, Inspect, DeadLetter, Drain, Settle,
             Receive, Fault, Crash, LocalStep, apiVars
    <3>4. CASE UNCHANGED vars
      BY <1>3, <3>4 DEF vars, apiVars
    <3>. QED  BY <3>1, <3>2, <3>3, <3>4 DEF Next, Submit, WorkerStep
  <2>2. CASE Save(r, Fail(New, LastStage))
    <3>1. Fail(New, LastStage).status = "failed"
      BY NewType, LastStageType, StopShape
    <3>2. db'[r] = Fail(New, LastStage)
      BY <2>2 DEF Save, IInv, TypeOK
    <3>. QED  BY <3>1, <3>2 DEF IsTerminal, TerminalStatus
  <2>3. CASE SaveRefused(r, Fail(New, LastStage))
    <3>1. db[r] \in Manifest /\ db[r].status # "absent"
      BY <2>1 DEF RejectSubmission, IInv, TypeOK, RowOK
    <3>2. db[r].status \notin {"queued", "running"}
      BY <2>3, <3>1, FailAllowed DEF SaveRefused
    <3>. QED  BY <1>1, <3>1, <3>2 DEF IsTerminal, Manifest, RunStatus
  <2>. QED  BY <2>1, <2>2, <2>3 DEF RejectSubmission
<1>. QED  BY <1>2, <1>3

LEMMA InitIInv == Init => IInv
<1>. SUFFICES ASSUME Init PROVE IInv
  OBVIOUS
<1>1. TypeOK
  BY InitType
<1>2. ASSUME NEW r \in Runs
      PROVE  RowOK(r)
  BY DEF Init, RowOK, NoManifest
<1>3. ASSUME NEW w \in Workers
      PROVE  SnapOK(w)
  BY DEF Init, SnapOK, Guarded
<1>4. AcknowledgedIsTerminal /\ RejectedIsTerminal
  BY DEF Init, AcknowledgedIsTerminal, RejectedIsTerminal
<1>. QED  BY <1>1, <1>2, <1>3, <1>4 DEF IInv

LEMMA NextIInv == IInv /\ [Next]_vars => IInv'
<1>. SUFFICES ASSUME IInv, [Next]_vars PROVE IInv'
  OBVIOUS
<1>1. RowsStep
  BY NextRows
<1>2. TypeOK'
  BY NextType DEF IInv
<1>3. \A r \in Runs : RowOK(r)'
  BY <1>1, RowsStepOK DEF IInv
<1>4. \A w \in Workers : SnapOK(w)'
  BY <1>1, NextSnap
<1>. QED  BY <1>1, <1>2, <1>3, <1>4, NextAcknowledged, NextRejected DEF IInv

LEMMA Invariance == Spec => []IInv
BY InitIInv, NextIInv, PTL DEF Spec

(***************************************************************************)
(* What follows                                                            *)
(***************************************************************************)

\* A message is completed only once its run is terminal: accepted work is
\* never lost, for any number of workers, crashes and lost locks.
\* And a submission the client was told has failed never goes on.
THEOREM SettledCorrect == Spec => []SettledIsTerminal
<1>1. IInv => SettledIsTerminal
  BY DEF IInv, SettledIsTerminal
<1>. QED  BY <1>1, Invariance, PTL

\* A terminal run has no running stage, and artifacts only if it ended
\* succeeded or partial, whichever snapshot was saved last.
THEOREM TerminalSettled == Spec => []TerminalIsSettled
<1>1. IInv => TerminalIsSettled
  BY DEF IInv, RowOK, Savable, TerminalIsSettled, IsTerminal, TerminalStatus
<1>. QED  BY <1>1, Invariance, PTL

\* No process changes a terminal attempt.
THEOREM TerminalImmutability == Spec => TerminalImmutable
<1>1. IInv /\ [Next]_vars => [\A r \in Runs : IsTerminal(db[r]) => db'[r] = db[r]]_vars
  BY NextRows, RowsStepOK DEF IInv
<1>. QED  BY <1>1, Invariance, PTL DEF Spec, TerminalImmutable

\* Every step of the execution plane is a step of the lifecycle it promises.
THEOREM ImplementsLifecycle == Spec => LifecycleSpec
<1>1. Init => Lifecycle!Init
  BY DEF Init, Lifecycle!Init, NoManifest
<1>2. IInv /\ [Next]_vars => [Lifecycle!Next]_Lifecycle!vars
  <2>. SUFFICES ASSUME IInv, RowsStep PROVE [Lifecycle!Next]_Lifecycle!vars
    BY NextRows
  <2>. USE DEF Lifecycle!Next, Lifecycle!vars
  <2>1. CASE db' = db
    BY <2>1
  <2>2. ASSUME NEW r \in Runs, submission[r] = "none", db' = [db EXCEPT ![r] = New]
        PROVE  Lifecycle!Create(r)
    <3>1. db[r].status = "absent" /\ db[r].artifacts = {}
      BY <2>2 DEF IInv, RowOK
    <3>. QED  BY <2>2, <3>1 DEF Lifecycle!Create, New, NoManifest, IInv, TypeOK
  <2>3. ASSUME NEW r \in Runs, NEW m \in Manifest, Savable(r, m), Save(r, m)
        PROVE  \/ Lifecycle!Begin(r) \/ Lifecycle!Stop(r) \/ Lifecycle!Publish(r)
               \/ UNCHANGED Lifecycle!vars
    <3>1. /\ db[r].status \in {"queued", "running"}
          /\ m.status \in {"succeeded", "partial"} => db[r].status = "running"
      BY <2>3, TransitionShape DEF Save
    <3>2. db[r].artifacts = {}
      BY <3>1 DEF IInv, RowOK, Savable
    <3>3. /\ [q \in Runs |-> db'[q].status] = [[q \in Runs |-> db[q].status] EXCEPT ![r] = m.status]
          /\ [q \in Runs |-> db'[q].artifacts] = [[q \in Runs |-> db[q].artifacts] EXCEPT ![r] = m.artifacts]
      BY <2>3 DEF Save, IInv, TypeOK
    <3>4. CASE m.status = "running"
      BY <2>3, <3>1, <3>2, <3>3, <3>4 DEF Savable, Lifecycle!Begin
    <3>5. CASE m.status \in {"failed", "cancelled"}
      BY <2>3, <3>1, <3>2, <3>3, <3>5 DEF Savable, Lifecycle!Stop
    <3>6. CASE m.status \in {"succeeded", "partial"}
      BY <2>3, <3>1, <3>2, <3>3, <3>6 DEF Savable, Lifecycle!Publish
    <3>. QED  BY <2>3, <3>4, <3>5, <3>6 DEF Savable, TerminalStatus
  <2>. QED  BY <2>1, <2>2, <2>3 DEF RowsStep
<1>. QED  BY <1>1, <1>2, Invariance, PTL DEF Spec, LifecycleSpec, Lifecycle!Spec

(***************************************************************************)
(* What holds of overlapping executions, for any number of runs, workers,  *)
(* stages and artifacts: one executor per run while locks are kept, the    *)
(* bound on a cancellation, and one execution behind every published run.  *)
(***************************************************************************)

(***************************************************************************)
(* How one step changes the workers and the queue                          *)
(***************************************************************************)

\* A worker no step of which is taken.
Still(v) ==
    /\ pc'[v] = pc[v] /\ job'[v] = job[v]
    /\ delivery'[v] = delivery[v] /\ late'[v] = late[v]

OthersStill(w) == \A v \in Workers \ {w} : Still(v)

\* w is back at its claim.
Released(w) == pc'[w] = "idle" /\ late'[w] = 0

\* w goes on with the delivery it holds.
Continues(w) == pc'[w] # "idle" /\ job'[w] = job[w] /\ delivery'[w] = delivery[w]

LEMMA BackToClaimMoves ==
    ASSUME TypeOK, NEW w \in Workers, BackToClaim(w)
    PROVE  Released(w) /\ OthersStill(w)
BY DEF BackToClaim, GoTo, TypeOK, Released, OthersStill, Still

LEMMA GoToMoves ==
    ASSUME TypeOK, NEW w \in Workers, NEW point, GoTo(w, point), UNCHANGED <<job, delivery>>,
           late' = late \/ late' = [late EXCEPT ![w] = @ + 1]
    PROVE  /\ pc'[w] = point
           /\ job'[w] = job[w] /\ delivery'[w] = delivery[w]
           /\ OthersStill(w)
BY DEF GoTo, TypeOK, OthersStill, Still

LEMMA ReturnMoves ==
    ASSUME TypeOK, NEW w \in Workers, NEW status, Return(w, status)
    PROVE  /\ OthersStill(w)
           /\ \/ Released(w)
              \/ Continues(w) /\ pc'[w] = "settle" /\ late'[w] = late[w]
<1>1. CASE status = "cancelled"
  BY <1>1, BackToClaimMoves DEF Return
<1>2. CASE status # "cancelled"
  BY <1>2, GoToMoves DEF Return, Continues
<1>. QED  BY <1>1, <1>2

LEMMA SaveStageMoves ==
    ASSUME TypeOK, NEW w \in Workers, NEW status, NEW next, SaveStage(w, status, next)
    PROVE  /\ UNCHANGED <<queueVars, lapses, files, cancelFlag>>
           /\ OthersStill(w)
           /\ pc'[w] \in {next, "failed"}
           /\ job'[w] = job[w] /\ delivery'[w] = delivery[w]
           /\ \/ late'[w] = late[w]
              \/ late'[w] = late[w] + 1 /\ cancelFlag[job[w]] /\ status # "skipped"
<1>1. /\ UNCHANGED <<queueVars, lapses, files, cancelFlag, job, delivery>>
      /\ GoTo(w, next) \/ GoTo(w, "failed")
      /\ \/ late' = late
         \/ late' = [late EXCEPT ![w] = @ + 1] /\ cancelFlag[job[w]] /\ status # "skipped"
  BY DEF SaveStage, budgetVars
<1>2. OthersStill(w) /\ pc'[w] \in {next, "failed"} /\ job'[w] = job[w] /\ delivery'[w] = delivery[w]
  BY <1>1, GoToMoves
<1>3. late'[w] = late[w] \/ (late'[w] = late[w] + 1 /\ cancelFlag[job[w]] /\ status # "skipped")
  BY <1>1 DEF TypeOK
<1>. QED  BY <1>1, <1>2, <1>3

\* What each step of an execution does: to the point w is at, to the history of
\* late saves and to the artifacts.
LEMMA ExecuteMoves ==
    ASSUME TypeOK, NEW w \in Workers, Execute(w)
    PROVE  /\ pc[w] # "idle"
           /\ UNCHANGED <<queueVars, lapses, cancelFlag>>
           /\ OthersStill(w)
           /\ Released(w) \/ Continues(w)
           /\ Released(w) \/ late'[w] = late[w]
              \/ /\ late'[w] = late[w] + 1 /\ cancelFlag[job[w]]
                 /\ pc[w] \in {"startStage", "finishStage"}
                 /\ pc'[w] \notin {"startStage", "finishStage"}
           /\ pc'[w] \in {"startStage", "finishStage"} =>
                  ~ cancelFlag[job[w]] /\ late'[w] = late[w]
           /\ Publish(w) \/ files' = files
           /\ pc'[w] = "verify" => Publish(w)
           /\ pc'[w] = "finish" => pc[w] = "verify"
<1>1. CASE Load(w)
  <2>1. CASE Return(w, db[job[w]].status)
    BY <1>1, <2>1, ReturnMoves DEF Load, storeVars, budgetVars, Released
  <2>2. CASE ~ Return(w, db[job[w]].status)
    <3>1. PICK point \in {"precheck", "stage"} : GoTo(w, point) /\ UNCHANGED <<job, delivery, late>>
      BY <1>1, <2>2 DEF Load
    <3>. QED  BY <1>1, <3>1, GoToMoves DEF Load, storeVars, budgetVars, Continues
  <2>. QED  BY <2>1, <2>2
<1>2. CASE Precheck(w)
  <2>1. PICK point \in {"saveCancel", "start"} : GoTo(w, point)
    BY <1>2 DEF Precheck
  <2>. QED  BY <1>2, <2>1, GoToMoves DEF Precheck, LocalStep, storeVars, budgetVars, Continues
<1>3. CASE StartRun(w)
  <2>1. CASE Restart(w)
    BY <1>3, <2>1, BackToClaimMoves DEF StartRun, Restart, budgetVars, Released
  <2>2. CASE GoTo(w, "stage") /\ UNCHANGED <<job, snap, delivery, late>>
    BY <1>3, <2>2, GoToMoves DEF StartRun, budgetVars, Continues
  <2>. QED  BY <1>3, <2>1, <2>2 DEF StartRun
<1>4. CASE BeginStage(w)
  <2>1. PICK point \in {"build", "skipStage", "cancelled", "failed", "startStage"} :
            GoTo(w, point) /\ (point = "startStage" => ~ cancelFlag[job[w]])
    BY <1>4 DEF BeginStage, CancellationRequested
  <2>. QED  BY <1>4, <2>1, GoToMoves DEF BeginStage, LocalStep, storeVars, budgetVars, Continues
<1>5. CASE SkipStage(w)
  BY <1>5, SaveStageMoves DEF SkipStage, Continues
<1>6. CASE StartStage(w)
  BY <1>6, SaveStageMoves DEF StartStage, Continues
<1>7. CASE Checkpoint(w)
  <2>1. PICK point \in {"cancelled", "finishStage"} :
            GoTo(w, point) /\ (point = "finishStage" => ~ cancelFlag[job[w]])
    BY <1>7 DEF Checkpoint, CancellationRequested
  <2>. QED  BY <1>7, <2>1, GoToMoves DEF Checkpoint, LocalStep, storeVars, budgetVars, Continues
<1>8. CASE FinishStage(w)
  BY <1>8, SaveStageMoves DEF FinishStage, Continues
<1>9. CASE Build(w)
  <2>1. PICK point \in {"publish", "cancelled"} : GoTo(w, point)
    BY <1>9 DEF Build
  <2>. QED  BY <1>9, <2>1, GoToMoves DEF Build, LocalStep, storeVars, budgetVars, Continues
<1>10. CASE Publish(w)
  <2>1. PICK point \in {"verify", "publish", "failed"} : GoTo(w, point)
    BY <1>10 DEF Publish
  <2>2. UNCHANGED <<queueVars, lapses, cancelFlag, job, delivery, late>> /\ pc[w] = "publish"
    BY <1>10 DEF Publish, budgetVars
  <2>. QED  BY <1>10, <2>1, <2>2, GoToMoves DEF Continues
<1>11. CASE Verify(w)
  <2>1. PICK point \in {"finish", "failed"} : GoTo(w, point)
    BY <1>11 DEF Verify
  <2>2. UNCHANGED <<queueVars, lapses, cancelFlag, files, job, delivery, late>> /\ pc[w] = "verify"
    BY <1>11 DEF Verify, LocalStep, storeVars, budgetVars
  <2>. QED  BY <2>1, <2>2, GoToMoves DEF Continues
<1>12. CASE Finish(w)
  <2>1. PICK point \in {"settle", "failed"} : GoTo(w, point)
    BY <1>12 DEF Finish
  <2>. QED  BY <1>12, <2>1, GoToMoves DEF Finish, budgetVars, Continues
<1>13. CASE HandleCancellation(w)
  <2>1. CASE Restart(w)
    BY <1>13, <2>1, BackToClaimMoves DEF HandleCancellation, Restart, storeVars, budgetVars, Released
  <2>2. CASE ~ Restart(w)
    BY <1>13, <2>2, GoToMoves DEF HandleCancellation, storeVars, budgetVars, Continues
  <2>. QED  BY <2>1, <2>2
<1>14. CASE SaveCancel(w)
  <2>1. Restart(w) \/ Return(w, "cancelled")
    BY <1>14 DEF SaveCancel
  <2>. QED  BY <1>14, <2>1, ReturnMoves, BackToClaimMoves DEF SaveCancel, Restart, budgetVars, Released
<1>15. CASE HandleFailure(w)
  <2>1. CASE Restart(w) \/ Return(w, db[job[w]].status)
    BY <1>15, <2>1, ReturnMoves, BackToClaimMoves
       DEF HandleFailure, Restart, storeVars, budgetVars, Released
  <2>2. CASE ~ (Restart(w) \/ Return(w, db[job[w]].status))
    BY <1>15, <2>2, GoToMoves DEF HandleFailure, storeVars, budgetVars, Continues
  <2>. QED  BY <2>1, <2>2
<1>16. CASE SaveFail(w)
  <2>1. Restart(w) \/ Return(w, "failed")
    BY <1>16 DEF SaveFail
  <2>. QED  BY <1>16, <2>1, ReturnMoves, BackToClaimMoves DEF SaveFail, Restart, budgetVars, Released
<1>. QED
  BY <1>1, <1>2, <1>3, <1>4, <1>5, <1>6, <1>7, <1>8, <1>9, <1>10, <1>11, <1>12, <1>13, <1>14,
     <1>15, <1>16 DEF Execute

\* The other steps of a worker inside a delivery.
LEMMA InsideMoves ==
    ASSUME TypeOK, NEW w \in Workers, Inspect(w) \/ Fault(w) \/ Crash(w)
    PROVE  /\ pc[w] # "idle"
           /\ UNCHANGED <<queueVars, lapses, cancelFlag, files>>
           /\ OthersStill(w)
           /\ \/ Released(w)
              \/ Continues(w) /\ late'[w] = late[w] /\ pc'[w] \in {"drain", "load", "failed"}
<1>1. CASE Inspect(w)
  <2>1. PICK point \in {"drain", "load"} : GoTo(w, point)
    BY <1>1 DEF Inspect
  <2>. QED  BY <1>1, <2>1, GoToMoves DEF Inspect, LocalStep, storeVars, budgetVars, Continues
<1>2. CASE Fault(w)
  BY <1>2, GoToMoves DEF Fault, Guarded, LocalStep, storeVars, budgetVars, Continues
<1>3. CASE Crash(w)
  BY <1>3, BackToClaimMoves DEF Crash, Restart, storeVars
<1>. QED  BY <1>1, <1>2, <1>3

LEMMA SettleMoves ==
    ASSUME TypeOK, NEW w \in Workers, DeadLetter(w) \/ Drain(w) \/ Settle(w)
    PROVE  /\ pc[w] # "idle"
           /\ UNCHANGED <<deliveries, lapses, cancelFlag, files>>
           /\ OthersStill(w)
           /\ Released(w)
           /\ \/ owner' = owner
              \/ owner[job[w]] = w /\ owner' = [owner EXCEPT ![job[w]] = NoWorker]
<1>1. PICK result \in {"done", "dead"} : SettleAs(w, result)
  BY DEF DeadLetter, Drain, Settle
<1>2. Released(w) /\ OthersStill(w)
  BY <1>1, BackToClaimMoves DEF SettleAs, Restart
<1>3. \/ owner' = owner
      \/ owner[job[w]] = w /\ owner' = [owner EXCEPT ![job[w]] = NoWorker]
  BY <1>1 DEF SettleAs
<1>4. pc[w] # "idle" /\ UNCHANGED <<deliveries, lapses, cancelFlag, files>>
  BY DEF DeadLetter, Drain, Settle, storeVars, budgetVars
<1>. QED  BY <1>2, <1>3, <1>4

\* The steps of the API process change neither the workers nor the queue's locks.
LEMMA ApiMoves ==
    ASSUME NEW r \in Runs, Submit(r) \/ RequestCancel(r)
    PROVE  /\ UNCHANGED <<workerVars, owner, deliveries, lapses, files>>
           /\ cancelFlag' = cancelFlag \/ cancelFlag' = [cancelFlag EXCEPT ![r] = TRUE]
BY DEF Submit, Create, Enqueue, RejectSubmission, RequestCancel, ReadForCancel, SaveCancelQueued,
       RequestCancellation, storeVars, queueVars, budgetVars

(***************************************************************************)
(* One executor                                                            *)
(***************************************************************************)

\* While no live worker has lost its lock, a worker inside a delivery holds
\* the lock on the message of its run.
OwnersOK == lapses = 0 => \A w \in Workers : pc[w] # "idle" => owner[job[w]] = w

LEMMA NextOwners ==
    ASSUME TypeOK, OwnersOK, [Next]_vars
    PROVE  OwnersOK'
<1>1. CASE UNCHANGED vars
  BY <1>1 DEF vars, OwnersOK, workerVars, queueVars, budgetVars
<1>2. ASSUME NEW r \in Runs, Submit(r) \/ RequestCancel(r)
      PROVE  OwnersOK'
  BY <1>2, ApiMoves DEF OwnersOK, workerVars
<1>3. ASSUME NEW r \in Runs, LoseLock(r)
      PROVE  OwnersOK'
  BY <1>3 DEF LoseLock, OwnersOK, TypeOK
<1>4. ASSUME NEW r \in Runs, ExpireLock(r)
      PROVE  OwnersOK'
  BY <1>4 DEF ExpireLock, OwnersOK, TypeOK, workerVars, budgetVars
<1>5. ASSUME NEW w \in Workers, NEW r \in Runs, Receive(w, r)
      PROVE  OwnersOK'
  BY <1>5, ExecutionAssumption DEF Receive, GoTo, OwnersOK, TypeOK, budgetVars
<1>6. ASSUME NEW w \in Workers, Execute(w) \/ Inspect(w) \/ Fault(w) \/ Crash(w)
      PROVE  OwnersOK'
  <2>1. /\ pc[w] # "idle" /\ UNCHANGED <<queueVars, lapses>> /\ OthersStill(w)
        /\ Released(w) \/ Continues(w)
    BY <1>6, ExecuteMoves, InsideMoves
  <2>. QED  BY <2>1 DEF OwnersOK, queueVars, OthersStill, Still, Released, Continues
<1>7. ASSUME NEW w \in Workers, DeadLetter(w) \/ Drain(w) \/ Settle(w)
      PROVE  OwnersOK'
  <2>1. lapses' = lapses /\ OthersStill(w) /\ Released(w)
    BY <1>7, SettleMoves
  <2>2. ASSUME NEW v \in Workers \ {w}, lapses = 0, pc[v] # "idle"
        PROVE  owner'[job[v]] = v
    BY <1>7, <2>2, SettleMoves DEF OwnersOK, TypeOK
  <2>. QED  BY <2>1, <2>2 DEF OwnersOK, OthersStill, Still, Released
<1>. QED
  BY <1>1, <1>2, <1>3, <1>4, <1>5, <1>6, <1>7 DEF Next, WorkerStep, Claim

\* While locks are kept, no run is executed by two workers at once, whatever
\* crashes and restarts and however many workers compete for its message.
THEOREM OneExecutorCorrect == Spec => []OneExecutor
<1>1. Init => OwnersOK
  BY DEF Init, OwnersOK
<1>2. OwnersOK => OneExecutor
  BY DEF OwnersOK, OneExecutor, Executing, Guarded
<1>. QED  BY <1>1, <1>2, NextOwners, TypeCorrect, PTL DEF Spec

(***************************************************************************)
(* The bound on a cancellation                                             *)
(***************************************************************************)

\* An execution that has saved a stage record late is past the checkpoint that
\* lets it save another: the flag is up for the rest of the execution.
LateOK ==
    \A w \in Workers :
        /\ late[w] \in {0, 1}
        /\ late[w] = 1 => /\ pc[w] \notin {"idle", "startStage", "finishStage"}
                          /\ cancelFlag[job[w]]

LEMMA NextLate ==
    ASSUME TypeOK, LateOK, [Next]_vars
    PROVE  LateOK'
<1>1. CASE UNCHANGED vars
  BY <1>1 DEF vars, LateOK, workerVars, storeVars
<1>2. ASSUME NEW r \in Runs, Submit(r) \/ RequestCancel(r)
      PROVE  LateOK'
  <2>1. \A w \in Workers : cancelFlag[job[w]] /\ job[w] \in Runs => cancelFlag'[job[w]]
    BY <1>2, ApiMoves DEF TypeOK
  <2>2. UNCHANGED workerVars
    BY <1>2, ApiMoves
  <2>. QED  BY <2>1, <2>2 DEF LateOK, TypeOK, workerVars
<1>3. ASSUME NEW r \in Runs, LoseLock(r) \/ ExpireLock(r)
      PROVE  LateOK'
  BY <1>3 DEF LoseLock, ExpireLock, LateOK, storeVars, workerVars
<1>4. ASSUME NEW w \in Workers, NEW r \in Runs, Receive(w, r)
      PROVE  LateOK'
  BY <1>4 DEF Receive, GoTo, LateOK, TypeOK, storeVars
<1>5. ASSUME NEW w \in Workers, Execute(w)
      PROVE  LateOK'
  BY <1>5, ExecuteMoves DEF LateOK, OthersStill, Still, Released, Continues
<1>6. ASSUME NEW w \in Workers,
             Inspect(w) \/ Fault(w) \/ Crash(w) \/ DeadLetter(w) \/ Drain(w) \/ Settle(w)
      PROVE  LateOK'
  BY <1>6, InsideMoves, SettleMoves DEF LateOK, OthersStill, Still, Released, Continues
<1>. QED
  BY <1>1, <1>2, <1>3, <1>4, <1>5, <1>6 DEF Next, WorkerStep, Claim

\* After a cancellation request an execution saves at most one more started or
\* finished stage, however its steps interleave with the request.
THEOREM CancellationBoundCorrect == Spec => []CancellationBound
<1>1. Init => LateOK
  BY DEF Init, LateOK
<1>2. LateOK => CancellationBound
  BY DEF LateOK, CancellationBound
<1>. QED  BY <1>1, <1>2, NextLate, TypeCorrect, PTL DEF Spec

(***************************************************************************)
(* One execution behind every published run                                *)
(***************************************************************************)

\* A delivery in hand was counted by the queue; a worker past the publication
\* has written every artifact of its run itself.
HandsOK ==
    \A w \in Workers :
        /\ pc[w] # "idle" => delivery[w] \in 1 .. deliveries[job[w]]
        /\ pc[w] \in {"verify", "finish"} =>
               \A a \in Artifacts : files[job[w]][a] = delivery[w]

\* The artifacts of a succeeded or partial run are those of one delivery.
RowsPublished ==
    \A r \in Runs : db[r].status \in {"succeeded", "partial"} =>
        \E d \in 1 .. deliveries[r] : \A a \in Artifacts : files[r][a] = d

PInv == IInv /\ HandsOK /\ RowsPublished

\* Artifacts are written once and deliveries only counted up.
Kept ==
    /\ \A r \in Runs : deliveries'[r] \in Nat /\ deliveries[r] <= deliveries'[r]
    /\ \A r \in Runs, a \in Artifacts : files[r][a] # 0 => files'[r][a] = files[r][a]

LEMMA NextKept ==
    ASSUME TypeOK, [Next]_vars
    PROVE  Kept
<1>1. ASSUME UNCHANGED <<deliveries, files>>
      PROVE  Kept
  BY <1>1 DEF Kept, TypeOK
<1>2. CASE UNCHANGED vars
  BY <1>1, <1>2 DEF vars, queueVars, storeVars
<1>3. ASSUME NEW r \in Runs, Submit(r) \/ RequestCancel(r) \/ LoseLock(r) \/ ExpireLock(r)
      PROVE  Kept
  BY <1>1, <1>3, ApiMoves DEF LoseLock, ExpireLock, storeVars
<1>4. ASSUME NEW w \in Workers, NEW r \in Runs, Receive(w, r)
      PROVE  Kept
  BY <1>4 DEF Receive, Kept, TypeOK, storeVars
<1>5. ASSUME NEW w \in Workers,
             Inspect(w) \/ Fault(w) \/ Crash(w) \/ DeadLetter(w) \/ Drain(w) \/ Settle(w)
      PROVE  Kept
  BY <1>1, <1>5, InsideMoves, SettleMoves DEF queueVars
<1>6. ASSUME NEW w \in Workers, Execute(w)
      PROVE  Kept
  <2>1. deliveries' = deliveries /\ (Publish(w) \/ files' = files) /\ job[w] \in Runs
    BY <1>6, ExecuteMoves DEF queueVars, TypeOK
  <2>2. CASE files' = files
    BY <1>1, <2>1, <2>2
  <2>3. CASE files' # files
    <3>1. PICK a \in Artifacts :
              files[job[w]][a] = 0 /\ files' = [files EXCEPT ![job[w]][a] = delivery[w]]
      BY <2>1, <2>3 DEF Publish
    <3>. QED  BY <2>1, <3>1 DEF Kept, TypeOK
  <2>. QED  BY <2>2, <2>3
<1>. QED
  BY <1>2, <1>3, <1>4, <1>5, <1>6 DEF Next, WorkerStep, Claim

\* A worker that does not move keeps what it wrote.
LEMMA StillHands ==
    ASSUME TypeOK, HandsOK, Kept, NEW v \in Workers, Still(v)
    PROVE  /\ pc'[v] # "idle" => delivery'[v] \in 1 .. deliveries'[job'[v]]
           /\ pc'[v] \in {"verify", "finish"} =>
                  \A a \in Artifacts : files'[job'[v]][a] = delivery'[v]
<1>1. CASE pc[v] = "idle"
  BY <1>1 DEF Still
<1>2. CASE pc[v] # "idle"
  <2>1. job[v] \in Runs /\ delivery[v] \in Nat /\ deliveries[job[v]] \in Nat
    BY <1>2 DEF TypeOK
  <2>2. delivery[v] \in 1 .. deliveries'[job[v]] /\ delivery[v] # 0
    BY <1>2, <2>1 DEF HandsOK, Kept
  <2>3. ASSUME pc[v] \in {"verify", "finish"}, NEW a \in Artifacts
        PROVE  files'[job[v]][a] = delivery[v]
    BY <2>1, <2>2, <2>3 DEF HandsOK, Kept
  <2>. QED  BY <2>2, <2>3 DEF Still
<1>. QED  BY <1>1, <1>2

LEMMA NextHands ==
    ASSUME TypeOK, HandsOK, [Next]_vars
    PROVE  HandsOK'
<1>0. Kept
  BY NextKept
<1>a. ASSUME NEW w \in Workers, OthersStill(w),
             pc'[w] # "idle" => delivery'[w] \in 1 .. deliveries'[job'[w]],
             pc'[w] \in {"verify", "finish"} =>
                 \A a \in Artifacts : files'[job'[w]][a] = delivery'[w]
      PROVE  HandsOK'
  BY <1>0, <1>a, StillHands DEF HandsOK, OthersStill
<1>b. ASSUME UNCHANGED workerVars
      PROVE  HandsOK'
  BY <1>0, <1>b, StillHands DEF HandsOK, workerVars, Still
<1>c. ASSUME NEW w \in Workers, pc[w] # "idle", UNCHANGED deliveries, Continues(w)
      PROVE  delivery'[w] \in 1 .. deliveries'[job'[w]]
  BY <1>c DEF HandsOK, Continues
<1>1. CASE UNCHANGED vars
  BY <1>b, <1>1 DEF vars
<1>2. ASSUME NEW r \in Runs, Submit(r) \/ RequestCancel(r) \/ LoseLock(r) \/ ExpireLock(r)
      PROVE  HandsOK'
  BY <1>b, <1>2, ApiMoves DEF LoseLock, ExpireLock
<1>3. ASSUME NEW w \in Workers, NEW r \in Runs, Receive(w, r)
      PROVE  HandsOK'
  <2>1. /\ pc'[w] = "claimed" /\ job'[w] = r
        /\ delivery'[w] = deliveries[r] + 1 /\ deliveries'[r] = deliveries[r] + 1
        /\ OthersStill(w)
    BY <1>3 DEF Receive, GoTo, TypeOK, OthersStill, Still
  <2>2. deliveries[r] \in Nat
    BY DEF TypeOK
  <2>. QED  BY <1>a, <2>1, <2>2
<1>4. ASSUME NEW w \in Workers,
             Inspect(w) \/ Fault(w) \/ Crash(w) \/ DeadLetter(w) \/ Drain(w) \/ Settle(w)
      PROVE  HandsOK'
  <2>1. /\ pc[w] # "idle" /\ UNCHANGED deliveries /\ OthersStill(w)
        /\ Released(w) \/ (Continues(w) /\ pc'[w] \in {"drain", "load", "failed"})
    BY <1>4, InsideMoves, SettleMoves DEF queueVars
  <2>. QED  BY <1>a, <1>c, <2>1 DEF Released
<1>5. ASSUME NEW w \in Workers, Execute(w)
      PROVE  HandsOK'
  <2>1. /\ pc[w] # "idle" /\ UNCHANGED deliveries /\ OthersStill(w)
        /\ Released(w) \/ Continues(w)
        /\ Publish(w) \/ files' = files
        /\ pc'[w] = "verify" => Publish(w)
        /\ pc'[w] = "finish" => pc[w] = "verify"
    BY <1>5, ExecuteMoves DEF queueVars
  <2>2. ASSUME pc'[w] = "verify", NEW a \in Artifacts
        PROVE  files'[job'[w]][a] = delivery'[w]
    <3>1. PICK b \in Artifacts :
              /\ files' = [files EXCEPT ![job[w]][b] = delivery[w]]
              /\ Artifacts \subseteq Written(w) \union {b}
      BY <2>1, <2>2 DEF Publish, GoTo, TypeOK
    <3>2. job[w] \in Runs /\ job'[w] = job[w] /\ delivery'[w] = delivery[w]
      BY <2>1, <2>2 DEF Released, Continues, TypeOK
    <3>. QED  BY <3>1, <3>2 DEF Written, TypeOK
  <2>3. ASSUME pc'[w] = "finish", NEW a \in Artifacts
        PROVE  files'[job'[w]][a] = delivery'[w]
    <3>1. pc[w] = "verify" /\ Continues(w) /\ files' = files
      BY <2>1, <2>3 DEF Released, Publish
    <3>. QED  BY <3>1 DEF HandsOK, Continues
  <2>. QED  BY <1>a, <1>c, <2>1, <2>2, <2>3 DEF Released
<1>. QED
  BY <1>1, <1>2, <1>3, <1>4, <1>5 DEF Next, WorkerStep, Claim

Published(r) == db[r].status \in {"succeeded", "partial"}

\* A run becomes succeeded or partial only when a worker finishes it.
LEMMA PublishedByFinish ==
    ASSUME IInv, [Next]_vars, NEW r \in Runs, Published(r)', ~ Published(r)
    PROVE  \E w \in Workers : Finish(w) /\ job[w] = r
<1>. USE DEF Published
<1>0. New.status = "queued"
  BY DEF New, NoManifest
<1>1. Fail(New, LastStage).status = "failed" /\ Cancel(New, LastStage).status = "cancelled"
  BY NewType, LastStageType, StopShape
<1>2. ASSUME UNCHANGED db
      PROVE  FALSE
  BY <1>2
<1>3. ASSUME NEW q \in Runs, NEW m, m.status \notin {"succeeded", "partial"},
             db' = [db EXCEPT ![q] = m] \/ Save(q, m) \/ SaveRefused(q, m)
      PROVE  FALSE
  BY <1>3 DEF Save, SaveRefused, IInv, TypeOK
<1>4. CASE UNCHANGED vars
  BY <1>2, <1>4 DEF vars, storeVars
<1>5. ASSUME NEW q \in Runs, Submit(q) \/ RequestCancel(q) \/ LoseLock(q) \/ ExpireLock(q)
      PROVE  FALSE
  <2>1. CASE Create(q)
    BY <1>0, <1>3, <2>1 DEF Create
  <2>2. CASE RejectSubmission(q)
    BY <1>1, <1>3, <2>2 DEF RejectSubmission
  <2>3. CASE SaveCancelQueued(q)
    BY <1>1, <1>3, <2>3 DEF SaveCancelQueued
  <2>4. CASE Enqueue(q) \/ ReadForCancel(q) \/ RequestCancellation(q) \/ LoseLock(q) \/ ExpireLock(q)
    BY <1>2, <2>4 DEF Enqueue, ReadForCancel, RequestCancellation, LoseLock, ExpireLock, storeVars
  <2>. QED  BY <1>5, <2>1, <2>2, <2>3, <2>4 DEF Submit, RequestCancel
<1>6. ASSUME NEW w \in Workers,
             (\E q \in Runs : Receive(w, q)) \/ Claim(w) \/ Settle(w) \/ Fault(w) \/ Crash(w)
      PROVE  FALSE
  BY <1>2, <1>6
     DEF Receive, Claim, DeadLetter, Inspect, Drain, Settle, Fault, Crash, LocalStep, storeVars
<1>7. ASSUME NEW w \in Workers, Execute(w)
      PROVE  Finish(w) /\ job[w] = r
  <2>1. SnapOK(w) /\ job[w] \in Runs /\ snap[w] \in Manifest
    BY <1>7, ExecuteMoves DEF IInv, TypeOK
  <2>2. CASE StartRun(w) \/ SaveCancel(w) \/ SaveFail(w)
    <3>1. snap[w].status \notin {"succeeded", "partial"}
      BY <2>1, <2>2 DEF StartRun, SaveCancel, SaveFail, SnapOK
    <3>. QED  BY <1>3, <2>1, <2>2, <3>1 DEF StartRun, SaveCancel, SaveFail
  <2>3. CASE SkipStage(w) \/ StartStage(w) \/ FinishStage(w)
    <3>1. snap[w].status = "running"
      BY <2>1, <2>3 DEF SkipStage, StartStage, FinishStage, SnapOK, Guarded
    <3>2. ASSUME NEW s, NEW status
          PROVE  WithStage(snap[w], s, status).status = "running"
      BY <2>1, <3>1 DEF WithStage, Manifest
    <3>3. PICK status \in {"skipped", "running", "succeeded"}, next \in {"stage", "work"} :
              SaveStage(w, status, next)
      BY <2>3 DEF SkipStage, StartStage, FinishStage
    <3> DEFINE m == WithStage(snap[w], ActiveStage(snap[w]), status)
    <3>4. m.status = "running" /\ (Save(job[w], m) \/ SaveRefused(job[w], m))
      BY <3>2, <3>3 DEF SaveStage
    <3>. HIDE DEF m
    <3>. QED  BY <1>3, <2>1, <3>4
  <2>4. CASE Finish(w)
    <3>1. Save(job[w], snap[w])
      BY <1>2, <2>4 DEF Finish, SaveRefused
    <3>. QED  BY <2>4, <3>1 DEF Save, IInv, TypeOK
  <2>5. CASE ~ (\/ StartRun(w) \/ SaveCancel(w) \/ SaveFail(w) \/ SkipStage(w)
                \/ StartStage(w) \/ FinishStage(w) \/ Finish(w))
    <3>1. UNCHANGED db
      BY <1>7, <2>5
         DEF Execute, Load, Precheck, BeginStage, Checkpoint, Build, Publish, Verify,
             HandleCancellation, HandleFailure, LocalStep, storeVars
    <3>. QED  BY <1>2, <3>1
  <2>. QED  BY <2>2, <2>3, <2>4, <2>5
<1>. QED  BY <1>4, <1>5, <1>6, <1>7 DEF Next, WorkerStep

LEMMA NextPublished ==
    ASSUME PInv, [Next]_vars
    PROVE  RowsPublished'
<1>. USE DEF PInv
<1>0. Kept /\ TypeOK
  BY NextKept DEF IInv
<1>. SUFFICES ASSUME NEW r \in Runs, Published(r)'
              PROVE  \E d \in 1 .. deliveries'[r] : \A a \in Artifacts : files'[r][a] = d
  BY DEF RowsPublished, Published
<1>1. PICK d \in 1 .. deliveries[r] : \A a \in Artifacts : files[r][a] = d
  <2>1. CASE Published(r)
    BY <2>1 DEF RowsPublished, Published
  <2>2. CASE ~ Published(r)
    <3>1. PICK w \in Workers : Finish(w) /\ job[w] = r
      BY <2>2, PublishedByFinish
    <3>. QED  BY <3>1 DEF Finish, HandsOK
  <2>. QED  BY <2>1, <2>2
<1>2. deliveries[r] \in Nat /\ d \in 1 .. deliveries'[r] /\ d # 0
  BY <1>0, <1>1 DEF Kept, TypeOK
<1>3. \A a \in Artifacts : files'[r][a] = d
  BY <1>0, <1>1, <1>2 DEF Kept
<1>. QED  BY <1>2, <1>3

\* A succeeded run completed every required stage, and all the artifacts of a
\* succeeded or partial run were written by one delivery of its message, for
\* any number of redeliveries, crashes and overlapping executions.
THEOREM PublishedCorrect == Spec => []PublishedIsComplete
<1>1. Init => HandsOK /\ RowsPublished
  BY DEF Init, HandsOK, RowsPublished, NoManifest
<1>2. PInv /\ [Next]_vars => PInv'
  BY NextIInv, NextHands, NextPublished DEF PInv, IInv
<1>3. PInv => PublishedIsComplete
  <2>. SUFFICES ASSUME PInv, NEW r \in Runs
                PROVE  /\ db[r].status = "succeeded" =>
                              \A s \in RequiredOf(r) : db[r].stages[s] = "succeeded"
                       /\ Published(r) =>
                              \E d \in 1 .. deliveries[r] :
                                  \A a \in db[r].artifacts : files[r][a] = d
    BY DEF PublishedIsComplete, Published
  <2>1. db[r].status \in {"succeeded", "partial"} => Savable(r, db[r])
    BY DEF PInv, IInv, RowOK
  <2>. QED  BY <2>1 DEF PInv, RowsPublished, Savable, Published
<1>. QED  BY <1>1, <1>2, <1>3, InitIInv, PTL DEF Spec, PInv

(***************************************************************************)
(* A run cancelled while it was queued                                     *)
(***************************************************************************)

\* No stage is at work, or was.
Clean(m) == \A s \in Stages : m.stages[s] \notin {"running", "succeeded"}

\* Points at which an execution holds a manifest.
Holding == Executing \ {"load"}

\* An execution that has worked at no stage, and is not about to.
Fresh(w) == Clean(snap[w]) /\ pc[w] \notin {"startStage", "work", "finishStage"}

Begun(r) == db[r].status \notin {"absent", "queued"}

\* Before the row says that it runs, no execution is past the start of the run.
WorkOK ==
    \A w \in Workers : pc[w] \in Holding =>
        \/ Fresh(w) /\ pc[w] \in {"precheck", "start", "saveCancel"}
        \/ Begun(job[w])

\* The flag is up and nobody has work of the run to save.
Barred(r) ==
    /\ cancelFlag[r]
    /\ Clean(db[r])
    /\ \A w \in Workers : pc[w] \in Holding /\ job[w] = r => Fresh(w)

\* What is built of a clean manifest is clean, unless a stage is started or
\* finished.
LEMMA CleanBuilt ==
    ASSUME NEW m \in Manifest, Clean(m), NEW s \in Stages
    PROVE  /\ Clean(Start(m)) /\ Clean(Fail(m, s)) /\ Clean(Cancel(m, s))
           /\ Clean(WithStage(m, s, "skipped"))
           /\ \A r : Clean(Outcome(r, m))
<1>1. /\ CloseStage(m, s, "failed") = m /\ CloseStage(m, s, "cancelled") = m
  BY DEF Clean, CloseStage
<1>2. Clean(Start(m)) /\ Clean(Fail(m, s)) /\ Clean(Cancel(m, s))
  BY <1>1 DEF Clean, Start, Fail, Cancel, Manifest
<1>3. Clean(WithStage(m, s, "skipped"))
  BY DEF Clean, WithStage, Manifest
<1>4. Clean(Succeed(m)) /\ Clean(CompletePartial(m))
  BY DEF Clean, Succeed, CompletePartial, Manifest
<1>. QED  BY <1>2, <1>3, <1>4 DEF Outcome

\* A queued run is clean.
LEMMA CleanStart ==
    /\ Clean(New)
    /\ \A m : AllQueued(m) => Clean(m)
    /\ New \in Manifest /\ LastStage \in Stages
BY NewType, LastStageType DEF Clean, New, NoManifest, AllQueued

\* A run that has begun stays so.
LEMMA StaysBegun ==
    ASSUME IInv, RowsStep, NEW r \in Runs, Begun(r)
    PROVE  Begun(r)'
<1>1. submission[r] # "none"
  BY DEF IInv, RowOK, Begun
<1>. QED  BY <1>1 DEF RowsStep, Savable, TerminalStatus, Save, Begun, IInv, TypeOK

\* A step of an execution that does no work leaves nothing but clean manifests,
\* once the flag is up.
LEMMA ExecuteClean ==
    ASSUME IInv, NEW w \in Workers, Execute(w), pc[w] \in Holding => Fresh(w),
           Clean(db[job[w]]), cancelFlag[job[w]]
    PROVE  /\ Clean(db'[job[w]])
           /\ pc'[w] \in Holding => Fresh(w)'
<1> DEFINE r == job[w]
           Goal == /\ Clean(db'[r])
                   /\ pc'[w] \in Holding => Fresh(w)'
<1>1. TypeOK /\ pc[w] # "idle"
  BY ExecuteMoves DEF IInv
<1>2. /\ r \in Runs /\ db[r] \in Manifest /\ snap[w] \in Manifest
      /\ ActiveStage(snap[w]) \in Stages
  BY <1>1, ActiveStageType DEF TypeOK
<1>3. ASSUME NEW point \in Points, GoTo(w, point), UNCHANGED <<db, snap>>, Fresh(w),
             point \notin {"startStage", "work", "finishStage"}
      PROVE  Goal
  BY <1>1, <1>3 DEF GoTo, TypeOK, Fresh
<1>4. ASSUME NEW point \in Points, GoTo(w, point), db' = db,
             NEW m \in Manifest, Clean(m), snap' = [snap EXCEPT ![w] = m],
             point \notin {"startStage", "work", "finishStage"}
      PROVE  Goal
  BY <1>1, <1>4 DEF GoTo, TypeOK, Fresh
<1>5. ASSUME pc'[w] \notin Holding, db' = db
      PROVE  Goal
  BY <1>5
<1>6. ASSUME NEW m, Clean(m), Save(r, m), pc'[w] \in Holding => Fresh(w)'
      PROVE  Goal
  BY <1>1, <1>2, <1>6 DEF Save, TypeOK
<1>7. ASSUME NEW status, Return(w, status) \/ Restart(w)
      PROVE  pc'[w] \notin Holding
  BY <1>1, <1>7 DEF Return, Restart, BackToClaim, GoTo, TypeOK, Holding, Executing, Guarded
<1> SUFFICES Goal
  OBVIOUS
<1> HIDE DEF Goal, r
<1>8. CASE Load(w)
  <2>1. CASE Return(w, db[r].status)
    BY <1>5, <1>7, <1>8, <2>1 DEF Load, storeVars
  <2>2. CASE ~ Return(w, db[r].status)
    <3>1. PICK point \in {"precheck", "stage"} :
              GoTo(w, point) /\ snap' = [snap EXCEPT ![w] = db[r]] /\ db' = db
      BY <1>8, <2>2 DEF Load, storeVars, r
    <3>2. point \in Points
      BY DEF Points, Executing, Guarded
    <3>. QED  BY <1>2, <1>4, <3>1, <3>2 DEF r
  <2>. QED  BY <2>1, <2>2
<1>9. CASE Precheck(w)
  <2>1. pc[w] = "precheck" /\ pc[w] \in Holding /\ db' = db
    BY <1>9 DEF Precheck, LocalStep, storeVars, Holding, Executing, Guarded
  <2>2. Clean(snap[w])
    BY <2>1 DEF Fresh
  <2>3. /\ Start(snap[w]) \in Manifest /\ Cancel(snap[w], ActiveStage(snap[w])) \in Manifest
        /\ Clean(Start(snap[w])) /\ Clean(Cancel(snap[w], ActiveStage(snap[w])))
    BY <1>2, <2>2, CleanBuilt, StartType, StopType
  <2>4. PICK point \in {"saveCancel", "start"},
             m \in {Start(snap[w]), Cancel(snap[w], ActiveStage(snap[w]))} :
            GoTo(w, point) /\ snap' = [snap EXCEPT ![w] = m]
    BY <1>9 DEF Precheck
  <2>5. point \in Points
    BY DEF Points, Executing, Guarded
  <2>. QED  BY <1>4, <2>1, <2>3, <2>4, <2>5
<1>10. CASE StartRun(w) \/ Finish(w) \/ SaveCancel(w) \/ SaveFail(w)
  <2>1. pc[w] \in {"start", "finish", "saveCancel", "saveFail"} /\ pc[w] \in Holding
    BY <1>10 DEF StartRun, Finish, SaveCancel, SaveFail, Holding, Executing, Guarded
  <2>2. Fresh(w) /\ Clean(snap[w])
    BY <2>1 DEF Fresh
  <2>3. Save(r, snap[w]) \/ db' = db
    BY <1>10 DEF StartRun, Finish, SaveCancel, SaveFail, SaveRefused, r
  <2>4. \/ Restart(w) \/ \E status : Return(w, status)
        \/ snap' = snap /\ \E point \in {"stage", "settle", "failed"} : GoTo(w, point)
    BY <1>10 DEF StartRun, Finish, SaveCancel, SaveFail
  <2>5. pc'[w] \in Holding => Fresh(w)'
    <3>1. CASE Restart(w) \/ \E status : Return(w, status)
      BY <1>7, <3>1
    <3>2. CASE snap' = snap /\ \E point \in {"stage", "settle", "failed"} : GoTo(w, point)
      BY <1>1, <2>2, <3>2 DEF GoTo, TypeOK, Fresh
    <3>. QED  BY <2>4, <3>1, <3>2
  <2>6. db' = db => Goal
    BY <2>5 DEF Goal, r
  <2>. QED  BY <1>6, <2>2, <2>3, <2>5, <2>6
<1>11. CASE BeginStage(w) \/ Build(w) \/ Publish(w)
  <2>1. pc[w] \in Holding /\ UNCHANGED <<db, snap>>
    BY <1>11 DEF BeginStage, Build, Publish, LocalStep, storeVars, Holding, Executing, Guarded
  <2>2. PICK point \in {"build", "skipStage", "cancelled", "failed", "publish", "verify"} :
            GoTo(w, point)
    BY <1>11 DEF BeginStage, Build, Publish, CancellationRequested
  <2>3. point \in Points
    BY DEF Points, Executing, Guarded
  <2>. QED  BY <1>3, <2>1, <2>2, <2>3
<1>12. CASE SkipStage(w)
  <2> DEFINE m == WithStage(snap[w], ActiveStage(snap[w]), "skipped")
  <2>1. pc[w] \in Holding /\ SaveStage(w, "skipped", "stage")
    BY <1>12 DEF SkipStage, Holding, Executing, Guarded
  <2>2. Clean(m) /\ Fresh(w)
    BY <1>2, <2>1, CleanBuilt DEF Fresh
  <2>3. m \in Manifest
    BY <1>2, WithStageType DEF StageStatus
  <2>4. \/ Save(r, m) /\ snap' = [snap EXCEPT ![w] = m] /\ GoTo(w, "stage")
        \/ UNCHANGED <<db, snap>> /\ GoTo(w, "failed")
    BY <2>1 DEF SaveStage, SaveRefused, r
  <2> HIDE DEF m
  <2>5. CASE Save(r, m) /\ snap' = [snap EXCEPT ![w] = m] /\ GoTo(w, "stage")
    <3>1. Fresh(w)'
      BY <1>1, <2>2, <2>3, <2>5 DEF Fresh, GoTo, TypeOK
    <3>. QED  BY <1>6, <2>2, <2>5, <3>1
  <2>6. CASE UNCHANGED <<db, snap>> /\ GoTo(w, "failed")
    BY <1>3, <2>2, <2>6 DEF Points, Executing
  <2>. QED  BY <2>4, <2>5, <2>6
<1>13. CASE StartStage(w) \/ Checkpoint(w) \/ FinishStage(w)
  BY <1>13 DEF StartStage, Checkpoint, FinishStage, Fresh, Holding, Executing, Guarded
<1>14. CASE Verify(w)
  <2> DEFINE m == Outcome(r, db[r])
  <2>1. pc[w] \in Holding /\ db' = db
    BY <1>14 DEF Verify, LocalStep, storeVars, Holding, Executing, Guarded
  <2>2. m \in Manifest /\ Clean(m)
    BY <1>2, LastStageType, OutcomeType, CleanBuilt DEF r
  <2>3. \/ GoTo(w, "failed") /\ UNCHANGED snap
        \/ GoTo(w, "finish") /\ snap' = [snap EXCEPT ![w] = m]
    BY <1>14 DEF Verify, r
  <2>4. {"failed", "finish"} \subseteq Points
    BY DEF Points, Executing, Guarded
  <2> HIDE DEF m
  <2>. QED  BY <1>3, <1>4, <2>1, <2>2, <2>3, <2>4
<1>15. CASE HandleCancellation(w) \/ HandleFailure(w)
  <2>1. CASE Restart(w) \/ Return(w, db[r].status)
    BY <1>5, <1>7, <1>15, <2>1 DEF HandleCancellation, HandleFailure, storeVars
  <2>2. CASE ~ (Restart(w) \/ Return(w, db[r].status))
    <3>1. PICK point \in {"saveCancel", "saveFail"},
               m \in {Cancel(db[r], ActiveStage(snap[w])), Fail(db[r], ActiveStage(snap[w]))} :
              GoTo(w, point) /\ snap' = [snap EXCEPT ![w] = m]
      BY <1>15, <2>2 DEF HandleCancellation, HandleFailure, r
    <3>2. m \in Manifest /\ Clean(m)
      BY <1>2, CleanBuilt, StopType DEF r
    <3>3. db' = db /\ point \in Points
      BY <1>15 DEF HandleCancellation, HandleFailure, storeVars, Points, Executing
    <3>. QED  BY <1>4, <3>1, <3>2, <3>3
  <2>. QED  BY <2>1, <2>2
<1>. QED
  BY <1>8, <1>9, <1>10, <1>11, <1>12, <1>13, <1>14, <1>15 DEF Execute

\* An execution writes the row of its own run.
LEMMA ExecuteRow ==
    ASSUME TypeOK, NEW w \in Workers, Execute(w), NEW q \in Runs, q # job[w]
    PROVE  db'[q] = db[q]
<1>1. ASSUME NEW m, Save(job[w], m) \/ SaveRefused(job[w], m)
      PROVE  db'[q] = db[q]
  BY <1>1 DEF Save, SaveRefused, TypeOK
<1>2. CASE StartRun(w) \/ Finish(w) \/ SaveCancel(w) \/ SaveFail(w)
  BY <1>1, <1>2 DEF StartRun, Finish, SaveCancel, SaveFail
<1>3. CASE SkipStage(w) \/ StartStage(w) \/ FinishStage(w)
  BY <1>1, <1>3 DEF SkipStage, StartStage, FinishStage, SaveStage
<1>4. CASE Load(w) \/ Precheck(w) \/ BeginStage(w) \/ Checkpoint(w) \/ Build(w) \/ Publish(w)
           \/ Verify(w) \/ HandleCancellation(w) \/ HandleFailure(w)
  BY <1>4
     DEF Load, Precheck, BeginStage, Checkpoint, Build, Publish, Verify, HandleCancellation,
         HandleFailure, LocalStep, storeVars
<1>. QED  BY <1>2, <1>3, <1>4 DEF Execute

\* An execution works only on a run whose row says so.
LEMMA ExecuteBegun ==
    ASSUME IInv, WorkOK, RowsStep, NEW w \in Workers, Execute(w), pc'[w] \in Holding
    PROVE  \/ Fresh(w)' /\ pc'[w] \in {"precheck", "start", "saveCancel"}
           \/ Begun(job[w])'
<1> DEFINE r == job[w]
<1>1. TypeOK /\ pc[w] # "idle" /\ SnapOK(w)
  BY ExecuteMoves DEF IInv
<1>2. /\ r \in Runs /\ db[r] \in Manifest /\ snap[w] \in Manifest
      /\ ActiveStage(snap[w]) \in Stages /\ RowOK(r)
  BY <1>1, ActiveStageType DEF TypeOK, IInv
<1>3. job'[w] = r
  BY <1>1, ExecuteMoves DEF Released, Continues, Holding, Executing, Guarded
<1>4. CASE Begun(r)
  BY <1>2, <1>3, <1>4, StaysBegun, Zenon DEF Begun
<1>5. CASE ~ Begun(r) /\ Load(w)
  <2>1. db[r].status = "queued"
    BY <1>1, <1>5 DEF Load, SnapOK, Begun
  <2>2. pc' = [pc EXCEPT ![w] = "precheck"] /\ snap' = [snap EXCEPT ![w] = db[r]]
    BY <1>5, <2>1 DEF Load, GoTo, IsTerminal, TerminalStatus
  <2>3. pc'[w] = "precheck" /\ snap'[w] = db[r] /\ Clean(db[r])
    BY <1>1, <1>2, <2>1, <2>2, CleanStart DEF TypeOK, RowOK
  <2>. QED  BY <2>3 DEF Fresh
<1>6. CASE ~ Begun(r) /\ pc[w] \in {"precheck", "start", "saveCancel"} /\ Fresh(w)
  <2>1. CASE Precheck(w)
    <3>1. Clean(Start(snap[w])) /\ Clean(Cancel(snap[w], ActiveStage(snap[w])))
      BY <1>2, <1>6, CleanBuilt DEF Fresh
    <3>2. PICK point \in {"saveCancel", "start"},
               m \in {Start(snap[w]), Cancel(snap[w], ActiveStage(snap[w]))} :
              GoTo(w, point) /\ snap' = [snap EXCEPT ![w] = m]
      BY <2>1 DEF Precheck
    <3>3. pc'[w] = point /\ snap'[w] = m
      BY <1>1, <3>2 DEF GoTo, TypeOK
    <3>. QED  BY <3>1, <3>3 DEF Fresh
  <2>2. CASE StartRun(w)
    <3>1. Save(r, snap[w]) /\ snap[w].status = "running"
      BY <1>1, <2>2 DEF StartRun, SnapOK, Restart, BackToClaim, GoTo, TypeOK, Holding, Executing, Guarded
    <3>2. db'[r].status = "running"
      BY <1>1, <1>2, <3>1 DEF Save, TypeOK
    <3>. QED  BY <1>3, <3>2 DEF Begun
  <2>3. CASE SaveCancel(w)
    BY <1>1, <2>3 DEF SaveCancel, Return, Restart, BackToClaim, GoTo, TypeOK, Holding, Executing, Guarded
  <2>. QED
    BY <1>6, <2>1, <2>2, <2>3
       DEF Execute, Load, BeginStage, SkipStage, StartStage, Checkpoint, FinishStage, Build,
           Publish, Verify, Finish, HandleCancellation, HandleFailure, SaveFail
<1>7. pc[w] \in Holding \/ Load(w)
  BY DEF Execute, Precheck, StartRun, BeginStage, SkipStage, StartStage, Checkpoint, FinishStage,
         Build, Publish, Verify, Finish, HandleCancellation, SaveCancel, HandleFailure, SaveFail,
         Holding, Executing, Guarded
<1>. QED  BY <1>4, <1>5, <1>6, <1>7 DEF WorkOK

\* What a step that is not an execution's does to the points.
LEMMA OtherWork ==
    ASSUME IInv, NEW w \in Workers,
           \/ \E r \in Runs : Receive(w, r)
           \/ Claim(w) \/ Settle(w) \/ Fault(w) \/ Crash(w)
    PROVE  /\ db' = db /\ cancelFlag' = cancelFlag
           /\ \A v \in Workers \ {w} : Waits(v)
           /\ pc'[w] \in Holding =>
                 /\ pc[w] \in Guarded /\ pc'[w] = "failed"
                 /\ job'[w] = job[w] /\ snap'[w] = snap[w]
<1>1. TypeOK
  BY DEF IInv
<1>2. CASE \E r \in Runs : Receive(w, r)
  BY <1>1, <1>2 DEF Receive, GoTo, storeVars, TypeOK, Waits, Holding, Executing, Guarded
<1>3. CASE Inspect(w) \/ Fault(w)
  <2>1. PICK point \in {"drain", "load", "failed"} :
            GoTo(w, point) /\ (point = "failed" => pc[w] \in Guarded)
    BY <1>3 DEF Inspect, Fault
  <2>2. UNCHANGED <<db, cancelFlag, job, snap>>
    BY <1>3 DEF Inspect, Fault, LocalStep, storeVars
  <2>. QED  BY <1>1, <2>1, <2>2 DEF GoTo, TypeOK, Waits, Holding, Executing, Guarded
<1>4. CASE DeadLetter(w) \/ Drain(w) \/ Settle(w) \/ Crash(w)
  <2>1. BackToClaim(w) /\ UNCHANGED <<db, cancelFlag>>
    BY <1>4 DEF DeadLetter, Drain, Settle, Crash, SettleAs, Restart, storeVars
  <2>. QED  BY <1>1, <2>1, BackToClaimOthers DEF Holding, Executing, Guarded
<1>. QED  BY <1>2, <1>3, <1>4 DEF Claim

\* Steps that no worker takes.
LEMMA OutsideWork ==
    ASSUME IInv,
           \/ \E r \in Runs : Submit(r) \/ RequestCancel(r) \/ LoseLock(r) \/ ExpireLock(r)
           \/ UNCHANGED vars
    PROVE  /\ UNCHANGED <<pc, job, snap>>
           /\ \A q \in Runs : cancelFlag[q] => cancelFlag'[q]
           /\ \A q \in Runs : Clean(db[q]) => Clean(db'[q])
<1>1. TypeOK
  BY DEF IInv
<1>2. UNCHANGED <<pc, job, snap>>
  <2>1. ASSUME NEW r \in Runs, LoseLock(r) \/ ExpireLock(r)
        PROVE  UNCHANGED <<pc, job, snap>>
    BY <2>1 DEF LoseLock, ExpireLock, workerVars
  <2>2. ASSUME NEW r \in Runs, Submit(r) \/ RequestCancel(r)
        PROVE  UNCHANGED <<pc, job, snap>>
    BY <2>2, ApiMoves DEF workerVars
  <2>3. UNCHANGED vars => UNCHANGED <<pc, job, snap>>
    BY DEF vars, workerVars
  <2>. QED  BY <2>1, <2>2, <2>3
<1>3. \A q \in Runs : cancelFlag[q] => cancelFlag'[q]
  <2>1. ASSUME NEW r \in Runs, LoseLock(r) \/ ExpireLock(r)
        PROVE  cancelFlag' = cancelFlag
    BY <2>1 DEF LoseLock, ExpireLock, storeVars
  <2>2. ASSUME NEW r \in Runs, Submit(r) \/ RequestCancel(r)
        PROVE  cancelFlag' = cancelFlag \/ cancelFlag' = [cancelFlag EXCEPT ![r] = TRUE]
    BY <2>2, ApiMoves
  <2>3. UNCHANGED vars => cancelFlag' = cancelFlag
    BY DEF vars, storeVars
  <2>. QED  BY <1>1, <2>1, <2>2, <2>3 DEF TypeOK
<1>4. \/ db' = db
      \/ \E r \in Runs, m \in Manifest : Clean(m) /\ db' = [db EXCEPT ![r] = m]
  <2>1. /\ New \in Manifest /\ Clean(New)
        /\ Fail(New, LastStage) \in Manifest /\ Clean(Fail(New, LastStage))
        /\ Cancel(New, LastStage) \in Manifest /\ Clean(Cancel(New, LastStage))
    BY CleanStart, CleanBuilt, StopType
  <2>2. ASSUME NEW r \in Runs, Submit(r) \/ RequestCancel(r)
        PROVE  db' = db \/ \E m \in Manifest : Clean(m) /\ db' = [db EXCEPT ![r] = m]
    BY <2>1, <2>2
       DEF Submit, Create, Enqueue, RejectSubmission, RequestCancel, ReadForCancel,
           SaveCancelQueued, RequestCancellation, Save, SaveRefused, storeVars
  <2>3. ASSUME NEW r \in Runs, LoseLock(r) \/ ExpireLock(r)
        PROVE  db' = db
    BY <2>3 DEF LoseLock, ExpireLock, storeVars
  <2>4. UNCHANGED vars => db' = db
    BY DEF vars, storeVars
  <2>. QED  BY <2>2, <2>3, <2>4
<1>. QED
  <2>1. \A q \in Runs : Clean(db[q]) => Clean(db'[q])
    BY <1>1, <1>4 DEF TypeOK
  <2>. QED  BY <1>2, <1>3, <2>1

\* Every step keeps the executions within what the rows say.
LEMMA NextWork ==
    ASSUME IInv, WorkOK, [Next]_vars
    PROVE  WorkOK'
<1>1. TypeOK /\ RowsStep
  BY NextRows DEF IInv
<1>2. ASSUME NEW v \in Workers, Waits(v), pc'[v] \in Holding
      PROVE  \/ Fresh(v)' /\ pc'[v] \in {"precheck", "start", "saveCancel"}
             \/ Begun(job[v])'
  <2>1. job[v] \in Runs /\ job'[v] = job[v] /\ pc'[v] = pc[v] /\ snap'[v] = snap[v]
    BY <1>1, <1>2 DEF TypeOK, Waits, Holding, Executing, Guarded
  <2>2. CASE Fresh(v) /\ pc[v] \in {"precheck", "start", "saveCancel"}
    BY <2>1, <2>2 DEF Fresh
  <2>3. CASE Begun(job[v])
    <3>1. db'[job[v]].status \notin {"absent", "queued"}
      BY <1>1, <2>1, <2>3, StaysBegun DEF Begun
    <3>. QED  BY <2>1, <3>1 DEF Begun
  <2>. QED  BY <1>2, <2>1, <2>2, <2>3 DEF WorkOK
<1>3. CASE \/ \E r \in Runs : Submit(r) \/ RequestCancel(r) \/ LoseLock(r) \/ ExpireLock(r)
           \/ UNCHANGED vars
  BY <1>2, <1>3, OutsideWork DEF WorkOK, Waits
<1>4. ASSUME NEW w \in Workers,
             \/ \E r \in Runs : Receive(w, r)
             \/ Claim(w) \/ Settle(w) \/ Fault(w) \/ Crash(w)
      PROVE  WorkOK'
  <2>1. /\ \A v \in Workers \ {w} : Waits(v)
        /\ db' = db
        /\ pc'[w] \in Holding => pc[w] \in Guarded /\ job'[w] = job[w]
    BY <1>4, OtherWork
  <2>2. pc'[w] \in Holding => Begun(job[w])'
    <3>1. pc[w] \in Guarded => Begun(job[w])
      BY DEF WorkOK, Holding, Executing, Guarded
    <3>. QED  BY <2>1, <3>1 DEF Begun
  <2>. QED  BY <1>2, <2>1, <2>2 DEF WorkOK
<1>5. ASSUME NEW w \in Workers, Execute(w)
      PROVE  WorkOK'
  <2>1. \A v \in Workers \ {w} : Waits(v)
    BY <1>1, <1>5, ExecuteSnap
  <2>. QED  BY <1>1, <1>2, <1>5, <2>1, ExecuteBegun DEF WorkOK
<1>. QED  BY <1>3, <1>4, <1>5 DEF Next, WorkerStep

\* Once nobody has work of the run to save, nobody will.
LEMMA NextBarred ==
    ASSUME IInv, NEW r \in Runs, Barred(r), [Next]_vars
    PROVE  Barred(r)'
<1>1. TypeOK /\ RowsStep
  BY NextRows DEF IInv
<1>2. ASSUME NEW v \in Workers, Waits(v), pc'[v] \in Holding, job'[v] = r
      PROVE  Fresh(v)'
  BY <1>2 DEF Waits, Barred, Fresh
<1>3. CASE \/ \E q \in Runs : Submit(q) \/ RequestCancel(q) \/ LoseLock(q) \/ ExpireLock(q)
           \/ UNCHANGED vars
  <2>1. UNCHANGED <<pc, job, snap>> /\ cancelFlag'[r] /\ Clean(db'[r])
    BY <1>3, OutsideWork DEF Barred
  <2>. QED  BY <2>1 DEF Barred, Fresh
<1>4. ASSUME NEW w \in Workers,
             \/ \E q \in Runs : Receive(w, q)
             \/ Claim(w) \/ Settle(w) \/ Fault(w) \/ Crash(w)
      PROVE  Barred(r)'
  <2>1. /\ \A v \in Workers \ {w} : Waits(v)
        /\ db' = db /\ cancelFlag' = cancelFlag
        /\ pc'[w] \in Holding => /\ pc[w] \in Guarded /\ pc'[w] = "failed"
                                 /\ job'[w] = job[w] /\ snap'[w] = snap[w]
    BY <1>4, OtherWork
  <2>2. pc'[w] \in Holding /\ job'[w] = r => Fresh(w)'
    BY <2>1 DEF Barred, Fresh, Holding, Executing, Guarded
  <2>. QED  BY <1>2, <2>1, <2>2 DEF Barred
<1>5. ASSUME NEW w \in Workers, Execute(w)
      PROVE  Barred(r)'
  <2>1. /\ \A v \in Workers \ {w} : Waits(v)
        /\ cancelFlag' = cancelFlag
        /\ pc'[w] \in Holding => job'[w] = job[w]
    BY <1>1, <1>5, ExecuteSnap, ExecuteMoves
       DEF Released, Continues, Holding, Executing, Guarded
  <2>2. CASE job[w] = r
    <3>1. Clean(db'[r]) /\ (pc'[w] \in Holding => Fresh(w)')
      BY <1>5, <2>2, ExecuteClean DEF Barred
    <3>. QED  BY <1>2, <2>1, <3>1 DEF Barred
  <2>3. CASE job[w] # r
    <3>1. db'[r] = db[r]
      BY <1>1, <1>5, <2>3, ExecuteRow
    <3>2. pc'[w] \in Holding => job'[w] # r
      BY <2>1, <2>3
    <3>. QED  BY <1>2, <2>1, <3>1, <3>2 DEF Barred
  <2>. QED  BY <2>2, <2>3
<1>. QED  BY <1>3, <1>4, <1>5 DEF Next, WorkerStep

\* A run whose cancellation is requested while it is queued never shows a stage
\* running or succeeded, even when a worker read the flag before the request and
\* starts the run after it (the prechecks and checkpoints of
\* AnalysisExecutor.execute).
THEOREM CancelledNeverWorks == Spec => CancelledWhileQueuedNeverWorks
<1> DEFINE WInv == IInv /\ WorkOK
<1>1. Spec => []WInv
  <2>1. Init => WorkOK
    BY DEF Init, WorkOK, Holding, Executing, Guarded
  <2>. QED  BY <2>1, NextWork, NextIInv, InitIInv, PTL DEF Spec
<1>2. ASSUME NEW r \in Runs
      PROVE  Spec => [](cancelFlag[r] /\ db[r].status = "queued" => []NeverWorks(r))
  <2>1. WInv /\ cancelFlag[r] /\ db[r].status = "queued" => Barred(r)
    <3>1. WInv /\ db[r].status = "queued" => Clean(db[r])
      BY CleanStart DEF IInv, RowOK
    <3>2. WInv /\ db[r].status = "queued" =>
              \A w \in Workers : pc[w] \in Holding /\ job[w] = r => Fresh(w)
      BY DEF WorkOK, Begun
    <3>. QED  BY <3>1, <3>2 DEF Barred
  <2>2. WInv /\ Barred(r) /\ [Next]_vars => Barred(r)'
    BY NextBarred
  <2>3. Barred(r) => NeverWorks(r)
    BY DEF Barred, Clean, NeverWorks
  <2>. QED  BY <1>1, <2>1, <2>2, <2>3, PTL DEF Spec
<1>. QED  BY <1>2 DEF CancelledWhileQueuedNeverWorks

=============================================================================
