----------------------------- MODULE Execution -----------------------------
(***************************************************************************)
(* The cloud execution plane: the API's submission and cancellation        *)
(* handlers, the PostgreSQL repository (every save locks the row and       *)
(* checks the transition, so it is one atomic step), the write-once        *)
(* artifact store, the Service Bus peek-lock queue and the workers, whose  *)
(* executor works on a LOCAL copy of the manifest between two transactions.*)
(*                                                                         *)
(* A worker is described by pc[w], the point its main loop has reached     *)
(* (worker.py, AzureServiceBusQueue.claim and AnalysisExecutor.execute),   *)
(* and by the variables of that call: job[w] and snap[w].  An exception    *)
(* that leaves main() ends the process; the container is restarted.        *)
(***************************************************************************)
EXTENDS AnalysisRun

CONSTANTS
    Runs,           \* attempts that may be submitted
    Workers,        \* worker processes
    Params,         \* profile and force_partial parameter an attempt may have
    FailStage,      \* stage at which the test_fail profile stops
    MaxDelivery,    \* deliveries after which claim dead-letters a message
    MaxCrashes,     \* bound on worker crashes
    MaxLapses,      \* bound on locks lost while their holder is alive
    NoWorker, NoRun

ASSUME ExecutionAssumption ==
    /\ Params \subseteq [profile : Profiles, partial : BOOLEAN]
    /\ FailStage \in Stages
    /\ MaxDelivery \in Nat
    /\ MaxCrashes \in Nat
    /\ MaxLapses \in Nat
    /\ NoWorker \notin Workers
    /\ NoRun \notin Runs

VARIABLES
    params,         \* params[r]: parameters fixed when r is created
    db,             \* db[r]: manifest column of the attempt's row
    cancelFlag,     \* cancelFlag[r]: cancel_requested column
    files,          \* files[r][a]: delivery under which a was written, 0 if absent
    submission,     \* submission[r]: progress of the API call that submits r
    cancelling,     \* runs an API cancel call has read as queued, not yet saved
    message,        \* message[r]: the Service Bus message of r
    owner,          \* owner[r]: worker whose peek-lock on the message is valid
    deliveries,     \* deliveries[r]: delivery_count of the message
    pc, job, snap,  \* the workers
    delivery,       \* delivery[w]: delivery_count of the message w received
    crashes, lapses,\* how much of MaxCrashes and MaxLapses is used
    errors,         \* history: runs that met an error of their own
    late            \* history: late[w], stage records saved by the current
                    \* execution after cancellation had been requested

apiVars == <<submission, cancelling>>
queueVars == <<message, owner, deliveries>>
storeVars == <<db, cancelFlag, files>>
workerVars == <<pc, job, snap, delivery, late>>
budgetVars == <<crashes, lapses>>

vars == <<params, storeVars, apiVars, queueVars, workerVars, budgetVars, errors>>

\* Points of the executor inside its try block: an exception is handled there.
Guarded ==
    {"stage", "skipStage", "startStage", "work", "finishStage",
     "build", "publish", "verify", "finish"}

\* Points of AnalysisExecutor.execute.
Executing ==
    Guarded \union {"load", "precheck", "start", "cancelled", "saveCancel",
                    "failed", "saveFail"}

Points == Executing \union {"idle", "claimed", "drain", "settle"}

TypeOK ==
    /\ params \in [Runs -> Params]
    /\ db \in [Runs -> Manifest]
    /\ cancelFlag \in [Runs -> BOOLEAN]
    /\ files \in [Runs -> [Artifacts -> Nat]]
    /\ submission \in [Runs -> {"none", "created", "failing", "accepted", "rejected"}]
    /\ cancelling \in SUBSET Runs
    /\ message \in [Runs -> {"none", "ready", "done", "dead"}]
    /\ owner \in [Runs -> Workers \union {NoWorker}]
    /\ deliveries \in [Runs -> Nat]
    /\ pc \in [Workers -> Points]
    /\ job \in [Workers -> Runs \union {NoRun}]
    /\ \A w \in Workers : pc[w] # "idle" => job[w] \in Runs
    /\ snap \in [Workers -> Manifest]
    /\ delivery \in [Workers -> Nat]
    /\ crashes \in 0 .. MaxCrashes
    /\ lapses \in 0 .. MaxLapses
    /\ errors \in SUBSET Runs
    /\ late \in [Workers -> Nat]

Init ==
    /\ params \in [Runs -> Params]
    /\ db = [r \in Runs |-> NoManifest]
    /\ cancelFlag = [r \in Runs |-> FALSE]
    /\ files = [r \in Runs |-> [a \in Artifacts |-> 0]]
    /\ submission = [r \in Runs |-> "none"]
    /\ cancelling = {}
    /\ message = [r \in Runs |-> "none"]
    /\ owner = [r \in Runs |-> NoWorker]
    /\ deliveries = [r \in Runs |-> 0]
    /\ pc = [w \in Workers |-> "idle"]
    /\ job = [w \in Workers |-> NoRun]
    /\ snap = [w \in Workers |-> NoManifest]
    /\ delivery = [w \in Workers |-> 0]
    /\ crashes = 0
    /\ lapses = 0
    /\ errors = {}
    /\ late = [w \in Workers |-> 0]

RequiredOf(r) == Required(params[r].profile)

\* test_fail stops its first attempt only; a Run of that profile is one.
StopsAt(r, s) == params[r].profile = "test_fail" /\ s = FailStage

(***************************************************************************)
(* The repository: one transaction per operation                           *)
(***************************************************************************)

\* save(m) commits; a caller whose transition is refused sees an exception.
Save(r, m) ==
    /\ TransitionAllowed(db[r], m)
    /\ db' = [db EXCEPT ![r] = m]

SaveRefused(r, m) == ~TransitionAllowed(db[r], m) /\ UNCHANGED db

(***************************************************************************)
(* The API process                                                         *)
(***************************************************************************)

\* coordinator.create_analysis, first part: the row of the queued attempt.
Create(r) ==
    /\ submission[r] = "none"
    /\ db' = [db EXCEPT ![r] = New]
    /\ submission' = [submission EXCEPT ![r] = "created"]
    /\ UNCHANGED <<params, cancelFlag, files, cancelling, queueVars, workerVars,
                   budgetVars, errors>>

\* Second part: store the input and send one message.  A failed call may have
\* been accepted by the broker all the same.
Enqueue(r) ==
    /\ submission[r] = "created"
    /\ \E sent, raised \in BOOLEAN :
        /\ sent \/ raised
        /\ message' = IF sent THEN [message EXCEPT ![r] = "ready"] ELSE message
        /\ submission' = [submission EXCEPT ![r] = IF raised THEN "failing" ELSE "accepted"]
        /\ errors' = IF raised THEN errors \union {r} ELSE errors
    /\ UNCHANGED <<params, storeVars, cancelling, owner, deliveries, workerVars,
                   budgetVars>>

\* The except clause: save(run.fail(...)) of the manifest as it was created.
RejectSubmission(r) ==
    /\ submission[r] = "failing"
    /\ Save(r, Fail(New, LastStage)) \/ SaveRefused(r, Fail(New, LastStage))
    /\ submission' = [submission EXCEPT ![r] = "rejected"]
    /\ UNCHANGED <<params, cancelFlag, files, cancelling, queueVars, workerVars,
                   budgetVars, errors>>

\* POST cancel that reads a queued run; queue.cancel removes no message.
ReadForCancel(r) ==
    /\ db[r].status = "queued"
    /\ r \notin cancelling
    /\ cancelling' = cancelling \union {r}
    /\ UNCHANGED <<params, storeVars, submission, queueVars, workerVars,
                   budgetVars, errors>>

\* ... and then saves the queued manifest it read as cancelled.
SaveCancelQueued(r) ==
    /\ r \in cancelling
    /\ Save(r, Cancel(New, LastStage)) \/ SaveRefused(r, Cancel(New, LastStage))
    /\ cancelling' = cancelling \ {r}
    /\ UNCHANGED <<params, cancelFlag, files, submission, queueVars, workerVars,
                   budgetVars, errors>>

\* repository.request_cancellation, which POST cancel calls when it read a
\* running run; it is recorded for any run that is not terminal.
RequestCancellation(r) ==
    /\ db[r].status \in {"queued", "running"}
    /\ ~cancelFlag[r]
    /\ cancelFlag' = [cancelFlag EXCEPT ![r] = TRUE]
    /\ UNCHANGED <<params, db, files, apiVars, queueVars, workerVars,
                   budgetVars, errors>>

\* Mutant: the flag is never found set.
MutantCancellationRequested(r) == FALSE

\* repository.cancellation_requested.
CancellationRequested(r) == cancelFlag[r]

(***************************************************************************)
(* The worker: helpers                                                     *)
(***************************************************************************)

GoTo(w, point) == pc' = [pc EXCEPT ![w] = point]

\* Back to the claim of the main loop.
BackToClaim(w) ==
    /\ GoTo(w, "idle")
    /\ job' = [job EXCEPT ![w] = NoRun]
    /\ snap' = [snap EXCEPT ![w] = NoManifest]
    /\ delivery' = [delivery EXCEPT ![w] = 0]
    /\ late' = [late EXCEPT ![w] = 0]

\* The process ends (an exception out of main, or a crash) and is restarted;
\* a lock it held is no longer renewed.
Restart(w) == BackToClaim(w)

\* execute returns status: cancelled calls queue.cancel, which settles nothing
\* and leaves the message locked; any other status settles the message.
Return(w, status) ==
    IF status = "cancelled"
    THEN BackToClaim(w)
    ELSE GoTo(w, "settle") /\ UNCHANGED <<job, snap, delivery, late>>

\* Complete or dead-letter the message of w's job; the broker refuses a holder
\* whose lock was lost, and the worker ends with that exception.
SettleAs(w, result) ==
    LET r == job[w] IN
    IF owner[r] = w
    THEN /\ message' = [message EXCEPT ![r] = result]
         /\ owner' = [owner EXCEPT ![r] = NoWorker]
         /\ BackToClaim(w)
    ELSE Restart(w) /\ UNCHANGED <<message, owner>>

\* A step of the executor that changes neither job, queue nor manifests.
LocalStep(w) ==
    UNCHANGED <<params, storeVars, apiVars, queueVars, job, delivery, late, budgetVars>>

(***************************************************************************)
(* The worker: claim                                                       *)
(***************************************************************************)

\* receive_messages under peek-lock.
Receive(w, r) ==
    /\ pc[w] = "idle"
    /\ message[r] = "ready"
    /\ owner[r] = NoWorker
    /\ owner' = [owner EXCEPT ![r] = w]
    /\ deliveries' = [deliveries EXCEPT ![r] = @ + 1]
    /\ GoTo(w, "claimed")
    /\ job' = [job EXCEPT ![w] = r]
    /\ delivery' = [delivery EXCEPT ![w] = deliveries[r] + 1]
    /\ UNCHANGED <<params, storeVars, apiVars, message, snap, late,
                   budgetVars, errors>>

NotDeliverable(w) == delivery[w] > MaxDelivery \/ db[job[w]].status = "absent"

\* A message delivered too often, or of an unknown run, is dead-lettered.
DeadLetter(w) ==
    /\ pc[w] = "claimed"
    /\ NotDeliverable(w)
    /\ SettleAs(w, "dead")
    /\ UNCHANGED <<params, storeVars, apiVars, deliveries, budgetVars, errors>>

\* Mutant: any run that was already started counts as a duplicate.
MutantInspect(w) ==
    /\ pc[w] = "claimed"
    /\ ~NotDeliverable(w)
    /\ GoTo(w, IF db[job[w]].status # "queued" THEN "drain" ELSE "load")
    /\ LocalStep(w) /\ UNCHANGED <<snap, errors>>

\* Otherwise the repository decides: drain a terminal run, execute any other.
Inspect(w) ==
    /\ pc[w] = "claimed"
    /\ ~NotDeliverable(w)
    /\ GoTo(w, IF IsTerminal(db[job[w]]) THEN "drain" ELSE "load")
    /\ LocalStep(w) /\ UNCHANGED <<snap, errors>>

\* Mutant: the loop goes on without completing the duplicate.
MutantDrain(w) ==
    /\ pc[w] = "drain"
    /\ BackToClaim(w)
    /\ UNCHANGED <<params, storeVars, apiVars, queueVars, budgetVars, errors>>

Drain(w) ==
    /\ pc[w] = "drain"
    /\ SettleAs(w, "done")
    /\ UNCHANGED <<params, storeVars, apiVars, deliveries, budgetVars, errors>>

(***************************************************************************)
(* The worker: AnalysisExecutor.execute                                    *)
(***************************************************************************)

Load(w) ==
    LET current == db[job[w]] IN
    /\ pc[w] = "load"
    /\ IF IsTerminal(current)
       THEN Return(w, current.status)
       ELSE /\ GoTo(w, IF current.status = "queued" THEN "precheck" ELSE "stage")
            /\ snap' = [snap EXCEPT ![w] = current]
            /\ UNCHANGED <<job, delivery, late>>
    /\ UNCHANGED <<params, storeVars, apiVars, queueVars, budgetVars, errors>>

\* cancellation_requested, read before a queued run is started.
Precheck(w) ==
    /\ pc[w] = "precheck"
    /\ \/ /\ CancellationRequested(job[w])
          /\ GoTo(w, "saveCancel")
          /\ snap' = [snap EXCEPT ![w] = Cancel(@, ActiveStage(@))]
       \/ /\ ~CancellationRequested(job[w])
          /\ GoTo(w, "start")
          /\ snap' = [snap EXCEPT ![w] = Start(@)]
    /\ LocalStep(w) /\ UNCHANGED errors

\* save(run.start()) is outside the try block: a refusal ends the worker.
StartRun(w) ==
    /\ pc[w] = "start"
    /\ \/ Save(job[w], snap[w]) /\ GoTo(w, "stage") /\ UNCHANGED <<job, snap, delivery, late>>
       \/ SaveRefused(job[w], snap[w]) /\ Restart(w)
    /\ UNCHANGED <<params, cancelFlag, files, apiVars, queueVars, budgetVars, errors>>

\* The head of the stage loop: pass over an unsupported stage, stop at a
\* checkpoint, meet the test failure, or start the stage.
BeginStage(w) ==
    LET r == job[w]
        s == ActiveStage(snap[w])
    IN
    /\ pc[w] = "stage"
    /\ \/ /\ Pending(snap[w]) = {}
          /\ GoTo(w, "build") /\ UNCHANGED errors
       \/ /\ Pending(snap[w]) # {} /\ s \notin RequiredOf(r)
          /\ GoTo(w, "skipStage") /\ UNCHANGED errors
       \/ /\ Pending(snap[w]) # {} /\ s \in RequiredOf(r) /\ CancellationRequested(r)
          /\ GoTo(w, "cancelled") /\ UNCHANGED errors
       \/ /\ Pending(snap[w]) # {} /\ s \in RequiredOf(r) /\ ~CancellationRequested(r)
          /\ StopsAt(r, s)
          /\ GoTo(w, "failed") /\ errors' = errors \union {r}
       \/ /\ Pending(snap[w]) # {} /\ s \in RequiredOf(r) /\ ~CancellationRequested(r)
          /\ ~StopsAt(r, s)
          /\ GoTo(w, "startStage") /\ UNCHANGED errors
    /\ LocalStep(w) /\ UNCHANGED snap

\* run.with_stages(...) and save; a refusal is handled by the except clause.
SaveStage(w, status, next) ==
    LET updated == WithStage(snap[w], ActiveStage(snap[w]), status) IN
    /\ \/ /\ Save(job[w], updated)
          /\ snap' = [snap EXCEPT ![w] = updated]
          /\ GoTo(w, next)
          /\ late' = IF cancelFlag[job[w]] /\ status # "skipped"
                     THEN [late EXCEPT ![w] = @ + 1]
                     ELSE late
       \/ SaveRefused(job[w], updated) /\ GoTo(w, "failed") /\ UNCHANGED <<snap, late>>
    /\ UNCHANGED <<params, cancelFlag, files, apiVars, queueVars, job, delivery,
                   budgetVars, errors>>

\* Mutant: a status StageStatus does not have.
MutantSkipStage(w) == pc[w] = "skipStage" /\ SaveStage(w, "unsupported", "stage")

SkipStage(w) == pc[w] = "skipStage" /\ SaveStage(w, "skipped", "stage")

StartStage(w) == pc[w] = "startStage" /\ SaveStage(w, "running", "work")

\* Mutant: no checkpoint after the stage's work.
MutantCheckpoint(w) ==
    /\ pc[w] = "work"
    /\ GoTo(w, "finishStage")
    /\ LocalStep(w) /\ UNCHANGED <<snap, errors>>

\* The second checkpoint, after the stage's work (during which the v1_compat
\* pipeline polls the same flag).
Checkpoint(w) ==
    /\ pc[w] = "work"
    /\ GoTo(w, IF CancellationRequested(job[w]) THEN "cancelled" ELSE "finishStage")
    /\ LocalStep(w) /\ UNCHANGED <<snap, errors>>

FinishStage(w) == pc[w] = "finishStage" /\ SaveStage(w, "succeeded", "stage")

\* _build_artifacts; v1_compat observes a cancellation here when a resumed run
\* builds after the loop.
Build(w) ==
    /\ pc[w] = "build"
    /\ \/ GoTo(w, "publish")
       \/ /\ params[job[w]].profile = "v1_compat" /\ CancellationRequested(job[w])
          /\ GoTo(w, "cancelled")
    /\ LocalStep(w) /\ UNCHANGED <<snap, errors>>

\* Mutant: whatever exists counts as written by this execution.
MutantWritten(w) == {a \in Artifacts : files[job[w]][a] # 0}

\* Artifacts the present execution has written.
Written(w) == {a \in Artifacts : files[job[w]][a] = delivery[w]}

\* write_artifact is write-once: a name that exists raises.
Publish(w) ==
    LET r == job[w] IN
    /\ pc[w] = "publish"
    /\ \E a \in Artifacts \ Written(w) :
        /\ \A b \in Artifacts \ Written(w) : a <= b
        /\ \/ /\ files[r][a] = 0
              /\ files' = [files EXCEPT ![r][a] = delivery[w]]
              /\ GoTo(w, IF Artifacts \subseteq Written(w) \union {a}
                         THEN "verify" ELSE "publish")
           \/ /\ files[r][a] # 0
              /\ GoTo(w, "failed")
              /\ UNCHANGED files
    /\ UNCHANGED <<params, db, cancelFlag, apiVars, queueVars, job, snap, delivery,
                   late, budgetVars, errors>>

Outcome(r, m) == IF params[r].partial THEN CompletePartial(m) ELSE Succeed(m)

\* The integrity gate over the artifacts just written, then a fresh load and
\* the transition on it; a contract violation is handled like any exception.
Verify(w) ==
    LET r == job[w]
        final == Outcome(r, db[r])
    IN
    /\ pc[w] = "verify"
    /\ IF /\ \A a \in Artifacts : files[r][a] # 0
          /\ db[r].status = "running"
          /\ Valid(final, RequiredOf(r))
       THEN GoTo(w, "finish") /\ snap' = [snap EXCEPT ![w] = final]
       ELSE GoTo(w, "failed") /\ UNCHANGED snap
    /\ LocalStep(w) /\ UNCHANGED errors

Finish(w) ==
    /\ pc[w] = "finish"
    /\ \/ Save(job[w], snap[w]) /\ GoTo(w, "settle")
       \/ SaveRefused(job[w], snap[w]) /\ GoTo(w, "failed")
    /\ UNCHANGED <<params, cancelFlag, files, apiVars, queueVars, job, snap, delivery,
                   late, budgetVars, errors>>

(***************************************************************************)
(* The worker: the except clauses.  What they raise ends the process.      *)
(***************************************************************************)

\* except CancellationObserved: reload and build the cancelled manifest.
HandleCancellation(w) ==
    LET r == job[w]
        final == Cancel(db[r], ActiveStage(snap[w]))
    IN
    /\ pc[w] = "cancelled"
    /\ IF ~IsTerminal(db[r]) /\ Valid(final, RequiredOf(r))
       THEN /\ GoTo(w, "saveCancel")
            /\ snap' = [snap EXCEPT ![w] = final]
            /\ UNCHANGED <<job, delivery, late>>
       ELSE Restart(w)
    /\ UNCHANGED <<params, storeVars, apiVars, queueVars, budgetVars, errors>>

SaveCancel(w) ==
    /\ pc[w] = "saveCancel"
    /\ \/ Save(job[w], snap[w]) /\ Return(w, "cancelled")
       \/ SaveRefused(job[w], snap[w]) /\ Restart(w)
    /\ UNCHANGED <<params, cancelFlag, files, apiVars, queueVars, budgetVars, errors>>

\* except Exception: a terminal run stands, any other is recorded as failed.
HandleFailure(w) ==
    LET r == job[w]
        final == Fail(db[r], ActiveStage(snap[w]))
    IN
    /\ pc[w] = "failed"
    /\ IF IsTerminal(db[r])
       THEN Return(w, db[r].status)
       ELSE IF Valid(final, RequiredOf(r))
            THEN /\ GoTo(w, "saveFail")
                 /\ snap' = [snap EXCEPT ![w] = final]
                 /\ UNCHANGED <<job, delivery, late>>
            ELSE Restart(w)
    /\ UNCHANGED <<params, storeVars, apiVars, queueVars, budgetVars, errors>>

SaveFail(w) ==
    /\ pc[w] = "saveFail"
    /\ \/ Save(job[w], snap[w]) /\ Return(w, "failed")
       \/ SaveRefused(job[w], snap[w]) /\ Restart(w)
    /\ UNCHANGED <<params, cancelFlag, files, apiVars, queueVars, budgetVars, errors>>

\* queue.complete or queue.fail: both complete the message.
Settle(w) ==
    /\ pc[w] = "settle"
    /\ SettleAs(w, "done")
    /\ UNCHANGED <<params, storeVars, apiVars, deliveries, budgetVars, errors>>

(***************************************************************************)
(* The environment                                                         *)
(***************************************************************************)

\* Any operation inside the try block may raise: pipeline, storage, database.
Fault(w) ==
    /\ pc[w] \in Guarded
    /\ GoTo(w, "failed")
    /\ errors' = errors \union {job[w]}
    /\ LocalStep(w) /\ UNCHANGED snap

Crash(w) ==
    /\ pc[w] # "idle"
    /\ crashes < MaxCrashes
    /\ crashes' = crashes + 1
    /\ Restart(w)
    /\ UNCHANGED <<params, storeVars, apiVars, queueVars, lapses, errors>>

\* A live holder loses its lock: renewals failed or came too late.
LoseLock(r) ==
    /\ owner[r] # NoWorker
    /\ job[owner[r]] = r
    /\ lapses < MaxLapses
    /\ lapses' = lapses + 1
    /\ owner' = [owner EXCEPT ![r] = NoWorker]
    /\ UNCHANGED <<params, storeVars, apiVars, message, deliveries, workerVars,
                   crashes, errors>>

\* Mutant: no renewal keeps the lock of a running execution.
MutantExpireLock(r) ==
    /\ owner[r] # NoWorker
    /\ owner' = [owner EXCEPT ![r] = NoWorker]
    /\ UNCHANGED <<params, storeVars, apiVars, message, deliveries, workerVars,
                   budgetVars, errors>>

\* A lock nobody works under ends: its process died, or, after a cancelled
\* execution, its renewer reached max_lifetime.
ExpireLock(r) ==
    /\ owner[r] # NoWorker
    /\ job[owner[r]] # r
    /\ owner' = [owner EXCEPT ![r] = NoWorker]
    /\ UNCHANGED <<params, storeVars, apiVars, message, deliveries, workerVars,
                   budgetVars, errors>>

(***************************************************************************)
(* The specification                                                       *)
(***************************************************************************)

Submit(r) == Create(r) \/ Enqueue(r) \/ RejectSubmission(r)

RequestCancel(r) == ReadForCancel(r) \/ SaveCancelQueued(r) \/ RequestCancellation(r)

Claim(w) == DeadLetter(w) \/ Inspect(w) \/ Drain(w)

Execute(w) ==
    \/ Load(w) \/ Precheck(w) \/ StartRun(w)
    \/ BeginStage(w) \/ SkipStage(w) \/ StartStage(w) \/ Checkpoint(w) \/ FinishStage(w)
    \/ Build(w) \/ Publish(w) \/ Verify(w) \/ Finish(w)
    \/ HandleCancellation(w) \/ SaveCancel(w) \/ HandleFailure(w) \/ SaveFail(w)

WorkerStep(w) == Claim(w) \/ Execute(w) \/ Settle(w)

Next ==
    \/ \E r \in Runs : Submit(r) \/ RequestCancel(r) \/ LoseLock(r) \/ ExpireLock(r)
    \/ \E w \in Workers, r \in Runs : Receive(w, r)
    \/ \E w \in Workers : WorkerStep(w) \/ Fault(w) \/ Crash(w)

Spec == Init /\ [][Next]_vars

(***************************************************************************)
(* Fairness.  The worker's loop never blocks for ever (its steps are    *)
(* bounded by stage delays and subprocess timeouts); the broker ends a     *)
(* lock that is not renewed and keeps offering a message, which an idle    *)
(* worker takes although other messages compete for it.  Nothing is        *)
(* assumed of clients, of the API process or of faults.                    *)
(***************************************************************************)
FairSpec ==
    /\ Spec
    /\ \A w \in Workers : WF_vars(WorkerStep(w))
    /\ \A r \in Runs : WF_vars(ExpireLock(r))
    /\ \A r \in Runs : SF_vars(\E w \in Workers : Receive(w, r))

(***************************************************************************)
(* Safety                                                                  *)
(***************************************************************************)

\* However executions overlap and whatever snapshot wrote it last, a terminal
\* run shows no stage still running, and publishes nothing unless it ended
\* succeeded or partial.
TerminalIsSettled ==
    \A r \in Runs : IsTerminal(db[r]) =>
        /\ ~HasStage(db[r], {"running"})
        /\ db[r].status \in {"failed", "cancelled"} => db[r].artifacts = {}

\* A succeeded run completed every required stage, and the artifacts a
\* succeeded or partial run references all exist and were all written by one
\* execution: a redelivered job never mixes two sets of results.
PublishedIsComplete ==
    \A r \in Runs :
        /\ db[r].status = "succeeded" =>
               \A s \in RequiredOf(r) : db[r].stages[s] = "succeeded"
        /\ db[r].status \in {"succeeded", "partial"} =>
               \E d \in 1 .. deliveries[r] :
                   \A a \in db[r].artifacts : files[r][a] = d

\* A message leaves the queue as completed only when its run is terminal, so no
\* interleaving of crashes, lost locks and cancellations loses accepted work.
AcknowledgedIsTerminal ==
    \A r \in Runs : message[r] = "done" => IsTerminal(db[r])

\* A client told that its upload could not be queued is never surprised by a
\* run that goes on, even when the broker had accepted the message.
RejectedIsTerminal ==
    \A r \in Runs : submission[r] = "rejected" => IsTerminal(db[r])

\* What the queue and the client were told of a run is never taken back by an
\* execution that goes on.
SettledIsTerminal == AcknowledgedIsTerminal /\ RejectedIsTerminal

\* Once cancellation is requested an execution saves at most one more started
\* or finished stage: the two checkpoints around every stage bound the delay.
CancellationBound == \A w \in Workers : late[w] <= 1

\* Unless a live worker loses its lock, one run is never executed by two
\* workers at once, crashes and restarts included.
OneExecutor ==
    lapses = 0 =>
        \A v, w \in Workers :
            pc[v] \in Executing /\ pc[w] \in Executing /\ job[v] = job[w] => v = w

\* The claim of azure_service_bus.py:133-137, "Infrastructure failures
\* (crashes) never call fail(): the lock simply expires and Service Bus
\* redelivers": no crash makes a run failed.
InfrastructureNeverFails ==
    lapses = 0 => \A r \in Runs : db[r].status = "failed" => r \in errors

(***************************************************************************)
(* Action properties                                                       *)
(***************************************************************************)

\* A terminal attempt never changes again: not its status, not a stage record,
\* not an artifact, whichever process saves a manifest it read before.
TerminalImmutable ==
    [][\A r \in Runs : IsTerminal(db[r]) => db'[r] = db[r]]_vars

(***************************************************************************)
(* Temporal properties                                                     *)
(***************************************************************************)

NeverWorks(r) ==
    \A s \in Stages : db[r].stages[s] \notin {"running", "succeeded"}

\* Cancellation requested while a run is queued: no stage of it ever starts,
\* even when the worker reads the flag before the request and starts the run
\* after it (executor.py:52-54).
CancelledWhileQueuedNeverWorks ==
    \A r \in Runs :
        [](cancelFlag[r] /\ db[r].status = "queued" => []NeverWorks(r))

\* While fewer deliveries are spent than MaxDelivery, every accepted message
\* leaves the queue with its run terminal, that of a cancelled run included:
\* no call settles it, it waits for its lock to end and is drained.
AcceptedRunEnds ==
    \A r \in Runs : message[r] = "ready" ~> message[r] = "done" /\ IsTerminal(db[r])

(***************************************************************************)
(* The plane implements the lifecycle it promises                          *)
(***************************************************************************)

Lifecycle == INSTANCE RunLifecycle WITH
    status <- [r \in Runs |-> db[r].status],
    published <- [r \in Runs |-> db[r].artifacts]

LifecycleSpec == Lifecycle!Spec

=============================================================================
