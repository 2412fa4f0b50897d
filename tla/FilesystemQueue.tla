-------------------------- MODULE FilesystemQueue --------------------------
(***************************************************************************)
(* The local queue (execution/queue/local_filesystem.py): a record of a    *)
(* job is a file in one of five directories, and every operation is built  *)
(* from renames, links and replacing writes.  One action is one file       *)
(* operation (or one existence test), so that the processes interleave     *)
(* between them as they do on disk: the workers, each of which runs        *)
(* recover_abandoned once when it starts and then claims and settles jobs  *)
(* (worker.py), and the threads of the API that enqueue and cancel.        *)
(*                                                                         *)
(* The run of a job is kept in a repository whose save is atomic (the      *)
(* PostgreSQL one of the split deployment) and only its status matters     *)
(* here; the executor is reduced to its first and its last save, which the *)
(* module Execution models in full.  A job and its run are one identifier: *)
(* the callers enqueue one job per run, and the run-index reservation that *)
(* enforces it never finds another.                                        *)
(***************************************************************************)
EXTENDS Integers, FiniteSets

CONSTANTS
    Jobs,           \* jobs, one per run
    Workers,        \* worker processes
    Handlers,       \* threads of the API that serve POST cancel
    MaxCrashes,     \* bound on processes that die and cancellations whose save raises
    MaxTimeouts,    \* bound on claims that grow older than the claim timeout
    SlowJobs,       \* whether a job may take longer than the claim timeout
    NoJob

ASSUME QueueAssumption ==
    /\ Workers \intersect Handlers = {}
    /\ MaxCrashes \in Nat
    /\ MaxTimeouts \in Nat
    /\ SlowJobs \in BOOLEAN
    /\ NoJob \notin Jobs

VARIABLES
    run,            \* run[j]: status of the run, "absent" before it is created
    cancelFlag,     \* cancelFlag[j]: cancellation requested of a running run
    submission,     \* submission[j]: progress of the API call that submits j
    record,         \* record[d][j]: the file of j in directory d
    pc, job,        \* the processes
    move,           \* move[p]: the _move_raw or os.replace p is about to do
    todo,           \* todo[w]: claimed files the recovery of w has listed
    seen,           \* seen[w]: the record the recovery of w has read
    crashes, timeouts,
    interrupted     \* history: jobs a request took out of the queue and left unsaved

processVars == <<pc, job, move, todo, seen>>
environmentVars == <<crashes, timeouts, interrupted>>

vars == <<run, cancelFlag, submission, record, processVars, environmentVars>>

Contract == INSTANCE AnalysisRun
                WITH StageCount <- 1, Unsupported <- {}, ArtifactCount <- 1

Directories == {"queued", "claimed", "completed", "failed", "cancelled"}

\* What matters of a record is its claimed_at: unset, recent, or older than the
\* claim timeout.
Contents == {"none", "unclaimed", "recent", "old"}

Processes == Workers \union Handlers

\* Points at which a worker has a job to execute.
Executing == {"rewrite", "load", "begin", "work"}

Points ==
    Executing \union
        {"start", "recover", "judge", "reset", "idle", "read", "gone", "rename",
         "complete", "fail", "findQueued", "findClaimed",
         "check", "unlink", "replace", "saveCancel"}

\* Where a process goes on after a move.
Afterwards == {"idle", "recover", "reset", "saveCancel"}

Move == [from : Directories, to : Directories, next : Afterwards]
NoMove == [from |-> "queued", to |-> "queued", next |-> "idle"]

TypeOK ==
    /\ run \in [Jobs -> Contract!RunStatus \union {"absent"}]
    /\ cancelFlag \in [Jobs -> BOOLEAN]
    /\ submission \in [Jobs -> {"none", "created", "failing", "accepted", "rejected"}]
    /\ record \in [Directories -> [Jobs -> Contents]]
    /\ pc \in [Processes -> Points]
    /\ job \in [Processes -> Jobs \union {NoJob}]
    /\ \A p \in Processes : pc[p] \notin {"start", "recover", "idle"} => job[p] \in Jobs
    /\ move \in [Processes -> Move]
    /\ todo \in [Workers -> SUBSET Jobs]
    /\ seen \in [Workers -> Contents]
    /\ crashes \in 0 .. MaxCrashes
    /\ timeouts \in 0 .. MaxTimeouts
    /\ interrupted \subseteq Jobs

Init ==
    /\ run = [j \in Jobs |-> "absent"]
    /\ cancelFlag = [j \in Jobs |-> FALSE]
    /\ submission = [j \in Jobs |-> "none"]
    /\ record = [d \in Directories |-> [j \in Jobs |-> "none"]]
    /\ pc = [p \in Processes |-> IF p \in Workers THEN "start" ELSE "idle"]
    /\ job = [p \in Processes |-> NoJob]
    /\ move = [p \in Processes |-> NoMove]
    /\ todo = [w \in Workers |-> {}]
    /\ seen = [w \in Workers |-> "none"]
    /\ crashes = 0
    /\ timeouts = 0
    /\ interrupted = {}

(***************************************************************************)
(* Helpers                                                                 *)
(***************************************************************************)

Exists(d, j) == record[d][j] # "none"

Terminal(j) == run[j] \in Contract!TerminalStatus

\* Mutant: any status may be saved over any other.
MutantSaveAllowed(j, status) == TRUE

\* repository.save of a manifest with this status.
SaveAllowed(j, status) == <<run[j], status>> \in Contract!AllowedTransitions

SetRun(j, status) == run' = [run EXCEPT ![j] = status]

GoTo(p, point) == pc' = [pc EXCEPT ![p] = point]

\* The end of an operation on a job: back to the loop.
Leave(p) ==
    /\ GoTo(p, "idle")
    /\ job' = [job EXCEPT ![p] = NoJob]
    /\ move' = [move EXCEPT ![p] = NoMove]
    /\ UNCHANGED <<todo, seen>>

\* p continues at point, with its job in hand or, in a loop, without one.
Continue(p, point) ==
    /\ GoTo(p, point)
    /\ job' = IF point \in {"idle", "recover"} THEN [job EXCEPT ![p] = NoJob] ELSE job
    /\ move' = [move EXCEPT ![p] = NoMove]
    /\ seen' = IF p \in Workers THEN [seen EXCEPT ![p] = "none"] ELSE seen
    /\ UNCHANGED todo

\* The process of worker w ends, and its container starts it again.
Restart(w) ==
    /\ GoTo(w, "start")
    /\ job' = [job EXCEPT ![w] = NoJob]
    /\ move' = [move EXCEPT ![w] = NoMove]
    /\ todo' = [todo EXCEPT ![w] = {}]
    /\ seen' = [seen EXCEPT ![w] = "none"]

\* An exception no clause handles: a worker ends, a request is answered 500.
Raise(p) == IF p \in Workers THEN Restart(p) ELSE Leave(p)

\* Begin a _move_raw of p's job.
MoveFrom(p, from, to, next) ==
    /\ GoTo(p, "check")
    /\ move' = [move EXCEPT ![p] = [from |-> from, to |-> to, next |-> next]]

(***************************************************************************)
(* _move_raw and os.replace                                                *)
(***************************************************************************)

\* destination.exists()
CheckDestination(p) ==
    /\ pc[p] = "check"
    /\ GoTo(p, IF Exists(move[p].to, job[p]) THEN "unlink" ELSE "replace")
    /\ UNCHANGED <<run, cancelFlag, submission, record, job, move, todo, seen, environmentVars>>

\* source.unlink(missing_ok=True)
Unlink(p) ==
    /\ pc[p] = "unlink"
    /\ record' = [record EXCEPT ![move[p].from][job[p]] = "none"]
    /\ Continue(p, move[p].next)
    /\ UNCHANGED <<run, cancelFlag, submission, environmentVars>>

\* os.replace(source, destination) raises if the source has gone.
Replace(p) ==
    LET j == job[p] IN
    /\ pc[p] = "replace"
    /\ \/ /\ Exists(move[p].from, j)
          /\ record' = [record EXCEPT ![move[p].from][j] = "none",
                                      ![move[p].to][j] = record[move[p].from][j]]
          /\ Continue(p, move[p].next)
       \/ /\ ~Exists(move[p].from, j)
          /\ Raise(p)
          /\ UNCHANGED record
    /\ UNCHANGED <<run, cancelFlag, submission, environmentVars>>

(***************************************************************************)
(* The API: submission                                                     *)
(***************************************************************************)

Create(j) ==
    /\ submission[j] = "none"
    /\ SetRun(j, "queued")
    /\ submission' = [submission EXCEPT ![j] = "created"]
    /\ UNCHANGED <<cancelFlag, record, processVars, environmentVars>>

\* enqueue: the record appears with the hard link, or an OSError leaves none.
Enqueue(j) ==
    /\ submission[j] = "created"
    /\ \/ /\ record' = [record EXCEPT !["queued"][j] = "unclaimed"]
          /\ submission' = [submission EXCEPT ![j] = "accepted"]
       \/ /\ submission' = [submission EXCEPT ![j] = "failing"]
          /\ UNCHANGED record
    /\ UNCHANGED <<run, cancelFlag, processVars, environmentVars>>

\* The except clause of create_analysis.
RejectSubmission(j) ==
    /\ submission[j] = "failing"
    /\ IF SaveAllowed(j, "failed") THEN SetRun(j, "failed") ELSE UNCHANGED run
    /\ submission' = [submission EXCEPT ![j] = "rejected"]
    /\ UNCHANGED <<cancelFlag, record, processVars, environmentVars>>

(***************************************************************************)
(* The API: POST cancel, and queue.cancel                                  *)
(***************************************************************************)

\* The handler reads a queued run and calls queue.cancel.
ReadForCancel(h, j) ==
    /\ pc[h] = "idle"
    /\ run[j] = "queued"
    /\ GoTo(h, "findQueued")
    /\ job' = [job EXCEPT ![h] = j]
    /\ UNCHANGED <<run, cancelFlag, submission, record, move, todo, seen, environmentVars>>

\* The handler reads a running run.
RequestCancellation(j) ==
    /\ run[j] = "running"
    /\ ~cancelFlag[j]
    /\ cancelFlag' = [cancelFlag EXCEPT ![j] = TRUE]
    /\ UNCHANGED <<run, submission, record, processVars, environmentVars>>

\* Mutant: the handler does not save the cancelled run.
MutantAfterCancel(p) == "idle"

\* What the caller of queue.cancel does next: a handler saves the run.
AfterCancel(p) == IF p \in Handlers THEN "saveCancel" ELSE "idle"

\* queue.cancel looks for the record under queued ...
FindQueued(p) ==
    /\ pc[p] = "findQueued"
    /\ IF Exists("queued", job[p])
       THEN MoveFrom(p, "queued", "cancelled", AfterCancel(p))
       ELSE GoTo(p, "findClaimed") /\ UNCHANGED move
    /\ UNCHANGED <<run, cancelFlag, submission, record, job, todo, seen, environmentVars>>

\* Mutant: only queued records are looked for.
MutantFindClaimed(p) ==
    /\ pc[p] = "findClaimed"
    /\ Continue(p, AfterCancel(p))
    /\ UNCHANGED <<run, cancelFlag, submission, record, environmentVars>>

\* ... and then under claimed.
FindClaimed(p) ==
    /\ pc[p] = "findClaimed"
    /\ IF Exists("claimed", job[p])
       THEN MoveFrom(p, "claimed", "cancelled", AfterCancel(p)) /\ UNCHANGED <<job, todo, seen>>
       ELSE Continue(p, AfterCancel(p))
    /\ UNCHANGED <<run, cancelFlag, submission, record, environmentVars>>

\* The handler saves the manifest it read as cancelled.  A save that raises
\* before it commits leaves the run as it was, and nothing saves it again.
SaveCancel(h) ==
    /\ pc[h] = "saveCancel"
    /\ Leave(h)
    /\ \/ /\ SaveAllowed(job[h], "cancelled")
          /\ SetRun(job[h], "cancelled")
          /\ UNCHANGED <<crashes, interrupted>>
       \/ /\ ~SaveAllowed(job[h], "cancelled")
          /\ UNCHANGED <<run, crashes, interrupted>>
       \/ /\ crashes < MaxCrashes
          /\ crashes' = crashes + 1
          /\ interrupted' = interrupted \union {job[h]}
          /\ UNCHANGED run
    /\ UNCHANGED <<cancelFlag, submission, record, timeouts>>

(***************************************************************************)
(* The worker: recover_abandoned, once at start                            *)
(***************************************************************************)

\* The listing of claimed.
ListClaimed(w) ==
    /\ pc[w] = "start"
    /\ GoTo(w, "recover")
    /\ todo' = [todo EXCEPT ![w] = {j \in Jobs : Exists("claimed", j)}]
    /\ UNCHANGED <<run, cancelFlag, submission, record, job, move, seen, environmentVars>>

\* Read the next listed record.  One that has gone is malformed to _read and is
\* moved to failed.
RecoverRead(w, j) ==
    /\ pc[w] = "recover"
    /\ j \in todo[w]
    /\ todo' = [todo EXCEPT ![w] = @ \ {j}]
    /\ job' = [job EXCEPT ![w] = j]
    /\ seen' = [seen EXCEPT ![w] = record["claimed"][j]]
    /\ IF Exists("claimed", j)
       THEN GoTo(w, "judge") /\ UNCHANGED move
       ELSE MoveFrom(w, "claimed", "failed", "recover")
    /\ UNCHANGED <<run, cancelFlag, submission, record, environmentVars>>

\* The directory of a terminal run's record.
DirectoryOf(status) ==
    IF status \in {"succeeded", "partial"} THEN "completed" ELSE status

\* Load the run: the record of a terminal one is filed, an old claim goes back
\* to queued, anything else stays.
Judge(w) ==
    LET j == job[w] IN
    /\ pc[w] = "judge"
    /\ \/ /\ Terminal(j)
          /\ MoveFrom(w, "claimed", DirectoryOf(run[j]), "recover")
          /\ UNCHANGED <<job, todo, seen>>
       \/ /\ ~Terminal(j) /\ seen[w] = "old"
          /\ MoveFrom(w, "claimed", "queued", "reset")
          /\ UNCHANGED <<job, todo, seen>>
       \/ /\ ~Terminal(j) /\ seen[w] # "old"
          /\ Continue(w, "recover")
    /\ UNCHANGED <<run, cancelFlag, submission, record, environmentVars>>

\* _write_replace of the requeued record, wherever the record is by now.
Reset(w) ==
    /\ pc[w] = "reset"
    /\ record' = [record EXCEPT !["queued"][job[w]] = "unclaimed"]
    /\ Continue(w, "recover")
    /\ UNCHANGED <<run, cancelFlag, submission, environmentVars>>

EndRecovery(w) ==
    /\ pc[w] = "recover"
    /\ todo[w] = {}
    /\ GoTo(w, "idle")
    /\ UNCHANGED <<run, cancelFlag, submission, record, job, move, todo, seen, environmentVars>>

(***************************************************************************)
(* The worker: claim                                                       *)
(***************************************************************************)

\* The listing of queued shows j.
ListQueued(w, j) ==
    /\ pc[w] = "idle"
    /\ Exists("queued", j)
    /\ GoTo(w, "read")
    /\ job' = [job EXCEPT ![w] = j]
    /\ UNCHANGED <<run, cancelFlag, submission, record, move, todo, seen, environmentVars>>

\* A record that has gone is malformed to _read.
ReadRecord(w) ==
    /\ pc[w] = "read"
    /\ GoTo(w, IF Exists("queued", job[w]) THEN "rename" ELSE "gone")
    /\ UNCHANGED <<run, cancelFlag, submission, record, job, move, todo, seen, environmentVars>>

\* A malformed record that is there again is moved to failed.
Quarantine(w) ==
    /\ pc[w] = "gone"
    /\ IF Exists("queued", job[w])
       THEN MoveFrom(w, "queued", "failed", "idle") /\ UNCHANGED <<job, todo, seen>>
       ELSE Leave(w)
    /\ UNCHANGED <<run, cancelFlag, submission, record, environmentVars>>

\* Mutant: the record is copied instead of renamed.
MutantRename(w) ==
    LET j == job[w] IN
    /\ pc[w] = "rename"
    /\ IF Exists("queued", j)
       THEN /\ record' = [record EXCEPT !["claimed"][j] = record["queued"][j]]
            /\ GoTo(w, "rewrite")
            /\ UNCHANGED <<job, move, todo, seen>>
       ELSE Leave(w) /\ UNCHANGED record
    /\ UNCHANGED <<run, cancelFlag, submission, environmentVars>>

\* The atomic rename that decides who has the job; the loser goes on.
Rename(w) ==
    LET j == job[w] IN
    /\ pc[w] = "rename"
    /\ \/ /\ Exists("queued", j)
          /\ record' = [record EXCEPT !["queued"][j] = "none",
                                      !["claimed"][j] = record["queued"][j]]
          /\ GoTo(w, "rewrite")
          /\ UNCHANGED <<job, move, todo, seen>>
       \/ /\ ~Exists("queued", j)
          /\ Leave(w)
          /\ UNCHANGED record
    /\ UNCHANGED <<run, cancelFlag, submission, environmentVars>>

\* _write_replace with claimed_at set, wherever the record is by now.
Rewrite(w) ==
    /\ pc[w] = "rewrite"
    /\ record' = [record EXCEPT !["claimed"][job[w]] = "recent"]
    /\ GoTo(w, "load")
    /\ UNCHANGED <<run, cancelFlag, submission, job, move, todo, seen, environmentVars>>

(***************************************************************************)
(* The worker: the executor, reduced to its first and last save            *)
(***************************************************************************)

\* What the main loop does with the status execute returns.
Settle(w, status) ==
    GoTo(w, CASE status \in {"succeeded", "partial"} -> "complete"
              [] status = "cancelled" -> "findQueued"
              [] OTHER -> "fail")

Load(w) ==
    LET j == job[w] IN
    /\ pc[w] = "load"
    /\ IF Terminal(j) THEN Settle(w, run[j])
       ELSE GoTo(w, IF run[j] = "queued" THEN "begin" ELSE "work")
    /\ UNCHANGED <<run, cancelFlag, submission, record, job, move, todo, seen, environmentVars>>

\* save(run.start()); a refusal is outside the try block.
Begin(w) ==
    LET j == job[w] IN
    /\ pc[w] = "begin"
    /\ \/ /\ cancelFlag[j] /\ SaveAllowed(j, "cancelled")
          /\ SetRun(j, "cancelled")
          /\ Settle(w, "cancelled")
          /\ UNCHANGED <<job, move, todo, seen>>
       \/ /\ ~cancelFlag[j] /\ SaveAllowed(j, "running")
          /\ SetRun(j, "running")
          /\ GoTo(w, "work")
          /\ UNCHANGED <<job, move, todo, seen>>
       \/ /\ Terminal(j)
          /\ Restart(w)
          /\ UNCHANGED run
    /\ UNCHANGED <<cancelFlag, submission, record, environmentVars>>

\* The last save: an outcome of this execution, or that of another one, which
\* the except clause returns or, between its load and its save, raises at.
Work(w) ==
    LET j == job[w] IN
    /\ pc[w] = "work"
    /\ \/ /\ ~Terminal(j)
          /\ \E status \in Contract!TerminalStatus :
                /\ status = "cancelled" => cancelFlag[j]
                /\ SetRun(j, status)
                /\ Settle(w, status)
          /\ UNCHANGED <<job, move, todo, seen>>
       \/ /\ Terminal(j)
          /\ \/ Settle(w, run[j]) /\ UNCHANGED <<job, move, todo, seen>>
             \/ Restart(w)
          /\ UNCHANGED run
    /\ UNCHANGED <<cancelFlag, submission, record, environmentVars>>

(***************************************************************************)
(* The worker: complete and fail                                           *)
(***************************************************************************)

\* Mutant: failed jobs are filed as completed.
MutantFiling(point) == "completed"

Filing(point) == IF point = "complete" THEN "completed" ELSE "failed"

\* _terminal_move: nothing to do, or a rename from claimed.
TerminalMove(w) ==
    LET j == job[w]
        to == Filing(pc[w])
    IN
    /\ pc[w] \in {"complete", "fail"}
    /\ IF Exists(to, j) \/ ~Exists("claimed", j)
       THEN Leave(w)
       ELSE /\ GoTo(w, "replace")
            /\ move' = [move EXCEPT ![w] = [from |-> "claimed", to |-> to, next |-> "idle"]]
            /\ UNCHANGED <<job, todo, seen>>
    /\ UNCHANGED <<run, cancelFlag, submission, record, environmentVars>>

(***************************************************************************)
(* The environment                                                         *)
(***************************************************************************)

\* The process of w ends at any point.
Crash(w) ==
    /\ crashes < MaxCrashes
    /\ pc[w] # "start"
    /\ crashes' = crashes + 1
    /\ Restart(w)
    /\ UNCHANGED <<run, cancelFlag, submission, record, timeouts, interrupted>>

\* The request of h ends at any point, its process with it: between queue.cancel
\* and the save that should follow, too.
Interrupt(h) ==
    /\ crashes < MaxCrashes
    /\ pc[h] # "idle"
    /\ crashes' = crashes + 1
    /\ interrupted' =
           IF pc[h] = "saveCancel" THEN interrupted \union {job[h]} ELSE interrupted
    /\ Leave(h)
    /\ UNCHANGED <<run, cancelFlag, submission, record, timeouts>>

Recovering(w) ==
    pc[w] \in {"recover", "judge", "reset"} \/ move[w].next \in {"recover", "reset"}

\* A claim gets older than the timeout.  A recovery in progress compares with
\* the time it started at, so this happens between recoveries.
Timeout(j) ==
    /\ timeouts < MaxTimeouts
    /\ record["claimed"][j] = "recent"
    /\ \A w \in Workers : ~Recovering(w)
    /\ SlowJobs \/ \A w \in Workers : job[w] # j
    /\ timeouts' = timeouts + 1
    /\ record' = [record EXCEPT !["claimed"][j] = "old"]
    /\ UNCHANGED <<run, cancelFlag, submission, processVars, crashes, interrupted>>

(***************************************************************************)
(* Specification                                                           *)
(***************************************************************************)

Submit(j) == Create(j) \/ Enqueue(j) \/ RejectSubmission(j)

MoveStep(p) == CheckDestination(p) \/ Unlink(p) \/ Replace(p)

CancelStep(p) == FindQueued(p) \/ FindClaimed(p)

HandlerStep(h) == MoveStep(h) \/ CancelStep(h) \/ SaveCancel(h)

Recover(w) ==
    \/ ListClaimed(w)
    \/ \E j \in Jobs : RecoverRead(w, j)
    \/ Judge(w)
    \/ Reset(w)
    \/ EndRecovery(w)

Claim(w) ==
    \/ \E j \in Jobs : ListQueued(w, j)
    \/ ReadRecord(w)
    \/ Quarantine(w)
    \/ Rename(w)
    \/ Rewrite(w)

Execute(w) == Load(w) \/ Begin(w) \/ Work(w)

WorkerStep(w) ==
    Recover(w) \/ Claim(w) \/ Execute(w) \/ TerminalMove(w) \/ CancelStep(w) \/ MoveStep(w)

Next ==
    \/ \E j \in Jobs : Submit(j) \/ RequestCancellation(j) \/ Timeout(j)
    \/ \E h \in Handlers :
          HandlerStep(h) \/ Interrupt(h) \/ \E j \in Jobs : ReadForCancel(h, j)
    \/ \E w \in Workers : WorkerStep(w) \/ Crash(w)

Spec == Init /\ [][Next]_vars

\* A worker's loop goes on, and a request that has begun is carried to its end.
FairSpec ==
    /\ Spec
    /\ \A w \in Workers : WF_vars(WorkerStep(w))
    /\ \A h \in Handlers : WF_vars(HandlerStep(h))

(***************************************************************************)
(* Safety                                                                  *)
(***************************************************************************)

InHand(w, j) == job[w] = j /\ pc[w] \in Executing

\* Until a claim times out, a job is in the hands of one worker: the rename of
\* claim lets one of the workers that listed it win, whatever cancellations,
\* recoveries and crashes do.
OneExecutor ==
    timeouts = 0 =>
        \A j \in Jobs : Cardinality({w \in Workers : InHand(w, j)}) <= 1

\* The record of j is in cancelled and a request is about to save the run, or
\* ended before it did.
CancelBegun(j) ==
    /\ Exists("cancelled", j)
    /\ \/ \E h \in Handlers : pc[h] = "saveCancel" /\ job[h] = j
       \/ j \in interrupted

\* Until a claim times out, the record of an accepted job whose run has not
\* ended is where a claim or a recovery finds it, or a cancellation took it out
\* of the queue.  That last case is the one way to lose a job: app.py:482 cancels
\* the record before line 483 saves the run, and a request that ends between the
\* two leaves a queued run that no worker will be given (a second POST cancel
\* ends it).  No other death, and no order of claims, recoveries and
\* cancellations, drops a job.
AcceptedIsKept ==
    \A j \in Jobs :
        timeouts = 0 /\ submission[j] = "accepted" /\ ~Terminal(j) =>
            Exists("queued", j) \/ Exists("claimed", j) \/ CancelBegun(j)

\* completed holds records of runs that published their results, even when an
\* execution was overtaken by another or its record was filed by a recovery.
CompletedIsPublished ==
    \A j \in Jobs : Exists("completed", j) => run[j] \in {"succeeded", "partial"}

Lifecycle == INSTANCE RunLifecycle WITH
    Runs <- Jobs, Artifacts <- {}, status <- run, published <- [j \in Jobs |-> {}]

\* However claims time out and executions of one job overtake each other, its
\* run goes the way of the contract: it is begun at most once, succeeds only
\* after that, and nothing changes how it ended (lifecycle.py:16).  Work tests
\* for a terminal run alone, so that this rests on what brought a worker there.
\* The model keeps no artifacts, so that nothing is said of publication here.
LifecycleSpec == Lifecycle!Spec

(***************************************************************************)
(* Liveness                                                                *)
(***************************************************************************)

\* Unless a process dies, a save raises or a claim times out, every accepted job
\* ends: its run becomes terminal and its record leaves queued and claimed for
\* good, however cancellations, claims and the recoveries of starting workers
\* race.
JobsEnd ==
    \A j \in Jobs :
        submission[j] = "accepted" ~>
            \/ [](Terminal(j) /\ ~Exists("queued", j) /\ ~Exists("claimed", j))
            \/ crashes + timeouts > 0

(***************************************************************************)
(* A statement of the documents the code does not keep                     *)
(***************************************************************************)

\* "This adapter is process-safe on one local filesystem"
\* (docs/v2/ANALYSIS_EXECUTION.md): claims and recoveries give a job to one
\* worker at a time, at least while no job outlives the claim timeout.
RecoveredByOne ==
    ~SlowJobs =>
        \A j \in Jobs : Cardinality({w \in Workers : InHand(w, j)}) <= 1

=============================================================================
