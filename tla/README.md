# Verification of FootballAI V2

FootballAI V2 turns a football video into an analysis run: an API accepts the
upload and creates an attempt, a queue carries a reference to it, a worker
executes the stages of the attempt and publishes write-once artifacts, and a
read-only copilot answers questions about a finished run. The program's own
logic is in `src/v2/src/footballai_v2` (paths below are relative to it).

This directory holds TLA+ models of that logic, TLC configurations that check
them on small instances, and TLAPS proofs for every instance.

## 1. Inventory

### 1.1 Components that carry the core logic

| Component | State it keeps | Operations | Interacts with |
|---|---|---|---|
| Analysis-run contract (`contracts/v1/analysis_run.py`, `storage/lifecycle.py`) | an immutable manifest: status, stage records, artifact references | `new`, `start`, `with_stages`, `succeed`, `complete_partial`, `fail`, `cancel`, `retry_from`; validation of every manifest; allow-list of status transitions | every component below |
| PostgreSQL repository (`storage/postgres`) | one row per attempt: manifest, `cancel_requested`; unique (analysis, attempt number) | `create`, `load`, `save` (row lock, transition check), `request_cancellation`, `cancellation_requested`, `create_retry_attempt` | API and workers, concurrently |
| Azure Blob store (`storage/object_storage`) | write-once objects under a run's prefix | `write_artifact`, integrity read-back, input upload/copy, upload authorization and finalization | API, workers, the client (signed upload) |
| Service Bus queue (`execution/queue/azure_service_bus.py`, `lock_renewal.py`) | messages with a peek-lock and a delivery count; one renewal thread per claimed job | `enqueue`, `claim` (drain, dead-letter, execute), `complete`, `fail`, `cancel` | the worker, the broker's redelivery |
| Worker and executor (`worker.py`, `execution/executor.py`) | a local copy of the manifest between two transactions | claim, execute the nine stages with checkpoints, publish, verify, finish, settle | repository, store, queue |
| Coordinator and API handlers (`execution/coordinator.py`, `api/app.py`) | none beyond a request | create an analysis, cancel, retry, clone, direct upload | repository, store, queue |
| Local plane (`storage/local_analysis_runs.py`, `execution/queue/local_filesystem.py`) | manifest files, marker files, queue records in one directory per state | the same ports, from file-system primitives | API and workers on one machine |
| Direct-upload service (`storage/upload_service.py`) | none | `authorize`, at-least-once `finalize` | Blob store, repository, queue |
| V1-compatible profile (`execution/adapters/v1_compat_*.py`, `execution/ai1`, `src/pipeline`) | a working tree of files, a child process | detection, tracking, statistics and fatigue as child processes; collection of their files | the worker, other builds of the same tree |
| Copilot (`copilot/evidence.py`, `grounding.py`, `service.py`, `agent`, `provider.py`, `budget.py`) | one conversation: turns, tool calls, retrieved claims; a budget shared by threads | verify artifacts, offer claims, route a question, `answer`, tools, citation; `admit`, `charge`, `release` | artifacts of a finished run, a paid model |
| Copilot evaluation (`copilot/evaluation`, `cli/copilot_*`) | a decision rule file, approval records, reports | score, judge, paid runs under an approval, controls | the agent, the paid model, another process of the same command |
| Identity resolution (`execution/ai2c`, `execution/ai2a`) | an append-only corrections log; groups of tracklets | append, revoke, effective set; propose, link, build and validate the artifact; evaluate it | artifacts of a run, a reviewer |
| Legacy importer (`importers/legacy_v1.py`) | none | import a V1 artifact set as a run | local store, the cancel handler, a source directory others change |
| Readiness probes (`runtime_readiness.py`) | a cached answer and its time | `status` | API threads |

Dashboards, migrations, infrastructure and command lines hold no protocol of their
own; `PROJECT.json` lists each part, with what is modelled of it or why it is not.

### 1.2 What is hard

* **Concurrency.** The API and any number of workers change one manifest. A
  worker keeps a local copy for the whole of a stage. A peek-lock may be lost
  while its holder is alive, so executions can overlap.
* **Failure.** A worker may die between any two external calls. The artifact
  store is write-once, so what a dead worker wrote is met by its successor.
* **Delivery.** Messages are delivered at least once and may be delivered after
  their run ended; a send may fail although the broker accepted the message.
* **Ordering.** Cancellation is a flag read at checkpoints; it can be requested
  before, between and after them, and before the run starts.
* **Non-atomic files.** The local adapters build atomic operations from rename
  and link; several operations are two renames with a window in between.
* **Child processes.** A child of the V1 profile writes its files in place, may
  hang, ignore a signal, or outlive the worker that started it.
* **A model that may say anything.** Its replies may be late, lost, malformed or
  charged without being read, and threads spend one budget.
* **Evidence that changes.** Artifacts are read when claims are offered and again
  when they are cited.
* **Long legal sequences.** Corrections link, exclude, separate and revoke in any
  order, and links chain.
* **Numbers on small samples.** Rates without opportunities, caps that cut a run
  short, and counts of one thing made by several functions.

### 1.3 What makes each component correct

* Contract: a terminal manifest is consistent (no running stage, artifacts if
  and only if it succeeded or is partial, all required stages done on success).
* Repository, executor, queue together: terminal attempts never change; results
  of two executions are never mixed; no accepted job is lost; a cancellation is
  honoured within one stage and prevents all work if it came first; one
  executor per run while locks hold; a failed run has a cause.
* Local plane: recovery of abandoned claims; no job handed to two workers, none
  dropped but by a cancellation cut off between its two steps; an import
  publishes what its provenance says, unless a source changes and changes back
  under it; no step loses a manifest or a file.
* V1 profile: what a build returns was made from its own video if nothing else
  worked in its tree, the counts of its parts agree, and every build ends.
* Submission: exactly one job per accepted submission; attempt numbers unique; a
  request that fails late does not overwrite what a worker has recorded.
* Copilot: never more turns, calls or money than allowed; nothing is shown that
  was not retrieved in this conversation and cited from intact evidence; the
  trace tells what was sent and what it cost; every question ends.
* Evaluation: nothing is sent without an approval; a PASS is earned; a cap is
  nobody's failure; the deterministic controls are told apart.
* Identity: what evidence or a reviewer separates stays apart however links are
  chained; confirmed identities rest on live decisions; the artifact never
  refuses what the resolver built.

The hazards behind these are listed in `PROJECT.json`, each at its line, with
the properties that cover it.

## 2. Modules

| Module | Models |
|---|---|
| `AnalysisRun` | the contract: manifests, their constructors and validation, the transition allow-list (operators only) |
| `RunLifecycle` | the abstract promise: absent, queued, running, one terminal state, publication in the same step |
| `AttemptLedger` | the abstract promise of submission: attempts that repeat only what failed or is partial, at most one job each, no work before it, only forward changes of status |
| `Execution` | the cloud plane: API submission and cancellation, repository, write-once store, Service Bus, workers and executor; implements `RunLifecycle` |
| `ExecutionProofs` | theorems about `Execution` |
| `FilesystemQueue` | the local queue: one action per file operation of enqueue, claim, cancel, recovery and settlement; the executor reduced to its first and last save; its runs keep `RunLifecycle` |
| `FilesystemQueueProofs` | theorems about `FilesystemQueue` |
| `Submission` | how an attempt and its job come to be on the cloud plane: multipart creation, retry, clone, direct upload with repeated finalization; implements `AttemptLedger` |
| `SubmissionProofs` | theorems about `Submission` |
| `LocalStore` | the filesystem store of runs, one operator per system call it rests on |
| `LegacyImport` | importers and a cancel handler over `LocalStore`, with a source directory that changes |
| `LegacyImportProofs` | theorems about `LegacyImport` |
| `AI1` | detection and tracking of the AI1 stages: which boxes, tracks and diagnostics a video gives |
| `V1Statistics` | the preserved V1 statistics and fatigue steps, as functions of the tracked rows |
| `V1Compat` | builds of the V1-compatible profile: children, working trees, cancellation, timeouts, orphans; uses `AI1` and `V1Statistics` for what the children write |
| `V1CompatProofs` | theorems about `V1Compat`, `V1Statistics` and `AI1` |
| `Evidence` | what the copilot reads of a run and which claims it offers |
| `Routing` | which claims a question asks for |
| `Grounding` | selection, citation, rendering; uses `Evidence` and `Routing` |
| `BudgetGuard` | requests and money, one operator per critical section |
| `AgentModel` | how a reply of the model is read, and the registry of tools |
| `Agent` | the two endpoints of the copilot, composed of the five above |
| `AgentProofs` | theorems about `Agent` |
| `Scoring` | the two scorers of a benchmark question, the measurements and the decision rule |
| `Controls` | the dataset's loader and coverage, and the deterministic controls the rule is tried on |
| `Campaign` | paid and offline runs by two processes: approvals, preflight, the questions, the budget (`BudgetGuard`), the report and its verdict |
| `CampaignProofs` | theorems about `Campaign` and `Scoring` |
| `IdentityCorrections` | the append-only log, revocation, the effective set |
| `IdentityScene` | tracklets, evidence and the hard constraints between them |
| `IdentityArtifact` | the identity artifact, its validation and its default readers |
| `IdentityEvaluation` | what an evaluation counts of an artifact against a ground truth |
| `IdentityResolver` | a reviewer's log that grows, and `resolve_identities` that reads it, composed of the four above |
| `IdentityProofs` | theorems about `IdentityResolver` |
| `MC*` | parameter sets, instances and symmetry for TLC |

How state and code correspond in `Execution`:

| Variable | Code |
|---|---|
| `db[r]`, `cancelFlag[r]` | the attempt's row: manifest and `cancel_requested` |
| `files[r][a]` | the object of artifact `a`; the value is the delivery whose execution wrote it |
| `message`, `owner`, `deliveries` | the Service Bus message, its peek-lock, its delivery count |
| `submission[r]`, `cancelling` | how far an API request has got between its own calls |
| `pc[w]`, `job[w]`, `snap[w]`, `delivery[w]` | where a worker is in `main`/`claim`/`execute` and the locals of that call |
| `params[r]` | profile and `force_partial`, fixed at creation |
| `crashes`, `lapses` | how much of the bounds `MaxCrashes`, `MaxLapses` is used |
| `errors`, `late` | history: runs that met an error of their own; stages saved after a cancellation |

Every external call of the code (a transaction, an object write, a queue call)
is one action, and everything between two calls belongs to the action before
it: the interleavings of the model are those of the processes. `save` locks the
row, checks the allow-list and writes in one transaction, so it is atomic. An
exception inside the `try` block of `execute` goes to its `except` clauses,
which are actions of their own (`HandleCancellation`, `HandleFailure`, and the
saves they make); an exception outside it ends the process (`Restart`).
`Fault` lets any operation inside the block raise.

Data that no property distinguishes is abstracted: stage records keep a status
(progress, messages, timings and provenance do not matter to any guard), an
artifact is a number, the nine stages become `StageCount` stages of which
`Unsupported` are skipped by `v1_compat`.

In `FilesystemQueue` the state is the disk and the processes:

| Variable | Code |
|---|---|
| `record[d][j]` | the file of job `j` in directory `d`; of its contents only `claimed_at` matters: unset, recent, or older than the claim timeout |
| `run[j]`, `cancelFlag[j]` | status of the run and the cancellation column, in a repository whose `save` is atomic |
| `submission[j]` | how far the submitting request has got |
| `pc[p]`, `job[p]` | a worker (`main`, `recover_abandoned`, `claim`, `execute`, settlement) or an API thread that cancels |
| `move[p]` | the arguments of the `_move_raw` or `os.replace` in progress |
| `todo[w]`, `seen[w]` | the listing of `claimed` and the record a recovery has read |
| `crashes`, `timeouts` | how much of `MaxCrashes` (deaths of workers and of cancel requests, saves that raise) and `MaxTimeouts` is used |
| `interrupted` | history: jobs whose cancel request ended after `queue.cancel` (`app.py:482`) and before its save (`:483`) was committed |

One action is one file operation or existence test: `_move_raw` is `CheckDestination`
then `Unlink` or `Replace`; `claim` is `ListQueued`, `ReadRecord`, `Rename` (or
`Quarantine`) and `Rewrite`; `recover_abandoned` is `ListClaimed`, one `RecoverRead`
and `Judge` per record, the move, and `Reset`. A record that vanished between listing
and reading is malformed to the code, since `_read` turns every `OSError` into
`QueueRecordError`; the model follows it. A cancel request may die at any of its steps
(`Interrupt`), and the save that ends it may raise (`SaveCancel`). `Timeout` makes a
claim old, and not during a recovery, which compares with the time it started at.

In `Submission`:

| Variable | Code |
|---|---|
| `row[r]` | the attempt's row: status, analysis, number, previous attempt, checksum of the input |
| `object[r]` | the input object: bytes, the `sha256` metadata, the entity tag |
| `sent[r]` | how many jobs the queue accepted for the run |
| `authorised` | runs for which a client was given a signed upload URL |
| `request[h]` | how far a request thread has got (`pc`), its run, the run it copies from, and the object properties it has read |
| `budget` | what is left of `MaxRequests`, `MaxPuts`, `MaxFaults`, `MaxCrashes` |
| `answered`, `abandoned`, `late` | history: runs a request was answered for with 202; runs whose request died, or for which a call to the repository raised; runs whose input a client replaced after it was stamped, or copies of such an input |

One action is one external call. `UploadService.finalize` is `Measure`, `Download`,
`Stamp`, `FinalizeInsert`, `Enqueue`; `create_analysis` is `CreateAnalysis`,
`PutInput`, `Enqueue`; `retry` and `clone` insert the attempt and then go through
`copy_input` (`Inspect`, `StartCopy`, `VerifyCopy`) to `Enqueue`. The `except` clause
of the coordinator is `Undo`; finalize has none, so a `Fault` there just ends the
request. Any call may raise, the save of the `except` clause too, having done its work
or not: a call to the storage or the queue spends `MaxFaults`, one to the repository
`MaxCrashes`, like a death of the process (`Abandon`). `CreateRaises` is a create that
commits and raises, before the coordinator's `try`. `retry` loads its source and
inserts the new attempt in two transactions; they are one step because what it reads
of a failed or partial attempt never changes again (`TerminalImmutability` of
`Execution`). Two finalize requests that insert at once differ from one after the
other only in that the second gets the database's error instead of the existing
attempt, which is a `Fault` at the same point. What happens to a run after its job was
sent (`Analyse`, `CancelRun`) is reduced to its status, since `Execution` models it.

`AttemptLedger` is what `storage/lifecycle.py` promises of attempts, one atomic step
per promise: `Open`, `Repeat`, `SendJob`, `Begin`, `End`, `Withdraw`. `Submission` is
mapped to it by its rows and the jobs sent; requests, objects and grants are hidden.
The ledger knows nothing of attempt numbers being unique: that no attempt is
repeated twice is what the database's constraint on them is for.

In `LegacyImport`, over `LocalStore`:

| Variable | Code |
|---|---|
| `owner[r]`, `manifest[r]`, `file[r][a]`, `marker[r]` | the directory of a run (who made it), its manifest file, its artifact files, the cancellation marker |
| `source[s]`, `changes` | the source file (one of `VersionCount` contents, readable by V1 or not), and how much of `MaxChanges` is used |
| `restored[p]` | history: source files that changed back, during the import of `p`, to what `p` had hashed |
| `pc[p]`, `at[p]`, `found[p]`, `sums[p]`, `content[p]`, `written[p]`, `pending[p]` | where an importer or the cancel handler is, and the locals of `import_directory`: the valid files, the checksums, the bytes read, the references written, the manifest being saved |

A source file may change to any content, one it has had before included
(`ChangeSource`). One action is one call that touches the disk: validation and hashing
of a source file are two, a save is a check and a replacement, and a handler that
raises goes to the importer's clean-up.

In `V1Compat` a build is a worker that runs children: `child[w]` is the process it
waits for, `tree[t][f]` whose data the file `f` of a working tree holds, `orphans`
the children nobody waits for any more, `parts[w]` whose data was collected. What a
child writes is computed by `AI1` and `V1Statistics` from a small video, so that
the counts of the report are those of the code, and a file that is being written
is `"partial"`. With the local store a tree belongs to a run; with the cloud store
the runs of a host share one. `alone[w]` is history: no other build and no orphan has
been in the tree of `w` since its claim.

In `Agent` a request is a thread: `talk[t]` holds the locals of `answer` (evidence,
route, catalog, turn, deadline, the log of tool calls), `guard` is the shared
budget, `posted` and `billed` are what the provider really received and charged.
A turn is the check of the limits, the admission, the call, its settlement and the
reading of the reply, each an action, since another thread may act in between.
`damaged` lets the bytes of an artifact change at any point.

In `Campaign` a process runs one command: `Start` (the dataset), `Check`
(approval, rule, output), `Preflight` (the free check of the model), one action per request
and per reply, `Report`.
`bill` is what the requests may have cost; `rule` and `reports` are the files, which
two processes share. A question's outcome is what `Scoring` makes of the calls
and the selection of a model that may do anything the load of the run allows.

In `IdentityResolver` the log grows one entry at a time (`Decide`); then one call of
`resolve_identities` takes it as it is (`given` tells whether it was passed one at
all): `Refuse` or `Start`, one action per must-link in order (`SkipRedundant`,
`RejectImpossible`, `CrashOnIneligible`, `HumanLink`), `Propose`, one per proposal
(`AbstainFromProposal`, `AutomaticLink`), `Build`. `groups` is the union-find
structure as a partition; `phase` also tells how a call ends that does not return.

## 3. Runs

Bounds are constants, named in each module and given in the `.cfg` files. Two
workers, threads or processes are enough for every overlap the code reacts to: a
third would repeat what the second does. Two stages and two artifacts give every
position a crash can take (before, between and after).

| Run | Question | Instance |
|---|---|---|
| `execution_safety` | is what is stored, published and acknowledged consistent when executions overlap; is a cancellation honoured within one stage; has a run one executor while no lock is lost; does the plane implement `RunLifecycle`? | 1 run, 2 workers, 2 stages, 2 artifacts, three parameter sets (plain, partial, `test_fail`), 1 crash, 1 lost lock, `MaxDelivery` 2, so that a message runs out of it |
| `execution_liveness` | does every accepted message end with its run terminal, and does a cancellation that came while the run was queued prevent all work? | `FairSpec`, 2 workers, 1 stage, 1 artifact, 1 crash, 1 lost lock, cancellation at any time, `MaxDelivery` above what these can use up |
| `execution_infrastructure` | the claim of `azure_service_bus.py:136` that crashes never fail a run | violated, section 5 |
| `queue` | until a claim times out, is a job with one worker, and kept until its run ends unless a cancellation is cut off between its two steps; is what is filed as completed published, whatever recoveries do; do the runs keep `RunLifecycle` when executions overlap; does every job end and leave the queue? | `FairSpec`, 1 job, 2 workers, 1 cancelling thread, 2 crashes (of a worker, of a request, or a save that raises), 1 timeout, that of a live worker included |
| `queue_window` | does a recovery give a job to one worker while no job outlives its claim? | violated, section 5 |
| `submission` | is one job sent per accepted attempt, with its input in place, are attempts a chain, is no attempt left queued by a put, a copy or a send that fails, and is every step an entry of `AttemptLedger`? | 3 runs, 2 threads, 3 requests, 2 client uploads, 1 failing call of the storage or the queue, 1 request that dies or meets a raising repository |
| `submission_finalize` | has a finalize answered with 202 enqueued the attempt, as `api/app.py:304` says? | violated, section 5 |
| `local_import` | is a published import complete and what its provenance records, in every file that did not change back, and does no step lose a manifest or a file? | 2 importers with one run id, 1 cancel handler, 2 source files of which 1 is required, 2 changes of a source (valid, invalid or absent), 1 failing call, 1 crash |
| `v1_compat` | is what a build returns its own while nothing else works in its tree, whatever was left there; do its parts agree; does every build end? | `FairSpec`; every kind of video alone, 2 workers on a run of the local store, 2 runs on a cloud host; 1 cancellation, crash, requeued claim or raising query |
| `agent` | do the budget and the limits hold, is what is shown retrieved, cited and intact, does the trace tell what was sent, does every question end? | `FairSpec`; 32 kinds of run with every short conversation, one run with every kind of reply, every question of at most two words to the explanation service, two threads that share a budget of four requests |
| `campaign` | was what is sent approved, is a PASS earned, is a cap nobody's failure, are the controls told apart? | one decision of a model that may do anything; a longer one cut short anywhere; two processes with one approval; every stage and each way a command is refused; selection runs; the reliability report on every dataset made of six labelled questions; 1 kill, interrupt or runner error |
| `identity` | is what is separated kept apart, are confirmed identities human, is every live decision carried out, is the artifact accepted, do the counts of the evaluation agree? | every log of up to 3 decisions about 4 tracklets, 15 scenes, 3 modes, 3 ground truths |

In `submission`, three runs are an attempt and two that start from it, so that two
retries can ask for the same number and a clone can start from a copy; of the
contents two have the same size, so that only the checksum tells them apart, and
one is too large. One job is enough for the queue: records of different jobs are
different files and no operation relates two of them. Four tracklets are a chain
of three, which a transitive merge needs, and one that overlaps its middle; three
decisions are two that conflict through the group and one that revokes. The
scenes of `identity`, the runs of `agent` and the commands of `campaign` differ from a
plain one in one respect each: the code branches on these respects one by one. In
`v1_compat` the videos are at the bounds of the three filters (a track with just
enough rows, whole or split by half time; too few; two boxes in one frame).

`CHECK_DEADLOCK FALSE` is given where the system may stop: once every run is
terminal, every request answered or every build done, nothing is left to do.
`campaign` checks deadlock.

**Fairness** (`FairSpec`). *Execution*: weak fairness of each worker's steps (its
loop never blocks for ever; stage delays and subprocess timeouts bound it) and of
`ExpireLock` (the broker ends a lock nobody renews); strong fairness of receiving
a message, since an idle worker polls repeatedly and the broker offers a message
that stays available, but between two polls the worker may be busy.
*FilesystemQueue*: weak fairness of each worker's steps, and of the steps of a cancel
request that has begun, which no file operation blocks; `JobsEnd` promises nothing
once a process died, a save raised or a claim timed out. *V1Compat*: weak
fairness of a build's own steps and strong fairness of finding, at one of the
polls, that the time limit has passed; nothing makes a child progress. *Agent*:
weak fairness of each thread; a reply that never comes is a timeout of the client.
Nothing is assumed of clients, faults, crashes, lost locks, cancellations or what
a model says.

## 4. Proofs

Each theorem holds for any values of the constants that satisfy the named
assumptions of its module; there are no others.

**`ExecutionProofs`** (from `ContractAssumption`, `ExecutionAssumption`):
`TypeCorrect`; `SettledCorrect` and `TerminalSettled` (the invariants
`SettledIsTerminal`, `TerminalIsSettled`); `TerminalImmutability`: no step changes a
terminal attempt; `ImplementsLifecycle`: `Spec => LifecycleSpec`, the refinement.

None of these invariants is inductive: whether a save keeps a row consistent
depends on what the worker holds, and that on the path that led to its point.
`IInv` adds `SnapOK`, what each worker's local manifest is at each point, and
`RowOK`, what a row can hold. (1) `NextRows`: every step either leaves the rows
alone, creates one, or saves a `Savable` manifest over a row whose transition is
allowed (`RowsStep`). (2) `RowsStepOK`: such a step keeps `RowOK`, never changes a
terminal row and never removes one. (3) `NextSnap`: every step keeps `SnapOK`, the
moving worker by its own action, the others because a row they rely on only moves
forward.

The other three invariants of `execution_safety` are proved in the same module
along one lemma, `ExecuteMoves`, that says what any step of an execution does to
the worker's point, job, delivery and history:

* `OneExecutorCorrect` from `OwnersOK`: while no lock is lost, a worker inside a
  delivery owns the lock of its message.
* `CancellationBoundCorrect` from `LateOK`: an execution that has saved late is past
  the checkpoint that would let it save another stage, and the flag never falls.
* `PublishedCorrect` from `PInv`, which adds to `IInv` that a worker past the
  publication wrote every artifact itself (`HandsOK`) and that the artifacts of a
  published row are of one delivery (`RowsPublished`). Artifacts are written once
  and deliveries only counted up (`Kept`), so neither is undone by another worker.

`CancelledNeverWorks` (`CancelledWhileQueuedNeverWorks`) is a temporal property proved
by two invariants: `WorkOK`, before a row says that its run has begun no execution is
past the start of it; and, from the moment the flag is up over a queued row on,
`Barred`, nobody holds a manifest in which a stage was worked at and nobody is about to
work, so whatever is saved afterwards shows none. `ExecuteClean` is the step that
matters: a worker that passed the first check starts the run all the same, and the
check at the head of the stage loop stops it.

**`FilesystemQueueProofs`** (from `QueueAssumption`): `TypeCorrect`, and
`CompletedCorrect`, `Spec => []CompletedIsPublished`. The target of a move is decided
at one step and written at a later one, when the run may have been saved again.
`PublishedInv` adds what a process knows of its run while it is about to move a
record to `completed`, and that a job is untouched until it is submitted. No save
takes a published run back (`PublishedStable`), and only `Replace` writes to
`completed` (`CompletedStep`).

Two more theorems, `AcceptedKept` (`AcceptedIsKept`) and `OneExecutorCorrect`
(`OneExecutor`), rest on one fact: without a requeue
nothing writes to `queued` again once the rename of a claim has emptied it (`Left`,
`LeftStable`). So one rename per job succeeds (`Alone`), and whoever moves the
claimed record away afterwards does so for a run that has ended or that a request
is about to end, or was before it died (`MoverKept`). `Settling` is what stays true of
such a run: a request at the save may die or fail there, and the job is then
`interrupted` (`SettlingStable`). `KeptInv` conjoins this with where a record can be
(`RecordKept`) and what a worker knows of the jobs it has listed (`WorkerKept`).

`ImplementsLifecycle` (`LifecycleSpec`) holds whatever times out. The statuses of the
runs are mapped to `RunLifecycle`; this model keeps no artifacts, so that of publication
only the order of statuses is shown here (`Execution` shows the rest). The last save of
an execution tests for a terminal run alone: that the run was begun follows from
`WorkInv` (whoever is at that save began the run or loaded it as running, and no save
takes that back: `BeganStable`, `WorkPoint`).

**`SubmissionProofs`** (from `SubmissionAssumption`, `NoneIsNoRow`): `TypeCorrect` and
`OneJobCorrect`, `ChainCorrect`, `InputCorrect`, `StrandedCorrect`, all the safety
invariants of `submission`, and `KeepsTheLedger` (`LedgerSpec`, the refinement of
`AttemptLedger`). `IInv` is the conjunction of the invariants with four
strengthenings. `JobInv`: a run still to be enqueued is held by exactly one request
and has no job yet, which is why repeated finalization sends one. `ChainInv`: a first
attempt links to none. `PathInv`: the two ways to submit never meet on a run.
`InputInv`: objects hold what attempts record (`StoredInv`), and what each request has
read is still true where it matters (`Known`), in particular that an unchanged entity
tag means an unchanged object, because tags only grow. Steps are grouped by what they
write (`RowsStep`, `ObjectsStep`, `Moves`) and each invariant is preserved group by
group. For the refinement, a `Retry` is a `Repeat` because a second one would have the
analysis and the number of the first (`RepeatInLedger`, from `ChainInv` and the unique
constraint), a job is the first because the request that sends it still holds the run
(`JobInLedger`, from `JobInv`), and a save that is refused is a stutter
(`SaveInLedger`): that is how an `Undo` behind a worker's back does no harm.
`StrandedCorrect` speaks of the runs no request has abandoned: those are the ones
whose failure is recorded.

**`LegacyImportProofs`** (from `ImportAssumption`): `ImportFaithful` (`ImportIsFaithful`)
and `ImportLosesNothing` (the action property `NothingIsLost`). What a publication
needs was established over many steps, each of which another process could have
come between. The invariant says, point by point of an importer, what its locals
still tell truly of its directory: the directory is its own since the exclusive
`mkdir`, the files it has written are there with the checksums it took, nobody
else has written any, and the manifest it is about to put in place differs from
the one on disk only where a handler may have cancelled it. Of the contents it says
that a copy is what was hashed before it, or the source is no longer that, or it
became that again (`restored`): the comparison after the copies rules out the second,
and the theorem says nothing of the contents in the third (section 5).

**`AgentProofs`** (from `AgentAssumption`, `BudgetAssumption`, `GroundingAssumption`,
`EvidenceAssumption`): all the safety invariants of `agent`. `IInv` has one part per
question, for each thread: where it is (`Placed`), what is left to it (`Counted`), what
its trace owes (`Traced`), what it read and collected (`HasRead`, `HasCollected`), that its
log holds offered claims (`LogIsOffered`) and that what it published was checked
(`Published`); and one for the process (`Funded`). `SpendingIsBounded` is not inductive:
what was billed and not yet charged is bounded there by the worst cases of the
requests that are out, which a settlement lowers by more than it charges. `Due`
states the exact difference, the bill of each reply that is not settled, and `Held`
what each thread has reserved, so that the guard's subtraction is never cut off
at zero. A step changes one thread (`Frame`), and the budget by one term of each sum
(`SumChanges`). That an answer is grounded rests on `RenderingIsFaithful`: every claim
fits beside the label, so an answer shows the label alone only when nothing else
was selected.

**`IdentityProofs`** (from `ResolverAssumption`): all the invariants of `identity`. The
resolver adds one link at a time and compares only the two tracklets a link joins,
while the invariants speak of whole groups. `IInv` therefore follows the groups.
`Grouped`: they partition the eligible tracklets, every accepted link lies in one of
them, the links within a group span it as a tree (`Spans`), and its members may live
together (`MayLive`), two teams only where a reviewer's links hold them. `InputInv`: the
log a resolution reads is one the log admitted. `DecisionsInv`: each live must-link
already looked at has its own link or joined tracklets that were together already.
`AutomaticInv`: automatic links come last. The key lemma is `JoinKeepsGroups`: two
groups all of whose pairs may live together become one that is again all of this,
because while every link is a reviewer's, a connected group holds each of its pairs by
hand. That the built artifact is accepted, and that what it confirms is human,
follow from the partition and the spanning tree; that evaluations agree, by counting
both sides through maps between groups and ground-truth players.

The prover cannot instantiate induction theorems that take the property as an
operator. Here the property is a set and the induction a least counterexample
(`InductionOnNaturals`, `InductionOnFinite`): this is how sums over the threads and the
recursive functions of the rendering are reasoned about.

**`V1CompatProofs`** (from `CompatAssumption`, with one worker per container as it is
deployed; `VideosAssumption`, `AI1Assumption`, `StatisticsAssumption`): both safety
invariants of `v1_compat`. `ResultsOwn` (`ResultsAreOwn`): a working tree keeps what
earlier builds left, so a file that is there need not be the run's own. `IInv` follows
what a build has made so far: `Alone`, while nobody joined a build no other build and
no orphan uses its tree; `Working`, the stages already ended left every one of their
files, and the stage that runs the files it has completed (`Made`), each of the run's
own video. Nothing is proved of a build that shares its tree. One step is only right
because of the data: statistics that keep no identity end without writing and would
leave an earlier build's file for the fatigue step. `StitchingKeeps` excludes it. For
every finite set of rows and every order that ties are ranked in, stitching the halves
leaves a player whenever the filters leave a track: if a track with enough rows is not
stitched its rows keep it; otherwise the identity it loses its rows to, or receives
them with, has at least as many. `ReportsAgree` (`ReportAgrees`) adds that no build
goes past the detection of a video the detector refuses (`Screened`), so that every
box is of a frame of the video, the bins partition the frames, and each track starts
in one bin and ends in one (`OneBin`, `EveryTrackCounted`); sums over the bins then
count the tracks (`SumOfShares`).

**`CampaignProofs`** (from `ScoringAssumption`, `ControlsAssumption`,
`CampaignAssumption`; `ToleranceAssumption` and `SampleAssumption`, which are what
`evaluation/copilot/agent-v2/decision-rule-v2.json` states of the thresholds and of
the samples, the latter within the targets of
`cli/copilot_agent_reliability.py:296-301`; and `LoadsAssumption`, the files the
schemas accept and a provider that asks for no more than the price of what was sent
and of a whole output, the list price `budget.py:71-88` reserves). `SpendingApproved`:
every paid request was sent under an approval of its stage, split, rule and code,
within its requests and money. The inductive invariant `IInv` has, of each process:
`Placed`, what each state of the command has already decided; `Funded`, the bill is at
most what the guard has spent and reserved, which is within the command's cap, so a
reply lost at any point was paid for already; `Cleared`, the approval found by the
check still describes the run, which keeps the rule it read when it started and scores
by it, whatever is accepted meanwhile; and `Asked`, the scores of a run are of
distinct planned questions, none of them among those left. `Reported` says what that
leaves of a written report: its verdict is that of its own scores. `PassEarned` reads
a PASS back through the criteria to those scores: distinct questions, as many as
planned, are all of them, and each criterion that was not missed bounds what it
counts. `CapsNobody` goes the other way: when nothing went wrong, each criterion reads
within its threshold, whatever the sample sizes. `PassIsEarned` is therefore stated
with the rates the rule asks for, and not with every answer right, which only a small
sample would allow. About `Scoring` alone: `ScorersAgree`, that on every case whose
label the loader accepts, unless it allows an answer beside other stops, scorers v1
and v2 accept the same results; and `PassNeedsEveryCriterion`, that PASS is only given
to a completed live held-out report of which every binding criterion was measured on
its sample and within its threshold. `ControlsTold`: a reliability report is of a
dataset that loaded (`Told`, on top of `IInv`), and there each control is settled by
one criterion. Ten answer no question as its label asks, which misses the task success
(`FailingControlsFail`): what they select is empty, not retrieved, not permitted, or
has no claim that answers. `route_following` and `select_every_claim` answer every
question that reaches a model (`RouteAnswers`, `EveryClaimAnswers`: the least tool
that owns an offered claim is within what a question may call), so those that want no
answer are false answers; for the same reason the baseline leaves no opportunity to
criterion 4 (`KeepIsNotEvaluable`). `operator_budget_stop` never completes. The label
oracle (`OraclePasses`) misses nothing, and each sample is at least as large as the
part of the split it is read from. It rests on what the committed labels are
(`IsCase`: a question about the label alone permits nothing else; `IsLabelled`: the
oracle succeeds wherever a model is asked, as
`v2/tests/test_copilot_agent_dataset_v3.py:288` checks of the committed split).

`IInv` of `ExecutionProofs`, `LegacyImportProofs`, `AgentProofs`,
`IdentityProofs`, `V1CompatProofs` and `CampaignProofs`, `KeptInv`, `WorkOK` and
`Barred` were checked by TLC on a small instance before they were proved, and so was
`Told`. `TypeOK` of `FilesystemQueue` and `Submission` is proved and no longer part of a
run. Only model-checked: `AcceptedRunEnds`, `JobsEnd`, `BuildsEnd`, `QuestionsEnd`
(liveness, out of the prover's reach). `SUBSET`
and `UNION` are put in parentheses wherever a set operator follows: TLC and TLAPS
read the bare form differently. No `RECURSIVE` operator is used in a module that
is proved about.

## 5. Findings

* **A crash can fail a run** (`execution_infrastructure`).
  `azure_service_bus.py:136` says crashes never lead to `fail()`. A worker that
  dies after its first artifact write leaves the object behind; the redelivered
  execution resumes after the completed stages, meets the write-once store and
  records the run as failed.
* **A recovery can hand a job to two workers** (`queue_window`).
  `recover_abandoned` moves the record and then rewrites it
  (`local_filesystem.py:134-135`); a worker that claims it in between is joined by
  the one that claims the rewritten copy, although
  `docs/v2/ANALYSIS_EXECUTION.md:25` calls the adapter process-safe.
* **A finalize is answered although nothing was enqueued** (`submission_finalize`).
  `upload_service.py:81-115` creates the attempt and then sends its job. If the
  send fails, the client retries, the second finalize finds the attempt and is
  answered 202 without sending; no later call sends it, although `api/app.py:304`
  says a finalize enqueues the attempt.

Met while modelling, without a run of their own:

*Submission.* A client that uploads again after the finalize (its grant lasts 15
minutes) and finalizes again makes the store stamp a checksum the attempt does not
record. A process that dies between inserting a retry and sending its job leaves a
queued attempt without a job, and the unique constraint then refuses every further
retry of the same source. Such an attempt is also left by a create that commits and
raises (`coordinator.py:189`, `:208`, `:221`: before the `try`), and by a save that
raises in the `except` clause (`:198`, `:213`, `:226`). The local store numbers
retries with no such constraint.

*Local queue.* A cancel request that ends between `app.py:482` and `:483`, or whose
save raises there, leaves the record in `cancelled` and the run queued; no worker
finds it, and a second POST cancel ends it. A worker that dies between the rename of
its claim and the rewrite leaves `claimed_at` unset, and nothing requeues the record
(`local_filesystem.py:93`, against `docs/v2/production-containerization.md:133`). A
recovery loads the run and moves the record later, so it can requeue the record of a
run that ended in between; the next claim files it again and executes nothing. The
worker that loses a claim takes the vanished record for a malformed one; if a recovery
puts it back before the quarantine looks, the job is moved to `failed` with its run
still open.

*Local store and importer.* A save that checked a queued run can overwrite a manifest
that has become terminal meanwhile (`local_analysis_runs.py:102`, `:142`, against
`ANALYSIS_EXECUTION.md:31`): `NothingIsLost` allows that one case and excludes the
rest. A source that changes during the import leaves the run `running`
(`legacy_v1.py:302`). One that is replaced while it is copied and put back before the
second look is published with a copy that has none of the recorded checksums: the code
hashes the sources (`:182`), copies them (`:237`) and hashes the sources again
(`:301`), and compares the copies with neither, although `docs/v2/MILESTONE_3.md:25`
says the checksums are verified afterward. TLC finds such an import when
`ImportIsFaithful` is stated without `restored`. A crash between the directory and its
first manifest burns the run id.

*V1 profile.* The docstring at `v1_compat_pipeline.py:83` speaks of a private working
tree under the run; with the cloud store the tree of `:105-114` is the same for all
runs of a host. A child that outlives its build (a cancellation query that raises,
`:293`) writes into the next one, which then returns another run's data: TLC finds it on a cloud host,
with `ResultsAreOwn` stated without `alone`. A cancellation query that
raises in `_run` leaves the child running, and so does a SIGKILL of the worker. The
claim timeout (`worker.py:46`, 300 s) is far below the profile's limit (7200 s), so two
builds may share a tree, and the Parquet file is collected without validation. The
fatigue advisory is not a comparison of the halves (`03_fatigue.py:133`), and a match
shorter than a block shows a drop of 100 %.

*Copilot.* `no_missing_evidence` is still offered when a measure was dropped as
malformed (`grounding.py:329`, against `docs/v2/COPILOT_AGENT_REAL_MODEL.md:33`).
Diagnostics registered without a schema version are accepted as evidence
(`evidence.py:391`) and then every citation of them is rejected (`grounding.py:547`).
When no claim fits the length of an answer, the answer is the label alone.

*Identity.* A live must-link of a tracklet whose class is not eligible escapes
as a `KeyError` (`resolver.py:218`).

*Campaign.* The absence of a report is checked when the command starts
(`copilot_agent_benchmark.py:411`) and the report written at its end (`:398`), so two
processes, or one after another that was killed, both send the held-out questions,
against the comment at `:404`; nothing records that an approval was used, and caps are
per process. An offline command writes its output without that check. A kill outside
a case leaves no report of money that was spent; an interrupt during a request neither
charges nor releases it. Criterion 4 has no opportunities on a baseline without
false answers, so a rule that keeps it never passes
(`docs/v2/COPILOT_AGENT_D7_DECISION.md:26-35`), which `ControlsAreTold` shows.

## 6. Not modelled

* Storage ports, errors and composition root, the in-memory object store: interfaces,
  a table of settings and a test double; their behaviour is that of the adapters.
* Readiness probes: a TTL cache of one boolean; two threads that refresh it at once
  both write an answer they have just taken.
* The renewal thread of a lock (`lock_renewal.py`) appears as the lock being kept, lost
  or ended, which is all a worker can see of it. Graceful termination of a worker is a
  worker that stops claiming.
* Field syntax of the contract, credentials, downloads, projections and audit rows,
  views of the API: no state the properties relate depends on them.
* YOLO, ByteTrack, the kinematic cost of a link and the metrics of AI2-A: numeric
  code around external models, replaced by what it may return.
* Details on which no guard of a modelled path depends, or that only make the model
  more permissive: tool results that failed although their arguments were accepted
  (`agent/tools.py:213-231`), the separate report of version 2 datasets, three refusals of
  the default readers (`execution/ai2c/observations.py:79-84`), the checks of frame times
  and gaps in the inputs of the identity resolution, its refusals of evidence about
  unknown tracklets.
* The other scripts of the V1 pipeline (kept, not run by the service), schema
  migrations, dashboards, smoke tests and demo commands, the review package of the
  evaluation, Terraform, images and workflows.
* Dead-lettering of a message after its last delivery leaves its run open: no code
  moves it on, so `AcceptedRunEnds` is about fewer deliveries, and `execution_safety`
  checks what is stored in that case.
