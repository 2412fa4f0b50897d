----------------------------- MODULE Submission -----------------------------
(***************************************************************************)
(* How an attempt comes to be on the cloud plane: multipart creation,      *)
(* retry and clone (execution/coordinator.py), direct upload               *)
(* (storage/upload_service.py, storage/object_storage/azure_blob.py), over *)
(* the PostgreSQL repository and the job queue.                            *)
(*                                                                         *)
(* A request is a thread of an API process; each of its external calls is  *)
(* one action.  What happens to a run once its job is sent is reduced to   *)
(* its status (Execution models it); a cancellation to its saved status.   *)
(***************************************************************************)
EXTENDS Integers

CONSTANTS
    Runs,            \* run identifiers
    Handlers,        \* request threads of the API processes
    Contents,        \* what a client may upload
    Size,            \* size of each of them
    MaxUploadBytes,  \* upload bound of the settings
    MaxRequests,     \* bound: requests begun
    MaxPuts,         \* bound: uploads by clients, repeated ones included
    MaxFaults,       \* bound: calls to the storage or the queue that raise
    MaxCrashes,      \* bound: requests that die with their process, or by a call to
                     \* the repository that raises
    None

ASSUME SubmissionAssumption ==
    /\ Size \in [Contents -> Nat]
    /\ {MaxUploadBytes, MaxRequests, MaxPuts, MaxFaults, MaxCrashes} \subseteq Nat
    /\ None \notin Runs \union Contents

VARIABLES
    row,         \* attempts of the repository
    object,      \* the input object of each run
    sent,        \* jobs the queue accepted for each run
    authorised,  \* runs a client holds an upload grant for
    request,     \* what each thread is doing
    budget,      \* what is left of the four bounds
    answered,    \* history: runs a request for was answered with 202
    abandoned,   \* history: runs whose request died with its process, or by a call to
                 \* the repository that raised
    late         \* history: runs whose input a client replaced after it was stamped

vars == <<row, object, sent, authorised, request, budget, answered, abandoned, late>>

Contract == INSTANCE AnalysisRun
    WITH StageCount <- 1, Unsupported <- {}, ArtifactCount <- 1

(***************************************************************************)
(* Data                                                                    *)
(***************************************************************************)

\* The columns of an attempt that submission reads or writes.
Rows == [status : Contract!RunStatus,
         analysis : Runs,
         attempt : Nat \ {0},
         previous : Runs \union {None},
         digest : Contents]

ASSUME NoneIsNoRow == None \notin Rows

\* An object: its bytes, the checksum of its metadata (None when a client
\* wrote it last), and its entity tag.
NoObject == [bytes |-> None, sha |-> None, etag |-> 0]
Objects == [bytes : Contents \union {None}, sha : Contents \union {None}, etag : Nat]

Idle == [pc |-> "idle", run |-> None, source |-> None, seen |-> NoObject]
Points == {"idle", "download", "stamp", "insert", "put", "inspect", "copy",
           "verify", "enqueue", "undo"}
Requests == [pc : Points, run : Runs \union {None}, source : Runs \union {None},
             seen : Objects]

Bounds == [requests |-> MaxRequests, puts |-> MaxPuts,
           faults |-> MaxFaults, crashes |-> MaxCrashes]

Init ==
    /\ row = [r \in Runs |-> None]
    /\ object = [r \in Runs |-> NoObject]
    /\ sent = [r \in Runs |-> 0]
    /\ authorised = {}
    /\ request = [h \in Handlers |-> Idle]
    /\ budget = Bounds
    /\ answered = {}
    /\ abandoned = {}
    /\ late = {}

HasRow(r) == row[r] # None
HasObject(r) == object[r] # NoObject
Direct(r) == r \in authorised

\* uuid4: an identifier nothing has used.
Fresh(r) == ~HasRow(r) /\ ~Direct(r)

Spend(what) ==
    /\ budget[what] > 0
    /\ budget' = [budget EXCEPT ![what] = @ - 1]

GoTo(h, point) == request' = [request EXCEPT ![h].pc = point]
Leave(h) == request' = [request EXCEPT ![h] = Idle]

\* A thread takes a request; source is the run it starts from, if any.
Accept(h, point, r, source, seen) ==
    /\ request[h] = Idle
    /\ Spend("requests")
    /\ request' = [request EXCEPT ![h] =
                       [pc |-> point, run |-> r, source |-> source, seen |-> seen]]

\* The response is 202 with the run.
Answer(h) ==
    /\ answered' = answered \union {request[h].run}
    /\ Leave(h)

At(h, point) == request[h].pc = point

(***************************************************************************)
(* Repository                                                              *)
(***************************************************************************)

\* Mutant: the unique constraint on (analysis, attempt) is missing.
MutantInsertable(r, analysis, attempt) == ~HasRow(r)

\* The primary key and the unique constraint let the row in.
Insertable(r, analysis, attempt) ==
    /\ ~HasRow(r)
    /\ \A q \in Runs : HasRow(q) =>
           <<row[q].analysis, row[q].attempt>> # <<analysis, attempt>>

NewRow(analysis, attempt, previous, digest) ==
    [status |-> "queued", analysis |-> analysis, attempt |-> attempt,
     previous |-> previous, digest |-> digest]

Insert(r, new) ==
    /\ Insertable(r, new.analysis, new.attempt)
    /\ row' = [row EXCEPT ![r] = new]

\* Mutant: save() replaces whatever attempt is stored.
MutantSave(r, status) == row' = [row EXCEPT ![r].status = status]

\* save(): the status changes if the transition is allowed; otherwise the call
\* raises and the row is as it was.
Save(r, status) ==
    row' = IF <<row[r].status, status>> \in Contract!AllowedTransitions
           THEN [row EXCEPT ![r].status = status]
           ELSE row

(***************************************************************************)
(* Direct upload                                                           *)
(***************************************************************************)

Authorize(r) ==
    /\ Fresh(r)
    /\ authorised' = authorised \union {r}
    /\ UNCHANGED <<row, object, sent, request, budget, answered, abandoned, late>>

\* The client writes the object, as often as its grant lasts.  A write replaces
\* the metadata too.
ClientPut(r, c) ==
    /\ Direct(r)
    /\ Spend("puts")
    /\ object' = [object EXCEPT ![r] = [bytes |-> c, sha |-> None, etag |-> @.etag + 1]]
    /\ late' = IF object[r].sha # None \/ HasRow(r) THEN late \union {r} ELSE late
    /\ UNCHANGED <<row, sent, authorised, request, answered, abandoned>>

\* finalize_upload reads the properties; a missing or oversized object ends the
\* request with an error and changes nothing.
Measure(h, r) ==
    /\ Direct(r)
    /\ HasObject(r)
    /\ Size[object[r].bytes] \in 1 .. MaxUploadBytes
    /\ Accept(h, "download", r, None, object[r])
    /\ UNCHANGED <<row, object, sent, authorised, answered, abandoned, late>>

\* The checksum is computed from the bytes stored now.
Download(h) ==
    /\ At(h, "download")
    /\ request' = [request EXCEPT ![h].pc = "stamp",
                                  ![h].seen.sha = object[request[h].run].bytes]
    /\ UNCHANGED <<row, object, sent, authorised, budget, answered, abandoned, late>>

\* Mutant: the metadata is written whatever became of the object.
MutantUnchangedSince(r, seen) == TRUE

\* if_match: the object is the one whose properties were read.
UnchangedSince(r, seen) == object[r].etag = seen.etag

Stamp(h) ==
    LET r == request[h].run IN
    /\ At(h, "stamp")
    /\ \/ /\ UnchangedSince(r, request[h].seen)
          /\ object' = [object EXCEPT ![r].sha = request[h].seen.sha,
                                      ![r].etag = @ + 1]
          /\ GoTo(h, "insert")
       \/ /\ ~UnchangedSince(r, request[h].seen)
          /\ Leave(h)
          /\ UNCHANGED object
    /\ UNCHANGED <<row, sent, authorised, budget, answered, abandoned, late>>

\* Mutant: a finalize that finds the attempt enqueues its job as well.
MutantFinalizeExisting(h) == GoTo(h, "enqueue") /\ UNCHANGED answered

\* The attempt exists: a duplicate finalize is answered with it.
FinalizeExisting(h) == Answer(h)

FinalizeInsert(h) ==
    LET r == request[h].run IN
    /\ At(h, "insert")
    /\ \/ /\ Insert(r, NewRow(r, 1, None, request[h].seen.sha))
          /\ GoTo(h, "enqueue")
          /\ UNCHANGED answered
       \/ /\ HasRow(r)
          /\ FinalizeExisting(h)
          /\ UNCHANGED row
    /\ UNCHANGED <<object, sent, authorised, budget, abandoned, late>>

(***************************************************************************)
(* Multipart creation, retry, clone                                        *)
(***************************************************************************)

\* The upload is streamed and probed, then the attempt is created.  A rejected
\* upload changes nothing.
CreateAnalysis(h, r, c) ==
    /\ Fresh(r)
    /\ Size[c] \in 1 .. MaxUploadBytes
    /\ Insert(r, NewRow(r, 1, None, c))
    /\ Accept(h, "put", r, None, [bytes |-> c, sha |-> c, etag |-> 1])
    /\ UNCHANGED <<object, sent, authorised, answered, abandoned, late>>

\* retry_from raises for any other status.
Retryable(r) == row[r].status \in {"failed", "partial"}

\* What is read of the source never changes once it is retryable, so reading it
\* and inserting the new attempt are one step.
Retry(h, p, r) ==
    /\ HasRow(p)
    /\ Retryable(p)
    /\ Fresh(r)
    /\ Insert(r, NewRow(row[p].analysis, row[p].attempt + 1, p, row[p].digest))
    /\ Accept(h, "inspect", r, p, NoObject)
    /\ UNCHANGED <<object, sent, authorised, answered, abandoned, late>>

Clone(h, p, r) ==
    /\ HasRow(p)
    /\ Fresh(r)
    /\ Insert(r, NewRow(r, 1, None, row[p].digest))
    /\ Accept(h, "inspect", r, p, NoObject)
    /\ UNCHANGED <<object, sent, authorised, answered, abandoned, late>>

\* put_input_file: the object is created, never replaced.
PutInput(h) ==
    LET r == request[h].run IN
    /\ At(h, "put")
    /\ ~HasObject(r)
    /\ object' = [object EXCEPT ![r] = request[h].seen]
    /\ GoTo(h, "enqueue")
    /\ UNCHANGED <<row, sent, authorised, budget, answered, abandoned, late>>

\* copy_input: the source exists and carries a checksum.
Verified(o) == o # NoObject /\ o.sha # None

Inspect(h) ==
    LET p == request[h].source IN
    /\ At(h, "inspect")
    /\ \/ /\ Verified(object[p])
          /\ request' = [request EXCEPT ![h].pc = "copy", ![h].seen = object[p]]
       \/ /\ ~Verified(object[p])
          /\ GoTo(h, "undo")
    /\ UNCHANGED <<row, object, sent, authorised, budget, answered, abandoned, late>>

Copyable(p, r) == HasObject(p) /\ ~HasObject(r)

\* The provider copies the bytes the source has now; the metadata is what the
\* request saw.  A copy of a replaced input is one too.
Copy(p, r, sha) ==
    /\ object' = [object EXCEPT ![r] = [bytes |-> object[p].bytes, sha |-> sha, etag |-> 1]]
    /\ late' = IF p \in late THEN late \union {r} ELSE late

\* A source that is gone or a destination that exists is an error.
StartCopy(h) ==
    LET r == request[h].run
        p == request[h].source
    IN
    /\ At(h, "copy")
    /\ \/ /\ Copyable(p, r)
          /\ Copy(p, r, request[h].seen.sha)
          /\ GoTo(h, "verify")
       \/ /\ ~Copyable(p, r)
          /\ GoTo(h, "undo")
          /\ UNCHANGED <<object, late>>
    /\ UNCHANGED <<row, sent, authorised, budget, answered, abandoned>>

SameObject(copied, expected) ==
    /\ Size[copied.bytes] = Size[expected.bytes]
    /\ copied.sha = expected.sha

VerifyCopy(h) ==
    LET r == request[h].run IN
    /\ At(h, "verify")
    /\ \/ /\ SameObject(object[r], request[h].seen)
          /\ GoTo(h, "enqueue")
          /\ UNCHANGED object
       \/ /\ ~SameObject(object[r], request[h].seen)
          /\ object' = [object EXCEPT ![r] = NoObject]
          /\ GoTo(h, "undo")
    /\ UNCHANGED <<row, sent, authorised, budget, answered, abandoned, late>>

Enqueue(h) ==
    LET r == request[h].run IN
    /\ At(h, "enqueue")
    /\ sent' = [sent EXCEPT ![r] = @ + 1]
    /\ Answer(h)
    /\ UNCHANGED <<row, object, authorised, budget, abandoned, late>>

(***************************************************************************)
(* What goes wrong                                                         *)
(***************************************************************************)

\* Points inside the try block of the coordinator.
Guarded == {"put", "inspect", "copy", "verify", "enqueue"}

\* Mutant: retry and clone do not record the failure either.
MutantAfterFault(h) ==
    IF At(h, "put") THEN GoTo(h, "undo") ELSE Leave(h)

\* The coordinator records the failure of a call inside the block; nothing guards
\* the save that records it, nor finalize.
AfterFault(h) ==
    IF request[h].pc \in Guarded /\ ~Direct(request[h].run)
    THEN GoTo(h, "undo")
    ELSE Leave(h)

\* What a call that raises may have done all the same: the upload or the copy
\* stored, the job accepted, the failure saved.
Undone == UNCHANGED <<row, object, sent, late>>

DoneAnyway(h) ==
    LET r == request[h].run
        p == request[h].source
    IN
    \/ /\ At(h, "put")
       /\ object' = [object EXCEPT ![r] = request[h].seen]
       /\ UNCHANGED <<row, sent, late>>
    \/ /\ At(h, "copy")
       /\ Copyable(p, r)
       /\ Copy(p, r, request[h].seen.sha)
       /\ UNCHANGED <<row, sent>>
    \/ /\ At(h, "enqueue")
       /\ sent' = [sent EXCEPT ![r] = @ + 1]
       /\ UNCHANGED <<row, object, late>>
    \/ /\ At(h, "undo")
       /\ Save(r, "failed")
       /\ UNCHANGED <<object, sent, late>>

RepositoryCalls == {"insert", "undo"}

\* The process dies or the repository raises: the request says nothing of its run.
Abandon(h) ==
    /\ Spend("crashes")
    /\ abandoned' = abandoned \union {request[h].run}

Fault(h) ==
    /\ ~At(h, "idle")
    /\ Undone \/ DoneAnyway(h)
    /\ AfterFault(h)
    /\ IF request[h].pc \in RepositoryCalls THEN Abandon(h)
       ELSE Spend("faults") /\ UNCHANGED abandoned
    /\ UNCHANGED <<authorised, answered>>

\* The create of a submission, retry or clone commits the attempt and raises all
\* the same: the request ends where it would go on.  (That of a finalize ends
\* like a send that raises.)
CreateRaises(h) ==
    /\ request[h].pc \in {"put", "inspect"}
    /\ Abandon(h)
    /\ Leave(h)
    /\ UNCHANGED <<row, object, sent, authorised, answered, late>>

\* The except clause saves the failure and raises again.
Undo(h) ==
    /\ At(h, "undo")
    /\ Save(request[h].run, "failed")
    /\ Leave(h)
    /\ UNCHANGED <<object, sent, authorised, budget, answered, abandoned, late>>

Crash(h) ==
    /\ ~At(h, "idle")
    /\ Abandon(h)
    /\ Leave(h)
    /\ UNCHANGED <<row, object, sent, authorised, answered, late>>

(***************************************************************************)
(* Afterwards: the executor and the cancel handler                         *)
(***************************************************************************)

Analyse(r, status) ==
    /\ HasRow(r)
    /\ \/ sent[r] > 0 /\ row[r].status = "queued" /\ status = "running"
       \/ row[r].status = "running" /\ status \in Contract!TerminalStatus
    /\ Save(r, status)
    /\ UNCHANGED <<object, sent, authorised, request, budget, answered, abandoned, late>>

CancelRun(r) ==
    /\ HasRow(r)
    /\ row[r].status = "queued"
    /\ Save(r, "cancelled")
    /\ UNCHANGED <<object, sent, authorised, request, budget, answered, abandoned, late>>

Finalize(h) == (\E r \in Runs : Measure(h, r)) \/ Download(h) \/ Stamp(h) \/ FinalizeInsert(h)
Submit(h) ==
    \/ \E r \in Runs, c \in Contents : CreateAnalysis(h, r, c)
    \/ \E p, r \in Runs : Retry(h, p, r) \/ Clone(h, p, r)
CopyInput(h) == Inspect(h) \/ StartCopy(h) \/ VerifyCopy(h)

HandlerStep(h) ==
    \/ Finalize(h) \/ Submit(h) \/ PutInput(h) \/ CopyInput(h) \/ Enqueue(h)
    \/ Fault(h) \/ CreateRaises(h) \/ Undo(h) \/ Crash(h)

\* What others than a request do to a run.
RunStep(r) ==
    \/ Authorize(r) \/ CancelRun(r)
    \/ \E c \in Contents : ClientPut(r, c)
    \/ \E status \in Contract!RunStatus : Analyse(r, status)

Next == (\E r \in Runs : RunStep(r)) \/ (\E h \in Handlers : HandlerStep(h))

Spec == Init /\ [][Next]_vars

(***************************************************************************)
(* Properties                                                              *)
(***************************************************************************)

\* Every variable has its type; an object has bytes, and a request that is not
\* over is about a run, and about a source while it copies.
TypeOK ==
    /\ row \in [Runs -> Rows \union {None}]
    /\ object \in [Runs -> Objects]
    /\ sent \in [Runs -> Nat]
    /\ authorised \subseteq Runs
    /\ request \in [Handlers -> Requests]
    /\ budget \in [{"requests", "puts", "faults", "crashes"} -> Nat]
    /\ answered \subseteq Runs
    /\ abandoned \subseteq Runs
    /\ late \subseteq Runs
    /\ \A r \in Runs : HasObject(r) => object[r].bytes \in Contents
    /\ \A h \in Handlers :
           /\ ~At(h, "idle") => request[h].run \in Runs
           /\ request[h].pc \in {"inspect", "copy", "verify"} => request[h].source \in Runs

\* However often a direct upload is finalized, by whatever number of threads and
\* after whatever failures, at most one job is ever sent for a run
\* (upload_service.py:9).
OneJob == \A r \in Runs : sent[r] <= 1

\* The attempts of an analysis are a chain: each one but the first links to an
\* attempt numbered one less that failed or is partial, and no two attempts
\* link to the same one, however retries and clones interleave.
AttemptsFormAChain ==
    \A r \in Runs : HasRow(r) /\ row[r].attempt > 1 =>
        LET p == row[r].previous IN
        /\ p \in Runs /\ HasRow(p)
        /\ row[p].analysis = row[r].analysis
        /\ row[p].attempt = row[r].attempt - 1
        /\ row[p].status \in {"failed", "partial"}
        /\ \A q \in Runs \ {r} : HasRow(q) => row[q].previous # p

\* A job is sent only for an attempt whose input is in place, and the bytes a
\* worker will read are those whose checksum the attempt records, unless the
\* client replaced its upload after a finalize had stamped it.
JobHasItsInput ==
    \A r \in Runs : sent[r] > 0 =>
        /\ HasRow(r) /\ HasObject(r)
        /\ r \notin late => object[r].bytes = row[r].digest

\* Whatever put, copy or send of a multipart creation, a retry or a clone fails,
\* carried out or not, the attempt does not stay queued with no job to run it.
\* It does when the process dies, when the create commits but raises, and when
\* the save that records the failure raises as well: nothing handles these.
NothingIsStranded ==
    \A r \in Runs :
        /\ HasRow(r) /\ row[r].status = "queued"
        /\ sent[r] = 0
        /\ ~Direct(r)
        /\ r \notin abandoned
        => \E h \in Handlers : request[h].run = r

\* Once no request is at work on a run, a finalize of it that was answered with
\* 202 has enqueued the attempt (api/app.py:304), be it by an earlier request.
AnsweredIsSent ==
    \A r \in answered : Direct(r) =>
        \/ sent[r] > 0
        \/ \E h \in Handlers : request[h].run = r

(***************************************************************************)
(* Submission keeps the ledger it promises                                 *)
(***************************************************************************)

Ledger == INSTANCE AttemptLedger WITH attempt <- row, job <- sent

\* Every step of a request, a worker or the cancel handler is one entry of the
\* ledger or leaves it alone.  A request whose send raised although the broker
\* had accepted the job does not overwrite how a worker ended the run meanwhile,
\* no work begins before the job is sent, and of two retries of one attempt only
\* one is recorded (coordinator.py:195, lifecycle.py:63).
LedgerSpec == Ledger!Spec

=============================================================================
