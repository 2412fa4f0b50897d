-------------------------- MODULE SubmissionProofs --------------------------
(***************************************************************************)
(* Theorems about Submission, for any runs, request threads, contents and  *)
(* bounds: type correctness, one job per run, attempts that form a chain,  *)
(* the recorded input in place before the job, no attempt stranded by a    *)
(* put, copy or send that fails, and that they keep AttemptLedger.         *)
(***************************************************************************)
EXTENDS Submission, TLAPS

(***************************************************************************)
(* The inductive invariant                                                 *)
(***************************************************************************)

\* A request that will enqueue r, unless a step of it fails.
Holds(h, r) == request[h].run = r /\ request[h].pc \in Guarded

\* The requests of a direct upload that have not created the attempt yet.
Finalizing == {"download", "stamp", "insert"}

\* A run that is still to be enqueued is held by one request and has no job.
JobInv ==
    /\ OneJob
    /\ \A r \in Runs : ~HasRow(r) => sent[r] = 0
    /\ \A h \in Handlers, r \in Runs : Holds(h, r) => HasRow(r) /\ sent[r] = 0
    /\ \A g, h \in Handlers, r \in Runs : Holds(g, r) /\ Holds(h, r) => g = h

\* A first attempt links to none, the others form a chain.
ChainInv ==
    /\ AttemptsFormAChain
    /\ \A r \in Runs : HasRow(r) /\ row[r].attempt = 1 => row[r].previous = None

\* The two ways to submit never meet on a run.
PathInv ==
    \A h \in Handlers :
        /\ request[h].pc \in Finalizing =>
               Direct(request[h].run) /\ HasObject(request[h].run)
        /\ request[h].pc \in {"put", "inspect", "copy", "verify"} =>
               ~Direct(request[h].run)

\* What a request knows of its run, by the point it has reached.
PutSeen(h) ==
    At(h, "put") =>
        /\ request[h].seen.bytes = row[request[h].run].digest
        /\ request[h].seen.bytes \in Contents

CopySeen(h) ==
    request[h].pc \in {"inspect", "copy", "verify"} =>
        /\ HasRow(request[h].source)
        /\ row[request[h].source].digest = row[request[h].run].digest

\* What is enqueued, or recorded as failed, has been created.
Submitted(h) ==
    /\ request[h].pc \in Guarded \union {"undo"} => HasRow(request[h].run)
    /\ request[h].pc \in {"verify", "enqueue"} => HasObject(request[h].run)

\* While the entity tag is the one it read, a finalize has the checksum of the
\* object; tags only grow.
StampSeen(h) ==
    LET o == object[request[h].run]
        seen == request[h].seen
    IN
    /\ request[h].pc \in {"download", "stamp"} => seen.etag <= o.etag
    /\ At(h, "stamp") => seen.sha \in Contents
    /\ At(h, "stamp") /\ seen.etag = o.etag => seen.sha = o.bytes

InsertSeen(h) ==
    LET o == object[request[h].run]
        seen == request[h].seen
    IN
    At(h, "insert") =>
        /\ seen.sha \in Contents
        /\ request[h].run \notin late => seen.sha = o.bytes /\ o.sha # None

\* Objects hold what attempts record.
StoredInv ==
    \A r \in Runs :
        /\ HasRow(r) /\ HasObject(r) /\ r \notin late => object[r].bytes = row[r].digest
        /\ sent[r] > 0 => HasObject(r)
        /\ HasObject(r) => HasRow(r) \/ Direct(r)

Known(h) == PutSeen(h) /\ CopySeen(h) /\ Submitted(h) /\ StampSeen(h) /\ InsertSeen(h)

InputInv == StoredInv /\ \A h \in Handlers : Known(h)

IInv == TypeOK /\ JobInv /\ ChainInv /\ PathInv /\ InputInv /\ NothingIsStranded

(***************************************************************************)
(* Type correctness                                                        *)
(***************************************************************************)

LEMMA StatusNames ==
    /\ Contract!TerminalStatus = {"succeeded", "partial", "failed", "cancelled"}
    /\ Contract!RunStatus = {"queued", "running"} \union Contract!TerminalStatus
    /\ Contract!AllowedTransitions =
           ({"queued"} \X {"queued", "running", "failed", "cancelled"})
               \union ({"running"} \X {"running", "succeeded", "partial", "failed", "cancelled"})
BY DEF Contract!TerminalStatus, Contract!RunStatus, Contract!AllowedTransitions

LEMMA NewRowType ==
    ASSUME NEW r \in Runs, NEW k \in Nat \ {0}, NEW p \in Runs \union {None},
           NEW c \in Contents
    PROVE  NewRow(r, k, p, c) \in Rows
BY StatusNames DEF NewRow, Rows

LEMMA SaveType ==
    ASSUME TypeOK, NEW r \in Runs, HasRow(r), NEW status \in Contract!RunStatus,
           Save(r, status)
    PROVE  row' \in [Runs -> Rows \union {None}]
<1>1. row[r] \in Rows
  BY DEF TypeOK, HasRow
<1>2. [row[r] EXCEPT !.status = status] \in Rows
  BY <1>1 DEF Rows
<1>. QED  BY <1>2 DEF Save, TypeOK

LEMMA SpendType ==
    ASSUME TypeOK, NEW what \in {"requests", "puts", "faults", "crashes"}, Spend(what)
    PROVE  budget' \in [{"requests", "puts", "faults", "crashes"} -> Nat]
BY DEF TypeOK, Spend

\* The conjuncts of TypeOK about requests and about objects.
RequestOK ==
    /\ request \in [Handlers -> Requests]
    /\ \A h \in Handlers :
           /\ ~At(h, "idle") => request[h].run \in Runs
           /\ request[h].pc \in {"inspect", "copy", "verify"} => request[h].source \in Runs

ObjectOK ==
    /\ object \in [Runs -> Objects]
    /\ \A r \in Runs : HasObject(r) => object[r].bytes \in Contents

RestOK ==
    /\ row \in [Runs -> Rows \union {None}]
    /\ sent \in [Runs -> Nat]
    /\ authorised \subseteq Runs
    /\ budget \in [{"requests", "puts", "faults", "crashes"} -> Nat]
    /\ answered \subseteq Runs
    /\ abandoned \subseteq Runs
    /\ late \subseteq Runs

LEMMA TypeParts == TypeOK <=> RequestOK /\ ObjectOK /\ RestOK
BY DEF TypeOK, RequestOK, ObjectOK, RestOK

LEMMA NoObjectType == NoObject \in Objects
BY DEF NoObject, Objects

LEMMA LeaveType ==
    ASSUME RequestOK, NEW h \in Handlers, Leave(h)
    PROVE  RequestOK'
BY NoObjectType DEF RequestOK, Leave, Idle, Requests, Points, At

LEMMA GoToType ==
    ASSUME RequestOK, NEW h \in Handlers, ~At(h, "idle"), NEW point \in Points, GoTo(h, point),
           point \in {"inspect", "copy", "verify"} => request[h].source \in Runs
    PROVE  RequestOK'
BY DEF RequestOK, GoTo, Requests, At

LEMMA AcceptType ==
    ASSUME RequestOK, NEW h \in Handlers, NEW point \in Points, NEW r \in Runs,
           NEW source \in Runs \union {None}, NEW seen \in Objects,
           Accept(h, point, r, source, seen),
           point \in {"inspect", "copy", "verify"} => source \in Runs
    PROVE  RequestOK'
BY DEF RequestOK, Accept, Requests, At

LEMMA RequestStep == ASSUME TypeOK, [Next]_vars PROVE RequestOK'
<1>. USE TypeParts
<1>0. CASE UNCHANGED request
  BY <1>0 DEF RequestOK, At
<1>1. ASSUME NEW h \in Handlers, NEW r \in Runs, Measure(h, r)
      PROVE  RequestOK'
  <2>1. /\ "download" \in Points
        /\ object[r] \in Objects
    BY DEF Points, ObjectOK
  <2>. QED  BY <1>1, <2>1, AcceptType DEF Measure
<1>2. ASSUME NEW h \in Handlers, Download(h)
      PROVE  RequestOK'
  <2>1. /\ request[h] \in Requests
        /\ request[h].run \in Runs
        /\ request[h].pc = "download"
    BY <1>2 DEF Download, RequestOK, At
  <2>2. object[request[h].run].bytes \in Contents \union {None}
    BY <2>1 DEF ObjectOK, Objects
  <2>3. [request[h] EXCEPT !.pc = "stamp", !.seen.sha = object[request[h].run].bytes] \in Requests
    BY <2>1, <2>2 DEF Requests, Objects, Points
  <2>4. request' = [request EXCEPT ![h] =
            [request[h] EXCEPT !.pc = "stamp", !.seen.sha = object[request[h].run].bytes]]
    BY <1>2 DEF Download, RequestOK
  <2>. HIDE DEF Requests
  <2>5. request' \in [Handlers -> Requests]
    BY <2>3, <2>4 DEF RequestOK
  <2>6. request'[h].run = request[h].run /\ request'[h].pc = "stamp"
    BY <2>1, <2>4 DEF RequestOK, Requests
  <2>7. \A g \in Handlers \ {h} : request'[g] = request[g]
    BY <2>4 DEF RequestOK
  <2>. QED  BY <2>1, <2>5, <2>6, <2>7 DEF RequestOK, At
<1>3. ASSUME NEW h \in Handlers, Stamp(h) \/ FinalizeInsert(h)
      PROVE  RequestOK'
  <2>1. ~At(h, "idle") /\ {"insert", "enqueue"} \subseteq Points
    BY <1>3 DEF Stamp, FinalizeInsert, At, Points
  <2>2. Leave(h) \/ GoTo(h, "insert") \/ GoTo(h, "enqueue")
    BY <1>3 DEF Stamp, FinalizeInsert, FinalizeExisting, Answer
  <2>. QED  BY <2>1, <2>2, LeaveType, GoToType
<1>4. ASSUME NEW h \in Handlers, Submit(h)
      PROVE  RequestOK'
  <2>1. {"put", "inspect"} \subseteq Points
    BY DEF Points
  <2>2. ASSUME NEW r \in Runs, NEW c \in Contents, CreateAnalysis(h, r, c)
        PROVE  RequestOK'
    <3>1. [bytes |-> c, sha |-> c, etag |-> 1] \in Objects
      BY DEF Objects
    <3>. QED  BY <2>1, <2>2, <3>1, AcceptType DEF CreateAnalysis
  <2>3. ASSUME NEW p \in Runs, NEW r \in Runs, Retry(h, p, r) \/ Clone(h, p, r)
        PROVE  RequestOK'
    BY <2>1, <2>3, AcceptType, NoObjectType DEF Retry, Clone
  <2>. QED  BY <1>4, <2>2, <2>3 DEF Submit
<1>5. ASSUME NEW h \in Handlers, Inspect(h)
      PROVE  RequestOK'
  <2>1. ~At(h, "idle") /\ "undo" \in Points /\ request[h].source \in Runs
    BY <1>5 DEF Inspect, At, Points, RequestOK
  <2>2. CASE GoTo(h, "undo")
    BY <2>1, <2>2, GoToType
  <2>3. CASE request' = [request EXCEPT ![h].pc = "copy", ![h].seen = object[request[h].source]]
    <3>1. object[request[h].source] \in Objects
      BY <2>1 DEF ObjectOK
    <3>. QED  BY <1>5, <2>1, <2>3, <3>1 DEF RequestOK, Requests, Points, At
  <2>. QED  BY <1>5, <2>2, <2>3 DEF Inspect
<1>6. ASSUME NEW h \in Handlers, StartCopy(h) \/ VerifyCopy(h) \/ PutInput(h)
      PROVE  RequestOK'
  <2>1. /\ ~At(h, "idle") /\ {"verify", "enqueue", "undo"} \subseteq Points
        /\ request[h].pc \in {"copy", "verify"} => request[h].source \in Runs
    BY <1>6 DEF StartCopy, Copy, VerifyCopy, PutInput, At, Points, RequestOK
  <2>2. \/ GoTo(h, "undo") \/ GoTo(h, "enqueue")
        \/ GoTo(h, "verify") /\ request[h].pc = "copy"
    BY <1>6 DEF StartCopy, Copy, VerifyCopy, PutInput, At
  <2>. QED  BY <2>1, <2>2, GoToType
<1>7. ASSUME NEW h \in Handlers, Enqueue(h) \/ Fault(h) \/ Undo(h) \/ CreateRaises(h) \/ Crash(h)
      PROVE  RequestOK'
  <2>1. ~At(h, "idle") /\ "undo" \in Points
    BY <1>7 DEF Enqueue, Fault, Undo, Crash, CreateRaises, Abandon, At, Points
  <2>2. Leave(h) \/ GoTo(h, "undo")
    BY <1>7 DEF Enqueue, Fault, Undo, Crash, CreateRaises, Abandon, Answer, AfterFault
  <2>. QED  BY <2>1, <2>2, LeaveType, GoToType
<1>8. ASSUME NEW r \in Runs, RunStep(r)
      PROVE  RequestOK'
  BY <1>0, <1>8 DEF RunStep, Authorize, CancelRun, ClientPut, Analyse
<1>9. CASE UNCHANGED vars
  BY <1>0, <1>9 DEF vars
<1>10. ASSUME NEW h \in Handlers, HandlerStep(h)
       PROVE  RequestOK'
  BY <1>1, <1>2, <1>3, <1>4, <1>5, <1>6, <1>7, <1>10 DEF HandlerStep, Finalize, CopyInput
<1>. QED  BY <1>8, <1>9, <1>10 DEF Next

\* The fields of a request at work.
LEMMA AtWork ==
    ASSUME TypeOK, NEW h \in Handlers, ~At(h, "idle")
    PROVE  /\ request[h] \in Requests
           /\ request[h].run \in Runs
           /\ request[h].seen \in Objects
           /\ request[h].pc \in {"inspect", "copy", "verify"} => request[h].source \in Runs
BY TypeParts DEF RequestOK, Requests, At

\* Replacing the object of one run.
LEMMA WriteType ==
    ASSUME ObjectOK, NEW r \in Runs, NEW o \in Objects, o = NoObject \/ o.bytes \in Contents,
           object' = [object EXCEPT ![r] = o]
    PROVE  ObjectOK'
BY DEF ObjectOK, HasObject

LEMMA ObjectStep == ASSUME TypeOK, PathInv, InputInv, [Next]_vars PROVE ObjectOK'
<1>. USE TypeParts
<1>0. CASE UNCHANGED object
  BY <1>0 DEF ObjectOK, HasObject
<1>1. ASSUME NEW r \in Runs, NEW c \in Contents, ClientPut(r, c)
      PROVE  ObjectOK'
  <2>1. object[r].etag + 1 \in Nat
    BY DEF ObjectOK, Objects
  <2>2. [bytes |-> c, sha |-> None, etag |-> object[r].etag + 1] \in Objects
    BY <2>1 DEF Objects
  <2>3. object' = [object EXCEPT ![r] =
                       [bytes |-> c, sha |-> None, etag |-> object[r].etag + 1]]
    BY <1>1 DEF ClientPut
  <2>. QED  BY <2>2, <2>3, WriteType
<1>2. ASSUME NEW h \in Handlers, Stamp(h)
      PROVE  ObjectOK'
  <2>. DEFINE r == request[h].run
              o == [object[r] EXCEPT !.sha = request[h].seen.sha, !.etag = @ + 1]
  <2>1. r \in Runs /\ request[h].seen \in Objects
    BY <1>2, AtWork DEF Stamp, At
  <2>2. object[r].bytes \in Contents
    BY <1>2, <2>1 DEF Stamp, PathInv, Finalizing, At, ObjectOK
  <2>3. o \in Objects /\ o.bytes \in Contents
    <3>1. /\ object[r] \in Objects
          /\ request[h].seen.sha \in Contents \union {None}
          /\ object[r].etag + 1 \in Nat
      BY <2>1 DEF ObjectOK, Objects
    <3>. QED  BY <2>2, <3>1 DEF Objects
  <2>4. object' = [object EXCEPT ![r] = o] \/ UNCHANGED object
    BY <1>2, <2>1 DEF Stamp, ObjectOK
  <2>. HIDE DEF o, r
  <2>. QED  BY <1>0, <2>1, <2>3, <2>4, WriteType DEF r
<1>3. ASSUME NEW h \in Handlers, PutInput(h)
      PROVE  ObjectOK'
  <2>1. /\ request[h].run \in Runs /\ request[h].seen \in Objects
        /\ At(h, "put")
    BY <1>3, AtWork DEF PutInput, At
  <2>2. request[h].seen.bytes \in Contents
    BY <2>1 DEF InputInv, Known, PutSeen
  <2>. QED  BY <1>3, <2>1, <2>2, WriteType DEF PutInput
<1>4. ASSUME NEW h \in Handlers, StartCopy(h)
      PROVE  ObjectOK'
  <2>. DEFINE r == request[h].run
              p == request[h].source
              o == [bytes |-> object[p].bytes, sha |-> request[h].seen.sha, etag |-> 1]
  <2>1. r \in Runs /\ p \in Runs /\ request[h].seen \in Objects
    BY <1>4, AtWork DEF StartCopy, Copy, At
  <2>2. CASE Copyable(p, r) /\ object' = [object EXCEPT ![r] = o]
    <3>1. o \in Objects /\ o.bytes \in Contents
      BY <2>1, <2>2 DEF ObjectOK, Objects, Copyable
    <3>. HIDE DEF o
    <3>. QED  BY <2>1, <2>2, <3>1, WriteType
  <2>. QED  BY <1>0, <1>4, <2>2 DEF StartCopy, Copy
<1>5. ASSUME NEW h \in Handlers, VerifyCopy(h)
      PROVE  ObjectOK'
  <2>1. request[h].run \in Runs
    BY <1>5, AtWork DEF VerifyCopy, At
  <2>. QED  BY <1>0, <1>5, <2>1, WriteType, NoObjectType DEF VerifyCopy
<1>6. ASSUME NEW h \in Handlers, Fault(h)
      PROVE  ObjectOK'
  <2>1. CASE At(h, "put") /\ object' = [object EXCEPT ![request[h].run] = request[h].seen]
    <3>1. request[h].run \in Runs /\ request[h].seen \in Objects
      BY <2>1, AtWork DEF At
    <3>2. request[h].seen.bytes \in Contents
      BY <2>1 DEF InputInv, Known, PutSeen
    <3>. QED  BY <2>1, <3>1, <3>2, WriteType
  <2>. DEFINE r == request[h].run
              p == request[h].source
              o == [bytes |-> object[p].bytes, sha |-> request[h].seen.sha, etag |-> 1]
  <2>2. CASE At(h, "copy") /\ Copyable(p, r) /\ object' = [object EXCEPT ![r] = o]
    <3>1. r \in Runs /\ p \in Runs /\ request[h].seen \in Objects
      BY <2>2, AtWork DEF At
    <3>2. o \in Objects /\ o.bytes \in Contents
      BY <2>2, <3>1 DEF ObjectOK, Objects, Copyable
    <3>. HIDE DEF o, r, p
    <3>. QED  BY <2>2, <3>1, <3>2, WriteType
  <2>. QED  BY <1>0, <1>6, <2>1, <2>2 DEF Fault, Undone, DoneAnyway, Copy
<1>7. ASSUME NEW h \in Handlers, \/ Enqueue(h) \/ Undo(h) \/ CreateRaises(h) \/ Crash(h) \/ Submit(h) \/ Inspect(h)
                                 \/ Download(h) \/ FinalizeInsert(h)
                                 \/ \E r \in Runs : Measure(h, r)
      PROVE  ObjectOK'
  <2>1. UNCHANGED object
    BY <1>7 DEF Enqueue, Undo, Crash, CreateRaises, Abandon, Submit, CreateAnalysis, Retry, Clone, Inspect,
                Download, FinalizeInsert, Measure
  <2>. QED  BY <1>0, <2>1
<1>8. ASSUME NEW h \in Handlers, HandlerStep(h)
      PROVE  ObjectOK'
  BY <1>2, <1>3, <1>4, <1>5, <1>6, <1>7, <1>8 DEF HandlerStep, Finalize, CopyInput
<1>9. ASSUME NEW r \in Runs, RunStep(r)
      PROVE  ObjectOK'
  BY <1>0, <1>1, <1>9 DEF RunStep, Authorize, CancelRun, Analyse
<1>10. CASE UNCHANGED vars
  BY <1>0, <1>10 DEF vars
<1>. QED  BY <1>8, <1>9, <1>10 DEF Next

LEMMA RestStep == ASSUME TypeOK, InputInv, SubmissionAssumption, [Next]_vars PROVE RestOK'
<1>. USE TypeParts
<1>1. ASSUME NEW r \in Runs, RunStep(r)
      PROVE  RestOK'
  <2>1. CASE Authorize(r)
    BY <2>1 DEF Authorize, RestOK
  <2>2. ASSUME NEW c \in Contents, ClientPut(r, c)
        PROVE  RestOK'
    BY <2>2, SpendType DEF ClientPut, RestOK
  <2>3. ASSUME NEW status \in Contract!RunStatus, Analyse(r, status)
        PROVE  RestOK'
    BY <2>3, SaveType DEF Analyse, RestOK
  <2>4. CASE CancelRun(r)
    BY <2>4, SaveType, StatusNames DEF CancelRun, RestOK
  <2>. QED  BY <1>1, <2>1, <2>2, <2>3, <2>4 DEF RunStep
<1>2. ASSUME NEW h \in Handlers, Finalize(h)
      PROVE  RestOK'
  <2>1. ASSUME NEW r \in Runs, Measure(h, r)
        PROVE  RestOK'
    BY <2>1, SpendType DEF Measure, Accept, RestOK
  <2>2. CASE Download(h) \/ Stamp(h)
    BY <2>2 DEF Download, Stamp, RestOK
  <2>3. CASE FinalizeInsert(h)
    <3>1. request[h].run \in Runs /\ request[h].seen.sha \in Contents
      BY <2>3, AtWork DEF FinalizeInsert, At, InputInv, Known, InsertSeen
    <3>2. NewRow(request[h].run, 1, None, request[h].seen.sha) \in Rows
      BY <3>1, NewRowType
    <3>. QED  BY <2>3, <3>1, <3>2 DEF FinalizeInsert, FinalizeExisting, Answer, Insert, RestOK
  <2>. QED  BY <1>2, <2>1, <2>2, <2>3 DEF Finalize
<1>3. ASSUME NEW h \in Handlers, Submit(h)
      PROVE  RestOK'
  <2>1. ASSUME NEW r \in Runs, NEW c \in Contents, CreateAnalysis(h, r, c)
        PROVE  RestOK'
    BY <2>1, NewRowType, SpendType DEF CreateAnalysis, Accept, Insert, RestOK
  <2>2. ASSUME NEW p \in Runs, NEW r \in Runs, Retry(h, p, r) \/ Clone(h, p, r)
        PROVE  RestOK'
    <3>1. row[p] \in Rows
      BY <2>2 DEF Retry, Clone, HasRow, RestOK
    <3>2. /\ NewRow(row[p].analysis, row[p].attempt + 1, p, row[p].digest) \in Rows
          /\ NewRow(r, 1, None, row[p].digest) \in Rows
      <4>1. /\ row[p].analysis \in Runs /\ row[p].digest \in Contents
            /\ row[p].attempt + 1 \in Nat \ {0}
        BY <3>1 DEF Rows
      <4>. QED  BY <4>1, NewRowType
    <3>. QED  BY <2>2, <3>2, SpendType DEF Retry, Clone, Accept, Insert, RestOK
  <2>. QED  BY <1>3, <2>1, <2>2 DEF Submit
<1>4. ASSUME NEW h \in Handlers, PutInput(h) \/ CopyInput(h)
      PROVE  RestOK'
  <2>1. request[h].run \in Runs
    BY <1>4, AtWork DEF PutInput, CopyInput, Inspect, StartCopy, Copy, VerifyCopy, At
  <2>. QED  BY <1>4, <2>1 DEF PutInput, CopyInput, Inspect, StartCopy, Copy, VerifyCopy, RestOK
<1>5. ASSUME NEW h \in Handlers, Enqueue(h) \/ Fault(h) \/ Undo(h) \/ CreateRaises(h) \/ Crash(h)
      PROVE  RestOK'
  <2>1. request[h].run \in Runs
    BY <1>5, AtWork DEF Enqueue, Fault, Undo, Crash, CreateRaises, Abandon, At
  <2>2. CASE Enqueue(h)
    BY <2>1, <2>2 DEF Enqueue, Answer, RestOK
  <2>3. CASE Fault(h)
    <3>1. sent' \in [Runs -> Nat] /\ late' \subseteq Runs
      BY <2>1, <2>3 DEF Fault, Undone, DoneAnyway, Copy, RestOK
    <3>2. row' \in [Runs -> Rows \union {None}]
      <4>1. CASE At(h, "undo") /\ Save(request[h].run, "failed")
        <5>1. HasRow(request[h].run)
          BY <4>1 DEF At, InputInv, Known, Submitted
        <5>. QED  BY <2>1, <4>1, <5>1, SaveType, StatusNames
      <4>. QED  BY <2>3, <4>1 DEF Fault, Undone, DoneAnyway, RestOK
    <3>3. abandoned' \subseteq Runs
      BY <2>1, <2>3 DEF Fault, Abandon, RestOK
    <3>4. budget' \in [{"requests", "puts", "faults", "crashes"} -> Nat]
      BY <2>3, SpendType DEF Fault, Abandon
    <3>. QED  BY <2>3, <3>1, <3>2, <3>3, <3>4 DEF Fault, RestOK
  <2>4. CASE Undo(h)
    <3>1. HasRow(request[h].run)
      BY <2>4 DEF Undo, At, InputInv, Known, Submitted
    <3>. QED  BY <2>1, <2>4, <3>1, SaveType, StatusNames DEF Undo, RestOK
  <2>5. CASE CreateRaises(h) \/ Crash(h)
    BY <2>1, <2>5, SpendType DEF Crash, CreateRaises, Abandon, RestOK
  <2>. QED  BY <1>5, <2>2, <2>3, <2>4, <2>5
<1>6. ASSUME NEW h \in Handlers, HandlerStep(h)
      PROVE  RestOK'
  BY <1>2, <1>3, <1>4, <1>5, <1>6 DEF HandlerStep
<1>7. CASE UNCHANGED vars
  BY <1>7 DEF vars, RestOK
<1>. QED  BY <1>1, <1>6, <1>7 DEF Next

\* Every variable has its type, for every value of the constants.
LEMMA TypeStep == ASSUME TypeOK, PathInv, InputInv, SubmissionAssumption, [Next]_vars PROVE TypeOK'
BY RequestStep, ObjectStep, RestStep, TypeParts DEF TypeOK, RequestOK, ObjectOK, RestOK

(***************************************************************************)
(* Rows: what a step may do to them                                        *)
(***************************************************************************)

\* A first attempt, with the identifier of its run as its analysis.
FirstRow(r, new) == new.attempt = 1 /\ new.analysis = r /\ new.previous = None

\* The attempt that retries p.
RetryRow(new, p) ==
    /\ HasRow(p) /\ Retryable(p)
    /\ new.attempt = row[p].attempt + 1
    /\ new.analysis = row[p].analysis /\ new.previous = p

\* A new attempt is the first of its analysis or a retry; the others stay.
Inserted(r) ==
    /\ \A q \in Runs \ {r} : row'[q] = row[q]
    /\ row'[r] \in Rows
    /\ Insertable(r, row'[r].analysis, row'[r].attempt)
    /\ FirstRow(r, row'[r]) \/ \E p \in Runs : RetryRow(row'[r], p)
    /\ row'[r].status = "queued"

\* Only the status of an attempt changes, and only as save allows.
Saved(r) ==
    /\ HasRow(r) /\ row'[r] \in Rows
    /\ \A q \in Runs \ {r} : row'[q] = row[q]
    /\ row'[r] = [row[r] EXCEPT !.status = row'[r].status]
    /\ row'[r] # row[r] => row[r].status \in {"queued", "running"}
    /\ row'[r].status # "queued" \/ row'[r] = row[r]

RowsStep == (\E r \in Runs : Inserted(r) \/ Saved(r)) \/ UNCHANGED row

LEMMA SaveStep ==
    ASSUME TypeOK, NEW r \in Runs, HasRow(r), NEW status \in Contract!RunStatus \ {"queued"},
           Save(r, status)
    PROVE  Saved(r)
<1>1. row[r] \in Rows /\ row \in [Runs -> Rows \union {None}]
  BY DEF TypeOK, HasRow
<1>2. row[r] = [row[r] EXCEPT !.status = row[r].status]
  BY <1>1 DEF Rows
<1>3. CASE row' = row
  BY <1>1, <1>2, <1>3 DEF Saved
<1>4. CASE /\ row' = [row EXCEPT ![r].status = status]
           /\ <<row[r].status, status>> \in Contract!AllowedTransitions
  <2>1. row'[r] = [row[r] EXCEPT !.status = status] /\ row'[r].status = status
    BY <1>1, <1>4 DEF Rows
  <2>2. row[r].status \in {"queued", "running"}
    BY <1>4, StatusNames
  <2>3. row'[r] \in Rows
    BY <1>1, <2>1 DEF Rows
  <2>. QED  BY <1>1, <1>4, <2>1, <2>2, <2>3 DEF Saved
<1>. QED  BY <1>3, <1>4 DEF Save

LEMMA InsertStep ==
    ASSUME TypeOK, NEW r \in Runs, NEW new \in Rows, Insert(r, new),
           FirstRow(r, new) \/ \E p \in Runs : RetryRow(new, p), new.status = "queued"
    PROVE  Inserted(r)
<1>1. row \in [Runs -> Rows \union {None}]
  BY DEF TypeOK
<1>2. row'[r] = new /\ \A q \in Runs \ {r} : row'[q] = row[q]
  BY <1>1 DEF Insert
<1>. QED  BY <1>2 DEF Inserted, Insert

LEMMA NewRowFields ==
    ASSUME NEW r, NEW k, NEW p, NEW c
    PROVE  /\ NewRow(r, k, p, c).status = "queued"
           /\ NewRow(r, k, p, c).analysis = r
           /\ NewRow(r, k, p, c).attempt = k
           /\ NewRow(r, k, p, c).previous = p
           /\ NewRow(r, k, p, c).digest = c
BY DEF NewRow

LEMMA FirstInsert ==
    ASSUME TypeOK, NEW r \in Runs, NEW c \in Contents, Insert(r, NewRow(r, 1, None, c))
    PROVE  Inserted(r) /\ row'[r].digest = c
<1>1. NewRow(r, 1, None, c) \in Rows
  BY NewRowType
<1>2. FirstRow(r, NewRow(r, 1, None, c))
  BY NewRowFields DEF FirstRow
<1>3. row'[r] = NewRow(r, 1, None, c)
  BY DEF Insert, TypeOK
<1>. QED  BY <1>1, <1>2, <1>3, InsertStep, NewRowFields

\* Where the row of each kind of request comes from.
LEMMA RetryInsert ==
    ASSUME TypeOK, NEW h \in Handlers, NEW p \in Runs, NEW r \in Runs, Retry(h, p, r)
    PROVE  Inserted(r) /\ row'[r].digest = row[p].digest
<1>. DEFINE new == NewRow(row[p].analysis, row[p].attempt + 1, p, row[p].digest)
<1>1. row[p] \in Rows
  BY DEF Retry, HasRow, TypeOK
<1>2. row[p].analysis \in Runs /\ row[p].digest \in Contents /\ row[p].attempt + 1 \in Nat \ {0}
  BY <1>1 DEF Rows
<1>3. new \in Rows
  BY <1>2, NewRowType
<1>4. RetryRow(new, p)
  BY NewRowFields DEF Retry, RetryRow
<1>5. Insert(r, new) /\ row'[r] = new
  BY DEF Retry, Insert, TypeOK
<1>6. new.status = "queued" /\ new.digest = row[p].digest
  BY NewRowFields
<1>. HIDE DEF new
<1>. QED  BY <1>3, <1>4, <1>5, <1>6, InsertStep

LEMMA CloneInsert ==
    ASSUME TypeOK, NEW h \in Handlers, NEW p \in Runs, NEW r \in Runs, Clone(h, p, r)
    PROVE  Inserted(r) /\ row'[r].digest = row[p].digest
<1>1. row[p] \in Rows
  BY DEF Clone, HasRow, TypeOK
<1>2. row[p].digest \in Contents
  BY <1>1 DEF Rows
<1>. QED  BY <1>2, FirstInsert DEF Clone

\* The failure a request records is that of its own attempt.
LEMMA FailureSaved ==
    ASSUME TypeOK, InputInv, NEW h \in Handlers, At(h, "undo"), Save(request[h].run, "failed")
    PROVE  request[h].run \in Runs /\ HasRow(request[h].run) /\ Saved(request[h].run)
<1>1. request[h].run \in Runs /\ HasRow(request[h].run)
  BY AtWork DEF At, InputInv, Known, Submitted
<1>. QED  BY <1>1, SaveStep, StatusNames

LEMMA NextRows == ASSUME TypeOK, InputInv, [Next]_vars PROVE RowsStep
<1>1. ASSUME NEW r \in Runs, RunStep(r)
      PROVE  RowsStep
  <2>1. ASSUME NEW status \in Contract!RunStatus, Analyse(r, status)
        PROVE  RowsStep
    <3>1. HasRow(r) /\ status # "queued" /\ Save(r, status)
      BY <2>1, StatusNames DEF Analyse
    <3>. QED  BY <3>1, SaveStep DEF RowsStep
  <2>2. CASE CancelRun(r)
    BY <2>2, SaveStep, StatusNames DEF CancelRun, RowsStep
  <2>. QED  BY <1>1, <2>1, <2>2 DEF RunStep, Authorize, ClientPut, RowsStep
<1>2. ASSUME NEW h \in Handlers, HandlerStep(h)
      PROVE  RowsStep
  <2>1. CASE Submit(h)
    <3>1. ASSUME NEW r \in Runs, NEW c \in Contents, CreateAnalysis(h, r, c)
          PROVE  RowsStep
      BY <3>1, FirstInsert DEF CreateAnalysis, RowsStep
    <3>. QED  BY <2>1, <3>1, RetryInsert, CloneInsert DEF Submit, RowsStep
  <2>2. CASE FinalizeInsert(h)
    <3>1. request[h].run \in Runs /\ request[h].seen.sha \in Contents
      BY <2>2, AtWork DEF FinalizeInsert, At, InputInv, Known, InsertSeen
    <3>. QED  BY <2>2, <3>1, FirstInsert DEF FinalizeInsert, RowsStep
  <2>3. CASE Undo(h) \/ Fault(h)
    BY <2>3, FailureSaved DEF Undo, Fault, Undone, DoneAnyway, RowsStep
  <2>4. CASE \/ \E r \in Runs : Measure(h, r)
             \/ Download(h) \/ Stamp(h) \/ PutInput(h) \/ CopyInput(h)
             \/ Enqueue(h) \/ CreateRaises(h) \/ Crash(h)
    BY <2>4 DEF Measure, Download, Stamp, PutInput, CopyInput, Inspect, StartCopy, VerifyCopy,
                Enqueue, Crash, CreateRaises, RowsStep
  <2>. QED  BY <1>2, <2>1, <2>2, <2>3, <2>4 DEF HandlerStep, Finalize
<1>. QED  BY <1>1, <1>2 DEF Next, vars, RowsStep

\* No attempt goes away or changes but in its status; one that failed or is
\* partial does not change at all.
LEMMA RowsKept ==
    ASSUME TypeOK, SubmissionAssumption, RowsStep, NEW r \in Runs, HasRow(r)
    PROVE  /\ HasRow(r)'
           /\ row[r] \in Rows /\ row'[r] \in Rows \union {None}
           /\ row'[r].analysis = row[r].analysis
           /\ row'[r].attempt = row[r].attempt
           /\ row'[r].previous = row[r].previous
           /\ row'[r].digest = row[r].digest
           /\ row[r].status \in {"failed", "partial"} => row'[r].status = row[r].status
           /\ row'[r].status = "queued" => row[r].status = "queued"
<1>1. row[r] \in Rows
  BY DEF TypeOK, HasRow
<1>2. CASE row'[r] = row[r]
  BY <1>1, <1>2 DEF HasRow
<1>3. CASE Saved(r) /\ row'[r] # row[r]
  <2>1. row'[r] \in Rows /\ row'[r] # None
    BY <1>3, NoneIsNoRow DEF Saved
  <2>. QED  BY <1>1, <1>3, <2>1 DEF Saved, Rows, HasRow
<1>4. ASSUME NEW q \in Runs, Inserted(q) \/ Saved(q), q # r
      PROVE  row'[r] = row[r]
  BY <1>4 DEF Inserted, Saved
<1>5. ~Inserted(r)
  BY DEF Inserted, Insertable
<1>. QED  BY <1>2, <1>3, <1>4, <1>5 DEF RowsStep

\* The attempts stay a chain.
LEMMA ChainStep ==
    ASSUME TypeOK, TypeOK', SubmissionAssumption, ChainInv, RowsStep
    PROVE  ChainInv'
<1>1. ASSUME NEW q \in Runs, Inserted(q)
      PROVE  ChainInv'
  <2>1. /\ ~HasRow(q)
        /\ \A s \in Runs : HasRow(s) =>
               ~(row[s].analysis = row'[q].analysis /\ row[s].attempt = row'[q].attempt)
    BY <1>1 DEF Inserted, Insertable
  <2>2. \A s \in Runs \ {q} : row'[s] = row[s] /\ (row'[s] # None <=> HasRow(s))
    BY <1>1 DEF Inserted, HasRow
  <2>3. \A s \in Runs : HasRow(s) => s # q /\ row[s].attempt \in Nat \ {0}
    BY <2>1 DEF TypeOK, HasRow, Rows
  <2>4. CASE FirstRow(q, row'[q])
    <3>1. row'[q].attempt = 1 /\ row'[q].previous = None
      BY <2>4 DEF FirstRow
    <3>2. None \notin Runs
      BY DEF SubmissionAssumption
    <3>3. AttemptsFormAChain'
      <4>1. SUFFICES ASSUME NEW r \in Runs, row'[r] # None, row'[r].attempt > 1
                     PROVE  LET p == row'[r].previous IN
                            /\ p \in Runs /\ row'[p] # None
                            /\ row'[p].analysis = row'[r].analysis
                            /\ row'[p].attempt = row'[r].attempt - 1
                            /\ row'[p].status \in {"failed", "partial"}
                            /\ \A s \in Runs \ {r} : row'[s] # None => row'[s].previous # p
        BY DEF AttemptsFormAChain, HasRow
      <4>2. r # q /\ HasRow(r) /\ row'[r] = row[r]
        BY <3>1, <4>1, <2>2
      <4>. DEFINE p == row[r].previous
      <4>3. /\ p \in Runs /\ HasRow(p)
            /\ row[p].analysis = row[r].analysis
            /\ row[p].attempt = row[r].attempt - 1
            /\ row[p].status \in {"failed", "partial"}
            /\ \A s \in Runs \ {r} : HasRow(s) => row[s].previous # p
        BY <4>1, <4>2 DEF ChainInv, AttemptsFormAChain
      <4>4. p # q /\ row'[p] = row[p] /\ row'[p] # None
        BY <4>3, <2>2, <2>3
      <4>5. \A s \in Runs \ {r} : row'[s] # None => row'[s].previous # p
        BY <4>3, <3>1, <3>2, <2>2
      <4>. HIDE DEF p
      <4>. QED  BY <4>2, <4>3, <4>4, <4>5 DEF p
    <3>. QED  BY <2>2, <3>1, <3>3 DEF ChainInv, HasRow
  <2>5. ASSUME NEW p \in Runs, RetryRow(row'[q], p)
        PROVE  ChainInv'
    <3>1. /\ HasRow(p) /\ p # q /\ row'[p] = row[p] /\ row'[p] # None
          /\ row[p].status \in {"failed", "partial"}
          /\ row'[q].attempt = row[p].attempt + 1
          /\ row'[q].analysis = row[p].analysis
          /\ row'[q].previous = p
          /\ row[p].attempt \in Nat \ {0}
      BY <2>2, <2>3, <2>5 DEF RetryRow, Retryable
    <3>2. \A s \in Runs : HasRow(s) => row[s].previous # p
      <4>1. SUFFICES ASSUME NEW s \in Runs, HasRow(s), row[s].previous = p
                     PROVE  FALSE
        OBVIOUS
      <4>2. row[s].attempt # 1
        BY <4>1 DEF ChainInv, SubmissionAssumption
      <4>3. row[s].attempt > 1 /\ row[p].attempt = row[s].attempt - 1
            /\ row[p].analysis = row[s].analysis
        BY <4>1, <4>2, <2>3 DEF ChainInv, AttemptsFormAChain
      <4>. QED  BY <4>1, <4>3, <2>1, <2>3, <3>1
    <3>3. ASSUME NEW r \in Runs, row'[r] # None, row'[r].attempt > 1, r # q
          PROVE  LET f == row'[r].previous IN
                 /\ f \in Runs /\ row'[f] # None
                 /\ row'[f].analysis = row'[r].analysis
                 /\ row'[f].attempt = row'[r].attempt - 1
                 /\ row'[f].status \in {"failed", "partial"}
                 /\ \A s \in Runs \ {r} : row'[s] # None => row'[s].previous # f
      <4>1. HasRow(r) /\ row'[r] = row[r]
        BY <2>2, <3>3
      <4>. DEFINE f == row[r].previous
      <4>2. /\ f \in Runs /\ HasRow(f)
            /\ row[f].analysis = row[r].analysis
            /\ row[f].attempt = row[r].attempt - 1
            /\ row[f].status \in {"failed", "partial"}
            /\ \A s \in Runs \ {r} : HasRow(s) => row[s].previous # f
        BY <3>3, <4>1 DEF ChainInv, AttemptsFormAChain
      <4>3. f # q /\ row'[f] = row[f] /\ row'[f] # None
        BY <4>2, <2>2, <2>3
      <4>4. f # p
        BY <4>1, <3>2
      <4>5. \A s \in Runs \ {r} : row'[s] # None => row'[s].previous # f
        BY <4>2, <4>4, <3>1, <2>2
      <4>. HIDE DEF f
      <4>. QED  BY <4>1, <4>2, <4>3, <4>5 DEF f
    <3>4. /\ row'[p].attempt = row'[q].attempt - 1
          /\ \A s \in Runs \ {q} : row'[s] # None => row'[s].previous # p
      BY <3>1, <3>2, <2>2
    <3>5. AttemptsFormAChain'
      BY <3>1, <3>3, <3>4 DEF AttemptsFormAChain, HasRow
    <3>6. row'[q].attempt # 1
      BY <3>1
    <3>. QED  BY <2>2, <3>5, <3>6 DEF ChainInv, HasRow
  <2>. QED  BY <1>1, <2>4, <2>5 DEF Inserted
<1>2. ASSUME \A r \in Runs : row'[r] # None => HasRow(r)
      PROVE  ChainInv'
  <2>1. \A r \in Runs : HasRow(r) =>
            /\ row'[r] # None
            /\ row'[r].analysis = row[r].analysis
            /\ row'[r].attempt = row[r].attempt
            /\ row'[r].previous = row[r].previous
            /\ row[r].status \in {"failed", "partial"} => row'[r].status = row[r].status
    BY RowsKept DEF HasRow
  <2>2. AttemptsFormAChain'
    <3>1. SUFFICES ASSUME NEW r \in Runs, HasRow(r), row[r].attempt > 1
                   PROVE  LET p == row[r].previous IN
                          /\ p \in Runs /\ row'[p] # None
                          /\ row'[p].analysis = row[r].analysis
                          /\ row'[p].attempt = row[r].attempt - 1
                          /\ row'[p].status \in {"failed", "partial"}
                          /\ \A s \in Runs \ {r} : row'[s] # None => row'[s].previous # p
      <4>1. \A r \in Runs : row'[r] # None <=> HasRow(r)
        BY <1>2, <2>1
      <4>. QED  BY <2>1, <4>1 DEF AttemptsFormAChain, HasRow
    <3>. DEFINE p == row[r].previous
    <3>2. /\ p \in Runs /\ HasRow(p)
          /\ row[p].analysis = row[r].analysis
          /\ row[p].attempt = row[r].attempt - 1
          /\ row[p].status \in {"failed", "partial"}
          /\ \A s \in Runs \ {r} : HasRow(s) => row[s].previous # p
      BY <3>1 DEF ChainInv, AttemptsFormAChain
    <3>3. \A s \in Runs \ {r} : row'[s] # None => row'[s].previous # p
      BY <1>2, <2>1, <3>2
    <3>. HIDE DEF p
    <3>. QED  BY <2>1, <3>2, <3>3 DEF p
  <2>. QED  BY <1>2, <2>1, <2>2 DEF ChainInv, HasRow
<1>3. ASSUME NEW q \in Runs, Saved(q)
      PROVE  ChainInv'
  <2>1. \A r \in Runs : row'[r] # None => HasRow(r)
    BY <1>3 DEF Saved, HasRow
  <2>. QED  BY <2>1, <1>2
<1>4. CASE UNCHANGED row
  <2>1. \A r \in Runs : row'[r] # None => HasRow(r)
    BY <1>4 DEF HasRow
  <2>. QED  BY <2>1, <1>2
<1>. QED  BY <1>1, <1>3, <1>4 DEF RowsStep

(***************************************************************************)
(* One job per run                                                         *)
(***************************************************************************)

LEMMA OnlyOne ==
    ASSUME TypeOK, NEW h \in Handlers, HandlerStep(h), NEW g \in Handlers \ {h}
    PROVE  request'[g] = request[g]
<1>. USE DEF TypeOK
<1>1. CASE Finalize(h)
  BY <1>1 DEF Finalize, Measure, Download, Stamp, FinalizeInsert, FinalizeExisting, Answer,
              Accept, GoTo, Leave
<1>2. CASE Submit(h)
  BY <1>2 DEF Submit, CreateAnalysis, Retry, Clone, Accept
<1>3. CASE PutInput(h) \/ CopyInput(h)
  BY <1>3 DEF PutInput, CopyInput, Inspect, StartCopy, Copy, VerifyCopy, GoTo
<1>4. CASE Enqueue(h) \/ Fault(h) \/ Undo(h) \/ CreateRaises(h) \/ Crash(h)
  BY <1>4 DEF Enqueue, Fault, AfterFault, Undo, Crash, CreateRaises, Abandon, Answer, GoTo, Leave
<1>. QED  BY <1>1, <1>2, <1>3, <1>4 DEF HandlerStep

LEMMA OthersOnly ==
    ASSUME NEW r \in Runs, RunStep(r)
    PROVE  UNCHANGED <<request, sent>>
BY DEF RunStep, Authorize, CancelRun, ClientPut, Analyse

\* What a step of a request does to what it holds: nothing new, a new run, or
\* the job is sent.
Quiet(h) ==
    /\ UNCHANGED sent
    /\ \A r \in Runs : Holds(h, r)' => Holds(h, r)

Takes(h, r) ==
    /\ UNCHANGED sent
    /\ ~HasRow(r) /\ HasRow(r)'
    /\ \A q \in Runs : Holds(h, q)' => q = r

Sends(h, r) ==
    /\ Holds(h, r) /\ At(h, "enqueue")
    /\ sent' = [sent EXCEPT ![r] = @ + 1]
    /\ \A q \in Runs : ~Holds(h, q)'

\* Where a request is and about which run, after each kind of move.
LEMMA Moves ==
    ASSUME TypeOK, NEW h \in Handlers
    PROVE  /\ Leave(h) => request'[h] = Idle
           /\ \A point \in Points : GoTo(h, point) =>
                  /\ request'[h].pc = point
                  /\ request'[h].run = request[h].run
                  /\ request'[h].source = request[h].source
                  /\ request'[h].seen = request[h].seen
BY DEF TypeOK, Requests, Leave, GoTo

LEMMA AcceptMove ==
    ASSUME TypeOK, NEW h \in Handlers, NEW point, NEW r, NEW source, NEW seen,
           Accept(h, point, r, source, seen)
    PROVE  /\ request[h] = Idle
           /\ request'[h].pc = point /\ request'[h].run = r
           /\ request'[h].source = source /\ request'[h].seen = seen
BY DEF TypeOK, Accept

LEMMA IdleHoldsNone ==
    ASSUME NEW h \in Handlers, request'[h] = Idle, NEW r \in Runs
    PROVE  ~Holds(h, r)'
BY DEF Holds, Guarded, Idle

\* A request that goes on to a point, or leaves, takes nothing new.
LEMMA GoesOn ==
    ASSUME TypeOK, NEW h \in Handlers, UNCHANGED sent,
           \/ Leave(h)
           \/ GoTo(h, "undo")
           \/ request[h].pc \in Guarded /\ \E point \in Points : GoTo(h, point)
    PROVE  Quiet(h)
BY Moves, IdleHoldsNone DEF Quiet, Holds, Guarded, Points

LEMMA HandlerHolds ==
    ASSUME TypeOK, SubmissionAssumption, InputInv, NEW h \in Handlers, HandlerStep(h)
    PROVE  Quiet(h) \/ \E r \in Runs : Takes(h, r) \/ Sends(h, r)
<1>. USE DEF Points
<1>1. ASSUME NEW r \in Runs, Measure(h, r)
      PROVE  Quiet(h)
  BY <1>1, AcceptMove DEF Measure, Quiet, Holds, Guarded
<1>2. CASE Download(h)
  <2>1. request'[h].pc = "stamp" /\ UNCHANGED sent
    BY <1>2 DEF Download, TypeOK, Requests
  <2>. QED  BY <2>1 DEF Quiet, Holds, Guarded
<1>3. CASE Stamp(h)
  BY <1>3, Moves, GoesOn DEF Stamp, Quiet, Holds, Guarded
<1>4. CASE FinalizeInsert(h)
  <2>1. CASE HasRow(request[h].run) /\ FinalizeExisting(h)
    BY <1>4, <2>1, GoesOn DEF FinalizeInsert, FinalizeExisting, Answer
  <2>2. CASE /\ Insert(request[h].run, NewRow(request[h].run, 1, None, request[h].seen.sha))
             /\ GoTo(h, "enqueue")
    <3>0. request[h].run \in Runs /\ request[h].seen.sha \in Contents
      BY <1>4, AtWork DEF FinalizeInsert, At, InputInv, Known, InsertSeen
    <3>1. PICK r \in Runs : r = request[h].run
      BY <3>0
    <3>2. Inserted(r)
      BY <2>2, <3>0, <3>1, FirstInsert
    <3>3. ~HasRow(r) /\ HasRow(r)'
      BY <3>1, <3>2, NoneIsNoRow DEF Inserted, Insertable, HasRow
    <3>. QED  BY <1>4, <2>2, <3>1, <3>3, Moves DEF FinalizeInsert, Takes, Holds
  <2>. QED  BY <1>4, <2>1, <2>2 DEF FinalizeInsert
<1>5. ASSUME NEW r \in Runs, NEW c \in Contents, CreateAnalysis(h, r, c)
      PROVE  Takes(h, r)
  <2>1. Inserted(r)
    BY <1>5, FirstInsert DEF CreateAnalysis
  <2>2. ~HasRow(r) /\ HasRow(r)'
    BY <2>1, NoneIsNoRow DEF Inserted, Insertable, HasRow
  <2>. QED  BY <1>5, <2>2, AcceptMove DEF CreateAnalysis, Takes, Holds
<1>6. ASSUME NEW p \in Runs, NEW r \in Runs, Retry(h, p, r) \/ Clone(h, p, r)
      PROVE  Takes(h, r)
  <2>1. Inserted(r)
    BY <1>6, RetryInsert, CloneInsert
  <2>2. ~HasRow(r) /\ HasRow(r)'
    BY <2>1, NoneIsNoRow DEF Inserted, Insertable, HasRow
  <2>. QED  BY <1>6, <2>2, AcceptMove DEF Retry, Clone, Takes, Holds
<1>7. CASE PutInput(h) \/ StartCopy(h) \/ VerifyCopy(h)
  BY <1>7, GoesOn DEF PutInput, StartCopy, Copy, VerifyCopy, At, Guarded
<1>8. CASE Inspect(h)
  <2>1. CASE GoTo(h, "undo")
    BY <1>8, <2>1, GoesOn DEF Inspect
  <2>2. CASE request' = [request EXCEPT ![h].pc = "copy", ![h].seen = object[request[h].source]]
    <3>1. request'[h].run = request[h].run /\ request[h].pc = "inspect" /\ UNCHANGED sent
      BY <1>8, <2>2 DEF Inspect, At, TypeOK, Requests
    <3>. QED  BY <3>1 DEF Quiet, Holds, Guarded
  <2>. QED  BY <1>8, <2>1, <2>2 DEF Inspect
<1>9. CASE Enqueue(h)
  <2>1. request[h].run \in Runs /\ Holds(h, request[h].run)
    BY <1>9, AtWork DEF Enqueue, At, Holds, Guarded
  <2>2. \A q \in Runs : ~Holds(h, q)'
    BY <1>9, Moves, IdleHoldsNone DEF Enqueue, Answer
  <2>. QED  BY <1>9, <2>1, <2>2 DEF Enqueue, Sends
<1>10. CASE Fault(h)
  <2>1. Leave(h) \/ GoTo(h, "undo")
    BY <1>10 DEF Fault, Abandon, AfterFault
  <2>2. CASE UNCHANGED sent
    BY <2>1, <2>2, GoesOn
  <2>3. CASE At(h, "enqueue") /\ sent' = [sent EXCEPT ![request[h].run] = @ + 1]
    <3>1. request[h].run \in Runs /\ Holds(h, request[h].run)
      BY <2>3, AtWork DEF At, Holds, Guarded
    <3>2. \A q \in Runs : ~Holds(h, q)'
      BY <2>1, Moves, IdleHoldsNone DEF Holds, Guarded
    <3>. QED  BY <2>3, <3>1, <3>2 DEF Sends
  <2>. QED  BY <1>10, <2>2, <2>3 DEF Fault, Abandon, Undone, DoneAnyway
<1>11. CASE Undo(h) \/ CreateRaises(h) \/ Crash(h)
  BY <1>11, GoesOn DEF Undo, Crash, CreateRaises, Abandon
<1>. QED  BY <1>1, <1>2, <1>3, <1>4, <1>5, <1>6, <1>7, <1>8, <1>9, <1>10, <1>11
          DEF HandlerStep, Finalize, Submit, CopyInput

LEMMA JobStep ==
    ASSUME TypeOK, SubmissionAssumption, InputInv, JobInv, [Next]_vars
    PROVE  JobInv'
<1>1. \A r \in Runs : HasRow(r) => HasRow(r)'
  BY NextRows, RowsKept
<1>2. CASE UNCHANGED <<request, sent>>
  <2>1. \A h \in Handlers, r \in Runs : Holds(h, r)' <=> Holds(h, r)
    BY <1>2 DEF Holds
  <2>. QED  BY <1>1, <1>2, <2>1 DEF JobInv, OneJob
<1>3. ASSUME NEW h \in Handlers, HandlerStep(h)
      PROVE  JobInv'
  <2>1. \A g \in Handlers \ {h}, r \in Runs : Holds(g, r)' <=> Holds(g, r)
    BY <1>3, OnlyOne DEF Holds
  <2>2. CASE Quiet(h)
    BY <1>1, <2>1, <2>2 DEF Quiet, JobInv, OneJob
  <2>3. ASSUME NEW r \in Runs, Takes(h, r)
        PROVE  JobInv'
    BY <1>1, <2>1, <2>3 DEF Takes, JobInv, OneJob
  <2>4. ASSUME NEW r \in Runs, Sends(h, r)
        PROVE  JobInv'
    <3>1. /\ HasRow(r) /\ sent[r] = 0 /\ sent'[r] = 1
          /\ \A q \in Runs \ {r} : sent'[q] = sent[q]
          /\ \A g \in Handlers \ {h} : ~Holds(g, r)
      BY <2>4 DEF Sends, JobInv, TypeOK
    <3>. QED  BY <1>1, <2>1, <2>4, <3>1 DEF Sends, JobInv, OneJob
  <2>. QED  BY <1>3, <2>2, <2>3, <2>4, HandlerHolds
<1>. QED  BY <1>2, <1>3, OthersOnly DEF Next, vars

(***************************************************************************)
(* Objects: what a step may do to them                                     *)
(***************************************************************************)

\* The client writes the object.
Uploaded(r) ==
    /\ Direct(r)
    /\ object'[r].etag = object[r].etag + 1
    /\ (HasObject(r) /\ object[r].sha # None) \/ HasRow(r) => r \in late'

\* A finalize writes the checksum.
Stamped(r) ==
    /\ Direct(r) /\ HasObject(r)
    /\ object'[r].etag = object[r].etag + 1
    /\ object'[r].bytes = object[r].bytes
    /\ object'[r].sha \in Contents

\* A request of the coordinator writes the input its attempt records.
Stored(r) ==
    /\ ~Direct(r) /\ HasRow(r)
    /\ r \notin late' => object'[r].bytes = row[r].digest

\* A copy that differs is deleted.
Removed(r) ==
    /\ ~Direct(r)
    /\ object'[r] = NoObject
    /\ \E h \in Handlers : request[h].run = r /\ At(h, "verify") /\ request'[h].pc = "undo"

ObjectsStep ==
    /\ late \subseteq late'
    /\ authorised \subseteq authorised'
    /\ \A r \in Runs :
           \/ object'[r] = object[r]
           \/ object'[r].bytes \in Contents /\ (Uploaded(r) \/ Stamped(r) \/ Stored(r))
           \/ Removed(r)

LEMMA NextObjects ==
    ASSUME TypeOK, SubmissionAssumption, PathInv, InputInv, [Next]_vars
    PROVE  ObjectsStep
<1>. USE TypeParts
<1>0. CASE UNCHANGED <<object, late, authorised>>
  BY <1>0 DEF ObjectsStep
<1>1. ASSUME NEW r \in Runs, RunStep(r)
      PROVE  ObjectsStep
  <2>1. ASSUME NEW c \in Contents, ClientPut(r, c)
        PROVE  ObjectsStep
    <3>1. \A q \in Runs \ {r} : object'[q] = object[q]
      BY <2>1 DEF ClientPut, TypeOK
    <3>2. object'[r].bytes = c /\ object'[r].etag = object[r].etag + 1
      BY <2>1 DEF ClientPut, TypeOK
    <3>3. Uploaded(r)
      BY <2>1, <3>2 DEF ClientPut, Uploaded
    <3>4. late \subseteq late' /\ authorised \subseteq authorised'
      BY <2>1 DEF ClientPut
    <3>. QED  BY <3>1, <3>2, <3>3, <3>4 DEF ObjectsStep
  <2>2. CASE Authorize(r)
    BY <2>2 DEF Authorize, ObjectsStep
  <2>3. CASE CancelRun(r) \/ \E status \in Contract!RunStatus : Analyse(r, status)
    BY <2>3, <1>0 DEF CancelRun, Analyse
  <2>. QED  BY <1>1, <2>1, <2>2, <2>3 DEF RunStep
<1>2. ASSUME NEW h \in Handlers, HandlerStep(h), NEW r \in Runs, r = request[h].run,
             \A q \in Runs \ {r} : object'[q] = object[q],
             late \subseteq late', UNCHANGED authorised,
             \/ object'[r] = object[r]
             \/ object'[r].bytes \in Contents /\ (Stamped(r) \/ Stored(r))
             \/ Removed(r)
      PROVE  ObjectsStep
  BY <1>2 DEF ObjectsStep
<1>3. ASSUME NEW h \in Handlers, Stamp(h)
      PROVE  ObjectsStep
  <2>0. request[h].run \in Runs
    BY <1>3, AtWork DEF Stamp, At
  <2>1. PICK r \in Runs : r = request[h].run
    BY <2>0
  <2>2. CASE object' = [object EXCEPT ![r].sha = request[h].seen.sha, ![r].etag = @ + 1]
    <3>1. /\ Direct(r) /\ HasObject(r) /\ object[r].bytes \in Contents
          /\ request[h].seen.sha \in Contents
      BY <1>3, <2>1 DEF Stamp, PathInv, Finalizing, At, ObjectOK, InputInv, Known, StampSeen
    <3>2. /\ object'[r].bytes = object[r].bytes
          /\ object'[r].etag = object[r].etag + 1
          /\ object'[r].sha = request[h].seen.sha
      BY <2>2 DEF ObjectOK, Objects
    <3>. QED  BY <1>2, <1>3, <2>1, <2>2, <3>1, <3>2
              DEF HandlerStep, Finalize, Stamp, Stamped, ObjectOK
  <2>. QED  BY <1>0, <1>3, <2>1, <2>2 DEF Stamp
<1>4. ASSUME NEW h \in Handlers, HandlerStep(h), At(h, "put"), UNCHANGED <<late, authorised>>,
             object' = [object EXCEPT ![request[h].run] = request[h].seen]
      PROVE  ObjectsStep
  <2>0. request[h].run \in Runs
    BY <1>4, AtWork DEF At
  <2>1. PICK r \in Runs : r = request[h].run
    BY <2>0
  <2>2. /\ object'[r] = request[h].seen
        /\ \A q \in Runs \ {r} : object'[q] = object[q]
    BY <1>4, <2>1 DEF ObjectOK
  <2>3. /\ ~Direct(r) /\ HasRow(r)
        /\ request[h].seen.bytes = row[r].digest /\ request[h].seen.bytes \in Contents
    BY <1>4, <2>1 DEF PathInv, InputInv, Known, PutSeen, Submitted, Guarded, At
  <2>. QED  BY <1>2, <1>4, <2>1, <2>2, <2>3 DEF Stored
<1>5. ASSUME NEW h \in Handlers, HandlerStep(h), At(h, "copy"), UNCHANGED authorised,
             Copyable(request[h].source, request[h].run),
             Copy(request[h].source, request[h].run, request[h].seen.sha)
      PROVE  ObjectsStep
  <2>0. request[h].run \in Runs /\ request[h].source \in Runs
    BY <1>5, AtWork DEF At
  <2>1. PICK r \in Runs, p \in Runs : r = request[h].run /\ p = request[h].source
    BY <2>0
  <2>2. /\ Copyable(p, r)
        /\ object' = [object EXCEPT ![r] =
               [bytes |-> object[p].bytes, sha |-> request[h].seen.sha, etag |-> 1]]
        /\ late' = IF p \in late THEN late \union {r} ELSE late
    BY <1>5, <2>1 DEF Copy
  <2>3. /\ object'[r].bytes = object[p].bytes
        /\ \A q \in Runs \ {r} : object'[q] = object[q]
    BY <2>2 DEF ObjectOK
  <2>4. object[p].bytes \in Contents /\ HasObject(p)
    BY <2>2 DEF Copyable, ObjectOK
  <2>5. /\ ~Direct(r) /\ HasRow(r) /\ HasRow(p)
        /\ row[p].digest = row[r].digest
    BY <1>5, <2>1 DEF PathInv, InputInv, Known, CopySeen, Submitted, Guarded, At
  <2>6. r \notin late' => object'[r].bytes = row[r].digest
    BY <2>2, <2>3, <2>4, <2>5 DEF InputInv, StoredInv
  <2>. QED  BY <1>2, <1>5, <2>1, <2>2, <2>3, <2>4, <2>5, <2>6 DEF Stored
<1>6. ASSUME NEW h \in Handlers, VerifyCopy(h)
      PROVE  ObjectsStep
  <2>0. request[h].run \in Runs /\ HandlerStep(h) /\ "undo" \in Points
    BY <1>6, AtWork DEF VerifyCopy, At, HandlerStep, CopyInput, Points
  <2>1. PICK r \in Runs : r = request[h].run
    BY <2>0
  <2>2. CASE object' = [object EXCEPT ![r] = NoObject] /\ GoTo(h, "undo")
    <3>1. object'[r] = NoObject /\ \A q \in Runs \ {r} : object'[q] = object[q]
      BY <2>2 DEF ObjectOK
    <3>2. Removed(r)
      BY <1>6, <2>0, <2>1, <2>2, <3>1, Moves DEF VerifyCopy, Removed, PathInv, At
    <3>. QED  BY <1>2, <1>6, <2>0, <2>1, <3>1, <3>2 DEF VerifyCopy
  <2>. QED  BY <1>0, <1>6, <2>1, <2>2 DEF VerifyCopy
<1>7. ASSUME NEW h \in Handlers, Fault(h)
      PROVE  ObjectsStep
  BY <1>0, <1>4, <1>5, <1>7 DEF Fault, Undone, DoneAnyway, HandlerStep
<1>8. ASSUME NEW h \in Handlers, HandlerStep(h)
      PROVE  ObjectsStep
  <2>1. CASE PutInput(h)
    BY <1>4, <1>8, <2>1 DEF PutInput
  <2>2. CASE \/ \E r \in Runs : Measure(h, r)
             \/ Download(h) \/ FinalizeInsert(h) \/ Submit(h) \/ Inspect(h)
             \/ Enqueue(h) \/ Undo(h) \/ CreateRaises(h) \/ Crash(h)
    BY <1>0, <2>2 DEF Measure, Download, FinalizeInsert, Submit, CreateAnalysis, Retry, Clone,
                      Inspect, Enqueue, Undo, Crash, CreateRaises, Abandon
  <2>3. CASE StartCopy(h)
    BY <1>0, <1>5, <1>8, <2>3 DEF StartCopy
  <2>. QED  BY <1>3, <1>6, <1>7, <1>8, <2>1, <2>2, <2>3 DEF HandlerStep, Finalize, CopyInput
<1>9. CASE UNCHANGED vars
  BY <1>0, <1>9 DEF vars
<1>. QED  BY <1>1, <1>8, <1>9 DEF Next

(***************************************************************************)
(* The recorded input is in place                                          *)
(***************************************************************************)

\* An object is kept unless its copy is removed.
LEMMA ObjectKept ==
    ASSUME SubmissionAssumption, ObjectsStep, NEW r \in Runs, HasObject(r), ~Removed(r)
    PROVE  HasObject(r)'
BY DEF SubmissionAssumption, ObjectsStep, HasObject, NoObject

LEMMA NewRowInput ==
    ASSUME TypeOK, SubmissionAssumption, InputInv, [Next]_vars, NEW r \in Runs,
           ~HasRow(r), HasRow(r)'
    PROVE  /\ object'[r] = object[r] /\ UNCHANGED late
           /\ HasObject(r) /\ r \notin late => object[r].bytes = row'[r].digest
           /\ \E h \in Handlers : request'[h].run = r
<1>0. ASSUME NEW q \in Runs, Inserted(q), q # r
      PROVE  FALSE
  BY <1>0 DEF Inserted, HasRow
<1>1. ASSUME NEW q \in Runs, RunStep(q)
      PROVE  FALSE
  <2>1. UNCHANGED row \/ Saved(q)
    <3>1. ASSUME NEW status \in Contract!RunStatus, Analyse(q, status)
          PROVE  Saved(q)
      <4>1. HasRow(q) /\ status # "queued" /\ Save(q, status)
        BY <3>1, StatusNames DEF Analyse
      <4>. QED  BY <4>1, SaveStep
    <3>. QED  BY <1>1, <3>1, SaveStep, StatusNames DEF RunStep, CancelRun, Authorize, ClientPut
  <2>. QED  BY <2>1 DEF Saved, HasRow
<1>2. ASSUME NEW h \in Handlers, Submit(h)
      PROVE  /\ UNCHANGED <<object, late>>
             /\ ~HasObject(r) /\ request'[h].run = r
  <2>1. UNCHANGED <<object, late>>
    BY <1>2 DEF Submit, CreateAnalysis, Retry, Clone
  <2>2. PICK q \in Runs : Inserted(q) /\ Fresh(q) /\ request'[h].run = q
    <3>1. ASSUME NEW q \in Runs, NEW c \in Contents, CreateAnalysis(h, q, c)
          PROVE  Inserted(q) /\ Fresh(q) /\ request'[h].run = q
      BY <3>1, FirstInsert, AcceptMove DEF CreateAnalysis
    <3>2. ASSUME NEW p \in Runs, NEW q \in Runs, Retry(h, p, q) \/ Clone(h, p, q)
          PROVE  Inserted(q) /\ Fresh(q) /\ request'[h].run = q
      BY <3>2, RetryInsert, CloneInsert, AcceptMove DEF Retry, Clone
    <3>. QED  BY <1>2, <3>1, <3>2 DEF Submit
  <2>3. q = r
    BY <1>0, <2>2
  <2>. QED  BY <2>1, <2>2, <2>3 DEF Fresh, InputInv, StoredInv
<1>3. ASSUME NEW h \in Handlers, FinalizeInsert(h)
      PROVE  /\ UNCHANGED <<object, late>>
             /\ HasObject(r) /\ r \notin late => object[r].bytes = row'[r].digest
             /\ request'[h].run = r
  <2>1. /\ request[h].run \in Runs /\ request[h].seen.sha \in Contents
        /\ request[h].run \notin late => request[h].seen.sha = object[request[h].run].bytes
    BY <1>3, AtWork DEF FinalizeInsert, At, InputInv, Known, InsertSeen
  <2>2. CASE /\ Insert(request[h].run, NewRow(request[h].run, 1, None, request[h].seen.sha))
             /\ GoTo(h, "enqueue")
    <3>1. /\ Inserted(request[h].run)
          /\ row'[request[h].run].digest = request[h].seen.sha
      BY <2>1, <2>2, FirstInsert
    <3>2. request[h].run = r
      BY <1>0, <2>1, <3>1
    <3>3. request'[h].run = request[h].run
      BY <2>2, Moves DEF Points
    <3>. QED  BY <1>3, <2>1, <3>1, <3>2, <3>3 DEF FinalizeInsert
  <2>. QED  BY <1>3, <2>2 DEF FinalizeInsert, HasRow
<1>4. ASSUME NEW h \in Handlers, Undo(h) \/ Fault(h)
      PROVE  FALSE
  <2>1. \/ UNCHANGED row
        \/ /\ request[h].run \in Runs /\ HasRow(request[h].run)
           /\ Saved(request[h].run)
    BY <1>4, FailureSaved DEF Undo, Fault, Undone, DoneAnyway
  <2>. QED  BY <2>1 DEF Saved, HasRow
<1>5. ASSUME NEW h \in Handlers,
             \/ \E q \in Runs : Measure(h, q)
             \/ Download(h) \/ Stamp(h) \/ PutInput(h) \/ CopyInput(h)
             \/ Enqueue(h) \/ CreateRaises(h) \/ Crash(h)
      PROVE  FALSE
  BY <1>5 DEF Measure, Download, Stamp, PutInput, CopyInput, Inspect, StartCopy, VerifyCopy,
              Enqueue, Crash, CreateRaises, HasRow
<1>6. CASE UNCHANGED vars
  BY <1>6 DEF vars, HasRow
<1>7. ASSUME NEW h \in Handlers, HandlerStep(h)
      PROVE  /\ UNCHANGED <<object, late>>
             /\ HasObject(r) /\ r \notin late => object[r].bytes = row'[r].digest
             /\ request'[h].run = r
  BY <1>2, <1>3, <1>4, <1>5, <1>7 DEF HandlerStep, Finalize
<1>. QED  BY <1>1, <1>6, <1>7 DEF Next

LEMMA StoredStep ==
    ASSUME TypeOK, SubmissionAssumption, PathInv, InputInv, JobInv, [Next]_vars
    PROVE  StoredInv'
<1>1. ObjectsStep /\ RowsStep
  BY NextObjects, NextRows
<1>2. SUFFICES ASSUME NEW r \in Runs
               PROVE  /\ HasRow(r)' /\ HasObject(r)' /\ r \notin late' =>
                             object'[r].bytes = row'[r].digest
                      /\ sent'[r] > 0 => HasObject(r)'
                      /\ HasObject(r)' => HasRow(r)' \/ Direct(r)'
  BY DEF StoredInv
<1>3. ASSUME HasRow(r)', HasObject(r)', r \notin late'
      PROVE  object'[r].bytes = row'[r].digest
  <2>1. r \notin late
    BY <1>1, <1>3 DEF ObjectsStep
  <2>2. CASE HasRow(r)
    <3>1. row'[r].digest = row[r].digest
      BY <1>1, <2>2, RowsKept
    <3>2. ~Removed(r)
      BY <1>3 DEF Removed, HasObject, NoObject
    <3>3. CASE object'[r] = object[r]
      BY <1>3, <2>1, <2>2, <3>1, <3>3 DEF InputInv, StoredInv, HasObject
    <3>4. CASE Stamped(r)
      BY <2>1, <2>2, <3>1, <3>4 DEF Stamped, InputInv, StoredInv
    <3>5. CASE Stored(r)
      BY <1>3, <3>1, <3>5 DEF Stored
    <3>6. ~Uploaded(r)
      BY <1>3, <2>2 DEF Uploaded
    <3>. QED  BY <1>1, <3>2, <3>3, <3>4, <3>5, <3>6 DEF ObjectsStep
  <2>3. CASE ~HasRow(r)
    BY <1>3, <2>1, <2>3, NewRowInput DEF HasObject, NoObject
  <2>. QED  BY <2>2, <2>3
<1>4. ASSUME sent'[r] > 0
      PROVE  HasObject(r)'
  <2>1. ASSUME NEW h \in Handlers, request[h].run = r, At(h, "verify"), request'[h].pc = "undo"
        PROVE  FALSE
    <3>1. HandlerStep(h)
      <4>1. ASSUME NEW g \in Handlers \ {h}, HandlerStep(g)
            PROVE  FALSE
        BY <2>1, <4>1, OnlyOne DEF At
      <4>. QED  BY <2>1, <4>1, OthersOnly DEF Next, vars, At
    <3>2. Holds(h, r) /\ sent[r] = 0
      BY <2>1 DEF Holds, Guarded, At, JobInv
    <3>3. UNCHANGED sent
      BY <2>1, <3>1, HandlerHolds DEF Quiet, Takes, Sends, At
    <3>. QED  BY <1>4, <3>2, <3>3
  <2>2. ~Removed(r)
    BY <2>1 DEF Removed
  <2>3. HasObject(r)
    <3>1. CASE sent[r] > 0
      BY <3>1 DEF InputInv, StoredInv
    <3>2. CASE ~(sent[r] > 0)
      <4>1. PICK h \in Handlers : HandlerStep(h)
        BY <1>4, <3>2, OthersOnly DEF Next, vars
      <4>2. PICK q \in Runs : Sends(h, q)
        BY <1>4, <3>2, <4>1, HandlerHolds DEF Quiet, Takes
      <4>3. q = r
        BY <1>4, <3>2, <4>2 DEF Sends, TypeOK
      <4>. QED  BY <4>2, <4>3 DEF Sends, Holds, InputInv, Known, Submitted, At
    <3>. QED  BY <3>1, <3>2
  <2>. QED  BY <1>1, <2>2, <2>3, ObjectKept
<1>5. ASSUME HasObject(r)'
      PROVE  HasRow(r)' \/ Direct(r)'
  <2>1. HasRow(r) => HasRow(r)'
    BY <1>1, RowsKept
  <2>2. Direct(r) => Direct(r)'
    BY <1>1 DEF ObjectsStep, Direct
  <2>3. ~Removed(r)
    BY <1>5 DEF Removed, HasObject, NoObject
  <2>. QED  BY <1>1, <1>5, <2>1, <2>2, <2>3
            DEF ObjectsStep, Uploaded, Stamped, Stored, InputInv, StoredInv, HasObject
<1>. QED  BY <1>3, <1>4, <1>5

LEMMA KnownIdle ==
    ASSUME NEW h \in Handlers, request'[h] = Idle
    PROVE  Known(h)'
BY DEF Known, PutSeen, CopySeen, Submitted, StampSeen, InsertSeen, Idle, Guarded, At

LEMMA KnownUndo ==
    ASSUME NEW h \in Handlers, request'[h].pc = "undo", row'[request'[h].run] # None
    PROVE  Known(h)'
BY DEF Known, PutSeen, CopySeen, Submitted, StampSeen, InsertSeen, Guarded, At, HasRow

\* What a request knows is not disturbed by the step of another.
LEMMA KnownKept ==
    ASSUME TypeOK, TypeOK', SubmissionAssumption, PathInv, InputInv, JobInv, [Next]_vars,
           NEW g \in Handlers, request'[g] = request[g]
    PROVE  Known(g)'
<1>. USE TypeParts
<1>1. ObjectsStep /\ RowsStep
  BY NextObjects, NextRows
<1>2. CASE At(g, "idle")
  BY <1>2 DEF Known, PutSeen, CopySeen, Submitted, StampSeen, InsertSeen, Guarded, At
<1>3. CASE ~At(g, "idle")
  <2>1. PICK r \in Runs : r = request[g].run
    BY <1>3, AtWork
  <2>2. /\ request[g].seen \in Objects
        /\ request[g].pc \in {"inspect", "copy", "verify"} => request[g].source \in Runs
    BY <1>3, AtWork
  <2>3. Known(g)
    BY DEF InputInv
  <2>4. HasRow(r) => /\ HasRow(r)'
                     /\ row'[r].digest = row[r].digest
    BY <1>1, RowsKept
  <2>5. PutSeen(g)'
    BY <2>1, <2>3, <2>4 DEF Known, PutSeen, Submitted, Guarded, At
  <2>6. CopySeen(g)'
    <3>1. ASSUME request[g].pc \in {"inspect", "copy", "verify"}
          PROVE  /\ row'[request[g].source] # None
                 /\ row'[request[g].source].digest = row[request[g].source].digest
      BY <1>1, <2>2, <2>3, <3>1, RowsKept DEF Known, CopySeen, HasRow
    <3>. QED  BY <2>1, <2>3, <2>4, <3>1 DEF Known, CopySeen, Submitted, Guarded, HasRow
  <2>7. Submitted(g)'
    <3>1. ASSUME request[g].pc \in {"verify", "enqueue"}
          PROVE  HasObject(r)'
      <4>1. ~Removed(r)
        <5>1. ASSUME NEW h \in Handlers, request[h].run = r, At(h, "verify"),
                     request'[h].pc = "undo"
              PROVE  FALSE
          <6>1. Holds(h, r) /\ Holds(g, r)
            BY <2>1, <3>1, <5>1 DEF Holds, Guarded, At
          <6>2. h = g
            BY <6>1 DEF JobInv
          <6>. QED  BY <5>1, <6>2 DEF At
        <5>. QED  BY <5>1 DEF Removed
      <4>2. HasObject(r)
        BY <2>1, <2>3, <3>1 DEF Known, Submitted
      <4>. QED  BY <1>1, <4>1, <4>2, ObjectKept
    <3>. QED  BY <2>1, <2>3, <2>4, <3>1 DEF Known, Submitted, HasRow, HasObject
  <2>8. ASSUME request[g].pc \in Finalizing
        PROVE  \/ object'[r] = object[r]
               \/ /\ object'[r].etag = object[r].etag + 1
                  /\ \/ object'[r].bytes = object[r].bytes /\ object'[r].sha \in Contents
                     \/ object[r].sha # None => r \in late'
    <3>1. Direct(r) /\ HasObject(r)
      BY <2>1, <2>8 DEF PathInv
    <3>. QED  BY <1>1, <3>1 DEF ObjectsStep, Uploaded, Stamped, Stored, Removed
  <2>9. StampSeen(g)'
    <3>1. /\ request[g].seen.etag \in Nat /\ object[r].etag \in Nat
          /\ request[g].pc \in {"download", "stamp"} => request[g].pc \in Finalizing
      BY <2>2 DEF Objects, ObjectOK, Finalizing
    <3>. QED  BY <2>1, <2>3, <2>8, <3>1 DEF Known, StampSeen, At
  <2>10. InsertSeen(g)'
    <3>1. late \subseteq late' /\ None \notin Contents
      BY <1>1 DEF ObjectsStep, SubmissionAssumption
    <3>. QED  BY <2>1, <2>3, <2>8, <3>1 DEF Known, InsertSeen, At, Finalizing
  <2>. QED  BY <2>5, <2>6, <2>7, <2>9, <2>10 DEF Known
<1>. QED  BY <1>2, <1>3

\* The acting request knows what the point it goes to needs.
LEMMA KnownMoves ==
    ASSUME TypeOK, TypeOK', SubmissionAssumption, PathInv, InputInv, JobInv, [Next]_vars,
           NEW h \in Handlers, HandlerStep(h)
    PROVE  Known(h)'
<1>. USE TypeParts
<1>0. Known(h) /\ ObjectsStep /\ RowsStep
  BY NextObjects, NextRows DEF InputInv
<1>a. ASSUME Leave(h)
      PROVE  Known(h)'
  BY <1>a, Moves, KnownIdle
<1>b. ASSUME GoTo(h, "undo"), request[h].pc \in Guarded, ~At(h, "idle")
      PROVE  Known(h)'
  <2>1. PICK r \in Runs : r = request[h].run
    BY <1>b, AtWork
  <2>2. HasRow(r) /\ HasRow(r)'
    BY <1>0, <1>b, <2>1, RowsKept DEF Known, Submitted
  <2>3. request'[h].run = r /\ request'[h].pc = "undo"
    BY <1>b, <2>1, Moves DEF Points
  <2>. QED  BY <2>2, <2>3, KnownUndo DEF HasRow
<1>1. ASSUME NEW r \in Runs, Measure(h, r)
      PROVE  Known(h)'
  <2>1. /\ request'[h].pc = "download" /\ request'[h].run = r
        /\ request'[h].seen = object[r] /\ object'[r] = object[r]
        /\ object[r].etag \in Nat
    BY <1>1, AcceptMove DEF Measure, ObjectOK, Objects
  <2>. QED  BY <2>1 DEF Known, PutSeen, CopySeen, Submitted, StampSeen, InsertSeen, Guarded, At
<1>2. CASE Download(h)
  <2>1. PICK r \in Runs : r = request[h].run
    BY <1>2, AtWork DEF Download, At
  <2>2. /\ request'[h].pc = "stamp" /\ request'[h].run = r
        /\ request'[h].seen.etag = request[h].seen.etag
        /\ request'[h].seen.sha = object[r].bytes /\ object'[r] = object[r]
    BY <1>2, <2>1 DEF Download, TypeOK, Requests, Objects
  <2>3. object[r].bytes \in Contents /\ request[h].seen.etag <= object[r].etag
    BY <1>0, <1>2, <2>1 DEF Download, PathInv, Finalizing, At, ObjectOK, Known, StampSeen
  <2>. QED  BY <2>2, <2>3
            DEF Known, PutSeen, CopySeen, Submitted, StampSeen, InsertSeen, Guarded, At
<1>3. CASE Stamp(h)
  <2>1. PICK r \in Runs : r = request[h].run
    BY <1>3, AtWork DEF Stamp, At
  <2>2. CASE /\ UnchangedSince(r, request[h].seen)
             /\ object' = [object EXCEPT ![r].sha = request[h].seen.sha, ![r].etag = @ + 1]
             /\ GoTo(h, "insert")
    <3>1. /\ request[h].seen.sha = object[r].bytes /\ request[h].seen.sha \in Contents
      BY <1>0, <1>3, <2>1, <2>2 DEF Stamp, Known, StampSeen, UnchangedSince, At
    <3>2. object'[r].bytes = object[r].bytes /\ object'[r].sha = request[h].seen.sha
      BY <2>2 DEF ObjectOK, Objects
    <3>3. request'[h].pc = "insert" /\ request'[h].run = r /\ request'[h].seen = request[h].seen
      BY <2>1, <2>2, Moves DEF Points
    <3>4. None \notin Contents
      BY DEF SubmissionAssumption
    <3>. QED  BY <3>1, <3>2, <3>3, <3>4
              DEF Known, PutSeen, CopySeen, Submitted, StampSeen, InsertSeen, Guarded, At
  <2>. QED  BY <1>3, <1>a, <2>1, <2>2 DEF Stamp
<1>4. CASE FinalizeInsert(h)
  <2>1. PICK r \in Runs : r = request[h].run
    BY <1>4, AtWork DEF FinalizeInsert, At
  <2>2. CASE Insert(r, NewRow(r, 1, None, request[h].seen.sha)) /\ GoTo(h, "enqueue")
    <3>1. request[h].seen.sha \in Contents
      BY <1>0, <1>4 DEF FinalizeInsert, Known, InsertSeen, At
    <3>2. Inserted(r)
      BY <2>2, <3>1, FirstInsert
    <3>3. row'[r] # None /\ object'[r] # NoObject
      BY <1>4, <2>1, <3>2, NoneIsNoRow
         DEF Inserted, FinalizeInsert, PathInv, Finalizing, At, HasObject
    <3>4. request'[h].pc = "enqueue" /\ request'[h].run = r
      BY <2>1, <2>2, Moves DEF Points
    <3>. QED  BY <3>3, <3>4
              DEF Known, PutSeen, CopySeen, Submitted, StampSeen, InsertSeen, At, HasRow, HasObject
  <2>. QED  BY <1>4, <1>a, <2>1, <2>2 DEF FinalizeInsert, FinalizeExisting, Answer
<1>5. ASSUME NEW r \in Runs, NEW c \in Contents, CreateAnalysis(h, r, c)
      PROVE  Known(h)'
  <2>1. Inserted(r) /\ row'[r].digest = c
    BY <1>5, FirstInsert DEF CreateAnalysis
  <2>2. row'[r] # None
    BY <2>1, NoneIsNoRow DEF Inserted
  <2>3. request'[h].pc = "put" /\ request'[h].run = r /\ request'[h].seen.bytes = c
    BY <1>5, AcceptMove DEF CreateAnalysis
  <2>. QED  BY <2>1, <2>2, <2>3
            DEF Known, PutSeen, CopySeen, Submitted, StampSeen, InsertSeen, At, HasRow
<1>6. ASSUME NEW p \in Runs, NEW r \in Runs, Retry(h, p, r) \/ Clone(h, p, r)
      PROVE  Known(h)'
  <2>1. Inserted(r) /\ row'[r].digest = row[p].digest
    BY <1>6, RetryInsert, CloneInsert
  <2>2. row'[r] # None
    BY <2>1, NoneIsNoRow DEF Inserted
  <2>3. row'[p] # None /\ row'[p].digest = row[p].digest
    BY <1>0, <1>6, RowsKept DEF Retry, Clone, HasRow
  <2>4. request'[h].pc = "inspect" /\ request'[h].run = r /\ request'[h].source = p
    BY <1>6, AcceptMove DEF Retry, Clone
  <2>. QED  BY <2>1, <2>2, <2>3, <2>4
            DEF Known, PutSeen, CopySeen, Submitted, StampSeen, InsertSeen, At, HasRow
<1>7. CASE PutInput(h)
  <2>1. PICK r \in Runs : r = request[h].run
    BY <1>7, AtWork DEF PutInput, At
  <2>2. HasRow(r) /\ HasRow(r)' /\ request[h].seen.bytes \in Contents
    BY <1>0, <1>7, <2>1, RowsKept DEF PutInput, Known, Submitted, PutSeen, Guarded, At
  <2>3. object'[r] # NoObject
    BY <1>7, <2>1, <2>2 DEF PutInput, ObjectOK, NoObject, SubmissionAssumption
  <2>4. request'[h].pc = "enqueue" /\ request'[h].run = r
    BY <1>7, <2>1, Moves DEF PutInput, Points
  <2>. QED  BY <2>2, <2>3, <2>4
            DEF Known, PutSeen, CopySeen, Submitted, StampSeen, InsertSeen, At, HasRow, HasObject
<1>8. CASE Inspect(h)
  <2>0. request[h].pc \in Guarded /\ ~At(h, "idle") /\ At(h, "inspect")
    BY <1>8 DEF Inspect, Guarded, At
  <2>1. PICK r \in Runs, p \in Runs : r = request[h].run /\ p = request[h].source
    BY <2>0, AtWork DEF At
  <2>2. CASE request' = [request EXCEPT ![h].pc = "copy", ![h].seen = object[p]]
    <3>1. request'[h].pc = "copy" /\ request'[h].run = r /\ request'[h].source = p
      BY <2>1, <2>2 DEF TypeOK, Requests
    <3>2. HasRow(r) /\ HasRow(p) /\ row[p].digest = row[r].digest /\ UNCHANGED row
      BY <1>0, <1>8, <2>0, <2>1 DEF Inspect, Known, CopySeen, Submitted, At
    <3>. QED  BY <3>1, <3>2
              DEF Known, PutSeen, CopySeen, Submitted, StampSeen, InsertSeen, At, HasRow
  <2>. QED  BY <1>8, <1>b, <2>0, <2>1, <2>2 DEF Inspect
<1>9. CASE StartCopy(h)
  <2>0. request[h].pc \in Guarded /\ ~At(h, "idle") /\ At(h, "copy")
    BY <1>9 DEF StartCopy, Copy, Guarded, At
  <2>1. PICK r \in Runs, p \in Runs : r = request[h].run /\ p = request[h].source
    BY <2>0, AtWork DEF At
  <2>2. CASE /\ Copyable(p, r) /\ GoTo(h, "verify")
             /\ object' = [object EXCEPT ![r] =
                    [bytes |-> object[p].bytes, sha |-> request[h].seen.sha, etag |-> 1]]
    <3>1. request'[h].pc = "verify" /\ request'[h].run = r /\ request'[h].source = p
      BY <2>1, <2>2, Moves DEF Points
    <3>2. HasRow(r) /\ HasRow(p) /\ row[p].digest = row[r].digest /\ UNCHANGED row
      BY <1>0, <1>9, <2>0, <2>1 DEF StartCopy, Copy, Known, CopySeen, Submitted, At
    <3>3. object'[r] # NoObject
      BY <2>2 DEF Copyable, ObjectOK, NoObject, SubmissionAssumption
    <3>. QED  BY <3>1, <3>2, <3>3
              DEF Known, PutSeen, CopySeen, Submitted, StampSeen, InsertSeen, At, HasRow, HasObject
  <2>. QED  BY <1>9, <1>b, <2>0, <2>1, <2>2 DEF StartCopy, Copy
<1>10. CASE VerifyCopy(h)
  <2>0. request[h].pc \in Guarded /\ ~At(h, "idle") /\ At(h, "verify")
    BY <1>10 DEF VerifyCopy, Guarded, At
  <2>1. PICK r \in Runs : r = request[h].run
    BY <2>0, AtWork
  <2>2. CASE GoTo(h, "enqueue") /\ UNCHANGED object
    <3>1. request'[h].pc = "enqueue" /\ request'[h].run = r
      BY <2>1, <2>2, Moves DEF Points
    <3>2. HasRow(r) /\ HasObject(r) /\ UNCHANGED <<row, object>>
      BY <1>0, <1>10, <2>0, <2>1, <2>2 DEF VerifyCopy, Known, Submitted, At
    <3>. QED  BY <3>1, <3>2
              DEF Known, PutSeen, CopySeen, Submitted, StampSeen, InsertSeen, At, HasRow, HasObject
  <2>. QED  BY <1>10, <1>b, <2>0, <2>2 DEF VerifyCopy
<1>11. CASE Enqueue(h) \/ Undo(h) \/ CreateRaises(h) \/ Crash(h)
  BY <1>11, <1>a DEF Enqueue, Undo, Crash, CreateRaises, Abandon, Answer
<1>12. CASE Fault(h)
  BY <1>12, <1>a, <1>b DEF Fault, Abandon, AfterFault, At, Guarded
<1>. QED  BY <1>1, <1>2, <1>3, <1>4, <1>5, <1>6, <1>7, <1>8, <1>9, <1>10, <1>11, <1>12
          DEF HandlerStep, Finalize, Submit, CopyInput

LEMMA InputStep ==
    ASSUME TypeOK, TypeOK', SubmissionAssumption, PathInv, InputInv, JobInv, [Next]_vars
    PROVE  InputInv'
<1>1. StoredInv'
  BY StoredStep
<1>2. ASSUME NEW g \in Handlers
      PROVE  Known(g)'
  <2>1. CASE HandlerStep(g)
    BY <2>1, KnownMoves
  <2>2. CASE ~HandlerStep(g)
    <3>1. request'[g] = request[g]
      BY <2>2, OnlyOne, OthersOnly DEF Next, vars
    <3>. QED  BY <3>1, KnownKept
  <2>. QED  BY <2>1, <2>2
<1>. QED  BY <1>1, <1>2 DEF InputInv

(***************************************************************************)
(* The two paths, and what is never stranded                               *)
(***************************************************************************)

LEMMA PathStep ==
    ASSUME TypeOK, TypeOK', SubmissionAssumption, PathInv, InputInv, [Next]_vars
    PROVE  PathInv'
<1>0. ObjectsStep /\ RowsStep
  BY NextObjects, NextRows
<1>1. \A r \in Runs : Direct(r) /\ HasObject(r) => Direct(r)' /\ HasObject(r)'
  BY <1>0, ObjectKept DEF ObjectsStep, Removed, Direct
<1>2. \A r \in Runs : HasRow(r) /\ ~Direct(r) => ~Direct(r)'
  <2>1. ASSUME NEW r \in Runs, Authorize(r)
        PROVE  \A q \in Runs : HasRow(q) /\ ~Direct(q) => ~Direct(q)'
    BY <2>1 DEF Authorize, Fresh, Direct
  <2>2. CASE UNCHANGED authorised
    BY <2>2 DEF Direct
  <2>. QED  BY <2>1, <2>2 DEF Next, vars, RunStep, CancelRun, ClientPut, Analyse, HandlerStep,
              Finalize, Measure, Download, Stamp, FinalizeInsert, Submit, CreateAnalysis, Retry,
              Clone, PutInput, CopyInput, Inspect, StartCopy, Copy, VerifyCopy, Enqueue, Fault, Undo,
              Crash, CreateRaises, Abandon
<1>3. SUFFICES ASSUME NEW g \in Handlers
               PROVE  /\ request'[g].pc \in Finalizing =>
                             request'[g].run \in authorised' /\ object'[request'[g].run] # NoObject
                      /\ request'[g].pc \in {"put", "inspect", "copy", "verify"} =>
                             request'[g].run \notin authorised'
  BY DEF PathInv, HasObject, Direct
<1>4. ASSUME request'[g].run = request[g].run,
             request'[g].pc \in Finalizing => request[g].pc \in Finalizing,
             request'[g].pc \in {"put", "inspect", "copy", "verify"} =>
                 request[g].pc \in {"put", "inspect", "copy", "verify"}
      PROVE  /\ request'[g].pc \in Finalizing =>
                    request'[g].run \in authorised' /\ object'[request'[g].run] # NoObject
             /\ request'[g].pc \in {"put", "inspect", "copy", "verify"} =>
                    request'[g].run \notin authorised'
  <2>1. CASE request[g].pc \in Finalizing \union {"put", "inspect", "copy", "verify"}
    <3>1. request[g].run \in Runs /\ Known(g)
      BY <2>1, AtWork DEF At, Finalizing, InputInv
    <3>. QED  BY <1>1, <1>2, <1>4, <2>1, <3>1
              DEF PathInv, Known, Submitted, Guarded, Finalizing, Direct, HasObject
  <2>. QED  BY <1>4, <2>1
<1>5. CASE request'[g] = request[g]
  BY <1>4, <1>5 DEF Direct
<1>6. CASE HandlerStep(g)
  <2>1. CASE request'[g] = Idle \/ request'[g].pc \in {"undo", "enqueue"}
    BY <2>1 DEF Idle, Finalizing
  <2>2. ASSUME NEW r \in Runs, Measure(g, r)
        PROVE  /\ request'[g].run = r /\ request'[g].pc \notin {"put", "inspect", "copy", "verify"}
               /\ Direct(r) /\ HasObject(r)
    BY <2>2, AcceptMove DEF Measure
  <2>3. ASSUME Submit(g)
        PROVE  \E r \in Runs : /\ request'[g].run = r /\ request'[g].pc \notin Finalizing
                               /\ ~Direct(r) /\ UNCHANGED authorised
    <3>1. ASSUME NEW r \in Runs, NEW c \in Contents, CreateAnalysis(g, r, c)
          PROVE  /\ request'[g].run = r /\ request'[g].pc \notin Finalizing
                 /\ ~Direct(r) /\ UNCHANGED authorised
      BY <3>1, AcceptMove DEF CreateAnalysis, Fresh, Finalizing
    <3>2. ASSUME NEW p \in Runs, NEW r \in Runs, Retry(g, p, r) \/ Clone(g, p, r)
          PROVE  /\ request'[g].run = r /\ request'[g].pc \notin Finalizing
                 /\ ~Direct(r) /\ UNCHANGED authorised
      BY <3>2, AcceptMove DEF Retry, Clone, Fresh, Finalizing
    <3>. QED  BY <2>3, <3>1, <3>2 DEF Submit
  <2>4. CASE Download(g) \/ Inspect(g)
    <3>1. \/ /\ request'[g].run = request[g].run
             /\ \/ request[g].pc = "download" /\ request'[g].pc = "stamp"
                \/ request[g].pc = "inspect" /\ request'[g].pc = "copy"
          \/ request'[g].pc = "undo"
      BY <2>4, Moves DEF Download, Inspect, At, TypeOK, Requests, Points
    <3>. QED  BY <1>4, <2>1, <3>1 DEF Finalizing, Direct
  <2>5. CASE Stamp(g) \/ StartCopy(g)
    <3>1. \/ /\ request'[g].run = request[g].run
             /\ \/ request[g].pc = "stamp" /\ request'[g].pc = "insert"
                \/ request[g].pc = "copy" /\ request'[g].pc = "verify"
          \/ request'[g] = Idle \/ request'[g].pc = "undo"
      BY <2>5, Moves DEF Stamp, StartCopy, Copy, At, Points
    <3>. QED  BY <1>4, <2>1, <3>1 DEF Finalizing, Direct
  <2>6. CASE \/ FinalizeInsert(g) \/ PutInput(g) \/ VerifyCopy(g) \/ Enqueue(g)
             \/ Fault(g) \/ Undo(g) \/ CreateRaises(g) \/ Crash(g)
    <3>1. request'[g] = Idle \/ request'[g].pc \in {"undo", "enqueue"}
      BY <2>6, Moves DEF FinalizeInsert, FinalizeExisting, PutInput, VerifyCopy, Enqueue, Answer,
                         Fault, AfterFault, Undo, Crash, CreateRaises, Abandon, Points
    <3>. QED  BY <2>1, <3>1
  <2>7. CASE \E r \in Runs : Measure(g, r)
    BY <1>1, <2>2, <2>7 DEF HasObject, Direct
  <2>8. CASE Submit(g)
    BY <2>3, <2>8 DEF Direct
  <2>. QED  BY <1>6, <2>4, <2>5, <2>6, <2>7, <2>8 DEF HandlerStep, Finalize, CopyInput
<1>. QED  BY <1>5, <1>6, OnlyOne, OthersOnly DEF Next, vars

\* A request of the coordinator gives its run up only with the job sent, the
\* failure recorded, its process dead or a call to the repository raising.
LEMMA GivesUp ==
    ASSUME TypeOK, SubmissionAssumption, PathInv, InputInv, NEW h \in Handlers, HandlerStep(h),
           NEW r \in Runs, request[h].run = r, ~Direct(r), row'[r].status = "queued",
           row[r].status = "queued", HasRow(r), sent'[r] = 0, r \notin abandoned'
    PROVE  request'[h].run = r
<1>1. request[h] # Idle
  BY DEF Idle, SubmissionAssumption
<1>2. request[h].pc \notin Finalizing
  BY DEF PathInv
<1>3. CASE PutInput(h) \/ StartCopy(h) \/ VerifyCopy(h)
  BY <1>3, Moves DEF PutInput, StartCopy, Copy, VerifyCopy, Points
<1>4. CASE Inspect(h)
  BY <1>4, Moves DEF Inspect, Points, TypeOK, Requests
<1>5. CASE Fault(h)
  <2>1. request[h].pc \notin RepositoryCalls \union {"idle"}
    BY <1>5 DEF Fault, Abandon, At
  <2>2. request[h].pc \in Guarded
    <3>1. request[h].pc \in Points
      BY DEF TypeOK, Requests, Idle, Points
    <3>. QED  BY <1>2, <2>1, <3>1 DEF Points, Guarded, Finalizing, RepositoryCalls
  <2>3. GoTo(h, "undo")
    BY <1>5, <2>2 DEF Fault, AfterFault
  <2>. QED  BY <2>3, Moves DEF Points
<1>6. ~Enqueue(h)
  BY DEF Enqueue, TypeOK
<1>7. ~Undo(h)
  <2>1. ASSUME Undo(h)
        PROVE  FALSE
    <3>1. row' = [row EXCEPT ![r].status = "failed"]
      BY <2>1, StatusNames DEF Undo, Save
    <3>2. row[r] \in Rows
      BY DEF TypeOK, HasRow
    <3>3. row'[r].status = "failed"
      BY <3>1, <3>2 DEF TypeOK, Rows
    <3>. QED  BY <3>3
  <2>. QED  BY <2>1
<1>8. ~Crash(h) /\ ~CreateRaises(h)
  BY DEF Crash, CreateRaises, Abandon
<1>9. ~Submit(h) /\ \A q \in Runs : ~Measure(h, q)
  BY <1>1 DEF Submit, CreateAnalysis, Retry, Clone, Measure, Accept
<1>10. ~Download(h) /\ ~Stamp(h) /\ ~FinalizeInsert(h)
  BY <1>2 DEF Download, Stamp, FinalizeInsert, At, Finalizing
<1>. QED  BY <1>3, <1>4, <1>5, <1>6, <1>7, <1>8, <1>9, <1>10
          DEF HandlerStep, Finalize, CopyInput

\* A thread keeps its run, or none is stranded by what it does.
LEMMA StrandedStep ==
    ASSUME TypeOK, TypeOK', SubmissionAssumption, PathInv, InputInv, JobInv, NothingIsStranded,
           [Next]_vars
    PROVE  NothingIsStranded'
<1>1. SUFFICES ASSUME NEW r \in Runs, HasRow(r)', row'[r].status = "queued", sent'[r] = 0,
                      r \notin authorised', r \notin abandoned'
               PROVE  \E h \in Handlers : request'[h].run = r
  BY DEF NothingIsStranded, HasRow, Direct
<1>2. CASE ~HasRow(r)
  BY <1>1, <1>2, NewRowInput
<1>3. CASE HasRow(r)
  <2>1. row[r].status = "queued"
    BY <1>1, <1>3, NextRows, RowsKept
  <2>2. ~Direct(r)
    BY <1>1, NextObjects DEF ObjectsStep, Direct
  <2>3. sent[r] = 0
    <3>1. CASE UNCHANGED sent
      BY <1>1, <3>1
    <3>2. ASSUME NEW h \in Handlers, NEW q \in Runs, Sends(h, q)
          PROVE  sent[r] = 0
      BY <1>1, <3>2 DEF Sends, TypeOK
    <3>. QED  BY <3>1, <3>2, HandlerHolds, OthersOnly DEF Next, vars, Quiet, Takes
  <2>4. abandoned \subseteq abandoned'
    BY DEF Next, vars, RunStep, Authorize, CancelRun, ClientPut, Analyse, HandlerStep,
           Finalize, Measure, Download, Stamp, FinalizeInsert, Submit, CreateAnalysis, Retry,
           Clone, PutInput, CopyInput, Inspect, StartCopy, Copy, VerifyCopy, Enqueue, Fault, Undo,
           Crash, CreateRaises, Abandon
  <2>5. PICK h \in Handlers : request[h].run = r
    BY <1>1, <1>3, <2>1, <2>2, <2>3, <2>4 DEF NothingIsStranded
  <2>6. CASE HandlerStep(h)
    BY <1>1, <1>3, <2>1, <2>2, <2>5, <2>6, GivesUp
  <2>7. CASE ~HandlerStep(h)
    BY <2>5, <2>7, OnlyOne, OthersOnly DEF Next, vars
  <2>. QED  BY <2>6, <2>7
<1>. QED  BY <1>2, <1>3

(***************************************************************************)
(* The ledger: what each step is to AttemptLedger                          *)
(***************************************************************************)

\* A save that a status allows ends or withdraws the attempt, or begins it.
LEMMA SaveInLedger ==
    ASSUME TypeOK, UNCHANGED sent, NEW r \in Runs, HasRow(r),
           NEW status \in Contract!RunStatus \ {"queued"}, Save(r, status),
           status = "running" => row[r].status = "queued" /\ sent[r] = 1
    PROVE  \/ Ledger!Begin(r) \/ Ledger!End(r) \/ Ledger!Withdraw(r)
           \/ UNCHANGED row
<1>1. CASE row' = row
  BY <1>1
<1>2. CASE /\ row' = [row EXCEPT ![r].status = status]
           /\ <<row[r].status, status>> \in Contract!AllowedTransitions
  <2>1. \/ status = "running" /\ row[r].status = "queued"
        \/ status \in {"failed", "cancelled"} /\ row[r].status = "queued"
        \/ /\ status \in {"succeeded", "partial", "failed", "cancelled"}
           /\ row[r].status = "running"
    BY <1>2, StatusNames
  <2>2. Ledger!Recorded(r)
    BY DEF HasRow, Ledger!Recorded
  <2>3. \A from, to : row[r].status = from /\ status \in to => Ledger!Becomes(r, from, to)
    BY <1>2, <2>2, Zenon DEF Ledger!Becomes
  <2>. QED  BY <2>1, <2>3 DEF Ledger!Begin, Ledger!End, Ledger!Withdraw
<1>. QED  BY <1>1, <1>2 DEF Save

\* An attempt that is numbered one is the first of its analysis.
LEMMA FirstInLedger ==
    ASSUME UNCHANGED sent, NEW r \in Runs, NEW c \in Contents,
           Insert(r, NewRow(r, 1, None, c))
    PROVE  Ledger!Open(r)
BY Zenon DEF NewRow, Insert, Insertable, HasRow, Ledger!Open, Ledger!Record, Ledger!Recorded

\* The unique constraint lets no attempt be repeated twice: the two repetitions
\* would have one number.
LEMMA RepeatInLedger ==
    ASSUME TypeOK, SubmissionAssumption, ChainInv, NEW h \in Handlers,
           NEW p \in Runs, NEW r \in Runs, Retry(h, p, r)
    PROVE  Ledger!Repeat(p, r)
<1>. DEFINE new == NewRow(row[p].analysis, row[p].attempt + 1, p, row[p].digest)
<1>1. /\ row[p] \in Rows /\ HasRow(p) /\ row[p].status \in {"failed", "partial"}
      /\ row' = [row EXCEPT ![r] = new] /\ UNCHANGED sent
      /\ Insertable(r, row[p].analysis, row[p].attempt + 1)
  BY NewRowFields DEF Retry, Retryable, Insert, HasRow, TypeOK
<1>2. \A q \in Runs : HasRow(q) => row[q].attempt \in Nat \ {0}
  BY DEF TypeOK, HasRow, Rows
<1>3. \A q \in Runs : HasRow(q) => row[q].previous # p
  <2>1. SUFFICES ASSUME NEW q \in Runs, HasRow(q), row[q].previous = p
                 PROVE  FALSE
    OBVIOUS
  <2>2. row[q].attempt > 1
    BY <1>2, <2>1 DEF ChainInv, SubmissionAssumption
  <2>3. row[p].attempt = row[q].attempt - 1 /\ row[p].analysis = row[q].analysis
    BY <2>1, <2>2 DEF ChainInv, AttemptsFormAChain
  <2>4. row[q].attempt = row[p].attempt + 1
    BY <1>1, <1>2, <2>1, <2>3
  <2>. QED  BY <1>1, <2>1, <2>3, <2>4 DEF Insertable
<1>4. Ledger!Record(r, row[p].analysis, row[p].attempt + 1, p, row[p].digest)
  <2>1. ~Ledger!Recorded(r)
    BY <1>1 DEF Insertable, HasRow, Ledger!Recorded
  <2>. QED  BY <1>1, <2>1, Zenon DEF NewRow, Ledger!Record
<1>5. Ledger!Recorded(p) /\ ~Ledger!Repeated(p)
  BY <1>1, <1>3 DEF HasRow, Ledger!Recorded, Ledger!Repeated
<1>. QED  BY <1>1, <1>4, <1>5 DEF Ledger!Repeat

\* The job of a run that a request holds is its first.
LEMMA JobInLedger ==
    ASSUME TypeOK, JobInv, NEW h \in Handlers, At(h, "enqueue"), UNCHANGED row,
           sent' = [sent EXCEPT ![request[h].run] = @ + 1]
    PROVE  \E r \in Runs : Ledger!SendJob(r)
<1>1. PICK r \in Runs : r = request[h].run
  BY AtWork DEF At
<1>2. HasRow(r) /\ sent[r] = 0
  BY <1>1 DEF JobInv, Holds, Guarded, At
<1>3. sent' = [sent EXCEPT ![r] = 1]
  BY <1>1, <1>2 DEF TypeOK
<1>. QED  BY <1>2, <1>3 DEF HasRow, Ledger!SendJob, Ledger!Recorded

LEMMA RunInLedger ==
    ASSUME IInv, NEW r \in Runs, RunStep(r)
    PROVE  Ledger!Next \/ UNCHANGED Ledger!vars
<1>. USE DEF IInv
<1>1. ASSUME NEW status \in Contract!RunStatus, Analyse(r, status)
      PROVE  Ledger!Next \/ UNCHANGED Ledger!vars
  <2>1. HasRow(r) /\ Save(r, status) /\ UNCHANGED sent /\ status # "queued"
    BY <1>1, StatusNames DEF Analyse
  <2>2. status = "running" => row[r].status = "queued" /\ sent[r] = 1
    BY <1>1, StatusNames DEF Analyse, JobInv, OneJob, TypeOK
  <2>. QED  BY <2>1, <2>2, SaveInLedger DEF Ledger!Next, Ledger!vars
<1>2. CASE CancelRun(r)
  <2>1. HasRow(r) /\ Save(r, "cancelled") /\ UNCHANGED sent
    BY <1>2 DEF CancelRun
  <2>2. "cancelled" \in Contract!RunStatus \ {"queued"}
    BY StatusNames
  <2>. QED  BY <2>1, <2>2, SaveInLedger DEF Ledger!Next, Ledger!vars
<1>. QED  BY <1>1, <1>2 DEF RunStep, Authorize, ClientPut, Ledger!vars

LEMMA HandlerInLedger ==
    ASSUME IInv, SubmissionAssumption, NEW h \in Handlers, HandlerStep(h)
    PROVE  Ledger!Next \/ UNCHANGED Ledger!vars
<1>. USE DEF IInv
<1>1. ASSUME NEW r \in Runs, NEW c \in Contents, CreateAnalysis(h, r, c)
      PROVE  Ledger!Next
  BY <1>1, FirstInLedger DEF CreateAnalysis, Ledger!Next
<1>2. ASSUME NEW p \in Runs, NEW r \in Runs, Retry(h, p, r)
      PROVE  Ledger!Next
  BY <1>2, RepeatInLedger DEF Ledger!Next
<1>3. ASSUME NEW p \in Runs, NEW r \in Runs, Clone(h, p, r)
      PROVE  Ledger!Next
  <2>1. row[p].digest \in Contents
    BY <1>3 DEF Clone, HasRow, TypeOK, Rows
  <2>. QED  BY <1>3, <2>1, FirstInLedger DEF Clone, Ledger!Next
<1>4. CASE FinalizeInsert(h)
  <2>1. request[h].run \in Runs /\ request[h].seen.sha \in Contents
    BY <1>4, AtWork DEF FinalizeInsert, At, InputInv, Known, InsertSeen
  <2>. QED  BY <1>4, <2>1, FirstInLedger DEF FinalizeInsert, Ledger!Next, Ledger!vars
<1>5. CASE Enqueue(h)
  BY <1>5, JobInLedger DEF Enqueue, Ledger!Next
<1>6. ASSUME At(h, "undo"), Save(request[h].run, "failed"), UNCHANGED sent
      PROVE  Ledger!Next \/ UNCHANGED Ledger!vars
  <2>1. "failed" \in Contract!RunStatus \ {"queued"}
    BY StatusNames
  <2>. QED  BY <1>6, <2>1, FailureSaved, SaveInLedger DEF Ledger!Next, Ledger!vars
<1>7. CASE Undo(h) \/ Fault(h)
  <2>1. CASE Undo(h)
    BY <1>6, <2>1 DEF Undo
  <2>2. CASE Fault(h)
    BY <1>6, <2>2, JobInLedger DEF Fault, Undone, DoneAnyway, Ledger!Next, Ledger!vars
  <2>. QED  BY <1>7, <2>1, <2>2
<1>8. CASE \/ \E r \in Runs : Measure(h, r)
           \/ Download(h) \/ Stamp(h) \/ PutInput(h) \/ CopyInput(h) \/ CreateRaises(h) \/ Crash(h)
  BY <1>8 DEF Measure, Download, Stamp, PutInput, CopyInput, Inspect, StartCopy, Copy, VerifyCopy,
              Crash, CreateRaises, Abandon, Ledger!vars
<1>. QED  BY <1>1, <1>2, <1>3, <1>4, <1>5, <1>7, <1>8 DEF HandlerStep, Finalize, Submit

(***************************************************************************)
(* The theorems                                                            *)
(***************************************************************************)

LEMMA InitInv == ASSUME SubmissionAssumption, Init PROVE IInv
<1>1. TypeOK
  BY DEF Init, TypeOK, NoObject, Objects, Idle, Requests, Points, Bounds, HasObject, At,
         SubmissionAssumption
<1>2. JobInv /\ ChainInv /\ PathInv /\ NothingIsStranded
  BY DEF Init, JobInv, OneJob, ChainInv, AttemptsFormAChain, PathInv, NothingIsStranded,
         Holds, HasRow, Guarded, Finalizing, Idle
<1>3. InputInv
  BY DEF Init, InputInv, StoredInv, Known, PutSeen, CopySeen, Submitted, StampSeen, InsertSeen,
         HasRow, HasObject, Guarded, Idle, At
<1>. QED  BY <1>1, <1>2, <1>3 DEF IInv

LEMMA NextInv == ASSUME SubmissionAssumption, IInv, [Next]_vars PROVE IInv'
<1>. USE DEF IInv
<1>1. TypeOK'
  BY TypeStep
<1>2. ChainInv'
  BY <1>1, NextRows, ChainStep
<1>. QED  BY <1>1, <1>2, JobStep, PathStep, InputStep, StrandedStep

LEMMA Invariance == Spec => []IInv
BY InitInv, NextInv, SubmissionAssumption, PTL DEF Spec

\* Every variable has its type, for every value of the constants.
THEOREM TypeCorrect == Spec => []TypeOK
BY Invariance, PTL DEF IInv

\* At most one job is ever sent for a run, however often its upload is finalized.
THEOREM OneJobCorrect == Spec => []OneJob
BY Invariance, PTL DEF IInv, JobInv

\* The attempts of an analysis form a chain, however retries and clones interleave.
THEOREM ChainCorrect == Spec => []AttemptsFormAChain
BY Invariance, PTL DEF IInv, ChainInv

\* A job is sent only once the input its attempt records is in place.
THEOREM InputCorrect == Spec => []JobHasItsInput
<1>1. IInv => JobHasItsInput
  <2>1. SUFFICES ASSUME IInv, NEW r \in Runs, sent[r] > 0
                 PROVE  /\ HasRow(r) /\ HasObject(r)
                        /\ r \notin late => object[r].bytes = row[r].digest
    BY DEF JobHasItsInput
  <2>2. HasRow(r)
    BY <2>1 DEF IInv, JobInv
  <2>. QED  BY <2>1, <2>2 DEF IInv, InputInv, StoredInv
<1>. QED  BY <1>1, Invariance, PTL

\* A put, a copy or a send that fails strands no attempt, unless the process
\* dies or a call to the repository raises.
THEOREM StrandedCorrect == Spec => []NothingIsStranded
BY Invariance, PTL DEF IInv

\* Submission implements AttemptLedger: for any requests, threads, uploads,
\* faults and crashes, every step is one entry of the ledger or leaves it alone.
THEOREM KeepsTheLedger == Spec => LedgerSpec
<1>1. Init => Ledger!Init
  BY DEF Init, Ledger!Init
<1>2. IInv /\ [Next]_vars => [Ledger!Next]_Ledger!vars
  <2>. SUFFICES ASSUME IInv, [Next]_vars PROVE Ledger!Next \/ UNCHANGED Ledger!vars
    OBVIOUS
  <2>1. CASE UNCHANGED vars
    BY <2>1 DEF vars, Ledger!vars
  <2>. QED  BY <2>1, RunInLedger, HandlerInLedger, SubmissionAssumption DEF Next
<1>. QED  BY <1>1, <1>2, Invariance, PTL DEF Spec, LedgerSpec, Ledger!Spec

=============================================================================
