----------------------- MODULE FilesystemQueueProofs -----------------------
(***************************************************************************)
(* Theorems about FilesystemQueue, for any number of workers, API threads, *)
(* jobs and crashes: type correctness, that the directory completed holds  *)
(* published runs only whatever times out, and, while no claim times out,  *)
(* that a job is in the hands of one worker and no accepted job is dropped *)
(* other than by a cancellation that is cut off between its two steps; and *)
(* that the runs of the local plane keep RunLifecycle.                     *)
(*                                                                         *)
(* CompletedIsPublished is not inductive: a move to completed decides at   *)
(* one step and writes at a later one.  PublishedInv adds what a process   *)
(* about to move a record there knows of its run, and that no save takes   *)
(* a published run back.                                                   *)
(***************************************************************************)
EXTENDS FilesystemQueue, FiniteSetTheorems, TLAPS

(***************************************************************************)
(* The type invariant in two halves: the processes, and what they share.   *)
(***************************************************************************)

ProcessOK ==
    /\ pc \in [Processes -> Points]
    /\ job \in [Processes -> Jobs \union {NoJob}]
    /\ \A p \in Processes : pc[p] \notin {"start", "recover", "idle"} => job[p] \in Jobs
    /\ move \in [Processes -> Move]
    /\ todo \in [Workers -> SUBSET Jobs]
    /\ seen \in [Workers -> Contents]

SharedOK ==
    /\ run \in [Jobs -> Contract!RunStatus \union {"absent"}]
    /\ cancelFlag \in [Jobs -> BOOLEAN]
    /\ submission \in [Jobs -> {"none", "created", "failing", "accepted", "rejected"}]
    /\ record \in [Directories -> [Jobs -> Contents]]
    /\ crashes \in 0 .. MaxCrashes
    /\ timeouts \in 0 .. MaxTimeouts
    /\ interrupted \subseteq Jobs

LEMMA TypeHalves == TypeOK <=> ProcessOK /\ SharedOK
BY Zenon DEF TypeOK, ProcessOK, SharedOK

LEMMA PointNames ==
    /\ {"start", "recover", "judge", "reset", "idle", "read", "gone", "rename"} \subseteq Points
    /\ {"rewrite", "load", "begin", "work", "complete", "fail"} \subseteq Points
    /\ {"findQueued", "findClaimed", "check", "unlink", "replace", "saveCancel"} \subseteq Points
    /\ Afterwards \subseteq Points
BY DEF Points, Executing, Afterwards

LEMMA NoMoveType == NoMove \in Move
BY DEF NoMove, Move, Directories, Afterwards

\* A process goes to a point; it has a job wherever one is needed.
LEMMA GoToOK ==
    ASSUME ProcessOK, NEW p \in Processes, NEW point \in Points, GoTo(p, point),
           point \notin {"start", "recover", "idle"} => job[p] \in Jobs,
           UNCHANGED <<job, move, todo, seen>>
    PROVE  ProcessOK'
BY DEF ProcessOK, GoTo

LEMMA LeaveOK ==
    ASSUME ProcessOK, NEW p \in Processes, Leave(p)
    PROVE  ProcessOK'
BY PointNames, NoMoveType DEF ProcessOK, Leave, GoTo

LEMMA ContinueOK ==
    ASSUME ProcessOK, NEW p \in Processes, NEW point \in Points, Continue(p, point),
           job[p] \in Jobs
    PROVE  ProcessOK'
BY PointNames, NoMoveType DEF ProcessOK, Continue, GoTo, Contents

LEMMA RestartOK ==
    ASSUME ProcessOK, NEW w \in Workers, Restart(w)
    PROVE  ProcessOK'
BY PointNames, NoMoveType DEF ProcessOK, Restart, GoTo, Contents, Processes

LEMMA MoveFromOK ==
    ASSUME ProcessOK, NEW p \in Processes, NEW from \in Directories, NEW to \in Directories,
           NEW next \in Afterwards, MoveFrom(p, from, to, next), job[p] \in Jobs,
           UNCHANGED <<job, todo, seen>>
    PROVE  ProcessOK'
BY PointNames DEF ProcessOK, MoveFrom, GoTo, Move

LEMMA SetRunOK ==
    ASSUME SharedOK, NEW j \in Jobs, NEW status \in Contract!RunStatus, SetRun(j, status)
    PROVE  run' \in [Jobs -> Contract!RunStatus \union {"absent"}]
BY DEF SharedOK, SetRun

LEMMA StatusNames ==
    /\ Contract!TerminalStatus = {"succeeded", "partial", "failed", "cancelled"}
    /\ Contract!RunStatus = {"queued", "running"} \union Contract!TerminalStatus
BY DEF Contract!TerminalStatus, Contract!RunStatus

(***************************************************************************)
(* Type correctness, one group of actions at a time                        *)
(***************************************************************************)

LEMMA MoveType ==
    ASSUME ProcessOK, SharedOK, NEW p \in Processes, MoveStep(p)
    PROVE  ProcessOK' /\ SharedOK'
<1>0. /\ job[p] \in Jobs
      /\ move[p].from \in Directories
      /\ move[p].to \in Directories
      /\ move[p].next \in Points
  BY PointNames DEF MoveStep, CheckDestination, Unlink, Replace, ProcessOK, Move
<1>1. CASE CheckDestination(p)
  <2>1. PICK point \in {"unlink", "replace"} : GoTo(p, point)
    BY <1>1 DEF CheckDestination
  <2>2. UNCHANGED <<job, move, todo, seen>>
    BY <1>1 DEF CheckDestination
  <2>3. ProcessOK'
    BY <1>0, <2>1, <2>2, GoToOK, PointNames
  <2>. QED  BY <1>1, <2>3 DEF CheckDestination, SharedOK, environmentVars
<1>2. CASE Unlink(p)
  <2>1. Continue(p, move[p].next)
    BY <1>2 DEF Unlink
  <2>2. ProcessOK'
    BY <1>0, <2>1, ContinueOK
  <2>. QED  BY <1>0, <1>2, <2>2 DEF Unlink, SharedOK, Contents, environmentVars
<1>3. CASE Replace(p)
  <2>1. ASSUME Continue(p, move[p].next)
        PROVE  ProcessOK'
    BY <1>0, <2>1, ContinueOK
  <2>2. ASSUME Raise(p)
        PROVE  ProcessOK'
    BY <2>2, RestartOK, LeaveOK DEF Raise
  <2>3. ProcessOK'
    BY <1>3, <2>1, <2>2 DEF Replace
  <2>4. record' \in [Directories -> [Jobs -> Contents]]
    BY <1>0, <1>3 DEF Replace, SharedOK, Contents
  <2>. QED  BY <1>3, <2>3, <2>4 DEF Replace, SharedOK, environmentVars
<1>. QED  BY <1>1, <1>2, <1>3 DEF MoveStep

LEMMA SubmitType ==
    ASSUME ProcessOK, SharedOK, NEW j \in Jobs, Submit(j)
    PROVE  ProcessOK' /\ SharedOK'
<1>1. ProcessOK'
  BY DEF Submit, Create, Enqueue, RejectSubmission, processVars, ProcessOK
<1>2. CASE Create(j)
  BY <1>1, <1>2, SetRunOK, StatusNames DEF Create, SharedOK, environmentVars
<1>3. CASE Enqueue(j)
  BY <1>1, <1>3 DEF Enqueue, SharedOK, Directories, Contents, environmentVars
<1>4. CASE RejectSubmission(j)
  BY <1>1, <1>4, SetRunOK, StatusNames DEF RejectSubmission, SharedOK, environmentVars
<1>. QED  BY <1>1, <1>2, <1>3, <1>4 DEF Submit

LEMMA CancelType ==
    ASSUME ProcessOK, SharedOK, NEW p \in Processes, CancelStep(p)
    PROVE  ProcessOK' /\ SharedOK'
<1>0. job[p] \in Jobs /\ AfterCancel(p) \in Afterwards /\ AfterCancel(p) \in Points
  BY PointNames DEF CancelStep, FindQueued, FindClaimed, ProcessOK, AfterCancel, Afterwards
<1>1. SharedOK'
  BY DEF CancelStep, FindQueued, FindClaimed, SharedOK, environmentVars
<1>2. CASE FindQueued(p)
  <2>1. CASE Exists("queued", job[p])
    BY <1>1, <1>0, <1>2, <2>1, MoveFromOK DEF FindQueued, Directories, Afterwards
  <2>2. CASE ~Exists("queued", job[p])
    BY <1>1, <1>0, <1>2, <2>2, GoToOK, PointNames DEF FindQueued
  <2>. QED  BY <1>1, <2>1, <2>2
<1>3. CASE FindClaimed(p)
  <2>1. CASE Exists("claimed", job[p])
    BY <1>1, <1>0, <1>3, <2>1, MoveFromOK DEF FindClaimed, Directories, Afterwards
  <2>2. CASE ~Exists("claimed", job[p])
    BY <1>1, <1>0, <1>3, <2>2, ContinueOK DEF FindClaimed
  <2>. QED  BY <1>1, <2>1, <2>2
<1>. QED  BY <1>2, <1>3 DEF CancelStep

LEMMA HandlerType ==
    ASSUME ProcessOK, SharedOK, NEW h \in Handlers,
           SaveCancel(h) \/ Interrupt(h) \/ \E j \in Jobs : ReadForCancel(h, j)
    PROVE  ProcessOK' /\ SharedOK'
<1>0. h \in Processes
  BY DEF Processes
<1>1. CASE SaveCancel(h)
  <2>1. ProcessOK'
    BY <1>0, <1>1, LeaveOK DEF SaveCancel
  <2>2. job[h] \in Jobs
    BY <1>0, <1>1 DEF SaveCancel, ProcessOK
  <2>3. run' \in [Jobs -> Contract!RunStatus \union {"absent"}]
    BY <1>1, <2>2, SetRunOK, StatusNames DEF SaveCancel, SharedOK
  <2>. QED  BY <1>1, <2>1, <2>2, <2>3, QueueAssumption DEF SaveCancel, SharedOK
<1>3. CASE Interrupt(h)
  <2>1. ProcessOK'
    BY <1>0, <1>3, LeaveOK DEF Interrupt
  <2>2. pc[h] = "saveCancel" => job[h] \in Jobs
    BY <1>0 DEF ProcessOK
  <2>. QED  BY <1>3, <2>1, <2>2, QueueAssumption DEF Interrupt, SharedOK
<1>2. ASSUME NEW j \in Jobs, ReadForCancel(h, j)
      PROVE  ProcessOK' /\ SharedOK'
  <2>1. ProcessOK'
    BY <1>0, <1>2, PointNames DEF ReadForCancel, ProcessOK, GoTo
  <2>. QED  BY <1>2, <2>1 DEF ReadForCancel, SharedOK, environmentVars
<1>. QED  BY <1>1, <1>2, <1>3

LEMMA EnvironmentType ==
    ASSUME ProcessOK, SharedOK,
           \/ \E j \in Jobs : RequestCancellation(j) \/ Timeout(j)
           \/ \E w \in Workers : Crash(w)
    PROVE  ProcessOK' /\ SharedOK'
<1>1. ASSUME NEW j \in Jobs, RequestCancellation(j)
      PROVE  ProcessOK' /\ SharedOK'
  BY <1>1 DEF RequestCancellation, ProcessOK, SharedOK, processVars, environmentVars
<1>2. ASSUME NEW j \in Jobs, Timeout(j)
      PROVE  ProcessOK' /\ SharedOK'
  BY <1>2, QueueAssumption DEF Timeout, ProcessOK, SharedOK, processVars, Contents, Directories
<1>3. ASSUME NEW w \in Workers, Crash(w)
      PROVE  ProcessOK' /\ SharedOK'
  <2>1. ProcessOK'
    BY <1>3, RestartOK DEF Crash
  <2>. QED  BY <1>3, <2>1, QueueAssumption DEF Crash, SharedOK
<1>. QED  BY <1>1, <1>2, <1>3

LEMMA RecoverType ==
    ASSUME ProcessOK, SharedOK, NEW w \in Workers, Recover(w)
    PROVE  ProcessOK' /\ SharedOK'
<1>0. w \in Processes
  BY DEF Processes
<1>1. CASE ListClaimed(w)
  BY <1>0, <1>1, PointNames DEF ListClaimed, GoTo, ProcessOK, SharedOK, environmentVars
<1>2. ASSUME NEW j \in Jobs, RecoverRead(w, j)
      PROVE  ProcessOK' /\ SharedOK'
  <2>1. SharedOK'
    BY <1>2 DEF RecoverRead, SharedOK, environmentVars
  <2>2. /\ job' \in [Processes -> Jobs \union {NoJob}]
        /\ todo' \in [Workers -> SUBSET Jobs]
        /\ seen' \in [Workers -> Contents]
    BY <1>0, <1>2 DEF RecoverRead, ProcessOK, SharedOK, Directories
  <2>3. CASE GoTo(w, "judge") /\ UNCHANGED move
    BY <1>0, <1>2, <2>1, <2>2, <2>3, PointNames DEF RecoverRead, GoTo, ProcessOK
  <2>4. CASE MoveFrom(w, "claimed", "failed", "recover")
    <3>1. move' \in [Processes -> Move]
      BY <1>0, <2>4, PointNames DEF MoveFrom, ProcessOK, Move, Directories, Afterwards
    <3>. QED  BY <1>0, <1>2, <2>1, <2>2, <2>4, <3>1, PointNames DEF RecoverRead, MoveFrom, GoTo, ProcessOK
  <2>. QED  BY <1>2, <2>3, <2>4 DEF RecoverRead
<1>3. CASE Judge(w)
  <2>1. SharedOK'
    BY <1>3 DEF Judge, SharedOK, environmentVars
  <2>2. job[w] \in Jobs /\ DirectoryOf(run[job[w]]) \in Directories \union {"queued", "running", "absent"}
    BY <1>0, <1>3, StatusNames DEF Judge, ProcessOK, SharedOK, DirectoryOf, Directories
  <2>3. ASSUME Terminal(job[w]), MoveFrom(w, "claimed", DirectoryOf(run[job[w]]), "recover"),
               UNCHANGED <<job, todo, seen>>
        PROVE  ProcessOK'
    <3>1. DirectoryOf(run[job[w]]) \in Directories /\ "claimed" \in Directories
      BY <2>2, <2>3, StatusNames DEF Terminal, DirectoryOf, Directories
    <3>. QED  BY <1>0, <2>2, <2>3, <3>1, MoveFromOK, PointNames DEF Afterwards
  <2>4. ASSUME MoveFrom(w, "claimed", "queued", "reset"), UNCHANGED <<job, todo, seen>>
        PROVE  ProcessOK'
    BY <1>0, <2>2, <2>4, MoveFromOK, PointNames DEF Directories, Afterwards
  <2>5. ASSUME Continue(w, "recover")
        PROVE  ProcessOK'
    BY <1>0, <2>2, <2>5, ContinueOK, PointNames
  <2>. QED  BY <1>3, <2>1, <2>3, <2>4, <2>5 DEF Judge
<1>4. CASE Reset(w)
  <2>1. job[w] \in Jobs /\ Continue(w, "recover")
    BY <1>0, <1>4 DEF Reset, ProcessOK
  <2>2. ProcessOK'
    BY <1>0, <2>1, ContinueOK, PointNames
  <2>. QED  BY <1>4, <2>1, <2>2 DEF Reset, SharedOK, Directories, Contents, environmentVars
<1>5. CASE EndRecovery(w)
  BY <1>0, <1>5, PointNames DEF EndRecovery, GoTo, ProcessOK, SharedOK, environmentVars
<1>. QED  BY <1>1, <1>2, <1>3, <1>4, <1>5 DEF Recover

LEMMA ClaimType ==
    ASSUME ProcessOK, SharedOK, NEW w \in Workers, Claim(w)
    PROVE  ProcessOK' /\ SharedOK'
<1>0. w \in Processes
  BY DEF Processes
<1>1. ASSUME NEW j \in Jobs, ListQueued(w, j)
      PROVE  ProcessOK' /\ SharedOK'
  BY <1>0, <1>1, PointNames DEF ListQueued, GoTo, ProcessOK, SharedOK, environmentVars
<1>2. CASE ReadRecord(w)
  BY <1>0, <1>2, PointNames DEF ReadRecord, GoTo, ProcessOK, SharedOK, environmentVars
<1>3. CASE Quarantine(w)
  <2>1. SharedOK'
    BY <1>3 DEF Quarantine, SharedOK, environmentVars
  <2>2. job[w] \in Jobs
    BY <1>0, <1>3 DEF Quarantine, ProcessOK
  <2>3. ASSUME MoveFrom(w, "queued", "failed", "idle"), UNCHANGED <<job, todo, seen>>
        PROVE  ProcessOK'
    BY <1>0, <2>2, <2>3, MoveFromOK, PointNames DEF Directories, Afterwards
  <2>4. ASSUME Leave(w)
        PROVE  ProcessOK'
    BY <1>0, <2>4, LeaveOK
  <2>. QED  BY <1>3, <2>1, <2>3, <2>4 DEF Quarantine
<1>4. CASE Rename(w)
  <2>0. job[w] \in Jobs
    BY <1>0, <1>4 DEF Rename, ProcessOK
  <2>1. SharedOK'
    BY <1>4, <2>0 DEF Rename, SharedOK, Directories, Contents, environmentVars
  <2>2. ASSUME GoTo(w, "rewrite"), UNCHANGED <<job, move, todo, seen>>
        PROVE  ProcessOK'
    BY <1>0, <2>0, <2>2, PointNames, GoToOK
  <2>3. ASSUME Leave(w)
        PROVE  ProcessOK'
    BY <1>0, <2>3, LeaveOK
  <2>. QED  BY <1>4, <2>1, <2>2, <2>3 DEF Rename
<1>5. CASE Rewrite(w)
  BY <1>0, <1>5, PointNames DEF Rewrite, GoTo, ProcessOK, SharedOK, Directories, Contents, environmentVars
<1>. QED  BY <1>1, <1>2, <1>3, <1>4, <1>5 DEF Claim

LEMMA SettleOK ==
    ASSUME ProcessOK, NEW w \in Workers, NEW status, Settle(w, status),
           job[w] \in Jobs, UNCHANGED <<job, move, todo, seen>>
    PROVE  ProcessOK'
<1>1. w \in Processes
  BY DEF Processes
<1>2. PICK point \in {"complete", "findQueued", "fail"} : GoTo(w, point)
  BY DEF Settle
<1>. QED  BY <1>1, <1>2, GoToOK, PointNames

LEMMA ExecuteType ==
    ASSUME ProcessOK, SharedOK, NEW w \in Workers, Execute(w)
    PROVE  ProcessOK' /\ SharedOK'
<1>0. w \in Processes /\ job[w] \in Jobs
  BY DEF Processes, Execute, Load, Begin, Work, ProcessOK
<1>1. CASE Load(w)
  <2>1. UNCHANGED <<job, move, todo, seen>>
    BY <1>1 DEF Load
  <2>2. ASSUME Settle(w, run[job[w]])
        PROVE  ProcessOK'
    BY <1>0, <2>1, <2>2, SettleOK
  <2>3. ASSUME NEW point \in {"begin", "work"}, GoTo(w, point)
        PROVE  ProcessOK'
    BY <1>0, <2>1, <2>3, GoToOK, PointNames
  <2>. QED  BY <1>1, <2>2, <2>3 DEF Load, SharedOK, environmentVars
<1>2. CASE Begin(w)
  <2>1. SharedOK'
    BY <1>0, <1>2, SetRunOK, StatusNames DEF Begin, SharedOK, environmentVars
  <2>2. ASSUME Settle(w, "cancelled"), UNCHANGED <<job, move, todo, seen>>
        PROVE  ProcessOK'
    BY <1>0, <2>2, SettleOK
  <2>3. ASSUME GoTo(w, "work"), UNCHANGED <<job, move, todo, seen>>
        PROVE  ProcessOK'
    BY <1>0, <2>3, GoToOK, PointNames
  <2>4. ASSUME Restart(w)
        PROVE  ProcessOK'
    BY <2>4, RestartOK
  <2>. QED  BY <1>2, <2>1, <2>2, <2>3, <2>4 DEF Begin
<1>3. CASE Work(w)
  <2>1. SharedOK'
    BY <1>0, <1>3, SetRunOK, StatusNames DEF Work, SharedOK, environmentVars
  <2>2. ASSUME NEW status, Settle(w, status), UNCHANGED <<job, move, todo, seen>>
        PROVE  ProcessOK'
    BY <1>0, <2>2, SettleOK
  <2>3. ASSUME Restart(w)
        PROVE  ProcessOK'
    BY <2>3, RestartOK
  <2>. QED  BY <1>3, <2>1, <2>2, <2>3 DEF Work
<1>. QED  BY <1>1, <1>2, <1>3 DEF Execute

LEMMA FilingType ==
    ASSUME ProcessOK, SharedOK, NEW w \in Workers, TerminalMove(w)
    PROVE  ProcessOK' /\ SharedOK'
<1>0. w \in Processes /\ job[w] \in Jobs
  BY DEF Processes, TerminalMove, ProcessOK
<1>1. SharedOK'
  BY DEF TerminalMove, SharedOK, environmentVars
<1>2. CASE Leave(w)
  BY <1>0, <1>1, <1>2, LeaveOK
<1>3. CASE ~Leave(w)
  <2>1. PICK to \in Directories :
           move' = [move EXCEPT ![w] = [from |-> "claimed", to |-> to, next |-> "idle"]]
    BY <1>3 DEF TerminalMove, Filing, Directories
  <2>2. [from |-> "claimed", to |-> to, next |-> "idle"] \in Move
    BY PointNames DEF Move, Directories, Afterwards
  <2>3. move' \in [Processes -> Move]
    BY <1>0, <2>1, <2>2 DEF ProcessOK
  <2>4. pc' = [pc EXCEPT ![w] = "replace"] /\ UNCHANGED <<job, todo, seen>>
    BY <1>3 DEF TerminalMove, GoTo
  <2>. QED  BY <1>0, <1>1, <2>3, <2>4, PointNames DEF ProcessOK
<1>. QED  BY <1>2, <1>3

\* Every step keeps the types.
LEMMA StepType ==
    ASSUME TypeOK, [Next]_vars
    PROVE  TypeOK'
<1>0. ProcessOK /\ SharedOK
  BY TypeHalves
<1>1. ASSUME NEW p \in Processes, MoveStep(p) \/ CancelStep(p)
      PROVE  ProcessOK' /\ SharedOK'
  BY <1>0, <1>1, MoveType, CancelType
<1>2. ASSUME NEW j \in Jobs, Submit(j) \/ RequestCancellation(j) \/ Timeout(j)
      PROVE  ProcessOK' /\ SharedOK'
  BY <1>0, <1>2, SubmitType, EnvironmentType
<1>3. ASSUME NEW h \in Handlers, HandlerStep(h) \/ Interrupt(h) \/ \E j \in Jobs : ReadForCancel(h, j)
      PROVE  ProcessOK' /\ SharedOK'
  BY <1>0, <1>1, <1>3, HandlerType DEF HandlerStep, Processes
<1>4. ASSUME NEW w \in Workers, WorkerStep(w) \/ Crash(w)
      PROVE  ProcessOK' /\ SharedOK'
  BY <1>0, <1>1, <1>4, RecoverType, ClaimType, ExecuteType, FilingType, EnvironmentType
     DEF WorkerStep, Processes
<1>5. ASSUME UNCHANGED vars
      PROVE  ProcessOK' /\ SharedOK'
  BY <1>0, <1>5 DEF vars, processVars, environmentVars, ProcessOK, SharedOK
<1>6. ProcessOK' /\ SharedOK'
  BY <1>2, <1>3, <1>4, <1>5 DEF Next
<1>. QED  BY <1>6 DEF TypeOK, ProcessOK, SharedOK

LEMMA InitType == Init => TypeOK
BY QueueAssumption, PointNames, NoMoveType
   DEF Init, TypeOK, Contents, Directories, Processes

\* The state of the queue keeps its types, and a process past its loop always
\* has a job in hand.
THEOREM TypeCorrect == Spec => []TypeOK
BY InitType, StepType, PTL DEF Spec

(***************************************************************************)
(* completed holds published runs only                                     *)
(***************************************************************************)

Published(j) == run[j] \in {"succeeded", "partial"}

\* A process that moves a record to completed, or is about to call complete,
\* has a published run in hand, and outside a move it remembers none ...
ProcessPublishes(p) ==
    /\ move[p].to = "completed" => Published(job[p])
    /\ pc[p] = "complete" => Published(job[p])
    /\ pc[p] \notin {"check", "unlink", "replace"} => move[p].to # "completed"

\* ... and nobody touches a job before it is submitted, so that the run it
\* is given by create replaces none.
Untouched(j) ==
    /\ run[j] = "absent"
    /\ \A d \in Directories : record[d][j] = "none"
    /\ \A p \in Processes : job[p] # j
    /\ \A w \in Workers : j \notin todo[w]

UnknownIsUntouched == \A j \in Jobs : submission[j] = "none" => Untouched(j)

PublishedInv ==
    /\ TypeOK
    /\ CompletedIsPublished
    /\ \A p \in Processes : ProcessPublishes(p)
    /\ UnknownIsUntouched

\* No save replaces a published run: the transitions of lifecycle.py have none
\* that leaves a terminal status.
LEMMA SaveStable ==
    ASSUME TypeOK, NEW j \in Jobs, NEW status, SetRun(j, status),
           SaveAllowed(j, status) \/ ~Terminal(j), NEW k \in Jobs, Published(k)
    PROVE  Published(k)'
BY StatusNames
   DEF TypeOK, SetRun, SaveAllowed, Terminal, Published, Contract!AllowedTransitions

LEMMA PublishedStable ==
    ASSUME PublishedInv, [Next]_vars, NEW k \in Jobs, Published(k)
    PROVE  Published(k)'
<1>0. TypeOK /\ UnknownIsUntouched
  BY DEF PublishedInv
<1>1. CASE UNCHANGED run
  BY <1>1 DEF Published
<1>2. ASSUME NEW j \in Jobs, Create(j)
      PROVE  Published(k)'
  BY <1>0, <1>2, SaveStable, StatusNames DEF Create, UnknownIsUntouched, Untouched, Terminal
<1>3. ASSUME NEW j \in Jobs, RejectSubmission(j)
      PROVE  Published(k)'
  BY <1>0, <1>1, <1>3, SaveStable DEF RejectSubmission
<1>4. ASSUME NEW h \in Handlers, SaveCancel(h)
      PROVE  Published(k)'
  <2>1. job[h] \in Jobs
    BY <1>0, <1>4 DEF SaveCancel, TypeOK, Processes
  <2>. QED  BY <1>0, <1>1, <1>4, <2>1, SaveStable DEF SaveCancel
<1>5. ASSUME NEW w \in Workers, Begin(w) \/ Work(w)
      PROVE  Published(k)'
  <2>1. job[w] \in Jobs
    BY <1>0, <1>5 DEF Begin, Work, TypeOK, Processes
  <2>2. CASE Begin(w)
    BY <1>0, <1>1, <2>1, <2>2, SaveStable DEF Begin
  <2>3. CASE Work(w)
    BY <1>0, <1>1, <2>1, <2>3, SaveStable DEF Work
  <2>. QED  BY <1>5, <2>2, <2>3
<1>6. ASSUME NEW p \in Processes, MoveStep(p) \/ CancelStep(p)
      PROVE  UNCHANGED run
  BY <1>6 DEF MoveStep, CheckDestination, Unlink, Replace, CancelStep, FindQueued, FindClaimed
<1>7. ASSUME NEW w \in Workers, WorkerStep(w) \/ Crash(w), ~Begin(w), ~Work(w)
      PROVE  UNCHANGED run
  BY <1>6, <1>7
     DEF WorkerStep, Crash, Processes, TerminalMove, Execute, Load,
         Claim, ListQueued, ReadRecord, Quarantine, Rename, Rewrite,
         Recover, ListClaimed, RecoverRead, Judge, Reset, EndRecovery
<1>8. ASSUME NEW h \in Handlers, ~SaveCancel(h),
             HandlerStep(h) \/ Interrupt(h) \/ \E j \in Jobs : ReadForCancel(h, j)
      PROVE  UNCHANGED run
  BY <1>6, <1>8 DEF HandlerStep, Interrupt, ReadForCancel, Processes
<1>9. ASSUME NEW j \in Jobs, ~Create(j), ~RejectSubmission(j),
             Submit(j) \/ RequestCancellation(j) \/ Timeout(j)
      PROVE  UNCHANGED run
  BY <1>9 DEF Submit, Enqueue, RequestCancellation, Timeout
<1>10. ASSUME UNCHANGED vars
       PROVE  UNCHANGED run
  BY <1>10 DEF vars
<1>. QED  BY <1>1, <1>2, <1>3, <1>4, <1>5, <1>7, <1>8, <1>9, <1>10 DEF Next

\* A process that returns to its loop, or continues after a move.
LEMMA ReturnPublishes ==
    ASSUME TypeOK, NEW p \in Processes,
           \/ Leave(p) \/ Raise(p) \/ (p \in Workers /\ Restart(p))
           \/ \E point \in Afterwards : Continue(p, point)
    PROVE  ProcessPublishes(p)'
<1>1. move' = [move EXCEPT ![p] = NoMove]
  BY DEF Leave, Raise, Restart, Continue
<1>2. move'[p].to = "queued"
  BY <1>1 DEF TypeOK, NoMove
<1>3. PICK point \in Afterwards \union {"start"} : pc' = [pc EXCEPT ![p] = point]
  BY DEF Leave, Raise, Restart, Continue, GoTo, Afterwards
<1>4. pc'[p] # "complete"
  BY <1>3 DEF TypeOK, Afterwards
<1>. QED  BY <1>2, <1>4 DEF ProcessPublishes

\* A process between two moves.
LEMMA GoPublishes ==
    ASSUME TypeOK, NEW p \in Processes, ProcessPublishes(p), NEW point, GoTo(p, point),
           pc[p] \notin {"check", "unlink", "replace"}, UNCHANGED move,
           point = "complete" => Published(job[p])'
    PROVE  ProcessPublishes(p)'
BY DEF TypeOK, ProcessPublishes, GoTo

\* A process that begins a move.
LEMMA MovePublishes ==
    ASSUME TypeOK, NEW p \in Processes, NEW from, NEW to, NEW next, MoveFrom(p, from, to, next),
           to = "completed" => Published(job[p])'
    PROVE  ProcessPublishes(p)'
<1>1. pc'[p] = "check" /\ move'[p].to = to
  BY DEF TypeOK, MoveFrom, GoTo
<1>. QED  BY <1>1 DEF ProcessPublishes

LEMMA MoveStepPublishes ==
    ASSUME PublishedInv, [Next]_vars, NEW p \in Processes, MoveStep(p)
    PROVE  ProcessPublishes(p)'
<1>0. TypeOK /\ ProcessPublishes(p) /\ job[p] \in Jobs /\ move[p] \in Move
  BY DEF PublishedInv, TypeOK, MoveStep, CheckDestination, Unlink, Replace
<1>1. CASE CheckDestination(p)
  <2>1. move'[p] = move[p] /\ job'[p] = job[p] /\ pc'[p] \in {"unlink", "replace"}
    BY <1>0, <1>1 DEF CheckDestination, GoTo, TypeOK
  <2>2. Published(job[p]) => Published(job[p])'
    BY <1>1, <2>1 DEF CheckDestination, Published
  <2>. QED  BY <1>0, <2>1, <2>2 DEF ProcessPublishes
<1>2. CASE Unlink(p)
  BY <1>0, <1>2, ReturnPublishes DEF Unlink, Move
<1>3. CASE Replace(p)
  BY <1>0, <1>3, ReturnPublishes DEF Replace, Move
<1>. QED  BY <1>1, <1>2, <1>3 DEF MoveStep

LEMMA CancelStepPublishes ==
    ASSUME PublishedInv, NEW p \in Processes, CancelStep(p)
    PROVE  ProcessPublishes(p)'
<1>0. TypeOK /\ ProcessPublishes(p) /\ AfterCancel(p) \in Afterwards
  BY DEF PublishedInv, AfterCancel, Afterwards
<1>1. CASE FindQueued(p)
  <2>1. ASSUME MoveFrom(p, "queued", "cancelled", AfterCancel(p))
        PROVE  ProcessPublishes(p)'
    BY <1>0, <2>1, MovePublishes
  <2>2. ASSUME GoTo(p, "findClaimed"), UNCHANGED move
        PROVE  ProcessPublishes(p)'
    BY <1>0, <1>1, <2>2, GoPublishes DEF FindQueued
  <2>. QED  BY <1>1, <2>1, <2>2 DEF FindQueued
<1>2. CASE FindClaimed(p)
  <2>1. ASSUME MoveFrom(p, "claimed", "cancelled", AfterCancel(p))
        PROVE  ProcessPublishes(p)'
    BY <1>0, <2>1, MovePublishes
  <2>2. ASSUME Continue(p, AfterCancel(p))
        PROVE  ProcessPublishes(p)'
    BY <1>0, <2>2, ReturnPublishes
  <2>. QED  BY <1>2, <2>1, <2>2 DEF FindClaimed
<1>. QED  BY <1>1, <1>2 DEF CancelStep

LEMMA HandlerPublishes ==
    ASSUME PublishedInv, NEW h \in Handlers,
           SaveCancel(h) \/ Interrupt(h) \/ \E j \in Jobs : ReadForCancel(h, j)
    PROVE  ProcessPublishes(h)'
<1>0. TypeOK /\ h \in Processes /\ ProcessPublishes(h)
  BY DEF PublishedInv, Processes
<1>1. CASE SaveCancel(h)
  BY <1>0, <1>1, ReturnPublishes DEF SaveCancel
<1>3. CASE Interrupt(h)
  BY <1>0, <1>3, ReturnPublishes DEF Interrupt
<1>2. ASSUME NEW j \in Jobs, ReadForCancel(h, j)
      PROVE  ProcessPublishes(h)'
  <2>1. GoTo(h, "findQueued") /\ UNCHANGED move /\ pc[h] = "idle"
    BY <1>2 DEF ReadForCancel
  <2>. QED  BY <1>0, <2>1, GoPublishes
<1>. QED  BY <1>1, <1>2, <1>3

LEMMA RecoverPublishes ==
    ASSUME PublishedInv, NEW w \in Workers, Recover(w)
    PROVE  ProcessPublishes(w)'
<1>0. TypeOK /\ w \in Processes /\ ProcessPublishes(w)
  BY DEF PublishedInv, Processes
<1>1. CASE ListClaimed(w)
  <2>1. GoTo(w, "recover") /\ UNCHANGED move /\ pc[w] = "start"
    BY <1>1 DEF ListClaimed
  <2>. QED  BY <1>0, <2>1, GoPublishes
<1>2. ASSUME NEW j \in Jobs, RecoverRead(w, j)
      PROVE  ProcessPublishes(w)'
  <2>1. ASSUME GoTo(w, "judge"), UNCHANGED move
        PROVE  ProcessPublishes(w)'
    BY <1>0, <1>2, <2>1, GoPublishes DEF RecoverRead
  <2>2. ASSUME MoveFrom(w, "claimed", "failed", "recover")
        PROVE  ProcessPublishes(w)'
    BY <1>0, <2>2, MovePublishes
  <2>. QED  BY <1>2, <2>1, <2>2 DEF RecoverRead
<1>3. CASE Judge(w)
  <2>1. job[w] \in Jobs
    BY <1>0, <1>3 DEF Judge, TypeOK
  <2>2. ASSUME MoveFrom(w, "claimed", DirectoryOf(run[job[w]]), "recover"),
               UNCHANGED <<job, todo, seen>>
        PROVE  ProcessPublishes(w)'
    <3>1. DirectoryOf(run[job[w]]) = "completed" => Published(job[w])'
      BY <1>0, <1>3, <2>1, <2>2, StatusNames DEF Judge, DirectoryOf, Published, TypeOK
    <3>. QED  BY <1>0, <2>2, <3>1, MovePublishes
  <2>3. ASSUME MoveFrom(w, "claimed", "queued", "reset")
        PROVE  ProcessPublishes(w)'
    BY <1>0, <2>3, MovePublishes
  <2>4. ASSUME Continue(w, "recover")
        PROVE  ProcessPublishes(w)'
    BY <1>0, <2>4, ReturnPublishes DEF Afterwards
  <2>. QED  BY <1>3, <2>2, <2>3, <2>4 DEF Judge
<1>4. CASE Reset(w)
  BY <1>0, <1>4, ReturnPublishes DEF Reset, Afterwards
<1>5. CASE EndRecovery(w)
  <2>1. GoTo(w, "idle") /\ UNCHANGED move /\ pc[w] = "recover"
    BY <1>5 DEF EndRecovery
  <2>. QED  BY <1>0, <2>1, GoPublishes
<1>. QED  BY <1>1, <1>2, <1>3, <1>4, <1>5 DEF Recover

LEMMA ClaimPublishes ==
    ASSUME PublishedInv, NEW w \in Workers, Claim(w)
    PROVE  ProcessPublishes(w)'
<1>0. TypeOK /\ w \in Processes /\ ProcessPublishes(w)
  BY DEF PublishedInv, Processes
<1>1. ASSUME NEW j \in Jobs, ListQueued(w, j)
      PROVE  ProcessPublishes(w)'
  <2>1. GoTo(w, "read") /\ UNCHANGED move /\ pc[w] = "idle"
    BY <1>1 DEF ListQueued
  <2>. QED  BY <1>0, <2>1, GoPublishes
<1>2. CASE ReadRecord(w)
  <2>1. PICK point \in {"rename", "gone"} : GoTo(w, point)
    BY <1>2 DEF ReadRecord
  <2>2. UNCHANGED move /\ pc[w] = "read"
    BY <1>2 DEF ReadRecord
  <2>. QED  BY <1>0, <2>1, <2>2, GoPublishes
<1>3. CASE Quarantine(w)
  <2>1. ASSUME MoveFrom(w, "queued", "failed", "idle")
        PROVE  ProcessPublishes(w)'
    BY <1>0, <2>1, MovePublishes
  <2>. QED  BY <1>0, <1>3, <2>1, ReturnPublishes DEF Quarantine
<1>4. CASE Rename(w)
  <2>1. ASSUME GoTo(w, "rewrite"), UNCHANGED <<job, move, todo, seen>>
        PROVE  ProcessPublishes(w)'
    BY <1>0, <1>4, <2>1, GoPublishes DEF Rename
  <2>. QED  BY <1>0, <1>4, <2>1, ReturnPublishes DEF Rename
<1>5. CASE Rewrite(w)
  <2>1. GoTo(w, "load") /\ UNCHANGED move /\ pc[w] = "rewrite"
    BY <1>5 DEF Rewrite
  <2>. QED  BY <1>0, <2>1, GoPublishes
<1>. QED  BY <1>1, <1>2, <1>3, <1>4, <1>5 DEF Claim

LEMMA SettlePublishes ==
    ASSUME TypeOK, NEW w \in Workers, ProcessPublishes(w), NEW status, Settle(w, status),
           pc[w] \in {"load", "begin", "work"}, UNCHANGED <<job, move>>,
           status \in {"succeeded", "partial"} => Published(job[w])'
    PROVE  ProcessPublishes(w)'
<1>1. w \in Processes
  BY DEF Processes
<1>2. PICK point \in {"complete", "findQueued", "fail"} :
         /\ GoTo(w, point)
         /\ point = "complete" => status \in {"succeeded", "partial"}
  BY DEF Settle
<1>. QED  BY <1>1, <1>2, GoPublishes

LEMMA ExecutePublishes ==
    ASSUME PublishedInv, NEW w \in Workers, Execute(w)
    PROVE  ProcessPublishes(w)'
<1>0. TypeOK /\ w \in Processes /\ ProcessPublishes(w)
  BY DEF PublishedInv, Processes
<1>1. job[w] \in Jobs /\ pc[w] \in {"load", "begin", "work"}
  BY <1>0 DEF Execute, Load, Begin, Work, TypeOK
<1>2. CASE Load(w)
  <2>1. UNCHANGED <<run, job, move>>
    BY <1>2 DEF Load
  <2>2. ASSUME Settle(w, run[job[w]])
        PROVE  ProcessPublishes(w)'
    BY <1>0, <1>1, <2>1, <2>2, SettlePublishes DEF Published
  <2>3. ASSUME NEW point \in {"begin", "work"}, GoTo(w, point)
        PROVE  ProcessPublishes(w)'
    BY <1>0, <1>1, <2>1, <2>3, GoPublishes
  <2>. QED  BY <1>2, <2>2, <2>3 DEF Load
<1>3. CASE Begin(w)
  <2>1. ASSUME Settle(w, "cancelled"), UNCHANGED <<job, move, todo, seen>>
        PROVE  ProcessPublishes(w)'
    BY <1>0, <1>1, <2>1, SettlePublishes
  <2>2. ASSUME GoTo(w, "work"), UNCHANGED <<job, move, todo, seen>>
        PROVE  ProcessPublishes(w)'
    BY <1>0, <1>1, <2>2, GoPublishes
  <2>. QED  BY <1>0, <1>3, <2>1, <2>2, ReturnPublishes DEF Begin
<1>4. CASE Work(w)
  <2>1. ASSUME NEW status, SetRun(job[w], status), Settle(w, status),
               UNCHANGED <<job, move, todo, seen>>
        PROVE  ProcessPublishes(w)'
    <3>1. run'[job'[w]] = status
      BY <1>0, <1>1, <2>1 DEF SetRun, TypeOK
    <3>. QED  BY <1>0, <1>1, <2>1, <3>1, SettlePublishes DEF Published
  <2>2. ASSUME Settle(w, run[job[w]]), UNCHANGED <<job, move, todo, seen>>, UNCHANGED run
        PROVE  ProcessPublishes(w)'
    BY <1>0, <1>1, <2>2, SettlePublishes DEF Published
  <2>. QED  BY <1>0, <1>4, <2>1, <2>2, ReturnPublishes DEF Work
<1>. QED  BY <1>2, <1>3, <1>4 DEF Execute

LEMMA TerminalMovePublishes ==
    ASSUME PublishedInv, NEW w \in Workers, TerminalMove(w)
    PROVE  ProcessPublishes(w)'
<1>0. TypeOK /\ w \in Processes /\ ProcessPublishes(w)
  BY DEF PublishedInv, Processes
<1>1. CASE Leave(w)
  BY <1>0, <1>1, ReturnPublishes
<1>2. CASE ~Leave(w)
  <2>1. /\ pc' = [pc EXCEPT ![w] = "replace"]
        /\ UNCHANGED <<run, job>>
        /\ move' = [move EXCEPT ![w] =
                       [from |-> "claimed", to |-> Filing(pc[w]), next |-> "idle"]]
    BY <1>2 DEF TerminalMove, GoTo
  <2>2. pc'[w] = "replace" /\ move'[w].to = Filing(pc[w]) /\ job'[w] = job[w]
    BY <1>0, <2>1 DEF TypeOK
  <2>3. Filing(pc[w]) = "completed" => Published(job[w])
    BY <1>0 DEF Filing, ProcessPublishes
  <2>4. Published(job[w]) => Published(job[w])'
    BY <2>1, <2>2 DEF Published
  <2>. QED  BY <2>2, <2>3, <2>4 DEF ProcessPublishes
<1>. QED  BY <1>1, <1>2

(***************************************************************************)
(* A step is of one process: the others keep their place.                  *)
(***************************************************************************)

Keeps(q) == UNCHANGED <<pc[q], job[q], move[q]>>

LEMMA MoveOrCancelFrame ==
    ASSUME TypeOK, NEW p \in Processes, MoveStep(p) \/ CancelStep(p),
           NEW q \in Processes, q # p
    PROVE  Keeps(q)
BY DEF TypeOK, Keeps, MoveStep, CheckDestination, Unlink, Replace, Raise, Restart, Leave,
       Continue, GoTo, CancelStep, FindQueued, FindClaimed, MoveFrom

LEMMA WorkerFrame ==
    ASSUME TypeOK, NEW w \in Workers, WorkerStep(w) \/ Crash(w), NEW q \in Processes, q # w
    PROVE  Keeps(q)
<1>0. w \in Processes
  BY DEF Processes
<1>1. CASE Recover(w)
  BY <1>0, <1>1
     DEF TypeOK, Keeps, Recover, ListClaimed, RecoverRead, Judge, Reset, EndRecovery,
         Continue, GoTo, MoveFrom
<1>2. CASE Claim(w)
  BY <1>0, <1>2
     DEF TypeOK, Keeps, Claim, ListQueued, ReadRecord, Quarantine, Rename, Rewrite,
         Leave, GoTo, MoveFrom
<1>3. CASE Execute(w)
  BY <1>0, <1>3 DEF TypeOK, Keeps, Execute, Load, Begin, Work, Settle, GoTo, Restart
<1>4. CASE TerminalMove(w)
  BY <1>0, <1>4 DEF TypeOK, Keeps, TerminalMove, Leave, GoTo
<1>5. CASE Crash(w)
  BY <1>0, <1>5 DEF TypeOK, Keeps, Crash, Restart, GoTo
<1>. QED  BY <1>0, <1>1, <1>2, <1>3, <1>4, <1>5, MoveOrCancelFrame DEF WorkerStep

LEMMA HandlerFrame ==
    ASSUME TypeOK, NEW h \in Handlers, NEW q \in Processes, q # h,
           HandlerStep(h) \/ Interrupt(h) \/ \E j \in Jobs : ReadForCancel(h, j)
    PROVE  Keeps(q)
<1>0. h \in Processes
  BY DEF Processes
<1>1. CASE SaveCancel(h)
  BY <1>0, <1>1 DEF TypeOK, Keeps, SaveCancel, Leave, GoTo
<1>3. CASE Interrupt(h)
  BY <1>0, <1>3 DEF TypeOK, Keeps, Interrupt, Leave, GoTo
<1>2. ASSUME NEW j \in Jobs, ReadForCancel(h, j)
      PROVE  Keeps(q)
  BY <1>0, <1>2 DEF TypeOK, Keeps, ReadForCancel, GoTo
<1>. QED  BY <1>0, <1>1, <1>2, <1>3, MoveOrCancelFrame DEF HandlerStep

LEMMA ProcessPublishesStep ==
    ASSUME PublishedInv, [Next]_vars, NEW q \in Processes
    PROVE  ProcessPublishes(q)'
<1>0. TypeOK /\ ProcessPublishes(q)
  BY DEF PublishedInv
<1>1. ASSUME Keeps(q)
      PROVE  ProcessPublishes(q)'
  <2>1. move[q].to = "completed" \/ pc[q] = "complete" => job[q] \in Jobs /\ Published(job[q])
    BY <1>0 DEF TypeOK, ProcessPublishes
  <2>2. move[q].to = "completed" \/ pc[q] = "complete" => Published(job[q])'
    BY <1>1, <2>1, PublishedStable DEF Keeps, Published
  <2>. QED  BY <1>0, <1>1, <2>2 DEF Keeps, ProcessPublishes
<1>2. ASSUME NEW p \in Processes, p # q \/ ProcessPublishes(p)', p # q => Keeps(q)
      PROVE  ProcessPublishes(q)'
  BY <1>1, <1>2
<1>3. ASSUME NEW j \in Jobs, Submit(j) \/ RequestCancellation(j) \/ Timeout(j)
      PROVE  Keeps(q)
  BY <1>3 DEF Keeps, Submit, Create, Enqueue, RejectSubmission, RequestCancellation, Timeout,
             processVars
<1>4. ASSUME NEW h \in Handlers, HandlerStep(h) \/ Interrupt(h) \/ \E j \in Jobs : ReadForCancel(h, j)
      PROVE  ProcessPublishes(q)'
  <2>1. h = q => ProcessPublishes(q)'
    BY <1>4, MoveStepPublishes, CancelStepPublishes, HandlerPublishes DEF HandlerStep
  <2>2. h # q => Keeps(q)
    BY <1>0, <1>4, HandlerFrame
  <2>. QED  BY <1>1, <2>1, <2>2
<1>5. ASSUME NEW w \in Workers, WorkerStep(w) \/ Crash(w)
      PROVE  ProcessPublishes(q)'
  <2>1. ASSUME w = q
        PROVE  ProcessPublishes(q)'
    <3>1. CASE Crash(w)
      BY <1>0, <2>1, <3>1, ReturnPublishes DEF Crash
    <3>. QED  BY <1>5, <2>1, <3>1, RecoverPublishes, ClaimPublishes, ExecutePublishes,
                 TerminalMovePublishes, MoveStepPublishes, CancelStepPublishes DEF WorkerStep
  <2>2. w # q => Keeps(q)
    BY <1>0, <1>5, WorkerFrame
  <2>. QED  BY <1>1, <2>1, <2>2
<1>6. ASSUME UNCHANGED vars
      PROVE  Keeps(q)
  BY <1>6 DEF vars, processVars, Keeps
<1>. QED  BY <1>1, <1>3, <1>4, <1>5, <1>6 DEF Next

\* Only a replace writes to completed, and it writes the record of its job.
LEMMA CompletedStep ==
    ASSUME PublishedInv, [Next]_vars, NEW j \in Jobs, Exists("completed", j)'
    PROVE  Published(j)'
<1>0. /\ TypeOK
      /\ \A p \in Processes : ProcessPublishes(p)
      /\ Exists("completed", j) => Published(j)
  BY DEF PublishedInv, CompletedIsPublished, Published
<1>1. CASE Exists("completed", j)
  BY <1>0, <1>1, PublishedStable
<1>2. ASSUME ~Exists("completed", j), NEW p \in Processes, Replace(p)
      PROVE  Published(j)'
  <2>1. job[p] = j /\ move[p].to = "completed"
    BY <1>0, <1>2 DEF Replace, TypeOK, Exists, Move, Directories
  <2>2. Published(j)
    BY <1>0, <2>1 DEF ProcessPublishes
  <2>. QED  BY <2>2, PublishedStable
<1>3. ASSUME UNCHANGED record
      PROVE  Exists("completed", j)
  BY <1>3 DEF Exists
<1>4. ASSUME NEW p \in Processes, CheckDestination(p) \/ Unlink(p) \/ CancelStep(p)
      PROVE  Exists("completed", j)
  BY <1>0, <1>4
     DEF CheckDestination, Unlink, CancelStep, FindQueued, FindClaimed, Exists, TypeOK, Directories
<1>5. ASSUME NEW w \in Workers, Recover(w) \/ Claim(w) \/ Execute(w) \/ TerminalMove(w) \/ Crash(w)
      PROVE  Exists("completed", j)
  BY <1>0, <1>5
     DEF Recover, ListClaimed, RecoverRead, Judge, Reset, EndRecovery,
         Claim, ListQueued, ReadRecord, Quarantine, Rename, Rewrite,
         Execute, Load, Begin, Work, TerminalMove, Crash, Exists, TypeOK, Directories
<1>6. ASSUME NEW k \in Jobs, Submit(k) \/ RequestCancellation(k) \/ Timeout(k)
      PROVE  Exists("completed", j)
  BY <1>0, <1>6
     DEF Submit, Create, Enqueue, RejectSubmission, RequestCancellation, Timeout,
         Exists, TypeOK, Directories
<1>7. ASSUME NEW h \in Handlers, SaveCancel(h) \/ Interrupt(h) \/ \E k \in Jobs : ReadForCancel(h, k)
      PROVE  Exists("completed", j)
  BY <1>3, <1>7 DEF SaveCancel, Interrupt, ReadForCancel
<1>8. ASSUME UNCHANGED vars
      PROVE  Exists("completed", j)
  BY <1>3, <1>8 DEF vars
<1>. QED  BY <1>1, <1>2, <1>4, <1>5, <1>6, <1>7, <1>8
             DEF Next, HandlerStep, WorkerStep, MoveStep, Processes

\* A job nobody submitted stays untouched.
LEMMA UnknownStep ==
    ASSUME TypeOK, UnknownIsUntouched, [Next]_vars
    PROVE  UnknownIsUntouched'
<1>. SUFFICES ASSUME NEW j \in Jobs, submission'[j] = "none"
              PROVE  Untouched(j)'
  BY DEF UnknownIsUntouched
<1>. USE DEF Untouched
<1>1. ASSUME NEW k \in Jobs, Submit(k) \/ RequestCancellation(k) \/ Timeout(k)
      PROVE  Untouched(j)'
  <2>1. CASE Create(k)
    BY <2>1 DEF UnknownIsUntouched, Create, SetRun, TypeOK, processVars
  <2>2. CASE Enqueue(k)
    BY <2>2 DEF UnknownIsUntouched, Enqueue, TypeOK, processVars, Directories
  <2>3. CASE RejectSubmission(k)
    BY <2>3 DEF UnknownIsUntouched, RejectSubmission, SetRun, TypeOK, processVars
  <2>4. CASE RequestCancellation(k)
    BY <2>4 DEF UnknownIsUntouched, RequestCancellation, processVars
  <2>5. CASE Timeout(k)
    BY <2>5 DEF UnknownIsUntouched, Timeout, TypeOK, processVars, Directories
  <2>. QED  BY <1>1, <2>1, <2>2, <2>3, <2>4, <2>5 DEF Submit
<1>2. ASSUME UNCHANGED submission
      PROVE  Untouched(j)
  BY <1>2 DEF UnknownIsUntouched
<1>3. ASSUME NEW p \in Processes, MoveStep(p) \/ CancelStep(p)
      PROVE  Untouched(j)'
  <2>1. Untouched(j)
    BY <1>2, <1>3 DEF MoveStep, CheckDestination, Unlink, Replace, CancelStep, FindQueued, FindClaimed
  <2>2. job[p] \in Jobs /\ job[p] # j /\ NoJob # j /\ UNCHANGED run
    BY <1>3, <2>1, QueueAssumption
       DEF MoveStep, CheckDestination, Unlink, Replace, CancelStep, FindQueued, FindClaimed, TypeOK
  <2>3. \A d \in Directories : record'[d][j] = "none"
    BY <1>3, <2>1, <2>2
       DEF MoveStep, CheckDestination, Unlink, Replace, CancelStep, FindQueued, FindClaimed, TypeOK, Directories
  <2>4. \A q \in Processes : job'[q] # j
    BY <1>3, <2>1, <2>2
       DEF MoveStep, CheckDestination, Unlink, Replace, CancelStep, FindQueued, FindClaimed, TypeOK,
           MoveFrom, Continue, Raise, Restart, Leave
  <2>5. \A w \in Workers : j \notin todo'[w]
    BY <1>3, <2>1
       DEF MoveStep, CheckDestination, Unlink, Replace, CancelStep, FindQueued, FindClaimed, TypeOK,
           MoveFrom, Continue, Raise, Restart, Leave
  <2>. QED  BY <2>1, <2>2, <2>3, <2>4, <2>5
<1>4. ASSUME NEW w \in Workers, Recover(w)
      PROVE  Untouched(j)'
  BY <1>2, <1>4, QueueAssumption
     DEF Recover, ListClaimed, RecoverRead, Judge, Reset, EndRecovery, MoveFrom, Continue, GoTo,
         TypeOK, Directories, Exists, Processes
<1>5. ASSUME NEW w \in Workers, Claim(w)
      PROVE  Untouched(j)'
  BY <1>2, <1>5, QueueAssumption
     DEF Claim, ListQueued, ReadRecord, Quarantine, Rename, Rewrite, MoveFrom, Leave, GoTo,
         TypeOK, Directories, Exists, Processes
<1>6. ASSUME NEW w \in Workers, Execute(w)
      PROVE  Untouched(j)'
  <2>1. w \in Processes /\ Untouched(j) /\ job[w] # j /\ NoJob # j
    BY <1>2, <1>6, QueueAssumption DEF Execute, Load, Begin, Work, Processes
  <2>2. UNCHANGED <<record, todo>> \/ (Restart(w) /\ UNCHANGED record)
    BY <1>6 DEF Execute, Load, Begin, Work
  <2>3. run'[j] = "absent"
    BY <1>6, <2>1 DEF Execute, Load, Begin, Work, SetRun, TypeOK
  <2>4. UNCHANGED job \/ job' = [job EXCEPT ![w] = NoJob]
    BY <1>6 DEF Execute, Load, Begin, Work, Restart
  <2>. QED  BY <2>1, <2>2, <2>3, <2>4 DEF Restart, TypeOK
<1>7. ASSUME NEW w \in Workers, TerminalMove(w) \/ Crash(w)
      PROVE  Untouched(j)'
  BY <1>2, <1>7, QueueAssumption DEF TerminalMove, Crash, Leave, Restart, TypeOK, Processes
<1>8. ASSUME NEW h \in Handlers, SaveCancel(h) \/ Interrupt(h) \/ \E k \in Jobs : ReadForCancel(h, k)
      PROVE  Untouched(j)'
  <2>0. h \in Processes
    BY DEF Processes
  <2>1. CASE SaveCancel(h)
    BY <1>2, <2>0, <2>1, QueueAssumption DEF SaveCancel, Leave, SetRun, TypeOK
  <2>2. ASSUME NEW k \in Jobs, ReadForCancel(h, k)
        PROVE  Untouched(j)'
    BY <1>2, <2>0, <2>2 DEF ReadForCancel, TypeOK
  <2>3. CASE Interrupt(h)
    BY <1>2, <2>0, <2>3, QueueAssumption DEF Interrupt, Leave, TypeOK
  <2>. QED  BY <1>8, <2>1, <2>2, <2>3
<1>9. ASSUME UNCHANGED vars
      PROVE  Untouched(j)'
  BY <1>2, <1>9 DEF vars, processVars
<1>. QED  BY <1>1, <1>3, <1>4, <1>5, <1>6, <1>7, <1>8, <1>9
             DEF Next, HandlerStep, WorkerStep, Processes

LEMMA PublishedInvHolds == Spec => []PublishedInv
<1>1. Init => PublishedInv
  BY InitType, QueueAssumption
     DEF Init, PublishedInv, TypeOK, CompletedIsPublished, ProcessPublishes, UnknownIsUntouched,
         Untouched, Exists, Directories, NoMove, Processes
<1>2. PublishedInv /\ [Next]_vars => PublishedInv'
  BY StepType, CompletedStep, ProcessPublishesStep, UnknownStep
     DEF PublishedInv, CompletedIsPublished, Published
<1>. QED  BY <1>1, <1>2, PTL DEF Spec

\* Whatever the workers, API threads, crashes and timeouts do, a record in
\* completed is that of a run that succeeded or completed in part.
THEOREM CompletedCorrect == Spec => []CompletedIsPublished
BY PublishedInvHolds, PTL DEF PublishedInv

(***************************************************************************)
(* What FilesystemQueue promises while no claim times out, for any number  *)
(* of workers, API threads, jobs and crashes: a job is in the hands of one *)
(* worker, and an accepted job is not dropped unless by a cancellation cut *)
(* off between its two steps.                                              *)
(*                                                                         *)
(* Both rest on the same fact: without a requeue nothing writes to the     *)
(* directory queued again once the rename of a claim has emptied it.  So   *)
(* one rename per job succeeds, and whoever moves the claimed record away  *)
(* afterwards does so for a run that has ended, or moves it to cancelled,  *)
(* which no record leaves, and saves the run or is cut off before it does. *)
(***************************************************************************)

Moving(p) == pc[p] \in {"check", "unlink", "replace"}

\* The record of j was enqueued and has left the directory queued.
Left(j) == submission[j] = "accepted" /\ ~ Exists("queued", j)

\* The run of j has ended, or a request took it out of the queue to end it.
Settling(j) == Terminal(j) \/ CancelBegun(j)

\* A process that moves a record cancels its run, or knows that it is settled.
MoverKept(p) ==
    Moving(p) =>
        /\ move[p].from \in {"queued", "claimed"}
        /\ move[p].to \notin {"queued", "claimed"}
        /\ move[p].next # "reset"
        /\ \/ /\ p \in Handlers /\ move[p].next = "saveCancel" /\ move[p].to = "cancelled"
              /\ pc[p] = "unlink" => Exists("cancelled", job[p])
           \/ Settling(job[p])

\* What a worker knows of the jobs it has listed, claimed or is settling.
WorkerKept(w) ==
    /\ pc[w] # "reset" /\ seen[w] # "old"
    /\ \A j \in todo[w] : Left(j)
    /\ pc[w] \in {"read", "rename"} => submission[job[w]] = "accepted"
    /\ pc[w] \in Executing \union {"gone"} => Left(job[w])
    /\ pc[w] \in {"complete", "fail", "findQueued", "findClaimed"} => Terminal(job[w])

\* Where the record of j can be.
RecordKept(j) ==
    /\ \A d \in Directories : record[d][j] # "old"
    /\ Exists("queued", j) => submission[j] = "accepted"
    /\ Exists("claimed", j) => Left(j)
    /\ submission[j] = "accepted" => Exists("queued", j) \/ Exists("claimed", j) \/ Settling(j)

Alone(j) == \A v, w \in Workers : InHand(v, j) /\ InHand(w, j) => v = w

KeptInv ==
    /\ PublishedInv
    /\ \A j \in Jobs : submission[j] # "none" => run[j] # "absent"
    /\ timeouts = 0 =>
           /\ \A p \in Processes : MoverKept(p)
           /\ \A w \in Workers : WorkerKept(w)
           /\ \A j \in Jobs : RecordKept(j) /\ Alone(j)

\* A step taken while no claim has timed out.
Untimed == KeptInv /\ [Next]_vars /\ timeouts = 0 /\ timeouts' = 0

(***************************************************************************)
(* What one step changes                                                   *)
(***************************************************************************)

LEMMA RunFrame ==
    ASSUME [Next]_vars
    PROVE  \/ UNCHANGED run
           \/ \E j \in Jobs : Create(j) \/ RejectSubmission(j)
           \/ \E h \in Handlers : SaveCancel(h)
           \/ \E w \in Workers : Begin(w) \/ Work(w)
<1>1. ASSUME NEW p \in Processes, MoveStep(p) \/ CancelStep(p)
      PROVE  UNCHANGED run
  BY <1>1 DEF MoveStep, CheckDestination, Unlink, Replace, CancelStep, FindQueued, FindClaimed
<1>2. ASSUME NEW w \in Workers, WorkerStep(w) \/ Crash(w), ~Begin(w), ~Work(w)
      PROVE  UNCHANGED run
  BY <1>1, <1>2
     DEF WorkerStep, Crash, Processes, TerminalMove, Execute, Load,
         Claim, ListQueued, ReadRecord, Quarantine, Rename, Rewrite,
         Recover, ListClaimed, RecoverRead, Judge, Reset, EndRecovery
<1>3. ASSUME NEW h \in Handlers, ~SaveCancel(h),
             HandlerStep(h) \/ Interrupt(h) \/ \E j \in Jobs : ReadForCancel(h, j)
      PROVE  UNCHANGED run
  BY <1>1, <1>3 DEF HandlerStep, Interrupt, ReadForCancel, Processes
<1>4. ASSUME NEW j \in Jobs, ~Create(j), ~RejectSubmission(j),
             Submit(j) \/ RequestCancellation(j) \/ Timeout(j)
      PROVE  UNCHANGED run
  BY <1>4 DEF Submit, Enqueue, RequestCancellation, Timeout
<1>5. ASSUME UNCHANGED vars
      PROVE  UNCHANGED run
  BY <1>5 DEF vars
<1>. QED  BY <1>2, <1>3, <1>4, <1>5 DEF Next

\* A run is created once, and only a run that has not ended gets a new status.
LEMMA RunStep ==
    ASSUME TypeOK, [Next]_vars, NEW k \in Jobs
    PROVE  \/ run'[k] = run[k]
           \/ submission[k] = "none" /\ run'[k] = "queued"
           \/ ~Terminal(k) /\ run'[k] \in Contract!RunStatus
<1> DEFINE Kept == run'[k] = run[k]
           Saved == ~Terminal(k) /\ run'[k] \in Contract!RunStatus
<1>1. ASSUME NEW j \in Jobs, NEW status \in Contract!RunStatus, SetRun(j, status),
             SaveAllowed(j, status) \/ ~Terminal(j)
      PROVE  Kept \/ Saved
  BY <1>1, StatusNames DEF SetRun, SaveAllowed, Terminal, TypeOK, Contract!AllowedTransitions
<1>2. ASSUME NEW j \in Jobs, Create(j) \/ RejectSubmission(j)
      PROVE  Kept \/ Saved \/ (submission[k] = "none" /\ run'[k] = "queued")
  <2>1. CASE Create(j)
    BY <2>1 DEF Create, SetRun, TypeOK
  <2>2. CASE RejectSubmission(j)
    BY <1>1, <2>2, StatusNames DEF RejectSubmission
  <2>. QED  BY <1>2, <2>1, <2>2
<1>3. ASSUME NEW h \in Handlers, SaveCancel(h)
      PROVE  Kept \/ Saved
  <2>1. job[h] \in Jobs
    BY <1>3 DEF SaveCancel, TypeOK, Processes
  <2>. QED  BY <1>1, <1>3, <2>1, StatusNames DEF SaveCancel
<1>4. ASSUME NEW w \in Workers, Begin(w) \/ Work(w)
      PROVE  Kept \/ Saved
  <2>1. job[w] \in Jobs
    BY <1>4 DEF Begin, Work, TypeOK, Processes
  <2>2. CASE Begin(w)
    BY <1>1, <2>1, <2>2, StatusNames DEF Begin
  <2>3. CASE Work(w)
    BY <1>1, <2>1, <2>3, StatusNames DEF Work
  <2>. QED  BY <1>4, <2>2, <2>3
<1>. QED  BY <1>2, <1>3, <1>4, RunFrame

LEMMA TerminalStable ==
    ASSUME PublishedInv, [Next]_vars, NEW k \in Jobs, Terminal(k)
    PROVE  Terminal(k)'
<1>1. submission[k] # "none"
  BY StatusNames DEF PublishedInv, UnknownIsUntouched, Untouched, Terminal
<1>2. TypeOK
  BY DEF PublishedInv
<1>. QED  BY <1>1, <1>2, RunStep DEF Terminal

\* Submissions are touched by their API call alone.
LEMMA SubmissionStep ==
    ASSUME TypeOK, [Next]_vars, NEW j \in Jobs
    PROVE  submission'[j] = submission[j] \/ Submit(j)
<1>1. ASSUME NEW k \in Jobs, Submit(k), k # j
      PROVE  submission'[j] = submission[j]
  BY <1>1 DEF Submit, Create, Enqueue, RejectSubmission, TypeOK
<1>2. ASSUME NEW k \in Jobs, RequestCancellation(k) \/ Timeout(k)
      PROVE  UNCHANGED submission
  BY <1>2 DEF RequestCancellation, Timeout
<1>3. ASSUME NEW h \in Handlers, HandlerStep(h) \/ Interrupt(h) \/ \E k \in Jobs : ReadForCancel(h, k)
      PROVE  UNCHANGED submission
  BY <1>3 DEF HandlerStep, Interrupt, ReadForCancel, SaveCancel, MoveStep, CheckDestination, Unlink,
              Replace, CancelStep, FindQueued, FindClaimed
<1>4. ASSUME NEW w \in Workers, WorkerStep(w) \/ Crash(w)
      PROVE  UNCHANGED submission
  BY <1>4 DEF WorkerStep, Crash, TerminalMove, Execute, Load, Begin, Work,
              Claim, ListQueued, ReadRecord, Quarantine, Rename, Rewrite,
              Recover, ListClaimed, RecoverRead, Judge, Reset, EndRecovery,
              MoveStep, CheckDestination, Unlink, Replace, CancelStep, FindQueued, FindClaimed
<1>5. ASSUME UNCHANGED vars
      PROVE  UNCHANGED submission
  BY <1>5 DEF vars
<1>. QED  BY <1>1, <1>2, <1>3, <1>4, <1>5 DEF Next

LEMMA AcceptedStable ==
    ASSUME TypeOK, [Next]_vars, NEW j \in Jobs, submission[j] = "accepted"
    PROVE  submission'[j] = "accepted"
BY SubmissionStep DEF Submit, Create, Enqueue, RejectSubmission

\* The files that change while no claim times out.
LEMMA RecordFrame ==
    ASSUME Untimed
    PROVE  \/ UNCHANGED record
           \/ \E j \in Jobs : Enqueue(j)
           \/ \E p \in Processes : Unlink(p) \/ Replace(p)
           \/ \E w \in Workers : Rename(w) \/ Rewrite(w)
<1>. USE DEF Untimed
<1>1. ASSUME NEW p \in Processes, MoveStep(p) \/ CancelStep(p), ~Unlink(p), ~Replace(p)
      PROVE  UNCHANGED record
  BY <1>1 DEF MoveStep, CheckDestination, CancelStep, FindQueued, FindClaimed
<1>2. ASSUME NEW w \in Workers, Reset(w)
      PROVE  FALSE
  BY <1>2 DEF Reset, KeptInv, WorkerKept
<1>3. ASSUME NEW w \in Workers, WorkerStep(w) \/ Crash(w), ~Unlink(w), ~Replace(w),
             ~Rename(w), ~Rewrite(w)
      PROVE  UNCHANGED record
  BY <1>1, <1>2, <1>3
     DEF WorkerStep, Crash, Processes, TerminalMove, Execute, Load, Begin, Work,
         Claim, ListQueued, ReadRecord, Quarantine,
         Recover, ListClaimed, RecoverRead, Judge, EndRecovery
<1>4. ASSUME NEW h \in Handlers, ~Unlink(h), ~Replace(h),
             HandlerStep(h) \/ Interrupt(h) \/ \E j \in Jobs : ReadForCancel(h, j)
      PROVE  UNCHANGED record
  BY <1>1, <1>4 DEF HandlerStep, Interrupt, ReadForCancel, SaveCancel, Processes
<1>5. ASSUME NEW j \in Jobs, ~Enqueue(j), Submit(j) \/ RequestCancellation(j) \/ Timeout(j)
      PROVE  UNCHANGED record
  BY <1>5 DEF Submit, Create, RejectSubmission, RequestCancellation, Timeout, KeptInv,
              PublishedInv, TypeOK
<1>6. ASSUME UNCHANGED vars
      PROVE  UNCHANGED record
  BY <1>6 DEF vars
<1>. QED  BY <1>3, <1>4, <1>5, <1>6 DEF Next, Processes

\* A record appears under queued once, when it is enqueued.
LEMMA QueuedStep ==
    ASSUME Untimed, NEW j \in Jobs, Exists("queued", j)', ~Exists("queued", j)
    PROVE  Enqueue(j)
<1>. USE DEF Untimed, Exists
<1>0. TypeOK
  BY DEF KeptInv, PublishedInv
<1>1. ASSUME NEW k \in Jobs, Enqueue(k)
      PROVE  k = j
  BY <1>0, <1>1 DEF Enqueue, TypeOK, Directories
<1>2. ASSUME NEW p \in Processes, Unlink(p) \/ Replace(p)
      PROVE  FALSE
  <2>1. Moving(p) /\ job[p] \in Jobs /\ move[p].from \in Directories
        /\ move[p].to \in Directories \ {"queued"}
    BY <1>0, <1>2 DEF Unlink, Replace, Moving, KeptInv, MoverKept, TypeOK, Move
  <2>. QED  BY <1>0, <1>2, <2>1 DEF Unlink, Replace, TypeOK, Directories
<1>3. ASSUME NEW w \in Workers, Rename(w) \/ Rewrite(w)
      PROVE  FALSE
  BY <1>0, <1>3 DEF Rename, Rewrite, TypeOK, Directories, Processes
<1>. QED  BY <1>1, <1>2, <1>3, RecordFrame

LEMMA LeftStable ==
    ASSUME Untimed, NEW j \in Jobs, Left(j)
    PROVE  Left(j)'
<1>1. submission'[j] = "accepted"
  BY AcceptedStable DEF Left, Untimed, KeptInv, PublishedInv
<1>2. ~Exists("queued", j)'
  BY QueuedStep DEF Left, Enqueue
<1>. QED  BY <1>1, <1>2 DEF Left

\* A process no step of which is taken.
Same(q) == Keeps(q) /\ (q \in Workers => todo'[q] = todo[q] /\ seen'[q] = seen[q])

LEMMA WorkerSame ==
    ASSUME TypeOK, NEW w \in Workers, WorkerStep(w) \/ Crash(w), NEW q \in Processes, q # w
    PROVE  Same(q)
<1>0. Keeps(q)
  BY WorkerFrame
<1>1. ASSUME q \in Workers
      PROVE  todo'[q] = todo[q] /\ seen'[q] = seen[q]
  BY <1>1
     DEF TypeOK, WorkerStep, Crash, Recover, ListClaimed, RecoverRead, Judge, Reset, EndRecovery,
         Claim, ListQueued, ReadRecord, Quarantine, Rename, Rewrite, Execute, Load, Begin, Work,
         TerminalMove, CancelStep, FindQueued, FindClaimed, MoveStep, CheckDestination, Unlink,
         Replace, Continue, Leave, Restart, Raise
<1>. QED  BY <1>0, <1>1 DEF Same

LEMMA HandlerSame ==
    ASSUME TypeOK, NEW h \in Handlers, NEW q \in Processes, q # h,
           HandlerStep(h) \/ Interrupt(h) \/ \E j \in Jobs : ReadForCancel(h, j)
    PROVE  Same(q)
<1>0. Keeps(q) /\ h \notin Workers
  BY HandlerFrame, QueueAssumption
<1>1. UNCHANGED <<todo, seen>>
  BY <1>0
     DEF HandlerStep, Interrupt, ReadForCancel, SaveCancel, CancelStep, FindQueued,
         FindClaimed, MoveFrom, MoveStep, CheckDestination, Unlink, Replace, Continue, Leave, Raise
<1>. QED  BY <1>0, <1>1 DEF Same

\* A step is one of the process q, or q is not touched.
LEMMA OneProcess ==
    ASSUME TypeOK, [Next]_vars, NEW q \in Processes
    PROVE  \/ Same(q)
           \/ q \in Workers /\ (WorkerStep(q) \/ Crash(q))
           \/ q \in Handlers /\ (HandlerStep(q) \/ Interrupt(q) \/ \E j \in Jobs : ReadForCancel(q, j))
<1>1. ASSUME NEW j \in Jobs, Submit(j) \/ RequestCancellation(j) \/ Timeout(j)
      PROVE  Same(q)
  BY <1>1 DEF Same, Keeps, Submit, Create, Enqueue, RejectSubmission, RequestCancellation,
             Timeout, processVars
<1>2. ASSUME UNCHANGED vars
      PROVE  Same(q)
  BY <1>2 DEF vars, processVars, Same, Keeps
<1>. QED  BY <1>1, <1>2, WorkerSame, HandlerSame DEF Next

\* No move takes a record out of cancelled.
LEMMA CancelledStable ==
    ASSUME Untimed, NEW j \in Jobs, Exists("cancelled", j)
    PROVE  Exists("cancelled", j)'
<1>. USE DEF Untimed, Exists
<1>0. TypeOK
  BY DEF KeptInv, PublishedInv
<1>1. ASSUME NEW k \in Jobs, Enqueue(k)
      PROVE  Exists("cancelled", j)'
  BY <1>0, <1>1 DEF Enqueue, TypeOK, Directories
<1>2. ASSUME NEW p \in Processes, Unlink(p) \/ Replace(p)
      PROVE  Exists("cancelled", j)'
  <2>1. /\ Moving(p) /\ job[p] \in Jobs /\ move[p].from \in {"queued", "claimed"}
        /\ move[p].to \in Directories
    BY <1>0, <1>2 DEF Unlink, Replace, Moving, KeptInv, MoverKept, TypeOK, Move
  <2>2. CASE Unlink(p)
    BY <1>0, <2>1, <2>2 DEF Unlink, TypeOK, Directories
  <2>3. CASE Replace(p)
    BY <1>0, <2>1, <2>3 DEF Replace, TypeOK, Directories
  <2>. QED  BY <1>2, <2>2, <2>3
<1>3. ASSUME NEW w \in Workers, Rename(w) \/ Rewrite(w)
      PROVE  Exists("cancelled", j)'
  BY <1>0, <1>3 DEF Rename, Rewrite, TypeOK, Directories, Processes
<1>. QED  BY <1>1, <1>2, <1>3, RecordFrame

\* An interruption is remembered.
LEMMA InterruptedStable ==
    ASSUME [Next]_vars
    PROVE  interrupted \subseteq interrupted'
<1>1. ASSUME NEW p \in Processes, MoveStep(p) \/ CancelStep(p)
      PROVE  interrupted' = interrupted
  BY <1>1 DEF MoveStep, CheckDestination, Unlink, Replace, CancelStep, FindQueued, FindClaimed,
              environmentVars
<1>2. ASSUME NEW w \in Workers, WorkerStep(w) \/ Crash(w)
      PROVE  interrupted' = interrupted
  BY <1>1, <1>2
     DEF WorkerStep, Crash, Processes, TerminalMove, Execute, Load, Begin, Work,
         Claim, ListQueued, ReadRecord, Quarantine, Rename, Rewrite,
         Recover, ListClaimed, RecoverRead, Judge, Reset, EndRecovery, environmentVars
<1>3. ASSUME NEW h \in Handlers,
             HandlerStep(h) \/ Interrupt(h) \/ \E j \in Jobs : ReadForCancel(h, j)
      PROVE  interrupted \subseteq interrupted'
  BY <1>1, <1>3
     DEF HandlerStep, Interrupt, SaveCancel, ReadForCancel, Processes, environmentVars
<1>4. ASSUME NEW j \in Jobs, Submit(j) \/ RequestCancellation(j) \/ Timeout(j)
      PROVE  interrupted' = interrupted
  BY <1>4 DEF Submit, Create, Enqueue, RejectSubmission, RequestCancellation, Timeout,
              environmentVars
<1>5. UNCHANGED vars => interrupted' = interrupted
  BY DEF vars, environmentVars
<1>. QED  BY <1>2, <1>3, <1>4, <1>5 DEF Next

\* A request that took a record to cancel its run ends the run, or ends itself
\* and is remembered.
LEMMA CancelEnds ==
    ASSUME KeptInv, [Next]_vars, NEW j \in Jobs,
           NEW h \in Handlers, pc[h] = "saveCancel", job[h] = j
    PROVE  \/ Terminal(j)'
           \/ pc'[h] = "saveCancel" /\ job'[h] = j
           \/ j \in interrupted'
<1>0. PublishedInv /\ TypeOK /\ h \in Processes /\ h \notin Workers
  BY QueueAssumption DEF KeptInv, PublishedInv, Processes
<1>1. CASE Terminal(j)
  BY <1>0, <1>1, TerminalStable
<1>2. CASE Same(h)
  BY <1>2 DEF Same, Keeps
<1>3. CASE Interrupt(h)
  BY <1>3 DEF Interrupt
<1>4. CASE SaveCancel(h) /\ ~Terminal(j)
  <2>1. submission[j] # "none"
    BY <1>0 DEF PublishedInv, UnknownIsUntouched, Untouched
  <2>2. run[j] \in {"queued", "running"}
    BY <1>0, <1>4, <2>1, StatusNames DEF KeptInv, TypeOK, Terminal
  <2>3. SaveAllowed(j, "cancelled")
    BY <2>2 DEF SaveAllowed, Contract!AllowedTransitions
  <2>4. SetRun(j, "cancelled") \/ j \in interrupted'
    BY <1>4, <2>3 DEF SaveCancel
  <2>. QED  BY <1>0, <2>4, StatusNames DEF SetRun, TypeOK, Terminal
<1>5. HandlerStep(h) \/ (\E k \in Jobs : ReadForCancel(h, k)) => SaveCancel(h)
  BY DEF HandlerStep, ReadForCancel, MoveStep, CheckDestination, Unlink, Replace,
         CancelStep, FindQueued, FindClaimed
<1>. QED  BY <1>0, <1>1, <1>2, <1>3, <1>4, <1>5, OneProcess

\* A settled job stays so.
LEMMA SettlingStable ==
    ASSUME Untimed, NEW j \in Jobs, Settling(j)
    PROVE  Settling(j)'
<1>0. PublishedInv /\ KeptInv /\ [Next]_vars
  BY DEF Untimed, KeptInv
<1>1. CASE Terminal(j)
  BY <1>0, <1>1, TerminalStable DEF Settling
<1>2. CASE CancelBegun(j)
  <2>1. Exists("cancelled", j)'
    BY <1>2, CancelledStable DEF CancelBegun
  <2>2. CASE j \in interrupted
    BY <1>0, <2>1, <2>2, InterruptedStable DEF Settling, CancelBegun
  <2>3. ASSUME NEW h \in Handlers, pc[h] = "saveCancel", job[h] = j
        PROVE  Settling(j)'
    BY <1>0, <2>1, <2>3, CancelEnds DEF Settling, CancelBegun
  <2>. QED  BY <1>2, <2>2, <2>3 DEF CancelBegun
<1>. QED  BY <1>1, <1>2 DEF Settling

(***************************************************************************)
(* What a process knows, one step later                                    *)
(***************************************************************************)

\* At the points where nothing is claimed of a worker.
LEMMA FreePoint ==
    ASSUME TypeOK, NEW p \in Processes,
           \/ Leave(p) \/ Raise(p) \/ (p \in Workers /\ Restart(p))
           \/ \E point \in Afterwards \ {"reset"} : Continue(p, point)
    PROVE  /\ pc'[p] \in {"start", "idle", "recover", "saveCancel"}
           /\ p \in Workers => todo'[p] \subseteq todo[p] /\ seen'[p] \in {seen[p], "none"}
BY DEF Leave, Raise, Restart, Continue, GoTo, Afterwards, TypeOK

LEMMA MoverStep ==
    ASSUME Untimed, NEW p \in Processes, MoveStep(p)
    PROVE  /\ MoverKept(p)'
           /\ p \in Workers => WorkerKept(p)'
<1>. USE DEF Untimed
<1>0. /\ TypeOK /\ Moving(p) /\ MoverKept(p) /\ job[p] \in Jobs /\ move[p] \in Move
      /\ p \in Workers => WorkerKept(p)
  BY DEF KeptInv, PublishedInv, TypeOK, MoveStep, CheckDestination, Unlink, Replace, Moving
<1>1. CASE CheckDestination(p)
  <2>1. /\ move'[p] = move[p] /\ job'[p] = job[p] /\ pc'[p] \in {"unlink", "replace"}
        /\ UNCHANGED <<todo, seen>>
    BY <1>0, <1>1 DEF CheckDestination, GoTo, TypeOK
  <2>2. Settling(job[p]) => Settling(job[p])'
    <3>1. PICK j \in Jobs : job[p] = j /\ job'[p] = j
      BY <1>0, <2>1
    <3>. QED  BY <3>1, SettlingStable DEF Settling, CancelBegun, Terminal, Exists
  <2>4. pc'[p] = "unlink" /\ move[p].to = "cancelled" => Exists("cancelled", job[p])'
    BY <1>0, <1>1, <2>1 DEF CheckDestination, GoTo, TypeOK, Exists
  <2>3. p \in Workers => \A j \in todo[p] : Left(j)'
    BY <1>0, LeftStable DEF WorkerKept, TypeOK
  <2>. QED  BY <1>0, <2>1, <2>2, <2>3, <2>4 DEF MoverKept, WorkerKept, Executing, Moving
<1>2. CASE Unlink(p) \/ Replace(p)
  <2>1. \/ Raise(p)
        \/ \E point \in Afterwards \ {"reset"} : Continue(p, point)
    BY <1>0, <1>2 DEF Unlink, Replace, MoverKept, Move
  <2>2. /\ pc'[p] \in {"start", "idle", "recover", "saveCancel"}
        /\ p \in Workers => todo'[p] \subseteq todo[p] /\ seen'[p] \in {seen[p], "none"}
    BY <1>0, <2>1, FreePoint
  <2>3. p \in Workers => \A j \in todo[p] : Left(j)'
    BY <1>0, LeftStable DEF WorkerKept, TypeOK
  <2>. QED  BY <1>0, <2>2, <2>3 DEF MoverKept, WorkerKept, Executing, Moving
<1>. QED  BY <1>1, <1>2 DEF MoveStep

\* A worker that is back in a loop.
LEMMA WorkerFree ==
    ASSUME Untimed, NEW w \in Workers,
           pc'[w] \in {"start", "idle", "recover", "judge", "saveCancel"},
           todo'[w] \subseteq todo[w], seen'[w] # "old"
    PROVE  WorkerKept(w)' /\ MoverKept(w)'
<1>1. \A j \in todo[w] : Left(j) /\ j \in Jobs
  BY DEF Untimed, KeptInv, WorkerKept, PublishedInv, TypeOK
<1>2. \A j \in todo[w] : Left(j)'
  BY <1>1, LeftStable
<1>. QED  BY <1>2 DEF WorkerKept, MoverKept, Moving, Executing

\* A worker that begins to move the record of a run that is ending.
LEMMA WorkerMoves ==
    ASSUME Untimed, NEW w \in Workers,
           pc'[w] \in {"check", "replace"}, todo'[w] \subseteq todo[w], seen'[w] # "old",
           NEW k \in Jobs, job'[w] = k, Settling(k),
           move'[w].from \in {"queued", "claimed"},
           move'[w].to \notin {"queued", "claimed"}, move'[w].next # "reset"
    PROVE  WorkerKept(w)' /\ MoverKept(w)'
<1>1. \A j \in todo[w] : Left(j) /\ j \in Jobs
  BY DEF Untimed, KeptInv, WorkerKept, PublishedInv, TypeOK
<1>2. \A j \in todo[w] : Left(j)'
  BY <1>1, LeftStable
<1>3. Settling(job[w])'
  BY SettlingStable DEF Settling, CancelBegun, Terminal, Exists
<1>. QED  BY <1>2, <1>3 DEF WorkerKept, MoverKept, Moving, Executing

\* A worker that goes on with its job at a point outside a move.
LEMMA WorkerGoes ==
    ASSUME Untimed, NEW w \in Workers, NEW point,
           point \in {"read", "rename"} => submission'[job[w]] = "accepted",
           point \in Executing \union {"gone"} => Left(job[w])',
           point \in {"complete", "fail", "findQueued", "findClaimed"} => Terminal(job[w])',
           point # "reset", ~ (point \in {"check", "unlink", "replace"}),
           GoTo(w, point), UNCHANGED <<job, todo, seen>>
    PROVE  WorkerKept(w)' /\ MoverKept(w)'
<1>1. \A j \in todo[w] : Left(j) /\ j \in Jobs
  BY DEF Untimed, KeptInv, WorkerKept, PublishedInv, TypeOK
<1>2. \A j \in todo[w] : Left(j)'
  BY <1>1, LeftStable
<1>3. pc'[w] = point /\ seen[w] # "old"
  BY DEF GoTo, Untimed, KeptInv, PublishedInv, TypeOK, Processes, WorkerKept
<1>. QED  BY <1>2, <1>3 DEF WorkerKept, MoverKept, Moving

LEMMA CancelStepKept ==
    ASSUME Untimed, NEW p \in Processes, CancelStep(p)
    PROVE  /\ MoverKept(p)'
           /\ p \in Workers => WorkerKept(p)'
<1>. USE DEF Untimed
<1>0. /\ TypeOK /\ job[p] \in Jobs /\ KeptInv
      /\ pc[p] \in {"findQueued", "findClaimed"}
      /\ p \in Workers => Terminal(job[p]) /\ WorkerKept(p)
  BY DEF KeptInv, PublishedInv, TypeOK, CancelStep, FindQueued, FindClaimed, WorkerKept
<1>1. ASSUME NEW from \in {"queued", "claimed"}, MoveFrom(p, from, "cancelled", AfterCancel(p)),
             UNCHANGED <<job, todo, seen>>
      PROVE  MoverKept(p)' /\ (p \in Workers => WorkerKept(p)')
  <2>1. /\ pc'[p] = "check" /\ move'[p].to = "cancelled" /\ move'[p].next = AfterCancel(p)
        /\ move'[p].from = from /\ job'[p] = job[p]
    BY <1>0, <1>1 DEF MoveFrom, GoTo, TypeOK
  <2>2. CASE p \in Workers
    BY <1>0, <1>1, <2>1, <2>2, WorkerMoves, QueueAssumption DEF Settling, AfterCancel, WorkerKept
  <2>3. CASE p \notin Workers
    BY <2>1, <2>3 DEF MoverKept, AfterCancel, Processes
  <2>. QED  BY <2>2, <2>3
<1>2. CASE FindQueued(p)
  <2>1. CASE Exists("queued", job[p])
    BY <1>1, <1>2, <2>1 DEF FindQueued
  <2>2. CASE ~Exists("queued", job[p])
    <3>1. /\ GoTo(p, "findClaimed") /\ UNCHANGED <<job, todo, seen>>
          /\ pc'[p] = "findClaimed"
      BY <1>0, <1>2, <2>2 DEF FindQueued, GoTo, TypeOK
    <3>2. p \in Workers => Terminal(job[p])'
      <4>1. PICK j \in Jobs : job[p] = j /\ job'[p] = j
        BY <1>0, <3>1
      <4>. QED  BY <1>0, <4>1, TerminalStable DEF Terminal, KeptInv
    <3>3. p \in Workers => WorkerKept(p)'
      BY <3>1, <3>2, WorkerGoes DEF Executing
    <3>. QED  BY <3>1, <3>3 DEF MoverKept, Moving
  <2>. QED  BY <2>1, <2>2
<1>3. CASE FindClaimed(p)
  <2>1. CASE Exists("claimed", job[p])
    BY <1>1, <1>3, <2>1 DEF FindClaimed
  <2>2. CASE ~Exists("claimed", job[p])
    <3>1. Continue(p, AfterCancel(p)) /\ AfterCancel(p) \in Afterwards \ {"reset"}
      BY <1>3, <2>2 DEF FindClaimed, AfterCancel, Afterwards
    <3>2. /\ pc'[p] \in {"start", "idle", "recover", "saveCancel"}
          /\ p \in Workers => todo'[p] \subseteq todo[p] /\ seen'[p] \in {seen[p], "none"}
      BY <1>0, <3>1, FreePoint
    <3>3. p \in Workers => WorkerKept(p)'
      BY <1>0, <3>2, WorkerFree DEF WorkerKept
    <3>. QED  BY <3>2, <3>3 DEF MoverKept, Moving
  <2>. QED  BY <2>1, <2>2
<1>. QED  BY <1>2, <1>3 DEF CancelStep

LEMMA RecoverKept ==
    ASSUME Untimed, NEW w \in Workers, Recover(w)
    PROVE  WorkerKept(w)' /\ MoverKept(w)'
<1>. USE DEF Untimed
<1>0. w \in Processes /\ TypeOK /\ WorkerKept(w)
  BY DEF KeptInv, PublishedInv, Processes
<1>1. CASE ListClaimed(w)
  <2>1. /\ pc'[w] = "recover" /\ seen'[w] = seen[w]
        /\ todo'[w] = {j \in Jobs : Exists("claimed", j)}
    BY <1>0, <1>1 DEF ListClaimed, GoTo, TypeOK
  <2>2. \A j \in Jobs : Exists("claimed", j) => Left(j)
    BY DEF KeptInv, RecordKept
  <2>3. \A j \in todo'[w] : Left(j)'
    BY <2>1, <2>2, LeftStable
  <2>. QED  BY <1>0, <2>1, <2>3 DEF WorkerKept, MoverKept, Moving, Executing
<1>2. ASSUME NEW j \in Jobs, RecoverRead(w, j)
      PROVE  WorkerKept(w)' /\ MoverKept(w)'
  <2>1. /\ todo'[w] = todo[w] \ {j} /\ job'[w] = j /\ seen'[w] = record["claimed"][j]
        /\ j \in todo[w]
    BY <1>0, <1>2 DEF RecoverRead, TypeOK
  <2>2. record["claimed"][j] # "old" /\ Left(j)
    BY <1>0, <2>1 DEF KeptInv, RecordKept, WorkerKept, Directories
  <2>3. CASE Exists("claimed", j)
    <3>1. pc'[w] = "judge"
      BY <1>0, <1>2, <2>3 DEF RecoverRead, GoTo, TypeOK
    <3>. QED  BY <2>1, <2>2, <3>1, WorkerFree
  <2>4. CASE ~Exists("claimed", j)
    <3>1. /\ pc'[w] = "check" /\ move'[w].to = "failed" /\ move'[w].next = "recover"
          /\ move'[w].from = "claimed"
      BY <1>0, <1>2, <2>4 DEF RecoverRead, MoveFrom, GoTo, TypeOK
    <3>2. Settling(j)
      BY <2>2, <2>4 DEF KeptInv, RecordKept, Left
    <3>. QED  BY <2>1, <2>2, <3>1, <3>2, WorkerMoves
  <2>. QED  BY <2>3, <2>4
<1>3. CASE Judge(w)
  <2>0. job[w] \in Jobs /\ seen[w] # "old"
    BY <1>0, <1>3 DEF Judge, TypeOK, WorkerKept
  <2>1. CASE Terminal(job[w])
    <3>1. /\ MoveFrom(w, "claimed", DirectoryOf(run[job[w]]), "recover")
          /\ UNCHANGED <<job, todo, seen>>
      BY <1>3, <2>1 DEF Judge
    <3>2. /\ pc'[w] = "check" /\ move'[w].to = DirectoryOf(run[job[w]])
          /\ move'[w].from = "claimed" /\ move'[w].next = "recover" /\ job'[w] = job[w]
      BY <1>0, <3>1 DEF MoveFrom, GoTo, TypeOK
    <3>3. DirectoryOf(run[job[w]]) \notin {"queued", "claimed"}
      BY <2>1, StatusNames DEF DirectoryOf, Terminal
    <3>. QED  BY <2>0, <2>1, <3>1, <3>2, <3>3, WorkerMoves DEF Settling
  <2>2. CASE ~Terminal(job[w])
    <3>1. Continue(w, "recover")
      BY <1>3, <2>0, <2>2 DEF Judge
    <3>2. pc'[w] \in {"start", "idle", "recover", "saveCancel"} /\ todo'[w] \subseteq todo[w]
          /\ seen'[w] \in {seen[w], "none"}
      BY <1>0, <3>1, FreePoint DEF Afterwards
    <3>. QED  BY <2>0, <3>2, WorkerFree
  <2>. QED  BY <2>1, <2>2
<1>4. CASE Reset(w)
  BY <1>0, <1>4 DEF Reset, WorkerKept
<1>5. CASE EndRecovery(w)
  <2>1. pc'[w] = "idle" /\ UNCHANGED <<todo, seen>>
    BY <1>0, <1>5 DEF EndRecovery, GoTo, TypeOK
  <2>. QED  BY <1>0, <2>1, WorkerFree DEF WorkerKept
<1>. QED  BY <1>1, <1>2, <1>3, <1>4, <1>5 DEF Recover

\* A worker that drops what it had in hand.
LEMMA WorkerLeaves ==
    ASSUME Untimed, NEW w \in Workers, Leave(w) \/ Restart(w)
    PROVE  WorkerKept(w)' /\ MoverKept(w)'
<1>1. w \in Processes /\ TypeOK /\ seen[w] # "old"
  BY DEF Untimed, KeptInv, PublishedInv, Processes, WorkerKept
<1>2. pc'[w] \in {"start", "idle", "recover", "saveCancel"} /\ todo'[w] \subseteq todo[w]
      /\ seen'[w] \in {seen[w], "none"}
  BY <1>1, FreePoint
<1>. QED  BY <1>1, <1>2, WorkerFree

LEMMA ClaimKept ==
    ASSUME Untimed, NEW w \in Workers, Claim(w)
    PROVE  WorkerKept(w)' /\ MoverKept(w)'
<1>. USE DEF Untimed
<1>0. w \in Processes /\ TypeOK /\ WorkerKept(w)
  BY DEF KeptInv, PublishedInv, Processes
<1>a. \A j \in Jobs : submission[j] = "accepted" => submission'[j] = "accepted"
  BY <1>0, AcceptedStable
<1>1. ASSUME NEW j \in Jobs, ListQueued(w, j)
      PROVE  WorkerKept(w)' /\ MoverKept(w)'
  <2>1. pc'[w] = "read" /\ job'[w] = j /\ UNCHANGED <<todo, seen>>
    BY <1>0, <1>1 DEF ListQueued, GoTo, TypeOK
  <2>2. submission'[j] = "accepted"
    BY <1>a, <1>1 DEF ListQueued, KeptInv, RecordKept
  <2>3. \A k \in todo[w] : Left(k)'
    BY <1>0, LeftStable DEF WorkerKept, TypeOK
  <2>. QED  BY <1>0, <2>1, <2>2, <2>3 DEF WorkerKept, MoverKept, Moving, Executing
<1>2. CASE ReadRecord(w)
  <2>1. /\ job[w] \in Jobs /\ submission[job[w]] = "accepted" /\ submission'[job[w]] = "accepted"
        /\ UNCHANGED <<job, todo, seen>>
    BY <1>0, <1>a, <1>2 DEF ReadRecord, TypeOK, WorkerKept
  <2>2. CASE Exists("queued", job[w])
    BY <1>2, <2>1, <2>2, WorkerGoes DEF ReadRecord, Executing
  <2>3. CASE ~Exists("queued", job[w])
    <3>1. Left(job[w])'
      BY <1>2, <2>1, <2>3 DEF ReadRecord, Left, Exists
    <3>. QED  BY <1>2, <2>1, <2>3, <3>1, WorkerGoes DEF ReadRecord, Executing
  <2>. QED  BY <2>2, <2>3
<1>3. CASE Quarantine(w)
  <2>1. Leave(w)
    BY <1>0, <1>3 DEF Quarantine, WorkerKept, Left
  <2>. QED  BY <2>1, WorkerLeaves
<1>4. CASE Rename(w)
  <2>1. job[w] \in Jobs /\ submission[job[w]] = "accepted"
    BY <1>0, <1>4 DEF Rename, TypeOK, WorkerKept
  <2>2. CASE Exists("queued", job[w])
    <3>1. /\ GoTo(w, "rewrite") /\ UNCHANGED <<job, todo, seen, submission>>
          /\ record' = [record EXCEPT !["queued"][job[w]] = "none",
                                      !["claimed"][job[w]] = record["queued"][job[w]]]
      BY <1>4, <2>2 DEF Rename
    <3>2. record'["queued"][job[w]] = "none"
      BY <1>0, <2>1, <3>1 DEF TypeOK, Directories
    <3>3. Left(job[w])'
      BY <2>1, <3>1, <3>2 DEF Left, Exists
    <3>. QED  BY <2>1, <3>1, <3>3, WorkerGoes DEF Executing
  <2>3. CASE ~Exists("queued", job[w])
    BY <1>4, <2>3, WorkerLeaves DEF Rename
  <2>. QED  BY <2>2, <2>3
<1>5. CASE Rewrite(w)
  <2>1. job[w] \in Jobs /\ Left(job[w]) /\ UNCHANGED <<job, todo, seen>>
    BY <1>0, <1>5 DEF Rewrite, TypeOK, WorkerKept, Executing
  <2>2. Left(job[w])'
    <3>1. PICK j \in Jobs : job[w] = j /\ job'[w] = j
      BY <2>1
    <3>. QED  BY <2>1, <3>1, LeftStable DEF Left, Exists
  <2>. QED  BY <1>5, <2>1, <2>2, WorkerGoes DEF Rewrite, Executing
<1>. QED  BY <1>1, <1>2, <1>3, <1>4, <1>5 DEF Claim

LEMMA SettleKept ==
    ASSUME Untimed, NEW w \in Workers, NEW status, Settle(w, status), Terminal(job[w])',
           UNCHANGED <<job, todo, seen>>
    PROVE  WorkerKept(w)' /\ MoverKept(w)'
<1>1. PICK point \in {"complete", "findQueued", "fail"} : GoTo(w, point)
  BY DEF Settle
<1>. QED  BY <1>1, WorkerGoes DEF Executing

LEMMA ExecuteKept ==
    ASSUME Untimed, NEW w \in Workers, Execute(w)
    PROVE  WorkerKept(w)' /\ MoverKept(w)'
<1>. USE DEF Untimed
<1>0. /\ w \in Processes /\ TypeOK /\ WorkerKept(w) /\ PublishedInv
      /\ job[w] \in Jobs /\ Left(job[w])
  BY DEF KeptInv, PublishedInv, Processes, Execute, Load, Begin, Work, TypeOK, WorkerKept, Executing
<1>1. ASSUME UNCHANGED <<job, todo, seen>>, NEW point \in {"begin", "work"}, GoTo(w, point)
      PROVE  WorkerKept(w)' /\ MoverKept(w)'
  <2>1. Left(job[w])'
    <3>1. PICK j \in Jobs : job[w] = j /\ job'[w] = j
      BY <1>0, <1>1
    <3>. QED  BY <1>0, <3>1, LeftStable DEF Left, Exists
  <2>. QED  BY <1>1, <2>1, WorkerGoes DEF Executing
<1>2. ASSUME UNCHANGED <<job, todo, seen>>, NEW status, Settle(w, status),
             Terminal(job[w]) \/ (SetRun(job[w], status) /\ status \in Contract!TerminalStatus)
      PROVE  WorkerKept(w)' /\ MoverKept(w)'
  <2>0. PICK j \in Jobs : job[w] = j /\ job'[w] = j
    BY <1>0, <1>2
  <2>1. Terminal(j)'
    BY <1>0, <1>2, <2>0, TerminalStable DEF SetRun, Terminal, TypeOK
  <2>2. Terminal(job[w])'
    BY <2>0, <2>1 DEF Terminal
  <2>. QED  BY <1>2, <2>2, SettleKept
<1>3. CASE Load(w)
  BY <1>1, <1>2, <1>3 DEF Load
<1>4. CASE Begin(w)
  BY <1>1, <1>2, <1>4, WorkerLeaves, StatusNames DEF Begin
<1>5. CASE Work(w)
  BY <1>2, <1>5, WorkerLeaves DEF Work
<1>. QED  BY <1>3, <1>4, <1>5 DEF Execute

LEMMA FilingKept ==
    ASSUME Untimed, NEW w \in Workers, TerminalMove(w)
    PROVE  WorkerKept(w)' /\ MoverKept(w)'
<1>0. /\ w \in Processes /\ TypeOK /\ WorkerKept(w)
      /\ job[w] \in Jobs /\ Terminal(job[w])
  BY DEF Untimed, KeptInv, PublishedInv, Processes, TerminalMove, TypeOK, WorkerKept
<1>1. CASE Leave(w)
  BY <1>1, WorkerLeaves
<1>2. CASE ~Leave(w)
  <2>1. /\ pc'[w] = "replace" /\ job'[w] = job[w] /\ UNCHANGED <<todo, seen>>
        /\ move'[w].to \in {"completed", "failed"} /\ move'[w].next = "idle"
        /\ move'[w].from = "claimed"
    BY <1>0, <1>2 DEF TerminalMove, Filing, GoTo, TypeOK
  <2>. QED  BY <1>0, <2>1, WorkerMoves DEF Settling, WorkerKept
<1>. QED  BY <1>1, <1>2

LEMMA SameKept ==
    ASSUME Untimed, NEW q \in Processes, Same(q)
    PROVE  MoverKept(q)' /\ (q \in Workers => WorkerKept(q)')
<1>0. TypeOK /\ MoverKept(q) /\ PublishedInv /\ (q \in Workers => WorkerKept(q))
  BY DEF Untimed, KeptInv, PublishedInv
<1>1. /\ pc'[q] = pc[q] /\ job'[q] = job[q] /\ move'[q] = move[q]
      /\ q \in Workers => todo'[q] = todo[q] /\ seen'[q] = seen[q]
  BY DEF Same, Keeps
<1>2. ASSUME pc[q] \notin {"start", "recover", "idle"}
      PROVE  /\ Settling(job[q]) => Settling(job[q])'
             /\ Left(job[q]) => Left(job[q])'
             /\ Terminal(job[q]) => Terminal(job[q])'
             /\ submission[job[q]] = "accepted" => submission'[job[q]] = "accepted"
  <2>1. PICK j \in Jobs : job[q] = j /\ job'[q] = j
    BY <1>0, <1>1, <1>2 DEF TypeOK
  <2>2. /\ Settling(j) => Settling(j)'
        /\ Left(j) => Left(j)'
        /\ Terminal(j) => Terminal(j)'
        /\ submission[j] = "accepted" => submission'[j] = "accepted"
    BY <1>0, SettlingStable, LeftStable, TerminalStable, AcceptedStable DEF Untimed
  <2>. QED  BY <2>1, <2>2 DEF Settling, CancelBegun, Left, Terminal, Exists
<1>3. q \in Workers => \A j \in todo[q] : Left(j)'
  BY <1>0, LeftStable DEF WorkerKept, TypeOK
<1>4. MoverKept(q)'
  <2>. SUFFICES ASSUME Moving(q)
                PROVE  MoverKept(q)'
    BY <1>1 DEF MoverKept, Moving
  <2>1. PICK j \in Jobs : job[q] = j /\ job'[q] = j
    BY <1>0, <1>1 DEF Moving, TypeOK
  <2>2. Exists("cancelled", job[q]) => Exists("cancelled", job[q])'
    BY <2>1, CancelledStable DEF Exists
  <2>3. Settling(job[q]) => Settling(job[q])'
    BY <1>2 DEF Moving
  <2>. QED  BY <1>0, <1>1, <2>2, <2>3 DEF MoverKept, Moving
<1>5. q \in Workers => WorkerKept(q)'
  BY <1>0, <1>1, <1>2, <1>3 DEF WorkerKept, Executing
<1>. QED  BY <1>4, <1>5

LEMMA ProcessKeptStep ==
    ASSUME Untimed, NEW q \in Processes
    PROVE  MoverKept(q)' /\ (q \in Workers => WorkerKept(q)')
<1>0. TypeOK /\ [Next]_vars
  BY DEF Untimed, KeptInv, PublishedInv
<1>1. CASE Same(q)
  BY <1>1, SameKept
<1>2. CASE q \in Workers /\ (WorkerStep(q) \/ Crash(q))
  BY <1>2, MoverStep, CancelStepKept, RecoverKept, ClaimKept, ExecuteKept, FilingKept,
     WorkerLeaves DEF WorkerStep, Crash
<1>3. CASE q \in Handlers /\ (HandlerStep(q) \/ Interrupt(q) \/ \E j \in Jobs : ReadForCancel(q, j))
  <2>1. q \notin Workers
    BY <1>3, QueueAssumption
  <2>2. CASE SaveCancel(q) \/ Interrupt(q) \/ \E j \in Jobs : ReadForCancel(q, j)
    <3>1. pc'[q] \in {"idle", "findQueued"}
      BY <1>0, <2>2 DEF SaveCancel, Interrupt, ReadForCancel, Leave, GoTo, TypeOK
    <3>. QED  BY <2>1, <3>1 DEF MoverKept, Moving
  <2>. QED  BY <1>3, <2>1, <2>2, MoverStep, CancelStepKept DEF HandlerStep
<1>. QED  BY <1>0, <1>1, <1>2, <1>3, OneProcess

(***************************************************************************)
(* Where the record of a job can be, one step later                        *)
(***************************************************************************)

\* A record appears under claimed in the hands of a worker.
LEMMA ClaimedStep ==
    ASSUME Untimed, NEW j \in Jobs, Exists("claimed", j)', ~Exists("claimed", j)
    PROVE  Left(j)'
<1>. USE DEF Untimed
<1>0. TypeOK
  BY DEF KeptInv, PublishedInv
<1>1. ASSUME NEW k \in Jobs, Enqueue(k)
      PROVE  FALSE
  BY <1>0, <1>1 DEF Enqueue, TypeOK, Directories, Exists
<1>2. ASSUME NEW p \in Processes, Unlink(p) \/ Replace(p)
      PROVE  FALSE
  <2>1. Moving(p) /\ job[p] \in Jobs /\ move[p].from \in Directories
        /\ move[p].to \in Directories \ {"claimed"}
    BY <1>0, <1>2 DEF Unlink, Replace, Moving, KeptInv, MoverKept, TypeOK, Move
  <2>. QED  BY <1>0, <1>2, <2>1 DEF Unlink, Replace, TypeOK, Directories, Exists
<1>3. ASSUME NEW w \in Workers, Rename(w) \/ Rewrite(w)
      PROVE  Left(j)'
  <2>0. job[w] \in Jobs /\ w \in Processes /\ WorkerKept(w)
    BY <1>0, <1>3 DEF Rename, Rewrite, TypeOK, Processes, KeptInv
  <2>1. job[w] = j
    BY <1>0, <1>3, <2>0 DEF Rename, Rewrite, TypeOK, Directories, Exists
  <2>2. CASE Rename(w)
    <3>1. record'["queued"][j] = "none"
      BY <1>0, <2>0, <2>1, <2>2 DEF Rename, TypeOK, Directories, Exists
    <3>. QED  BY <2>0, <2>1, <2>2, <3>1 DEF Rename, WorkerKept, Left, Exists
  <2>3. CASE Rewrite(w)
    BY <2>0, <2>1, <2>3, LeftStable DEF Rewrite, WorkerKept, Executing
  <2>. QED  BY <1>3, <2>2, <2>3
<1>. QED  BY <1>1, <1>2, <1>3, RecordFrame DEF Exists

\* A record that a move takes from the directories of waiting jobs is that of a
\* run that is ending.
LEMMA TakenStep ==
    ASSUME Untimed, NEW j \in Jobs, Exists("queued", j) \/ Exists("claimed", j),
           ~Exists("queued", j)', ~Exists("claimed", j)'
    PROVE  Settling(j)'
<1>. USE DEF Untimed
<1>0. TypeOK
  BY DEF KeptInv, PublishedInv
<1>1. ASSUME NEW k \in Jobs, Enqueue(k)
      PROVE  FALSE
  BY <1>0, <1>1 DEF Enqueue, TypeOK, Directories, Exists
<1>2. ASSUME NEW p \in Processes, Unlink(p) \/ Replace(p)
      PROVE  Settling(j)'
  <2>1. /\ job[p] \in Jobs /\ move[p].from \in Directories /\ move[p].to \in Directories
        /\ move[p].from # move[p].to
        /\ \/ /\ p \in Handlers /\ move[p].next = "saveCancel" /\ move[p].to = "cancelled"
              /\ pc[p] = "unlink" => Exists("cancelled", job[p])
           \/ Settling(job[p])
    BY <1>0, <1>2 DEF Unlink, Replace, Moving, KeptInv, MoverKept, TypeOK, Move
  <2>2. job[p] = j /\ Continue(p, move[p].next)
    BY <1>0, <1>2, <2>1 DEF Unlink, Replace, TypeOK, Directories, Exists
  <2>3. CASE Settling(j)
    BY <2>3, SettlingStable
  <2>4. CASE /\ p \in Handlers /\ move[p].next = "saveCancel" /\ move[p].to = "cancelled"
             /\ pc[p] = "unlink" => Exists("cancelled", job[p])
    <3>1. pc'[p] = "saveCancel" /\ job'[p] = j
      BY <1>0, <2>2, <2>4 DEF Continue, GoTo, TypeOK
    <3>2. Exists("cancelled", j)'
      <4>1. CASE Unlink(p)
        BY <2>2, <2>4, <4>1, CancelledStable DEF Unlink
      <4>2. CASE Replace(p) /\ Exists(move[p].from, j)
        BY <1>0, <2>1, <2>2, <2>4, <4>2 DEF Replace, TypeOK, Directories, Exists
      <4>3. CASE Replace(p) /\ ~Exists(move[p].from, j)
        BY <2>2, <4>3 DEF Replace, Exists
      <4>. QED  BY <1>2, <4>1, <4>2, <4>3
    <3>. QED  BY <2>4, <3>1, <3>2 DEF Settling, CancelBegun
  <2>. QED  BY <2>1, <2>2, <2>3, <2>4
<1>3. ASSUME NEW w \in Workers, Rename(w) \/ Rewrite(w)
      PROVE  FALSE
  <2>0. job[w] \in Jobs /\ w \in Processes
    BY <1>0, <1>3 DEF Rename, Rewrite, TypeOK, Processes
  <2>1. CASE Rename(w)
    BY <1>0, <2>0, <2>1 DEF Rename, TypeOK, Directories, Exists
  <2>2. CASE Rewrite(w)
    BY <1>0, <2>0, <2>2 DEF Rewrite, TypeOK, Directories, Exists
  <2>. QED  BY <1>3, <2>1, <2>2
<1>. QED  BY <1>1, <1>2, <1>3, RecordFrame DEF Exists

LEMMA RecordKeptStep ==
    ASSUME Untimed, NEW j \in Jobs
    PROVE  RecordKept(j)'
<1>. USE DEF Untimed
<1>0. TypeOK /\ RecordKept(j) /\ \A k \in Jobs, d \in Directories : record[d][k] # "old"
  BY DEF KeptInv, PublishedInv, RecordKept
<1>1. ASSUME NEW d \in Directories
      PROVE  record'[d][j] # "old"
  <2>1. CASE UNCHANGED record
    BY <1>0, <2>1
  <2>2. ASSUME NEW k \in Jobs, Enqueue(k)
        PROVE  record'[d][j] # "old"
    BY <1>0, <2>2 DEF Enqueue, TypeOK, Directories
  <2>3. ASSUME NEW p \in Processes, Unlink(p) \/ Replace(p)
        PROVE  record'[d][j] # "old"
    <3>1. job[p] \in Jobs /\ move[p].from \in Directories /\ move[p].to \in Directories
      BY <1>0, <2>3 DEF Unlink, Replace, TypeOK, Move
    <3>2. CASE Unlink(p)
      BY <1>0, <3>1, <3>2 DEF Unlink, TypeOK
    <3>3. CASE Replace(p)
      <4>1. record'[d][j] \in {record[d][j], "none", record[move[p].from][job[p]]}
        BY <1>0, <3>1, <3>3 DEF Replace, TypeOK
      <4>. QED  BY <1>0, <3>1, <4>1
    <3>. QED  BY <2>3, <3>2, <3>3
  <2>4. ASSUME NEW w \in Workers, Rename(w) \/ Rewrite(w)
        PROVE  record'[d][j] # "old"
    <3>1. job[w] \in Jobs /\ {"queued", "claimed"} \subseteq Directories
      BY <1>0, <2>4 DEF Rename, Rewrite, TypeOK, Processes, Directories
    <3>2. CASE Rename(w)
      BY <1>0, <3>1, <3>2 DEF Rename, TypeOK
    <3>3. CASE Rewrite(w)
      BY <1>0, <3>1, <3>3 DEF Rewrite, TypeOK
    <3>. QED  BY <2>4, <3>2, <3>3
  <2>. QED  BY <2>1, <2>2, <2>3, <2>4, RecordFrame
<1>2. Exists("queued", j)' => submission'[j] = "accepted"
  <2>1. CASE Exists("queued", j)
    BY <1>0, <2>1, AcceptedStable DEF RecordKept
  <2>2. CASE ~Exists("queued", j)
    BY <1>0, <2>2, QueuedStep DEF Enqueue, TypeOK, Exists
  <2>. QED  BY <2>1, <2>2
<1>3. Exists("claimed", j)' => Left(j)'
  <2>1. CASE Exists("claimed", j)
    BY <1>0, <2>1, LeftStable DEF RecordKept
  <2>. QED  BY <2>1, ClaimedStep
<1>4. ASSUME submission'[j] = "accepted"
      PROVE  Exists("queued", j)' \/ Exists("claimed", j)' \/ Settling(j)'
  <2>1. CASE submission[j] = "accepted"
    BY <1>0, <2>1, TakenStep, SettlingStable DEF RecordKept
  <2>2. CASE submission[j] # "accepted"
    <3>1. Enqueue(j)
      BY <1>0, <1>4, <2>2, SubmissionStep DEF Submit, Create, RejectSubmission, TypeOK
    <3>2. record' = [record EXCEPT !["queued"][j] = "unclaimed"]
      BY <1>0, <1>4, <3>1 DEF Enqueue, TypeOK
    <3>. QED  BY <1>0, <3>2 DEF TypeOK, Directories, Exists
  <2>. QED  BY <2>1, <2>2
<1>. QED  BY <1>1, <1>2, <1>3, <1>4 DEF RecordKept

(***************************************************************************)
(* One worker per job                                                      *)
(***************************************************************************)

\* A worker gets a job in hand only by the rename that empties queued.
LEMMA InHandStep ==
    ASSUME Untimed, NEW w \in Workers, NEW j \in Jobs, InHand(w, j)', ~InHand(w, j)
    PROVE  Rename(w) /\ job[w] = j /\ Exists("queued", j)
<1>0. TypeOK /\ [Next]_vars /\ w \in Processes /\ w \notin Handlers
  BY QueueAssumption DEF Untimed, KeptInv, PublishedInv, Processes
<1>. USE DEF InHand, Executing
<1>1. CASE Same(w)
  BY <1>1 DEF Same, Keeps
<1>2. CASE Crash(w) \/ Recover(w) \/ TerminalMove(w)
  BY <1>0, <1>2
     DEF Crash, Restart, Recover, ListClaimed, RecoverRead, Judge, Reset, EndRecovery, MoveFrom,
         Continue, TerminalMove, Leave, GoTo, TypeOK
<1>3. CASE MoveStep(w) \/ CancelStep(w)
  <2>1. move[w].next \notin {"rewrite", "load", "begin", "work"}
    BY <1>0 DEF TypeOK, Move, Afterwards
  <2>. QED
    BY <1>0, <1>3, <2>1
       DEF MoveStep, CheckDestination, Unlink, Replace, Continue, Raise, Restart, Leave,
           CancelStep, FindQueued, FindClaimed, MoveFrom, AfterCancel, GoTo, TypeOK
<1>4. CASE Claim(w)
  <2>1. CASE Rename(w)
    BY <1>0, <2>1 DEF Rename, Leave, GoTo, TypeOK
  <2>2. CASE ~Rename(w)
    BY <1>0, <1>4, <2>2
       DEF Claim, ListQueued, ReadRecord, Quarantine, Rewrite, MoveFrom, Leave, GoTo, TypeOK
  <2>. QED  BY <2>1, <2>2
<1>5. CASE Execute(w)
  BY <1>0, <1>5 DEF Execute, Load, Begin, Work, Settle, Restart, GoTo, TypeOK
<1>. QED  BY <1>0, <1>1, <1>2, <1>3, <1>4, <1>5, OneProcess DEF WorkerStep

LEMMA AloneStep ==
    ASSUME Untimed, NEW j \in Jobs
    PROVE  Alone(j)'
<1>. SUFFICES ASSUME NEW v \in Workers, NEW w \in Workers, InHand(v, j)', InHand(w, j)', v # w
              PROVE  FALSE
  BY DEF Alone
<1>0. TypeOK /\ [Next]_vars /\ Alone(j)
  BY DEF Untimed, KeptInv, PublishedInv
<1>1. ASSUME NEW x \in Workers, NEW y \in Workers, x # y, InHand(y, j)', ~InHand(x, j), InHand(x, j)'
      PROVE  FALSE
  <2>1. Rename(x) /\ Exists("queued", j)
    BY <1>1, InHandStep
  <2>2. Same(y)
    BY <1>0, <1>1, <2>1, WorkerSame DEF Processes, WorkerStep, Claim
  <2>3. InHand(y, j)
    BY <1>1, <2>2 DEF InHand, Same, Keeps
  <2>4. Left(j)
    BY <1>1, <2>3 DEF InHand, Untimed, KeptInv, WorkerKept
  <2>. QED  BY <2>1, <2>4 DEF Left
<1>2. InHand(v, j) /\ InHand(w, j) => FALSE
  BY <1>0 DEF Alone
<1>. QED  BY <1>1, <1>2

(***************************************************************************)
(* The invariant and what follows                                          *)
(***************************************************************************)

LEMMA KeptInit == Init => KeptInv
<1>. SUFFICES ASSUME Init PROVE KeptInv
  OBVIOUS
<1>1. PublishedInv
  BY InitType, QueueAssumption
     DEF Init, PublishedInv, TypeOK, CompletedIsPublished, ProcessPublishes, UnknownIsUntouched,
         Untouched, Exists, Directories, NoMove, Processes
<1>2. \A p \in Processes : MoverKept(p)
  BY DEF Init, MoverKept, Moving
<1>3. \A w \in Workers : WorkerKept(w)
  BY DEF Init, WorkerKept, Executing, Processes
<1>4. \A j \in Jobs : RecordKept(j) /\ Alone(j)
  BY DEF Init, RecordKept, Alone, InHand, Executing, Exists, Directories, Processes
<1>. QED  BY <1>1, <1>2, <1>3, <1>4 DEF KeptInv, Init

LEMMA TimeoutsGrow ==
    ASSUME TypeOK, [Next]_vars, timeouts' = 0
    PROVE  timeouts = 0
<1>1. ASSUME NEW j \in Jobs, Timeout(j)
      PROVE  FALSE
  BY <1>1, QueueAssumption DEF Timeout, TypeOK
<1>2. ASSUME NEW j \in Jobs, Submit(j) \/ RequestCancellation(j)
      PROVE  UNCHANGED timeouts
  BY <1>2 DEF Submit, Create, Enqueue, RejectSubmission, RequestCancellation, environmentVars
<1>3. ASSUME NEW h \in Handlers, HandlerStep(h) \/ Interrupt(h) \/ \E k \in Jobs : ReadForCancel(h, k)
      PROVE  UNCHANGED timeouts
  BY <1>3 DEF HandlerStep, Interrupt, ReadForCancel, SaveCancel, MoveStep, CheckDestination, Unlink,
              Replace, CancelStep, FindQueued, FindClaimed, environmentVars
<1>4. ASSUME NEW w \in Workers, WorkerStep(w) \/ Crash(w)
      PROVE  UNCHANGED timeouts
  BY <1>4 DEF WorkerStep, Crash, TerminalMove, Execute, Load, Begin, Work,
              Claim, ListQueued, ReadRecord, Quarantine, Rename, Rewrite,
              Recover, ListClaimed, RecoverRead, Judge, Reset, EndRecovery,
              MoveStep, CheckDestination, Unlink, Replace, CancelStep, FindQueued, FindClaimed,
              environmentVars
<1>5. UNCHANGED vars => UNCHANGED timeouts
  BY DEF vars, environmentVars
<1>. QED  BY <1>1, <1>2, <1>3, <1>4, <1>5 DEF Next

LEMMA KeptStep ==
    ASSUME KeptInv, [Next]_vars
    PROVE  KeptInv'
<1>0. PublishedInv /\ TypeOK
  BY DEF KeptInv, PublishedInv
<1>1. PublishedInv'
  BY <1>0, StepType, CompletedStep, ProcessPublishesStep, UnknownStep
     DEF PublishedInv, CompletedIsPublished, Published
<1>2. ASSUME NEW j \in Jobs, submission'[j] # "none"
      PROVE  run'[j] # "absent"
  <2>1. CASE submission[j] # "none"
    BY <1>0, <2>1, RunStep, StatusNames DEF KeptInv
  <2>2. CASE submission[j] = "none"
    <3>1. Create(j)
      BY <1>0, <1>2, <2>2, SubmissionStep DEF Submit, Enqueue, RejectSubmission
    <3>. QED  BY <1>0, <3>1 DEF Create, SetRun, TypeOK
  <2>. QED  BY <2>1, <2>2
<1>3. ASSUME timeouts' = 0
      PROVE  /\ \A p \in Processes : MoverKept(p)'
             /\ \A w \in Workers : WorkerKept(w)'
             /\ \A j \in Jobs : RecordKept(j)' /\ Alone(j)'
  <2>1. Untimed
    BY <1>0, <1>3, TimeoutsGrow DEF Untimed
  <2>. QED  BY <2>1, ProcessKeptStep, RecordKeptStep, AloneStep DEF Processes
<1>. QED  BY <1>1, <1>2, <1>3 DEF KeptInv

LEMMA KeptInvHolds == Spec => []KeptInv
BY KeptInit, KeptStep, PTL DEF Spec

\* While no claim times out, the record of an accepted job whose run has not
\* ended is under queued or claimed, or a cancellation moved it to cancelled and
\* is about to save the run or was cut off before it did (app.py:482-483): no
\* other interleaving of claims, cancellations, recoveries and deaths of workers
\* and requests drops a job.
THEOREM AcceptedKept == Spec => []AcceptedIsKept
<1>1. KeptInv => AcceptedIsKept
  BY DEF KeptInv, RecordKept, Settling, AcceptedIsKept
<1>. QED  BY <1>1, KeptInvHolds, PTL

\* While no claim times out, at most one worker has a job in hand, however many
\* compete for it and whichever of them crash.
THEOREM OneExecutorCorrect == Spec => []OneExecutor
<1>1. KeptInv => OneExecutor
  <2>. SUFFICES ASSUME KeptInv, timeouts = 0, NEW j \in Jobs
                PROVE  Cardinality({w \in Workers : InHand(w, j)}) <= 1
    BY DEF OneExecutor
  <2> DEFINE hands == {w \in Workers : InHand(w, j)}
  <2>1. CASE hands = {}
    BY <2>1, FS_EmptySet
  <2>2. CASE hands # {}
    <3>1. PICK w \in Workers : InHand(w, j)
      BY <2>2
    <3>2. hands = {w}
      BY <3>1 DEF KeptInv, Alone
    <3>. QED  BY <3>2, FS_Singleton
  <2>. QED  BY <2>1, <2>2
<1>. QED  BY <1>1, KeptInvHolds, PTL

(***************************************************************************)
(* The runs of the local plane keep the lifecycle.  The last save of an    *)
(* execution tests for a terminal run alone; WorkInv is why it never ends  *)
(* a run that was not begun.                                               *)
(***************************************************************************)

Began(j) == run[j] \notin {"absent", "queued"}

\* An execution is past its first save, or found the run begun.
WorkInv == \A w \in Workers : pc[w] = "work" => Began(job[w])

\* Every save of a status is a step of the lifecycle, or writes the same one.
LEMMA OneStatus ==
    ASSUME TypeOK, NEW j \in Jobs, NEW status, SetRun(j, status),
           \/ run[j] = "absent" /\ status = "queued"
           \/ SaveAllowed(j, status)
           \/ run[j] = "running" /\ status \in Contract!TerminalStatus
    PROVE  Lifecycle!Next \/ UNCHANGED run
<1> DEFINE published == [k \in Jobs |-> {}]
<1>0. run' = [run EXCEPT ![j] = status]
  BY DEF SetRun
<1>1. published' = published /\ published = [published EXCEPT ![j] = {}]
  OBVIOUS
<1>2. CASE run[j] = "absent" /\ status = "queued"
  BY <1>0, <1>1, <1>2 DEF Lifecycle!Next, Lifecycle!Create
<1>3. CASE run[j] = "queued" /\ status = "running"
  BY <1>0, <1>1, <1>3 DEF Lifecycle!Next, Lifecycle!Begin
<1>4. CASE run[j] \in {"queued", "running"} /\ status \in {"failed", "cancelled"}
  BY <1>0, <1>1, <1>4 DEF Lifecycle!Next, Lifecycle!Stop
<1>5. CASE run[j] = "running" /\ status \in {"succeeded", "partial"}
  BY <1>0, <1>1, <1>5 DEF Lifecycle!Next, Lifecycle!Publish
<1>6. CASE run[j] = status
  BY <1>0, <1>6 DEF TypeOK
<1>. QED
  BY <1>2, <1>3, <1>4, <1>5, <1>6, StatusNames DEF SaveAllowed, Contract!AllowedTransitions

LEMMA LifecycleStep ==
    ASSUME KeptInv, WorkInv, [Next]_vars
    PROVE  Lifecycle!Next \/ UNCHANGED run
<1>0. TypeOK /\ UnknownIsUntouched
  BY DEF KeptInv, PublishedInv
<1>1. ASSUME NEW j \in Jobs, Create(j) \/ RejectSubmission(j)
      PROVE  Lifecycle!Next \/ UNCHANGED run
  <2>1. CASE Create(j)
    BY <1>0, <2>1, OneStatus DEF Create, UnknownIsUntouched, Untouched
  <2>2. CASE RejectSubmission(j)
    BY <1>0, <2>2, OneStatus DEF RejectSubmission
  <2>. QED  BY <1>1, <2>1, <2>2
<1>2. ASSUME NEW h \in Handlers, SaveCancel(h)
      PROVE  Lifecycle!Next \/ UNCHANGED run
  <2>1. job[h] \in Jobs
    BY <1>0, <1>2 DEF SaveCancel, TypeOK, Processes
  <2>. QED  BY <1>0, <1>2, <2>1, OneStatus DEF SaveCancel
<1>3. ASSUME NEW w \in Workers, Begin(w) \/ Work(w)
      PROVE  Lifecycle!Next \/ UNCHANGED run
  <2>1. job[w] \in Jobs
    BY <1>0, <1>3 DEF Begin, Work, TypeOK, Processes
  <2>2. CASE Begin(w)
    BY <1>0, <2>1, <2>2, OneStatus DEF Begin
  <2>3. CASE Work(w)
    <3>1. Terminal(job[w]) \/ run[job[w]] = "running"
      BY <1>0, <2>1, <2>3, StatusNames DEF Work, WorkInv, Began, TypeOK, Terminal
    <3>. QED  BY <1>0, <2>1, <2>3, <3>1, OneStatus DEF Work
  <2>. QED  BY <1>3, <2>2, <2>3
<1>. QED  BY <1>1, <1>2, <1>3, RunFrame

LEMMA BeganStable ==
    ASSUME TypeOK, Lifecycle!Next \/ UNCHANGED run, NEW j \in Jobs, Began(j)
    PROVE  Began(j)'
BY DEF Began, TypeOK, Lifecycle!Next, Lifecycle!Create, Lifecycle!Begin, Lifecycle!Stop,
       Lifecycle!Publish

\* A worker gets to its last save from its first one or from a load.
LEMMA WorkPoint ==
    ASSUME TypeOK, [Next]_vars, NEW w \in Workers, pc'[w] = "work"
    PROVE  /\ job'[w] = job[w] /\ job[w] \in Jobs
           /\ \/ pc[w] = "work"
              \/ UNCHANGED run /\ run[job[w]] # "queued"
              \/ run'[job[w]] = "running"
<1>0. w \in Processes /\ w \notin Handlers
  BY QueueAssumption DEF Processes
<1>1. CASE Same(w)
  BY <1>0, <1>1 DEF Same, Keeps, TypeOK
<1>2. CASE Crash(w) \/ Recover(w) \/ TerminalMove(w)
  BY <1>0, <1>2
     DEF Crash, Restart, Recover, ListClaimed, RecoverRead, Judge, Reset, EndRecovery, MoveFrom,
         Continue, TerminalMove, Leave, GoTo, TypeOK
<1>3. CASE MoveStep(w) \/ CancelStep(w)
  <2>1. move[w].next # "work"
    BY <1>0 DEF TypeOK, Move, Afterwards
  <2>. QED
    BY <1>0, <1>3, <2>1
       DEF MoveStep, CheckDestination, Unlink, Replace, Continue, Raise, Restart, Leave,
           CancelStep, FindQueued, FindClaimed, MoveFrom, AfterCancel, GoTo, TypeOK
<1>4. CASE Claim(w)
  BY <1>0, <1>4
     DEF Claim, ListQueued, ReadRecord, Quarantine, Rename, Rewrite, MoveFrom, Leave, GoTo, TypeOK
<1>5. CASE Load(w)
  BY <1>0, <1>5, StatusNames DEF Load, Settle, GoTo, TypeOK, Terminal
<1>6. CASE Begin(w)
  BY <1>0, <1>6 DEF Begin, SetRun, Settle, Restart, GoTo, TypeOK
<1>7. CASE Work(w)
  BY <1>0, <1>7 DEF Work, Settle, Restart, GoTo, TypeOK
<1>. QED
  BY <1>0, <1>1, <1>2, <1>3, <1>4, <1>5, <1>6, <1>7, OneProcess DEF WorkerStep, Execute

LEMMA WorkInvStep ==
    ASSUME KeptInv, WorkInv, [Next]_vars
    PROVE  WorkInv'
<1>. SUFFICES ASSUME NEW w \in Workers, pc'[w] = "work"
              PROVE  run'[job'[w]] \notin {"absent", "queued"}
  BY DEF WorkInv, Began
<1>0. TypeOK /\ w \in Processes
  BY DEF KeptInv, PublishedInv, Processes
<1>1. job'[w] = job[w] /\ job[w] \in Jobs
  BY <1>0, WorkPoint
<1>2. run[job[w]] # "absent"
  BY <1>0, <1>1 DEF KeptInv, PublishedInv, UnknownIsUntouched, Untouched
<1>3. Began(job[w]) => Began(job[w])'
  BY <1>0, <1>1, LifecycleStep, BeganStable
<1>4. CASE Began(job[w])
  <2>1. run'[job'[w]] \notin {"absent", "queued"}
    BY <1>1, <1>3, <1>4 DEF Began
  <2>. QED  BY <2>1
<1>5. CASE ~Began(job[w])
  <2>1. pc[w] # "work"
    BY <1>5 DEF WorkInv
  <2>2. run[job[w]] = "queued"
    BY <1>2, <1>5 DEF Began
  <2>3. run'[job[w]] = "running"
    BY <1>0, <2>1, <2>2, WorkPoint
  <2>. QED  BY <1>1, <2>3
<1>. QED  BY <1>4, <1>5

\* The local plane keeps the lifecycle the cloud plane keeps, whatever claims
\* time out and however many executions of one job overlap: a run is begun at
\* most once, succeeds only after that, and no save changes how it ended.
THEOREM ImplementsLifecycle == Spec => LifecycleSpec
<1>1. Init => Lifecycle!Init /\ WorkInv
  BY DEF Init, Lifecycle!Init, WorkInv, Processes
<1>2. KeptInv /\ WorkInv /\ [Next]_vars => WorkInv'
  BY WorkInvStep
<1>3. KeptInv /\ WorkInv /\ [Next]_vars => [Lifecycle!Next]_Lifecycle!vars
  <2>. SUFFICES ASSUME KeptInv, WorkInv, [Next]_vars
                PROVE  [Lifecycle!Next]_Lifecycle!vars
    OBVIOUS
  <2>1. UNCHANGED run => UNCHANGED Lifecycle!vars
    BY DEF Lifecycle!vars
  <2>. QED  BY <2>1, LifecycleStep
<1>. QED  BY <1>1, <1>2, <1>3, KeptInvHolds, PTL DEF Spec, LifecycleSpec, Lifecycle!Spec

=============================================================================
