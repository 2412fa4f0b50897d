------------------------------ MODULE V1Compat ------------------------------
(***************************************************************************)
(* The v1_compat profile (execution/adapters/v1_compat_*.py): a build runs *)
(* up to four child processes, one after the other, in a working tree, and *)
(* collects the files they leave.  A child writes each file in place, so   *)
(* that a reader may find it partial, and may fail, hang or ignore SIGTERM.*)
(*                                                                         *)
(* With the local store the tree belongs to a run, workers may overlap on  *)
(* a run whose claim is requeued while it is built, and a worker killed    *)
(* leaves its child behind.  With the cloud store the parent of the        *)
(* materialised input is the temporary directory of the host, so that the  *)
(* runs of its one worker share a tree; a crash restarts the container,    *)
(* and the cancellation query may raise.                                   *)
(***************************************************************************)
EXTENDS V1Statistics, Sequences

CONSTANTS
    Runs,
    Workers,
    Videos,         \* the videos considered
    Hosts,          \* configurations of the host
    Loads,          \* a store, "local" or "cloud", the runs and workers that meet
                    \* there and the videos the runs may have
    MaxEvents,      \* bound on cancellations, deaths of workers, claims requeued
                    \* while their run is built and cancellation queries that raise
    NoRun

\* One worker runs in a container, and the temporary directory is the container's.
ASSUME CompatAssumption ==
    /\ \A l \in Loads : /\ l.store \in {"local", "cloud"}
                        /\ l.runs \subseteq Runs
                        /\ l.workers \subseteq Workers
                        /\ l.videos \subseteq Videos
                        /\ l.store = "cloud" => \A w, x \in l.workers : w = x
    /\ MaxEvents \in Nat
    /\ NoRun \notin Runs
    /\ "partial" \notin Runs /\ "none" \notin Runs /\ "host" \notin Runs

\* A video has frames, is sampled at a stride, and shows finitely many boxes.
ASSUME VideosAssumption ==
    \A v \in Videos : v.total \in Nat /\ v.stride \in Nat \ {0} /\ IsFiniteSet(v.boxes)

VARIABLES
    load, host,
    input,          \* input[r]: the video of r
    sameWeights,    \* sameWeights[r]: the weights match the checksum recorded for r
    queued,         \* runs that a worker may claim
    cancel,         \* cancel[r]: cancellation requested of r
    job, pc,        \* job[w], pc[w]: the build of worker w
    child,          \* child[w]: the process w waits for
    parts,          \* parts[w]: whose data w has collected
    tree,           \* tree[t][f]: the file f of the working tree t
    orphans,        \* processes whose worker no longer waits for them
    results,        \* builds that returned artifacts
    events,
    alone           \* history: alone[w], no other process has been in the tree of
                    \* the build of w since it began

environment == <<load, host, input, sameWeights>>
buildVars == <<job, pc, child, parts>>
eventVars == <<events, alone>>

vars == <<environment, queued, cancel, buildVars, tree, orphans, results, eventVars>>

(***************************************************************************)
(* The host                                                                *)
(***************************************************************************)

\* resolve_device: "none" when the device asked for is not there.
Device(h) ==
    CASE h.requested = "auto" -> (IF h.mps THEN "mps" ELSE IF h.cuda THEN "cuda" ELSE "cpu")
      [] h.requested = "mps" -> (IF h.mps THEN "mps" ELSE "none")
      [] h.requested = "cuda" -> (IF h.cuda THEN "cuda" ELSE "none")
      [] OTHER -> "cpu"

\* The configuration is only read, and can only be wrong, when torch is there
\* and the weights are valid.
ConfigurationError(h) ==
    h.packages /\ h.weights /\ (~h.numbers \/ Device(h) = "none")

\* check_v1_compat_readiness: the first thing missing.
Readiness(h) ==
    IF ~h.platform THEN "unsupported_platform"
    ELSE IF ~h.packages THEN "missing_python_packages"
    ELSE IF ConfigurationError(h) THEN "runtime_import_error"
    ELSE IF ~h.tools THEN "missing_system_tools"
    ELSE IF ~h.weights THEN "missing_model_weights"
    ELSE "ready"

(***************************************************************************)
(* Files and children                                                      *)
(***************************************************************************)

Stages == 1 .. 4
Detection == 1
Tracking == 2
Stats == 3
Fatigue == 4

\* The files a child writes, in order.  A JSON file is taken as written at once:
\* a build that finds part of one ends like one that finds none.  The metadata
\* have a default, so that the statistics start without them.
Outputs(stage) ==
    CASE stage = Detection -> <<"detections", "metadata", "detectionSummary">>
      [] stage = Tracking -> <<"tracklets", "rawTracks", "fragmentation", "trackingSummary">>
      [] stage = Stats -> <<"playerStats", "playerSummary">>
      [] stage = Fatigue -> <<"riskScores">>

Parquet == {"detections", "tracklets", "rawTracks", "playerStats"}

Files == UNION {{Outputs(s)[i] : i \in DOMAIN Outputs(s)} : s \in Stages}

\* The files a child needs.
Inputs(stage) ==
    CASE stage = Detection -> {}
      [] stage = Tracking -> {"detections"}
      [] stage = Stats -> {"rawTracks"}
      [] stage = Fatigue -> {"playerStats", "playerSummary"}

Trees == Runs \union {"host"}

\* input_path.parent.parent / "tmp" / "v1-compat".
TreeOf(r) == IF load.store = "local" THEN r ELSE "host"

Contents == Runs \union {"none", "partial"}

NoChild == [stage |-> Detection, step |-> 0, data |-> NoRun, state |-> "none"]
NewChild(stage) == [NoChild EXCEPT !.stage = stage, !.state = "running"]

EmptyTree == [f \in Files |-> "none"]

Init ==
    /\ load \in Loads
    /\ host \in Hosts
    /\ input \in [load.runs -> load.videos]
    /\ sameWeights \in [load.runs -> BOOLEAN]
    /\ queued = load.runs
    /\ cancel = [r \in Runs |-> FALSE]
    /\ job = [w \in Workers |-> NoRun]
    /\ pc = [w \in Workers |-> "idle"]
    /\ child = [w \in Workers |-> NoChild]
    /\ parts = [w \in Workers |-> {}]
    /\ tree = [t \in Trees |-> EmptyTree]
    /\ orphans = {}
    /\ results = {}
    /\ events = 0
    /\ alone = [w \in Workers |-> TRUE]

(***************************************************************************)
(* The children                                                            *)
(***************************************************************************)

Readable(t, f) == tree[t][f] \in Runs

\* Whose data a child works on.
DataOf(c, r) ==
    CASE c.stage = Detection -> r
      [] c.stage = Tracking -> tree[TreeOf(r)]["detections"]
      [] c.stage = Stats -> tree[TreeOf(r)]["rawTracks"]
      [] c.stage = Fatigue -> tree[TreeOf(r)]["playerSummary"]

Steps(stage) == 2 * Len(Outputs(stage))

DetectionRaises == {v \in Videos : ~Detectable(v)}
TrackingRaises == {v \in Videos : ~Trackable(v)}

\* Whether a child that read its inputs raises at what they hold.
Refused(c, data) ==
    \/ c.stage = Detection /\ input[data] \in DetectionRaises
    \/ c.stage = Tracking /\ data \in Runs /\ input[data] \in TrackingRaises

\* Videos of which the statistics may keep no identity, and some, with some
\* order of the ties.
MayKeepNone == {v \in Videos : \E players \in Outcomes(RawTracks(v)) : DOMAIN players = {}}
MayKeepSome == {v \in Videos : \E players \in Outcomes(RawTracks(v)) : DOMAIN players # {}}

\* 02_stats returns without writing when no identity has enough rows.
WritesNothing(c, data) == c.stage = Stats /\ input[data] \in MayKeepNone

WritesSomething(c, data) == c.stage = Stats => input[data] \in MayKeepSome

\* Child c of a build of r reads its inputs, and becomes next.
ReadInputs(c, r, next) ==
    LET t == TreeOf(r)
        data == DataOf(c, r)
    IN
    /\ c.data = NoRun
    /\ \/ /\ \A f \in Inputs(c.stage) : Readable(t, f)
          /\ ~Refused(c, data)
          /\ \/ WritesSomething(c, data) /\ next = [c EXCEPT !.data = data]
             \/ WritesNothing(c, data) /\ next = [c EXCEPT !.data = data, !.step = Steps(c.stage)]
       \/ /\ \/ \E f \in Inputs(c.stage) : ~Readable(t, f)
             \/ Refused(c, data)
          /\ next = [c EXCEPT !.state = "failed"]
    /\ UNCHANGED tree

\* It opens or completes its next file ...
WriteFile(c, r, next) ==
    LET f == Outputs(c.stage)[c.step \div 2 + 1]
        opens == c.step % 2 = 0 /\ f \in Parquet
    IN
    /\ c.data # NoRun
    /\ c.step < Steps(c.stage)
    /\ tree' = [tree EXCEPT ![TreeOf(r)][f] = IF opens THEN "partial" ELSE c.data]
    /\ next = [c EXCEPT !.step = IF opens THEN @ + 1 ELSE 2 * (@ \div 2 + 1)]

\* ... and exits, with an error at any point.
Exit(c, next) ==
    /\ \/ /\ c.data # NoRun
          /\ c.step = Steps(c.stage)
          /\ next = [c EXCEPT !.state = "exited"]
       \/ next = [c EXCEPT !.state = "failed"]
    /\ UNCHANGED tree

ChildMoves(c, r, next) ==
    /\ c.state = "running"
    /\ ReadInputs(c, r, next) \/ WriteFile(c, r, next) \/ Exit(c, next)

\* All a child can become in one step.
Successors(c) ==
    {[c EXCEPT !.state = s] : s \in {"exited", "failed"}}
        \union {[c EXCEPT !.step = n] : n \in {c.step + 1, c.step + 2}}
        \union {[c EXCEPT !.data = d, !.step = n] : d \in Runs, n \in {0, Steps(c.stage)}}

ChildStep(w) ==
    /\ \E next \in Successors(child[w]) :
          /\ ChildMoves(child[w], job[w], next)
          /\ child' = [child EXCEPT ![w] = next]
    /\ UNCHANGED <<environment, queued, cancel, job, pc, parts, orphans,
                   results, eventVars>>

OrphanStep(o) ==
    /\ \E next \in Successors(o.child) :
          /\ ChildMoves(o.child, o.run, next)
          /\ orphans' = (orphans \ {o}) \union
                            {p \in {[o EXCEPT !.child = next]} : next.state = "running"}
    /\ UNCHANGED <<environment, queued, cancel, buildVars, results, eventVars>>

(***************************************************************************)
(* The builds                                                              *)
(***************************************************************************)

\* The build of w ends; its child, if it still runs, is left to itself.
Leave(w) ==
    /\ job' = [job EXCEPT ![w] = NoRun]
    /\ pc' = [pc EXCEPT ![w] = "idle"]
    /\ child' = [child EXCEPT ![w] = NoChild]
    /\ parts' = [parts EXCEPT ![w] = {}]

\* What a worker that stops waiting leaves behind.
LeftBy(w) ==
    {o \in {[run |-> job[w], child |-> child[w]]} : child[w].state = "running"}

GoTo(w, point) == pc' = [pc EXCEPT ![w] = point]

\* Whether a process that w does not wait for works in the tree of r.
Occupied(w, r) ==
    \/ \E o \in orphans : TreeOf(o.run) = TreeOf(r)
    \/ \E x \in Workers \ {w} : job[x] # NoRun /\ TreeOf(job[x]) = TreeOf(r)

\* A worker claims a run and enters build_artifacts; a run cancelled before is
\* only recorded.
Claim(w, r) ==
    /\ pc[w] = "idle"
    /\ w \in load.workers
    /\ ~cancel[r]
    /\ queued' = queued \ {r}
    /\ job' = [job EXCEPT ![w] = r]
    /\ GoTo(w, "ready")
    /\ alone' = [x \in Workers |->
                    IF x = w THEN ~Occupied(w, r)
                    ELSE alone[x] /\ ~(job[x] # NoRun /\ TreeOf(job[x]) = TreeOf(r))]
    /\ UNCHANGED <<environment, cancel, child, parts, tree, orphans, results, events>>

\* The profile is not available here, or the weights are not those recorded
\* for the run.
Refuse(w) ==
    /\ pc[w] = "ready"
    /\ Readiness(host) # "ready" \/ ~sameWeights[job[w]]
    /\ Leave(w)
    /\ UNCHANGED <<environment, queued, cancel, tree, orphans, results, eventVars>>

\* subprocess.Popen of a stage.
StartChild(w, stage) ==
    /\ child' = [child EXCEPT ![w] = NewChild(stage)]
    /\ GoTo(w, "poll")
    /\ UNCHANGED <<job, parts>>

Prepare(w) ==
    /\ pc[w] = "ready"
    /\ Readiness(host) = "ready"
    /\ sameWeights[job[w]]
    /\ StartChild(w, Detection)
    /\ UNCHANGED <<environment, queued, cancel, tree, orphans, results, eventVars>>

\* process.poll(): the stage goes on, has ended, or has failed.
Poll(w) ==
    LET c == child[w] IN
    /\ pc[w] = "poll"
    /\ \/ /\ c.state = "running"
          /\ GoTo(w, "check")
          /\ UNCHANGED <<job, child, parts>>
       \/ /\ c.state = "exited"
          /\ c.stage \in {Detection, Stats}
          /\ StartChild(w, c.stage + 1)
       \/ /\ c.state = "exited"
          /\ c.stage \in {Tracking, Fatigue}
          /\ GoTo(w, IF c.stage = Tracking THEN "summary" ELSE "collect")
          /\ child' = [child EXCEPT ![w] = NoChild]
          /\ UNCHANGED <<job, parts>>
       \/ /\ c.state = "failed"
          /\ Leave(w)
    /\ UNCHANGED <<environment, queued, cancel, tree, orphans, results, eventVars>>

\* Between two polls: the cancellation query ...
Check(w) ==
    /\ pc[w] = "check"
    /\ GoTo(w, IF cancel[job[w]] THEN "terminate" ELSE "poll")
    /\ UNCHANGED <<environment, queued, cancel, job, child, parts, tree, orphans, results,
                   eventVars>>

\* ... and the time limit.
TimeOut(w) ==
    /\ pc[w] = "check"
    /\ GoTo(w, "terminate")
    /\ UNCHANGED <<environment, queued, cancel, job, child, parts, tree, orphans, results,
                   eventVars>>

\* The cancellation query raises: nothing stops the child.
QueryRaises(w) ==
    /\ pc[w] = "check"
    /\ load.store = "cloud"
    /\ events < MaxEvents
    /\ events' = events + 1
    /\ orphans' = orphans \union LeftBy(w)
    /\ Leave(w)
    /\ UNCHANGED <<environment, queued, cancel, tree, results, alone>>

\* Mutant: SIGTERM alone.
MutantTerminate(w) ==
    /\ pc[w] = "terminate"
    /\ child[w].state # "running"
    /\ Leave(w)
    /\ UNCHANGED <<environment, queued, cancel, tree, orphans, results, eventVars>>

\* SIGTERM, ten seconds, SIGKILL: the child is dead, and the build raises.
Terminate(w) ==
    /\ pc[w] = "terminate"
    /\ Leave(w)
    /\ UNCHANGED <<environment, queued, cancel, tree, orphans, results, eventVars>>

SummaryOf(w) == tree[TreeOf(job[w])]["trackingSummary"]

NothingLeft == {v \in Videos : EmptyAfterFilters(RawTracks(v))}

Empty(r) == input[r] \in NothingLeft

\* Tracking's summary decides whether the statistics run at all.
ReadSummary(w) ==
    /\ pc[w] = "summary"
    /\ \/ /\ SummaryOf(w) \in Runs
          /\ ~Empty(SummaryOf(w))
          /\ StartChild(w, Stats)
       \/ /\ SummaryOf(w) \in Runs
          /\ Empty(SummaryOf(w))
          /\ GoTo(w, "collect")
          /\ UNCHANGED <<job, child, parts>>
       \/ /\ SummaryOf(w) \notin Runs
          /\ Leave(w)
    /\ UNCHANGED <<environment, queued, cancel, tree, orphans, results, eventVars>>

\* The JSON files the artifacts are made of: those of the statistics only when
\* tracking's summary, read again, says there are some.
Collected(w) ==
    {"detectionSummary", "trackingSummary", "fragmentation"} \union
        IF SummaryOf(w) \in Runs /\ Empty(SummaryOf(w)) THEN {} ELSE {"playerSummary", "riskScores"}

Collect(w) ==
    LET t == TreeOf(job[w]) IN
    /\ pc[w] = "collect"
    /\ IF \A f \in Collected(w) : Readable(t, f)
       THEN /\ GoTo(w, "bytes")
            /\ parts' = [parts EXCEPT ![w] = {tree[t][f] : f \in Collected(w)}]
            /\ UNCHANGED <<job, child>>
       ELSE Leave(w)
    /\ UNCHANGED <<environment, queued, cancel, tree, orphans, results, eventVars>>

\* The Parquet files, as they are.
ReadBytes(w) ==
    LET t == TreeOf(job[w])
        bytes == {tree[t][f] : f \in {"detections", "tracklets"}}
    IN
    /\ pc[w] = "bytes"
    /\ results' = results \union
                     {b \in {[run |-> job[w], alone |-> alone[w],
                               parts |-> parts[w] \union bytes]} : "none" \notin bytes}
    /\ Leave(w)
    /\ UNCHANGED <<environment, queued, cancel, tree, orphans, eventVars>>

(***************************************************************************)
(* The environment                                                         *)
(***************************************************************************)

\* Of a run that is built.
RequestCancel(r) ==
    /\ events < MaxEvents
    /\ events' = events + 1
    /\ ~cancel[r]
    /\ \E w \in Workers : job[w] = r
    /\ cancel' = [cancel EXCEPT ![r] = TRUE]
    /\ UNCHANGED <<environment, queued, buildVars, tree, orphans, results, alone>>

\* The process of w dies and its run is handed out again.
Crash(w) ==
    /\ events < MaxEvents
    /\ pc[w] # "idle"
    /\ events' = events + 1
    /\ queued' = queued \union {job[w]}
    /\ \/ /\ load.store = "local"
          /\ orphans' = orphans \union LeftBy(w)
          /\ UNCHANGED tree
       \/ /\ load.store = "cloud"
          /\ orphans' = {}
          /\ tree' = [tree EXCEPT !["host"] = EmptyTree]
    /\ Leave(w)
    /\ UNCHANGED <<environment, cancel, results, alone>>

\* A starting worker finds a claim older than the timeout and requeues it.
Requeue(r) ==
    /\ load.store = "local"
    /\ events < MaxEvents
    /\ \E w \in Workers : job[w] = r
    /\ events' = events + 1
    /\ queued' = queued \union {r}
    /\ UNCHANGED <<environment, cancel, buildVars, tree, orphans, results, alone>>

(***************************************************************************)
(* Specification                                                           *)
(***************************************************************************)

Build(w) ==
    \/ \E r \in queued : Claim(w, r)
    \/ Refuse(w) \/ Prepare(w)
    \/ Poll(w) \/ Check(w) \/ QueryRaises(w) \/ Terminate(w)
    \/ ReadSummary(w) \/ Collect(w) \/ ReadBytes(w)

Next ==
    \/ \E w \in Workers : Build(w) \/ ChildStep(w) \/ TimeOut(w) \/ Crash(w)
    \/ \E o \in orphans : OrphanStep(o)
    \/ \E r \in Runs : RequestCancel(r) \/ Requeue(r)

Spec == Init /\ [][Next]_vars

\* A worker goes on, and a process that never ends is at some poll past its time
\* limit; nothing makes a child progress.
FairSpec ==
    /\ Spec
    /\ \A w \in Workers : WF_vars(Build(w)) /\ SF_vars(TimeOut(w))

(***************************************************************************)
(* Properties                                                              *)
(***************************************************************************)

\* A build beside which no other process worked in its tree, from its claim to
\* its end, returns complete files made from its own video: although the tree
\* keeps what earlier builds left there, those of other runs and of builds that
\* were disturbed, cut short or killed included, and although the statistics may
\* end without writing.  It says nothing of a build that shares its tree, and builds
\* do: the "private working tree" of v1_compat_pipeline.py:83 is one for all runs of
\* a cloud host, where a child left behind writes into the build of another run.
ResultsAreOwn == \A b \in results : b.alone => b.parts = {b.run}

Agreeing ==
    {v \in Videos :
        LET d == Diagnostics(v) IN
            /\ v \in NothingLeft <=> d.insufficient = d.tracklets
            /\ v \notin NothingLeft => v \notin MayKeepNone
            /\ MapThenSumSet(LAMBDA k : d.started[k], Bins(v)) = d.tracklets
            /\ MapThenSumSet(LAMBDA k : d.ended[k], Bins(v)) = d.tracklets}

\* The diagnostics, tracking's summary and the statistics count the same
\* tracks: tracks are all insufficient exactly when the statistics are skipped,
\* and statistics that ran found a player.
ReportAgrees == \A b \in results : input[b.run] \in Agreeing

\* Every build ends, even when its child hangs and ignores SIGTERM.
BuildsEnd == \A w \in Workers : job[w] # NoRun ~> job[w] = NoRun

=============================================================================
