--------------------------- MODULE CampaignProofs ---------------------------
(***************************************************************************)
(* Theorems about Campaign and about the scoring it rests on, for any      *)
(* claims, tools, datasets, approvals, commands, limits and thresholds     *)
(* that the assumptions allow: no process spends what was not approved, a  *)
(* PASS is earned, a cap is nobody's failure, the controls are told apart. *)
(***************************************************************************)
EXTENDS Campaign, FiniteSetTheorems, NaturalsInduction, WellFoundedInduction, TLAPS

(***************************************************************************)
(* The inductive invariant                                                 *)
(***************************************************************************)

Points ==
    {"idle", "refused", "started", "checked", "asking", "waiting", "reporting", "reported", "died"}
\* What a process that has been through the checks may still do.
Going == {"checked", "asking", "waiting", "reporting"}

Rules ==
    {[status |-> "proposed", binding |-> RoadmapCriteria]}
    \union {[status |-> "accepted", binding |-> Bindings[option]] : option \in DOMAIN Bindings}

Guards == [sent : Nat, spent : Nat, reserved : Nat, atWorst : Nat]

RunOf(command, used, guard, left, turn, calls, scores, failures, stop) ==
    [command |-> command, rule |-> used, guard |-> guard, left |-> left, turn |-> turn,
     calls |-> calls, scores |-> scores, failures |-> failures, stop |-> stop]

\* A run that has started, by its fields.
IsRun(r) ==
    /\ r = RunOf(r.command, r.rule, r.guard, r.left, r.turn, r.calls, r.scores, r.failures, r.stop)
    /\ r.command \in load.commands /\ r.rule \in Rules /\ r.guard \in Guards
    /\ r.turn \in Nat

TypeOK ==
    /\ load \in Loads /\ rule \in Rules
    /\ pc \in [Processes -> Points]
    /\ bill \in [Processes -> Nat]
    /\ run = [p \in Processes |-> run[p]]
    /\ reports = [path \in Paths |-> reports[path]]
    /\ mishaps \in Nat

\* Where a process is, and what there is to know of it there.
Placed(p) ==
    /\ pc[p] = "idle" => run[p] = NoRun
    /\ pc[p] = "refused" => run[p] = NoRun \/ run[p].guard.sent = 0
    /\ pc[p] \notin {"idle", "refused"} => IsRun(run[p])
    /\ pc[p] \in {"started", "checked"} => /\ run[p].guard = Guard(run[p].command)!FullBudget
                                           /\ run[p].turn = 0
    /\ pc[p] = "started" => run[p].scores = {} /\ run[p].calls = {} /\ run[p].stop = "none"

\* The guard counts what is out, and keeps within its caps what is billed.
Funded(p) ==
    LET guard == run[p].guard IN
    /\ pc[p] \in {"idle", "refused", "started", "checked"} => bill[p] = 0
    /\ pc[p] \in {"asking", "waiting"} => bill[p] <= guard.spent
    /\ pc[p] = "asking" => guard.reserved = 0
    /\ pc[p] = "waiting" => guard.reserved = Worst(p) /\ guard.sent > 0
    /\ pc[p] \notin {"idle", "refused"} =>
          /\ bill[p] <= guard.spent + guard.reserved
          /\ guard.sent <= run[p].command.requests
          /\ guard.spent + guard.reserved <= run[p].command.cost

\* What lets a run send: the caps of a selection run, or an approval.
Allowed(r) ==
    \/ /\ r.command.kind = "selection"
       /\ r.command.requests <= HardRequests /\ r.command.cost <= HardCost
    \/ /\ r.command.kind = "paid"
       /\ \E a \in load.approvals :
             /\ a.approved /\ a.stage = r.command.stage
             /\ a.split = r.command.split /\ a.split = StageSplit[a.stage]
             /\ a.rule = r.rule /\ a.code = r.command.code
             /\ r.command.requests <= a.requests /\ r.command.cost <= a.cost
             /\ a.split = "heldout" => r.rule.status = "accepted"

Cleared(p) ==
    pc[p] \in Going \/ (pc[p] \in {"reported", "died"} /\ run[p].guard.sent > 0) => Allowed(run[p])

\* Calls made of tools that may be called.
AreCalls(calls) ==
    IsFiniteSet(calls) /\ \A c \in calls : c.tool \in Tools \union {Unregistered}

\* Scores of different planned questions, none of those that are left.
IsSheet(command, left, scores) ==
    /\ Loadable(load.dataset)
    /\ IsFiniteSet(scores)
    /\ \A s \in scores : /\ s.case \in Planned(command) \ left
                         /\ Attempted(s.result) /\ AreCalls(s.result.calls)
    /\ \A s, t \in scores : s.case = t.case => s = t

NotStopped(scores) == \A s \in scores : s.result.stop \notin OperatorStops

\* A run that asks the agent: its questions are scored or left.
Asked(p) ==
    LET r == run[p] IN
    /\ pc[p] \notin {"idle", "refused"} /\ r.command.kind # "selection" => Loadable(load.dataset)
    /\ pc[p] \in Going /\ r.command.kind = "paid" =>
          /\ IsSheet(r.command, r.left, r.scores)
          /\ r.left \subseteq Planned(r.command) /\ AreCalls(r.calls)
          /\ r.stop = "none" => NotStopped(r.scores)
          /\ pc[p] \in {"asking", "waiting"} => r.left # {}
          /\ pc[p] # "reporting" => r.stop = "none"

\* A report of a paid run: what it scored, and the verdict that follows from it.
IsReport(report) ==
    /\ report.command \in load.commands /\ report.rule \in Rules
    /\ IsSheet(report.command, {}, report.scores)
    /\ \E completed \in BOOLEAN :
          /\ report.verdict = VerdictOf(report.command, report.rule, report.scores, completed)
          /\ completed => /\ NotStopped(report.scores)
                          /\ Cardinality(report.scores) = Cardinality(Planned(report.command))

Reported == \A path \in Paths : reports[path].kind = "paid" => IsReport(reports[path])

Local(p) == Placed(p) /\ Funded(p) /\ Cleared(p) /\ Asked(p)

IInv == TypeOK /\ (\A p \in Processes : Local(p)) /\ Reported


(***************************************************************************)
(* Records                                                                 *)
(***************************************************************************)

LEMMA RunFields ==
    ASSUME NEW command, NEW used, NEW guard, NEW left, NEW turn, NEW calls, NEW scores,
           NEW failures, NEW stop
    PROVE  LET r == RunOf(command, used, guard, left, turn, calls, scores, failures, stop) IN
           /\ r.command = command /\ r.rule = used /\ r.guard = guard /\ r.left = left
           /\ r.turn = turn /\ r.calls = calls /\ r.scores = scores
           /\ r.failures = failures /\ r.stop = stop
BY DEF RunOf

LEMMA IsRunOf ==
    ASSUME NEW command \in load.commands, NEW used \in Rules, NEW guard \in Guards, NEW left,
           NEW turn \in Nat, NEW calls, NEW scores, NEW failures, NEW stop
    PROVE  IsRun(RunOf(command, used, guard, left, turn, calls, scores, failures, stop))
<1>. DEFINE r == RunOf(command, used, guard, left, turn, calls, scores, failures, stop)
<1>1. /\ r.command = command /\ r.rule = used /\ r.guard = guard /\ r.left = left
      /\ r.turn = turn /\ r.calls = calls /\ r.scores = scores
      /\ r.failures = failures /\ r.stop = stop
  BY RunFields
<1>. QED  BY <1>1 DEF IsRun

\* What an EXCEPT makes of a run.
LEMMA RunSends ==
    ASSUME NEW r, IsRun(r), NEW guard
    PROVE  [r EXCEPT !.guard = guard]
              = RunOf(r.command, r.rule, guard, r.left, r.turn, r.calls, r.scores, r.failures,
                      r.stop)
<1>1. r = RunOf(r.command, r.rule, r.guard, r.left, r.turn, r.calls, r.scores, r.failures,
                r.stop)
  BY DEF IsRun
<1>. QED  BY <1>1 DEF RunOf

LEMMA RunRetrieves ==
    ASSUME NEW r, IsRun(r), NEW guard, NEW turn, NEW calls
    PROVE  [r EXCEPT !.guard = guard, !.turn = turn, !.calls = calls]
              = RunOf(r.command, r.rule, guard, r.left, turn, calls, r.scores, r.failures,
                      r.stop)
<1>1. r = RunOf(r.command, r.rule, r.guard, r.left, r.turn, r.calls, r.scores, r.failures,
                r.stop)
  BY DEF IsRun
<1>2. [r EXCEPT !.guard = guard]
        = RunOf(r.command, r.rule, guard, r.left, r.turn, r.calls, r.scores, r.failures, r.stop)
  BY <1>1 DEF RunOf
<1>3. [RunOf(r.command, r.rule, guard, r.left, r.turn, r.calls, r.scores, r.failures, r.stop)
         EXCEPT !.turn = turn]
        = RunOf(r.command, r.rule, guard, r.left, turn, r.calls, r.scores, r.failures, r.stop)
  BY DEF RunOf
<1>4. [r EXCEPT !.guard = guard, !.turn = turn]
        = RunOf(r.command, r.rule, guard, r.left, turn, r.calls, r.scores, r.failures, r.stop)
  BY <1>2, <1>3
<1>5. [RunOf(r.command, r.rule, guard, r.left, turn, r.calls, r.scores, r.failures, r.stop)
         EXCEPT !.calls = calls]
        = RunOf(r.command, r.rule, guard, r.left, turn, calls, r.scores, r.failures, r.stop)
  BY DEF RunOf
<1>. QED  BY <1>4, <1>5

LEMMA RunIsChecked ==
    ASSUME NEW r, IsRun(r), NEW used, NEW left
    PROVE  [r EXCEPT !.left = left, !.rule = used]
              = RunOf(r.command, used, r.guard, left, r.turn, r.calls, r.scores, r.failures,
                      r.stop)
<1>1. r = RunOf(r.command, r.rule, r.guard, r.left, r.turn, r.calls, r.scores, r.failures,
                r.stop)
  BY DEF IsRun
<1>2. [r EXCEPT !.left = left]
        = RunOf(r.command, r.rule, r.guard, left, r.turn, r.calls, r.scores, r.failures, r.stop)
  BY <1>1 DEF RunOf
<1>3. [RunOf(r.command, r.rule, r.guard, left, r.turn, r.calls, r.scores, r.failures, r.stop)
         EXCEPT !.rule = used]
        = RunOf(r.command, used, r.guard, left, r.turn, r.calls, r.scores, r.failures, r.stop)
  BY DEF RunOf
<1>. QED  BY <1>2, <1>3

LEMMA RunIsSampled ==
    ASSUME NEW r, IsRun(r), NEW left
    PROVE  [r EXCEPT !.left = left]
              = RunOf(r.command, r.rule, r.guard, left, r.turn, r.calls, r.scores, r.failures,
                      r.stop)
<1>1. r = RunOf(r.command, r.rule, r.guard, r.left, r.turn, r.calls, r.scores, r.failures,
                r.stop)
  BY DEF IsRun
<1>. QED  BY <1>1 DEF RunOf

Replying(r, guard, left, failures, stop) ==
    [r EXCEPT !.guard = guard, !.left = left, !.failures = failures, !.stop = stop]

LEMMA RunReplies ==
    ASSUME NEW r, IsRun(r), NEW guard, NEW left, NEW failures, NEW stop
    PROVE  Replying(r, guard, left, failures, stop)
              = RunOf(r.command, r.rule, guard, left, r.turn, r.calls, r.scores, failures, stop)
<1>1. r = RunOf(r.command, r.rule, r.guard, r.left, r.turn, r.calls, r.scores, r.failures,
                r.stop)
  BY DEF IsRun
<1>2. [r EXCEPT !.guard = guard]
        = RunOf(r.command, r.rule, guard, r.left, r.turn, r.calls, r.scores, r.failures, r.stop)
  BY <1>1 DEF RunOf
<1>3. [RunOf(r.command, r.rule, guard, r.left, r.turn, r.calls, r.scores, r.failures, r.stop)
         EXCEPT !.left = left]
        = RunOf(r.command, r.rule, guard, left, r.turn, r.calls, r.scores, r.failures, r.stop)
  BY DEF RunOf
<1>4. [r EXCEPT !.guard = guard, !.left = left]
        = RunOf(r.command, r.rule, guard, left, r.turn, r.calls, r.scores, r.failures, r.stop)
  BY <1>2, <1>3
<1>5. [RunOf(r.command, r.rule, guard, left, r.turn, r.calls, r.scores, r.failures, r.stop)
         EXCEPT !.failures = failures]
        = RunOf(r.command, r.rule, guard, left, r.turn, r.calls, r.scores, failures, r.stop)
  BY DEF RunOf
<1>6. [r EXCEPT !.guard = guard, !.left = left, !.failures = failures]
        = RunOf(r.command, r.rule, guard, left, r.turn, r.calls, r.scores, failures, r.stop)
  BY <1>4, <1>5
<1>7. [RunOf(r.command, r.rule, guard, left, r.turn, r.calls, r.scores, failures, r.stop)
         EXCEPT !.stop = stop]
        = RunOf(r.command, r.rule, guard, left, r.turn, r.calls, r.scores, failures, stop)
  BY DEF RunOf
<1>. QED  BY <1>6, <1>7 DEF Replying

LEMMA RunStops ==
    ASSUME NEW r, IsRun(r), NEW stop
    PROVE  [r EXCEPT !.stop = stop]
              = RunOf(r.command, r.rule, r.guard, r.left, r.turn, r.calls, r.scores, r.failures,
                      stop)
<1>1. r = RunOf(r.command, r.rule, r.guard, r.left, r.turn, r.calls, r.scores, r.failures,
                r.stop)
  BY DEF IsRun
<1>. QED  BY <1>1 DEF RunOf

LEMMA GuardTypes ==
    ASSUME NEW g \in Guards
    PROVE  g.sent \in Nat /\ g.spent \in Nat /\ g.reserved \in Nat /\ g.atWorst \in Nat
BY DEF Guards

(***************************************************************************)
(* What a step leaves alone                                                *)
(***************************************************************************)

LEMMA PlannedKept ==
    ASSUME load' = load, NEW command, NEW left, NEW scores
    PROVE  /\ Planned(command)' = Planned(command)
           /\ IsSheet(command, left, scores) => IsSheet(command, left, scores)'
<1>1. Planned(command)' = Planned(command)
  BY DEF Planned
<1>. QED  BY <1>1, Zenon DEF IsSheet

LEMMA LocalKept ==
    ASSUME NEW o \in Processes, Local(o), load' = load, pc'[o] = pc[o], run'[o] = run[o],
           bill'[o] = bill[o]
    PROVE  Local(o)'
<1>1. Placed(o)'
  BY Zenon DEF Local, Placed, IsRun, Guard!FullBudget
<1>2. Funded(o)'
  BY Zenon DEF Local, Funded, Worst, Guard!WorstCase
<1>3. Cleared(o)'
  BY Zenon DEF Local, Cleared, Allowed
<1>4. Asked(o)'
  <2>1. Planned(run[o].command)' = Planned(run[o].command)
    BY DEF Planned
  <2>. QED  BY <2>1, Zenon DEF Local, Asked, IsSheet
<1>. QED  BY <1>1, <1>2, <1>3, <1>4 DEF Local

\* A step of one process.
Moves(p, next) ==
    /\ load' = load
    /\ next \in Points
    /\ pc' = [pc EXCEPT ![p] = next]
    /\ run' = [run EXCEPT ![p] = run'[p]]
    /\ bill' = [bill EXCEPT ![p] = bill'[p]]

LEMMA MovesKeep ==
    ASSUME IInv, NEW p \in Processes, NEW next, Moves(p, next), Local(p)', bill'[p] \in Nat,
           rule' \in Rules, mishaps' \in Nat, reports' = [path \in Paths |-> reports'[path]],
           Reported'
    PROVE  IInv'
<1>1. TypeOK'
  BY DEF IInv, TypeOK, Moves
<1>2. ASSUME NEW o \in Processes
      PROVE  Local(o)'
  <2>1. CASE o = p
    BY <2>1
  <2>2. CASE o # p
    BY <2>2, LocalKept DEF IInv, TypeOK, Moves
  <2>. QED  BY <2>1, <2>2
<1>. QED  BY <1>1, <1>2 DEF IInv

LEMMA ReportedKept ==
    ASSUME Reported, load' = load, reports' = reports
    PROVE  Reported'
<1>1. ASSUME NEW report, IsReport(report)
      PROVE  IsReport(report)'
  BY <1>1, PlannedKept, Zenon DEF IsReport, VerdictOf
<1>. QED  BY <1>1 DEF Reported

\* A step that writes no report and leaves the rule alone.
LEMMA QuietMoves ==
    ASSUME IInv, NEW p \in Processes, NEW next, Moves(p, next), Local(p)', bill'[p] \in Nat,
           rule' = rule, mishaps' \in Nat, reports' = reports
    PROVE  IInv'
<1>1. Reported'
  BY ReportedKept DEF IInv, Moves
<1>. QED  BY <1>1, MovesKeep DEF IInv, TypeOK

LEMMA PutMoves ==
    ASSUME IInv, NEW p \in Processes, NEW r, NEW next \in Points, Put(p, r, next), load' = load,
           bill' = [bill EXCEPT ![p] = bill'[p]]
    PROVE  Moves(p, next) /\ run'[p] = r /\ pc'[p] = next
BY DEF IInv, TypeOK, Put, Moves

LEMMA WorstType ==
    ASSUME IInv, NEW p \in Processes, IsRun(run[p])
    PROVE  /\ Worst(p) \in Nat /\ Worst(p) >= 1 + OutputPrice
           /\ Worst(p) = 1 + run[p].turn * OutputSize + OutputPrice
<1>1. run[p].turn \in Nat /\ OutputSize \in Nat /\ OutputPrice \in Nat
  BY CampaignAssumption DEF IsRun
<1>2. (run[p].turn + 1) - 1 = run[p].turn /\ run[p].turn * OutputSize \in Nat
  BY <1>1
<1>3. Worst(p) = 1 + run[p].turn * OutputSize + OutputPrice
  BY <1>2 DEF Worst, Guard!WorstCase
<1>. QED  BY <1>1, <1>2, <1>3

(***************************************************************************)
(* The end of a question                                                   *)
(***************************************************************************)

LEMMA LeastElement ==
    ASSUME NEW S \in SUBSET Nat, S # {}
    PROVE  \E s \in S : \A t \in S : s <= t
<1>1. PICK s \in S : \A t \in S : ~ (<<t, s>> \in OpToRel(<, Nat))
  BY NatLessThanWellFounded, WFMin
<1>2. ASSUME NEW t \in S
      PROVE  s <= t
  <2>1. t \in Nat /\ s \in Nat
    OBVIOUS
  <2>2. t < s => <<t, s>> \in OpToRel(<, Nat)
    BY <2>1, Zenon DEF OpToRel
  <2>3. ~ (t < s)
    BY <1>1, <2>2, Zenon
  <2>. QED  BY <2>1, <2>3
<1>. QED  BY <1>2

LEMMA LoadIsLoad ==
    ASSUME IInv
    PROVE  IsLoad(load)
BY LoadsAssumption DEF IInv, TypeOK

LEMMA PlannedAreCases ==
    ASSUME IInv, NEW command, NEW c \in Planned(command)
    PROVE  c \in load.dataset.cases /\ c.split = command.split /\ Reaches(c) /\ IsCase(c)
BY LoadIsLoad DEF Planned, Cases, IsLoad

LEMMA NextIsLeft ==
    ASSUME IInv, NEW command, NEW left \in SUBSET Planned(command), left # {}
    PROVE  NextOf(left) \in left
<1>. DEFINE ids == {c.id : c \in left}
<1>1. ids \in SUBSET Nat /\ ids # {}
  BY PlannedAreCases DEF IsCase
<1>2. PICK i \in ids : \A j \in ids : i <= j
  BY <1>1, LeastElement
<1>3. \E c \in left : \A d \in left : c.id <= d.id
  BY <1>2
<1>. QED  BY <1>3 DEF NextOf

LEMMA AllowedKept ==
    ASSUME NEW p, load' = load, run'[p].command = run[p].command, run'[p].rule = run[p].rule,
           Allowed(run[p])
    PROVE  Allowed(run[p])'
BY Zenon DEF Allowed

\* What is known of a process whose run goes on.
LEMMA Going1 ==
    ASSUME IInv, NEW p \in Processes, pc[p] \in Going
    PROVE  /\ IsRun(run[p]) /\ run[p].command \in load.commands /\ run[p].rule \in Rules
           /\ run[p].guard \in Guards /\ run[p].turn \in Nat
           /\ run[p].command.requests \in Nat /\ run[p].command.cost \in Nat
           /\ bill[p] \in Nat /\ Allowed(run[p]) /\ Funded(p) /\ Asked(p)
<1>1. pc[p] \notin {"idle", "refused"}
  BY DEF Going
<1>2. Local(p) /\ bill[p] \in Nat
  BY DEF IInv, TypeOK
<1>3. IsRun(run[p]) /\ Funded(p) /\ Asked(p) /\ Allowed(run[p])
  BY <1>1, <1>2 DEF Local, Placed, Cleared
<1>. QED  BY <1>2, <1>3, LoadIsLoad DEF IsRun, IsLoad

LEMMA ConcludePuts ==
    ASSUME NEW p, NEW r, r = run[p], IsRun(r), NEW guard, NEW result, Conclude(p, guard, result)
    PROVE  \E left, scores, failures, stop, next :
              /\ left = r.left \ {NextOf(r.left)}
              /\ scores = IF Kept(result)
                          THEN r.scores \union {[case |-> NextOf(r.left), result |-> result]}
                          ELSE r.scores
              /\ stop = "none" => result.stop # "budget_exhausted"
              /\ next = IF stop # "none" \/ left = {} THEN "reporting" ELSE "asking"
              /\ Put(p, RunOf(r.command, r.rule, guard, left, 0, {}, scores, failures, stop), next)
<1>. DEFINE case == NextOf(r.left)
            failures == IF result.error = "none" THEN 0 ELSE r.failures + 1
            stop == IF result.stop = "budget_exhausted" THEN "budget_exhausted"
                    ELSE IF result.error \in Fatal THEN "fatal_failure"
                    ELSE IF failures >= MaxFailures THEN "consecutive_failures"
                    ELSE "none"
            left == r.left \ {case}
            scores == IF Kept(result)
                      THEN r.scores \union {[case |-> case, result |-> result]} ELSE r.scores
            next == IF stop # "none" \/ left = {} THEN "reporting" ELSE "asking"
<1>1. Put(p, [r EXCEPT !.guard = guard, !.left = left, !.turn = 0, !.calls = {},
                       !.failures = failures, !.stop = stop, !.scores = scores], next)
  BY Zenon DEF Conclude
<1>2. stop = "none" => result.stop # "budget_exhausted"
  OBVIOUS
<1>. HIDE DEF left, failures, stop, scores
<1>3. [r EXCEPT !.guard = guard, !.left = left, !.turn = 0, !.calls = {},
                !.failures = failures, !.stop = stop, !.scores = scores]
        = RunOf(r.command, r.rule, guard, left, 0, {}, scores, failures, stop)
  <2>1. r = RunOf(r.command, r.rule, r.guard, r.left, r.turn, r.calls, r.scores, r.failures,
                  r.stop)
    BY DEF IsRun
  <2>2. [r EXCEPT !.guard = guard]
          = RunOf(r.command, r.rule, guard, r.left, r.turn, r.calls, r.scores, r.failures,
                  r.stop)
    BY <2>1 DEF RunOf
  <2>3. [RunOf(r.command, r.rule, guard, r.left, r.turn, r.calls, r.scores, r.failures, r.stop)
           EXCEPT !.left = left]
          = RunOf(r.command, r.rule, guard, left, r.turn, r.calls, r.scores, r.failures, r.stop)
    BY DEF RunOf
  <2>4. [r EXCEPT !.guard = guard, !.left = left]
          = RunOf(r.command, r.rule, guard, left, r.turn, r.calls, r.scores, r.failures, r.stop)
    BY <2>2, <2>3
  <2>5. [RunOf(r.command, r.rule, guard, left, r.turn, r.calls, r.scores, r.failures, r.stop)
           EXCEPT !.turn = 0]
          = RunOf(r.command, r.rule, guard, left, 0, r.calls, r.scores, r.failures, r.stop)
    BY DEF RunOf
  <2>6. [r EXCEPT !.guard = guard, !.left = left, !.turn = 0]
          = RunOf(r.command, r.rule, guard, left, 0, r.calls, r.scores, r.failures, r.stop)
    BY <2>4, <2>5
  <2>7. [RunOf(r.command, r.rule, guard, left, 0, r.calls, r.scores, r.failures, r.stop)
           EXCEPT !.calls = {}]
          = RunOf(r.command, r.rule, guard, left, 0, {}, r.scores, r.failures, r.stop)
    BY DEF RunOf
  <2>8. [r EXCEPT !.guard = guard, !.left = left, !.turn = 0, !.calls = {}]
          = RunOf(r.command, r.rule, guard, left, 0, {}, r.scores, r.failures, r.stop)
    BY <2>6, <2>7
  <2>9. [RunOf(r.command, r.rule, guard, left, 0, {}, r.scores, r.failures, r.stop)
           EXCEPT !.failures = failures]
          = RunOf(r.command, r.rule, guard, left, 0, {}, r.scores, failures, r.stop)
    BY DEF RunOf
  <2>10. [r EXCEPT !.guard = guard, !.left = left, !.turn = 0, !.calls = {},
                 !.failures = failures]
          = RunOf(r.command, r.rule, guard, left, 0, {}, r.scores, failures, r.stop)
    BY <2>8, <2>9
  <2>11. [RunOf(r.command, r.rule, guard, left, 0, {}, r.scores, failures, r.stop)
           EXCEPT !.stop = stop]
          = RunOf(r.command, r.rule, guard, left, 0, {}, r.scores, failures, stop)
    BY DEF RunOf
  <2>12. [r EXCEPT !.guard = guard, !.left = left, !.turn = 0, !.calls = {},
                 !.failures = failures, !.stop = stop]
          = RunOf(r.command, r.rule, guard, left, 0, {}, r.scores, failures, stop)
    BY <2>10, <2>11
  <2>13. [RunOf(r.command, r.rule, guard, left, 0, {}, r.scores, failures, stop)
           EXCEPT !.scores = scores]
          = RunOf(r.command, r.rule, guard, left, 0, {}, scores, failures, stop)
    BY DEF RunOf
  <2>. QED  BY <2>12, <2>13
<1>4. Put(p, RunOf(r.command, r.rule, guard, left, 0, {}, scores, failures, stop), next)
  BY <1>1, <1>3, Zenon
<1>. QED  BY <1>2, <1>4, Zenon DEF left, scores

\* The question ends, and its guard is settled.
LEMMA ConcludeMoves ==
    ASSUME IInv, NEW p \in Processes, pc[p] \in {"asking", "waiting"},
           run[p].command.kind = "paid",
           NEW guard \in Guards, NEW result, Conclude(p, guard, result), load' = load,
           bill' = [bill EXCEPT ![p] = bill'[p]], bill'[p] \in Nat,
           result.stop # "budget_exhausted" => Attempted(result), AreCalls(result.calls),
           bill'[p] <= guard.spent, guard.reserved = 0,
           guard.sent <= run[p].command.requests, guard.spent <= run[p].command.cost
    PROVE  \E next : Moves(p, next) /\ Local(p)'
<1>. DEFINE r == run[p]
            case == NextOf(r.left)
<1>1. pc[p] \in Going
  BY DEF Going
<1>2. /\ IsSheet(r.command, r.left, r.scores) /\ r.left \subseteq Planned(r.command)
      /\ r.stop = "none" /\ NotStopped(r.scores) /\ r.left # {}
  BY <1>1, Going1 DEF Asked
<1>3. PICK left, scores, failures, stop, next :
          /\ left = r.left \ {case}
          /\ scores = IF Kept(result)
                      THEN r.scores \union {[case |-> case, result |-> result]} ELSE r.scores
          /\ stop = "none" => result.stop # "budget_exhausted"
          /\ next = IF stop # "none" \/ left = {} THEN "reporting" ELSE "asking"
          /\ Put(p, RunOf(r.command, r.rule, guard, left, 0, {}, scores, failures, stop), next)
  BY <1>1, Going1, ConcludePuts
<1>. DEFINE q == RunOf(r.command, r.rule, guard, left, 0, {}, scores, failures, stop)
<1>5. next \in {"asking", "reporting"} /\ next \in Points /\ next \in Going
  BY <1>3 DEF Points, Going
<1>6. Moves(p, next) /\ run'[p] = q /\ pc'[p] = next
  <2>1. Put(p, q, next)
    BY <1>3
  <2>. HIDE DEF q
  <2>. QED  BY <2>1, <1>5, PutMoves
<1>7. /\ run'[p].command = r.command /\ run'[p].rule = r.rule /\ run'[p].guard = guard
      /\ run'[p].left = left /\ run'[p].turn = 0 /\ run'[p].calls = {}
      /\ run'[p].scores = scores /\ run'[p].stop = stop /\ run'[p].failures = failures
  BY <1>6, RunFields
<1>8. case \in r.left
  BY <1>2, NextIsLeft
<1>9. /\ Loadable(load.dataset) /\ IsFiniteSet(scores)
      /\ \A s \in scores : /\ s.case \in Planned(r.command) \ left
                           /\ Attempted(s.result) /\ AreCalls(s.result.calls)
      /\ \A s, t \in scores : s.case = t.case => s = t
  <2>. DEFINE new == [case |-> case, result |-> result]
  <2>1. new.case = case /\ new.result = result
    OBVIOUS
  <2>2. Kept(result) => Attempted(result)
    BY DEF Kept, Attempted
  <2>3. \A s \in r.scores : s.case # case
    BY <1>2, <1>8 DEF IsSheet
  <2>4. scores \in {r.scores, r.scores \union {new}} /\ (~Kept(result) => scores = r.scores)
    BY <1>3
  <2>5. IsFiniteSet(scores)
    <3>. HIDE DEF new
    <3>1. IsFiniteSet(r.scores) /\ IsFiniteSet(r.scores \union {new})
      BY <1>2, FS_AddElement DEF IsSheet
    <3>. QED  BY <2>4, <3>1
  <2>6. case \in Planned(r.command)
    BY <1>2, <1>8
  <2>. HIDE DEF new, case
  <2>7. \A s \in scores : s \in r.scores \/ (s = new /\ Kept(result))
    BY <2>4
  <2>. QED  BY <1>2, <2>1, <2>2, <2>3, <2>5, <2>6, <2>7, <1>3 DEF IsSheet
<1>10. stop = "none" => NotStopped(scores)
  <2>1. \A s \in scores : s \in r.scores \/ s.result = result
    BY <1>3
  <2>. QED  BY <1>2, <1>3, <2>1 DEF NotStopped, OperatorStops
<1>11. left \subseteq Planned(r.command)
  BY <1>2, <1>3
<1>12. next = "asking" => left # {} /\ stop = "none"
  BY <1>3
<1>. HIDE DEF q
<1>13. Placed(p)'
  <2>1. IsRun(run[p])'
    <3>1. run'[p] = RunOf(run'[p].command, run'[p].rule, run'[p].guard, run'[p].left,
                          run'[p].turn, run'[p].calls, run'[p].scores, run'[p].failures,
                          run'[p].stop)
      BY <1>6, <1>7, Zenon DEF q
    <3>2. run'[p].command \in load'.commands /\ run'[p].rule \in Rules
      BY <1>1, <1>7, Going1
    <3>3. run'[p].guard \in Guards /\ run'[p].turn \in Nat
      BY <1>7
    <3>. QED  BY <3>1, <3>2, <3>3 DEF IsRun
  <2>. QED  BY <1>5, <1>6, <2>1 DEF Placed
<1>14. Funded(p)'
  BY <1>1, <1>5, <1>6, <1>7, Going1, GuardTypes DEF Funded
<1>15. Cleared(p)'
  BY <1>1, <1>6, <1>7, Going1, AllowedKept DEF Cleared
<1>16. Asked(p)'
  <2>1. Planned(run[p].command)' = Planned(r.command)
    BY <1>7 DEF Planned
  <2>2. IsSheet(run[p].command, run[p].left, run[p].scores)'
    BY <1>7, <1>9, <2>1 DEF IsSheet
  <2>3. AreCalls({})
    BY FS_EmptySet DEF AreCalls
  <2>4. Loadable(load.dataset)'
    BY <1>9
  <2>. QED  BY <1>6, <1>7, <1>10, <1>11, <1>12, <1>5, <2>1, <2>2, <2>3, <2>4 DEF Asked
<1>. QED  BY <1>6, <1>13, <1>14, <1>15, <1>16 DEF Local

(***************************************************************************)
(* Starting                                                                *)
(***************************************************************************)

LEMMA RunNext ==
    ASSUME NEW p, load' = load, NEW command \in load.commands, NEW used \in Rules,
           NEW guard \in Guards, NEW left, NEW turn \in Nat, NEW calls, NEW scores, NEW failures,
           NEW stop,
           run'[p] = RunOf(command, used, guard, left, turn, calls, scores, failures, stop)
    PROVE  /\ run'[p].command = command /\ run'[p].rule = used /\ run'[p].guard = guard
           /\ run'[p].left = left /\ run'[p].turn = turn /\ run'[p].calls = calls
           /\ run'[p].scores = scores /\ run'[p].failures = failures /\ run'[p].stop = stop
           /\ IsRun(run[p])'
<1>1. /\ run'[p].command = command /\ run'[p].rule = used /\ run'[p].guard = guard
      /\ run'[p].left = left /\ run'[p].turn = turn /\ run'[p].calls = calls
      /\ run'[p].scores = scores /\ run'[p].failures = failures /\ run'[p].stop = stop
  BY RunFields
<1>. QED  BY <1>1 DEF IsRun

LEMMA SheetStays ==
    ASSUME NEW p, load' = load, run'[p].command = run[p].command, run'[p].left = run[p].left,
           run'[p].scores = run[p].scores, run'[p].stop = run[p].stop,
           run'[p].calls = run[p].calls, Asked(p)
    PROVE  /\ Loadable(load.dataset) => Loadable(load.dataset)'
           /\ IsSheet(run[p].command, run[p].left, run[p].scores) =>
                 IsSheet(run[p].command, run[p].left, run[p].scores)'
           /\ Planned(run[p].command)' = Planned(run[p].command)
<1>1. Planned(run[p].command)' = Planned(run[p].command)
  BY DEF Planned
<1>. QED  BY <1>1, Zenon DEF IsSheet

LEMMA FullBudgetIs ==
    ASSUME NEW command
    PROVE  LET full == Guard(command)!FullBudget IN
           full \in Guards /\ full.sent = 0 /\ full.spent = 0 /\ full.reserved = 0
BY DEF Guard!FullBudget, Guards

LEMMA EmptySheet ==
    ASSUME Loadable(load.dataset), NEW command, NEW left
    PROVE  IsSheet(command, left, {}) /\ AreCalls({})
BY FS_EmptySet DEF IsSheet, AreCalls

LEMMA StartStep ==
    ASSUME IInv, NEW p \in Processes, Start(p)
    PROVE  IInv'
<1>1. PICK command \in load.commands :
          Put(p, NewRun(command),
              IF /\ command.kind # "selection" => Loadable(load.dataset)
                 /\ command.kind \in {"paid", "replay"} => load.dataset.frozen
              THEN "started" ELSE "refused")
  BY DEF Start
<1>2. PICK next \in {"started", "refused"} :
          /\ Put(p, NewRun(command), next)
          /\ next = "started" /\ command.kind # "selection" => Loadable(load.dataset)
  BY <1>1
<1>3. /\ pc[p] = "idle" /\ load' = load /\ rule' = rule /\ reports' = reports
      /\ bill' = bill /\ mishaps' = mishaps
  BY DEF Start
<1>4. next \in Points
  BY DEF Points
<1>5. NewRun(command) = RunOf(command, rule, Guard(command)!FullBudget, {}, 0, {}, {}, 0, "none")
  BY DEF NewRun, RunOf
<1>6. bill' = [bill EXCEPT ![p] = bill'[p]] /\ bill[p] = 0 /\ bill'[p] = 0
  BY <1>3 DEF IInv, TypeOK, Local, Funded
<1>7. /\ Moves(p, next) /\ pc'[p] = next
      /\ run'[p] = RunOf(command, rule, Guard(command)!FullBudget, {}, 0, {}, {}, 0, "none")
  BY <1>2, <1>3, <1>4, <1>5, <1>6, PutMoves
<1>8. /\ run'[p].command = command /\ run'[p].guard = Guard(command)!FullBudget
      /\ run'[p].left = {} /\ run'[p].turn = 0 /\ run'[p].calls = {}
      /\ run'[p].scores = {} /\ run'[p].stop = "none"
      /\ IsRun(run[p])'
  BY <1>3, <1>7, FullBudgetIs, RunNext DEF IInv, TypeOK
<1>9. command.requests \in Nat /\ command.cost \in Nat
  BY LoadIsLoad DEF IsLoad
<1>10. Placed(p)'
  BY <1>7, <1>8, FullBudgetIs DEF Placed, Guard!FullBudget
<1>11. Funded(p)'
  BY <1>6, <1>7, <1>8, <1>9, FullBudgetIs DEF Funded
<1>12. Cleared(p)'
  BY <1>7 DEF Cleared, Going
<1>13. Asked(p)'
  BY <1>2, <1>3, <1>7, <1>8 DEF Asked, Going
<1>. QED  BY <1>3, <1>6, <1>7, <1>10, <1>11, <1>12, <1>13, QuietMoves DEF Local, IInv, TypeOK

LEMMA StartedIs ==
    ASSUME IInv, NEW p \in Processes, pc[p] = "started"
    PROVE  /\ IsRun(run[p]) /\ run[p].command \in load.commands
           /\ run[p].guard = Guard(run[p].command)!FullBudget /\ run[p].turn = 0 /\ bill[p] = 0
           /\ run[p].scores = {} /\ run[p].calls = {} /\ run[p].stop = "none"
           /\ run[p].command.requests \in Nat /\ run[p].command.cost \in Nat
           /\ run[p].command.kind # "selection" => Loadable(load.dataset)
<1>1. Local(p)
  BY DEF IInv
<1>2. IsRun(run[p])
  BY <1>1 DEF Local, Placed
<1>. QED  BY <1>1, <1>2, LoadIsLoad DEF Local, Placed, Funded, Asked, IsRun, IsLoad

\* An accepted approval is what lets a paid run send.
LEMMA ApprovalAllows ==
    ASSUME IInv, NEW r, r.command.kind = "paid", r.rule = rule,
           r.command.approval \in load.approvals, Approves(r.command.approval, r.command)
    PROVE  Allowed(r)
<1>. DEFINE a == r.command.approval
<1>1. a.approved /\ a.stage \in DOMAIN StageSplit
  BY LoadIsLoad DEF Approves, IsLoad
<1>2. StageSplit[a.stage] = "heldout" => a.stage = "decision"
  BY <1>1 DEF StageSplit
<1>. QED  BY <1>1, <1>2 DEF Approves, RunsApprovedCode, Allowed

LEMMA CheckStep ==
    ASSUME IInv, NEW p \in Processes, Check(p)
    PROVE  IInv'
<1>. DEFINE r == run[p]
            command == r.command
<1>1. /\ pc[p] = "started" /\ command.kind \in {"paid", "selection"}
      /\ load' = load /\ rule' = rule /\ reports' = reports
      /\ bill' = bill /\ mishaps' = mishaps
  BY DEF Check
<1>2. PICK left, used, next :
          /\ Put(p, RunOf(command, used, r.guard, left, 0, {}, {}, r.failures, "none"), next)
          /\ next \in {"checked", "refused"}
          /\ next = "checked" => Allowed([command |-> command, rule |-> used])
          /\ command.kind = "paid" => left = Planned(command)
          /\ used \in Rules
  <2>1. IsRun(r) /\ r.turn = 0 /\ r.scores = {} /\ r.calls = {} /\ r.stop = "none"
    BY <1>1, StartedIs
  <2>2. CASE command.kind = "selection"
    <3>. DEFINE left == Sampled(command)
    <3>1. PICK next \in {"checked", "refused"} :
              /\ Put(p, [r EXCEPT !.left = left], next)
              /\ next = "checked" => SelectionAccepted(command)
      BY <2>2 DEF Check
    <3>. HIDE DEF left
    <3>2. [r EXCEPT !.left = left] = RunOf(command, r.rule, r.guard, left, r.turn, r.calls,
                                           r.scores, r.failures, r.stop)
      BY <2>1, RunIsSampled
    <3>3. r.rule \in Rules
      BY <2>1 DEF IsRun
    <3>. QED  BY <2>1, <2>2, <3>1, <3>2, <3>3 DEF SelectionAccepted, Allowed
  <2>3. CASE command.kind = "paid"
    <3>. DEFINE left == Planned(command)
    <3>1. PICK next \in {"checked", "refused"} :
              /\ Put(p, [r EXCEPT !.left = left, !.rule = rule], next)
              /\ next = "checked" => /\ command.approval \in load.approvals
                                     /\ Approves(command.approval, command)
      BY <1>1, <2>3 DEF Check
    <3>2. next = "checked" => Allowed([command |-> command, rule |-> rule])
      BY <2>3, <3>1, ApprovalAllows
    <3>. HIDE DEF left
    <3>3. [r EXCEPT !.left = left, !.rule = rule]
              = RunOf(command, rule, r.guard, left, r.turn, r.calls, r.scores, r.failures, r.stop)
      BY <2>1, RunIsChecked, Zenon
    <3>4. rule \in Rules
      BY DEF IInv, TypeOK
    <3>5. Put(p, RunOf(command, rule, r.guard, left, 0, {}, {}, r.failures, "none"), next)
      BY <2>1, <3>1, <3>3
    <3>. QED  BY <3>1, <3>2, <3>4, <3>5 DEF left
  <2>. QED  BY <1>1, <2>2, <2>3
<1>3. next \in Points
  BY <1>2 DEF Points
<1>4. bill' = [bill EXCEPT ![p] = bill'[p]] /\ bill'[p] = 0
  BY <1>1, StartedIs DEF IInv, TypeOK
<1>5. /\ Moves(p, next) /\ pc'[p] = next
      /\ run'[p] = RunOf(command, used, r.guard, left, 0, {}, {}, r.failures, "none")
  BY <1>1, <1>2, <1>3, <1>4, PutMoves
<1>6. /\ run'[p].command = command /\ run'[p].guard = r.guard /\ run'[p].left = left
      /\ run'[p].turn = 0 /\ run'[p].calls = {} /\ run'[p].scores = {} /\ run'[p].stop = "none"
      /\ run'[p].rule = used /\ IsRun(run[p])'
  <2>1. command \in load.commands /\ r.guard \in Guards /\ used \in Rules /\ 0 \in Nat
    BY <1>1, <1>2, StartedIs, FullBudgetIs
  <2>. HIDE DEF command
  <2>. QED  BY <1>1, <1>5, <2>1, RunNext
<1>7. Placed(p)'
  BY <1>1, <1>2, <1>5, <1>6, StartedIs, FullBudgetIs DEF Placed, Guard!FullBudget
<1>8. Funded(p)'
  BY <1>1, <1>2, <1>4, <1>5, <1>6, StartedIs, FullBudgetIs DEF Funded
<1>9. Cleared(p)'
  BY <1>1, <1>2, <1>5, <1>6 DEF Cleared, Going, Allowed
<1>10. Asked(p)'
  <2>1. Planned(run[p].command)' = Planned(command)
    BY <1>1, <1>6 DEF Planned
  <2>2. command.kind = "paid" => IsSheet(run[p].command, run[p].left, run[p].scores)'
    BY <1>1, <1>6, StartedIs, FS_EmptySet DEF IsSheet
  <2>3. AreCalls({})
    BY FS_EmptySet DEF AreCalls
  <2>. QED  BY <1>1, <1>2, <1>5, <1>6, <2>1, <2>2, <2>3, StartedIs DEF Asked, Going, NotStopped
<1>. QED  BY <1>1, <1>4, <1>5, <1>7, <1>8, <1>9, <1>10, QuietMoves DEF Local, IInv, TypeOK

LEMMA CheckedIs ==
    ASSUME IInv, NEW p \in Processes, pc[p] = "checked"
    PROVE  run[p].guard = Guard(run[p].command)!FullBudget /\ bill[p] = 0 /\ run[p].turn = 0
BY DEF IInv, Local, Placed, Funded

LEMMA PreflightStep ==
    ASSUME IInv, NEW p \in Processes, Preflight(p)
    PROVE  IInv'
<1>. DEFINE r == run[p]
<1>1. /\ pc[p] = "checked" /\ load' = load /\ rule' = rule /\ reports' = reports
      /\ bill' = bill /\ mishaps' = mishaps
  BY DEF Preflight
<1>2. PICK next \in {"refused", "reporting", "asking"} :
          Put(p, run[p], next) /\ (next = "asking" => r.left # {})
  BY DEF Preflight
<1>3. next \in Points /\ pc[p] \in Going
  BY <1>1 DEF Points, Going
<1>4. bill' = [bill EXCEPT ![p] = bill'[p]] /\ bill'[p] = 0
  BY <1>1, CheckedIs DEF IInv, TypeOK
<1>5. Moves(p, next) /\ pc'[p] = next /\ run'[p] = run[p]
  BY <1>1, <1>2, <1>3, <1>4, PutMoves
<1>6. Placed(p)'
  BY <1>1, <1>2, <1>3, <1>5, Going1, CheckedIs, FullBudgetIs DEF Placed, IsRun
<1>7. Funded(p)'
  BY <1>1, <1>2, <1>3, <1>4, <1>5, Going1, CheckedIs, FullBudgetIs DEF Funded
<1>8. Cleared(p)'
  BY <1>1, <1>2, <1>3, <1>5, Going1 DEF Cleared, Allowed, Going
<1>9. Asked(p)'
  BY <1>1, <1>2, <1>3, <1>5, Going1, SheetStays DEF Asked, Going
<1>. QED  BY <1>1, <1>4, <1>5, <1>6, <1>7, <1>8, <1>9, QuietMoves DEF Local, IInv, TypeOK

(***************************************************************************)
(* Asking                                                                  *)
(***************************************************************************)

LEMMA AskingIs ==
    ASSUME IInv, NEW p \in Processes, pc[p] \in {"asking", "waiting"}
    PROVE  LET g == run[p].guard IN
           /\ pc[p] \in Going /\ bill[p] \in Nat /\ Worst(p) \in Nat /\ Worst(p) >= 1 + OutputPrice
           /\ IsRun(run[p]) /\ g \in Guards
           /\ g.sent \in Nat /\ g.spent \in Nat /\ g.reserved \in Nat /\ g.atWorst \in Nat
           /\ bill[p] <= g.spent
           /\ g.sent <= run[p].command.requests /\ g.spent + g.reserved <= run[p].command.cost
           /\ run[p].command.requests \in Nat /\ run[p].command.cost \in Nat
           /\ pc[p] = "asking" => g.reserved = 0
           /\ pc[p] = "waiting" => g.reserved = Worst(p) /\ g.sent > 0
<1>1. pc[p] \in Going /\ pc[p] \notin {"idle", "refused"}
  BY DEF Going
<1>. QED  BY <1>1, Going1, GuardTypes, WorstType DEF Funded

LEMMA AdmitIs ==
    ASSUME NEW command, NEW g \in Guards, NEW worst \in Nat
    PROVE  LET h == Guard(command)!Admit(g, worst) IN
           /\ h \in Guards /\ h.sent = g.sent + 1 /\ h.spent = g.spent
           /\ h.reserved = g.reserved + worst
<1>. DEFINE sent == g.sent + 1
            reserved == g.reserved + worst
            h == Guard(command)!Admit(g, worst)
<1>1. sent \in Nat /\ reserved \in Nat
  BY GuardTypes
<1>2. h = [g EXCEPT !.sent = sent, !.reserved = reserved]
  BY Zenon DEF Guard!Admit
<1>. HIDE DEF sent, reserved, h
<1>3. h \in Guards /\ h.sent = sent /\ h.spent = g.spent /\ h.reserved = reserved
  BY <1>1, <1>2 DEF Guards
<1>. QED  BY <1>3 DEF sent, reserved, h

LEMMA ChargeIs ==
    ASSUME IInv, NEW p \in Processes, pc[p] = "waiting", NEW reported \in BOOLEAN, NEW cost \in Nat
    PROVE  LET h == Charged(p, reported, cost) IN
           /\ h \in Guards /\ h.sent = run[p].guard.sent /\ h.reserved = 0
           /\ h.spent = run[p].guard.spent + (IF reported THEN cost ELSE Worst(p))
<1>. DEFINE g == run[p].guard
            rest == Guard(run[p].command)!Unreserved(g.reserved, Worst(p))
            spent == g.spent + (IF reported THEN cost ELSE Worst(p))
            atWorst == g.atWorst + (IF reported THEN 0 ELSE 1)
            h == Charged(p, reported, cost)
<1>1. /\ g \in Guards /\ g.spent \in Nat /\ g.atWorst \in Nat /\ Worst(p) \in Nat
      /\ g.reserved = Worst(p)
  BY AskingIs
<1>2. rest = 0
  BY <1>1 DEF Guard!Unreserved
<1>3. spent \in Nat /\ atWorst \in Nat
  BY <1>1
<1>4. h = [g EXCEPT !.reserved = rest, !.spent = spent, !.atWorst = atWorst]
  BY Zenon DEF Charged, Guard!Charge
<1>. HIDE DEF rest, spent, atWorst, h
<1>5. h \in Guards /\ h.sent = g.sent /\ h.reserved = 0 /\ h.spent = spent
  BY <1>1, <1>2, <1>3, <1>4 DEF Guards
<1>. QED  BY <1>5 DEF spent, h

LEMMA ReleaseIs ==
    ASSUME IInv, NEW p \in Processes, pc[p] = "waiting"
    PROVE  LET h == Guard(run[p].command)!Release(run[p].guard, Worst(p)) IN
           /\ h \in Guards /\ h.sent = run[p].guard.sent - 1 /\ h.reserved = 0
           /\ h.spent = run[p].guard.spent
<1>. DEFINE g == run[p].guard
            rest == Guard(run[p].command)!Unreserved(g.reserved, Worst(p))
            sent == g.sent - 1
            h == Guard(run[p].command)!Release(g, Worst(p))
<1>1. g \in Guards /\ sent \in Nat /\ Worst(p) \in Nat /\ g.reserved = Worst(p)
  BY AskingIs
<1>2. rest = 0
  BY <1>1 DEF Guard!Unreserved
<1>3. h = [g EXCEPT !.sent = sent, !.reserved = rest]
  BY Zenon DEF Guard!Release
<1>. HIDE DEF rest, sent, h
<1>4. h \in Guards /\ h.sent = sent /\ h.reserved = 0 /\ h.spent = g.spent
  BY <1>1, <1>2, <1>3 DEF Guards
<1>. QED  BY <1>4 DEF sent, h

\* The guard of a run changes, and no question ends.
LEMMA Sends ==
    ASSUME IInv, NEW p \in Processes, pc[p] = "asking", load' = load, bill' = bill,
           Guard(run[p].command)!Admissible(run[p].guard, Worst(p)),
           Put(p, [run[p] EXCEPT !.guard = Guard(run[p].command)!Admit(@, Worst(p))], "waiting")
    PROVE  Moves(p, "waiting") /\ Local(p)'
<1>. DEFINE r == run[p]
            h == Guard(r.command)!Admit(r.guard, Worst(p))
<1>1. IsRun(r) /\ pc[p] \in Going
  BY AskingIs
<1>2. /\ h \in Guards /\ h.sent = r.guard.sent + 1 /\ h.spent = r.guard.spent
      /\ h.reserved = r.guard.reserved + Worst(p)
  BY AskingIs, AdmitIs
<1>3. r.guard.sent < r.command.requests
      /\ r.guard.spent + r.guard.reserved + Worst(p) <= r.command.cost
  BY DEF Guard!Admissible
<1>. HIDE DEF h
<1>4. [r EXCEPT !.guard = h]
        = RunOf(r.command, r.rule, h, r.left, r.turn, r.calls, r.scores, r.failures, r.stop)
  BY <1>1, RunSends
<1>5. bill' = [bill EXCEPT ![p] = bill'[p]] /\ bill'[p] = bill[p]
  BY DEF IInv, TypeOK
<1>6. /\ Moves(p, "waiting") /\ pc'[p] = "waiting"
      /\ run'[p]
            = RunOf(r.command, r.rule, h, r.left, r.turn, r.calls, r.scores, r.failures, r.stop)
  BY <1>4, <1>5, PutMoves DEF Points, h
<1>7. /\ run'[p].command = r.command /\ run'[p].rule = r.rule /\ run'[p].guard = h
      /\ run'[p].left = r.left /\ run'[p].turn = r.turn /\ run'[p].calls = r.calls
      /\ run'[p].scores = r.scores /\ run'[p].stop = r.stop /\ IsRun(run[p])'
  <2>1. r.command \in load.commands /\ r.rule \in Rules /\ r.turn \in Nat /\ h \in Guards
    BY <1>1, <1>2, Going1
  <2>2. run'[p]
            = RunOf(r.command, r.rule, h, r.left, r.turn, r.calls, r.scores, r.failures, r.stop)
    BY <1>6
  <2>3. /\ run'[p].command = r.command /\ run'[p].rule = r.rule /\ run'[p].guard = h
        /\ run'[p].left = r.left /\ run'[p].turn = r.turn /\ run'[p].calls = r.calls
        /\ run'[p].scores = r.scores /\ run'[p].stop = r.stop
    BY <2>2, RunFields
  <2>4. run'[p] = RunOf(run'[p].command, run'[p].rule, run'[p].guard, run'[p].left,
                        run'[p].turn, run'[p].calls, run'[p].scores, run'[p].failures,
                        run'[p].stop)
    BY <2>2, RunFields
  <2>5. run'[p].command \in load'.commands /\ run'[p].rule \in Rules
        /\ run'[p].guard \in Guards /\ run'[p].turn \in Nat
    BY <2>1, <2>3
  <2>. QED  BY <2>3, <2>4, <2>5 DEF IsRun
<1>8. Worst(p)' = Worst(p)
  BY <1>7 DEF Worst, Guard!WorstCase
<1>9. Placed(p)'
  BY <1>6, <1>7 DEF Placed
<1>10. Funded(p)'
  BY <1>2, <1>3, <1>5, <1>6, <1>7, <1>8, AskingIs DEF Funded
<1>11. Cleared(p)'
  BY <1>1, <1>6, <1>7, Going1 DEF Cleared, Allowed
<1>12. Asked(p)'
  BY <1>1, <1>6, <1>7, Going1, SheetStays DEF Asked, Going
<1>. QED  BY <1>6, <1>9, <1>10, <1>11, <1>12 DEF Local

LEMMA EndedIs ==
    ASSUME NEW stop, NEW error, NEW turns, NEW calls, NEW shown
    PROVE  LET e == Ended(stop, error, turns, calls, shown) IN
           e.stop = stop /\ e.error = error /\ e.turns = turns /\ e.calls = calls
           /\ e.shown = shown /\ e.faults = {} /\ e.slow = FALSE
BY DEF Ended

LEMMA AskStep ==
    ASSUME IInv, NEW p \in Processes, Ask(p)
    PROVE  IInv'
<1>. DEFINE r == run[p]
            result == Ended("budget_exhausted", "budget_exhausted", r.turn, r.calls, {})
<1>1. /\ pc[p] = "asking" /\ r.command.kind = "paid" /\ load' = load /\ rule' = rule
      /\ reports' = reports /\ bill' = bill /\ mishaps' = mishaps
  BY DEF Ask
<1>2. bill' = [bill EXCEPT ![p] = bill'[p]] /\ bill'[p] = bill[p] /\ bill'[p] \in Nat
  BY <1>1 DEF IInv, TypeOK
<1>3. CASE Guard(r.command)!Admissible(r.guard, Worst(p))
  <2>1. Put(p, [r EXCEPT !.guard = Guard(r.command)!Admit(@, Worst(p))], "waiting")
    BY <1>3, Zenon DEF Ask
  <2>. QED  BY <1>1, <1>2, <1>3, <2>1, Sends, QuietMoves DEF IInv, TypeOK
<1>4. CASE ~ Guard(r.command)!Admissible(r.guard, Worst(p))
  <2>1. Conclude(p, r.guard, result)
    BY <1>4, Zenon DEF Ask
  <2>2. AreCalls(r.calls)
    BY <1>1, AskingIs, Going1 DEF Asked
  <2>3. result.stop = "budget_exhausted" /\ AreCalls(result.calls)
    BY <2>2 DEF Ended
  <2>. HIDE DEF result
  <2>4. \E next : Moves(p, next) /\ Local(p)'
    BY <1>1, <1>2, <2>1, <2>3, AskingIs, ConcludeMoves
  <2>. QED  BY <1>1, <1>2, <2>4, QuietMoves DEF IInv, TypeOK
<1>. QED  BY <1>3, <1>4

(***************************************************************************)
(* Replies                                                                 *)
(***************************************************************************)

LEMMA CostIs ==
    ASSUME IInv, NEW p \in Processes, pc[p] = "waiting", NEW cost \in load.costs \union {Worst(p)}
    PROVE  cost \in Nat /\ cost <= Worst(p)
<1>1. Worst(p) \in Nat /\ Worst(p) >= 1 + OutputPrice /\ OutputPrice \in Nat
  BY AskingIs, CampaignAssumption
<1>2. load.costs \subseteq 0..(1 + OutputPrice)
  BY LoadIsLoad DEF IsLoad
<1>. QED  BY <1>1, <1>2

LEMMA BillIs ==
    ASSUME IInv, NEW p \in Processes, NEW cost \in Nat, Billed(p, cost)
    PROVE  /\ bill' = [bill EXCEPT ![p] = bill'[p]]
           /\ bill'[p] = bill[p] + cost /\ bill'[p] \in Nat
BY DEF IInv, TypeOK, Billed

\* A reply ends the question.
LEMMA Settles ==
    ASSUME IInv, NEW p \in Processes, pc[p] = "waiting", run[p].command.kind = "paid",
           NEW reported \in BOOLEAN, NEW cost \in load.costs \union {Worst(p)}, NEW result,
           Conclude(p, Charged(p, reported, cost), result), Billed(p, cost), load' = load,
           result.stop # "budget_exhausted" => Attempted(result), AreCalls(result.calls)
    PROVE  /\ \E next : Moves(p, next) /\ Local(p)'
           /\ bill'[p] \in Nat
<1>. DEFINE g == Charged(p, reported, cost)
<1>1. cost \in Nat /\ cost <= Worst(p)
  BY CostIs
<1>2. /\ g \in Guards /\ g.sent = run[p].guard.sent /\ g.reserved = 0
      /\ g.spent = run[p].guard.spent + (IF reported THEN cost ELSE Worst(p))
  BY <1>1, ChargeIs
<1>3. /\ bill' = [bill EXCEPT ![p] = bill'[p]]
      /\ bill'[p] = bill[p] + cost /\ bill'[p] \in Nat
  BY <1>1, BillIs
<1>. HIDE DEF g
<1>4. /\ bill'[p] <= g.spent /\ g.spent <= run[p].command.cost
      /\ g.sent <= run[p].command.requests
  BY <1>1, <1>2, <1>3, AskingIs
<1>5. Conclude(p, g, result)
  BY DEF g
<1>. QED  BY <1>2, <1>3, <1>4, <1>5, ConcludeMoves

LEMMA WaitingIs ==
    ASSUME IInv, NEW p \in Processes, Waiting(p)
    PROVE  /\ pc[p] = "waiting" /\ pc[p] \in {"asking", "waiting"} /\ pc[p] \in Going
           /\ run[p].command.kind = "paid"
           /\ AreCalls(run[p].calls) /\ run[p].turn \in Nat
           /\ run[p].left # {} /\ run[p].left \subseteq Planned(run[p].command)
<1>1. pc[p] = "waiting" /\ pc[p] \in Going /\ run[p].command.kind = "paid"
  BY DEF Waiting, Going
<1>. QED  BY <1>1, Going1 DEF Asked

\* The values of a finite function, each at least at one argument.
LEMMA ImageIsFinite ==
    ASSUME NEW S, IsFiniteSet(S), NEW f, DOMAIN f = S, f = [x \in S |-> f[x]]
    PROVE  /\ IsFiniteSet({f[x] : x \in S})
           /\ Cardinality({f[x] : x \in S}) <= Cardinality(S)
<1>. DEFINE T == {f[x] : x \in S}
<1>1. f \in Surjection(S, T)
  BY DEF Surjection
<1>. QED  BY <1>1, FS_Surjection

LEMMA CallsAreCalls ==
    ASSUME NEW tools, IsFiniteSet(tools), tools \subseteq Tools \union {Unregistered}, NEW turn
    PROVE  AreCalls(CallsTo(tools, turn))
<1>. DEFINE call(t) == [tool |-> t, turn |-> turn,
                        status |-> IF t = Unregistered THEN "rejected" ELSE "ok"]
            f == [t \in tools |-> call(t)]
<1>1. IsFiniteSet({f[t] : t \in tools})
  BY ImageIsFinite
<1>2. {f[t] : t \in tools} = CallsTo(tools, turn)
  BY DEF CallsTo
<1>3. \A t : call(t).tool = t
  OBVIOUS
<1>4. \A c \in CallsTo(tools, turn) : c.tool \in tools
  BY <1>3 DEF CallsTo
<1>. QED  BY <1>1, <1>2, <1>4 DEF AreCalls

LEMMA RepeatsAreCalls ==
    ASSUME NEW tools, IsFiniteSet(tools), tools \subseteq Tools \union {Unregistered}, NEW turn
    PROVE  AreCalls(Repeats(tools, turn))
<1>. DEFINE call(t) == [tool |-> t, turn |-> turn, status |-> "rejected", again |-> TRUE]
            f == [t \in tools |-> call(t)]
<1>1. IsFiniteSet({f[t] : t \in tools})
  BY ImageIsFinite
<1>2. {f[t] : t \in tools} = Repeats(tools, turn)
  BY DEF Repeats
<1>3. \A c \in Repeats(tools, turn) : c.tool \in tools
  BY DEF Repeats
<1>. QED  BY <1>1, <1>2, <1>3 DEF AreCalls

LEMMA MoreCalls ==
    ASSUME NEW calls, NEW more, AreCalls(calls), AreCalls(more)
    PROVE  AreCalls(calls \union more)
BY FS_Union DEF AreCalls

LEMMA RetrieveStep ==
    ASSUME IInv, NEW p \in Processes, Retrieve(p)
    PROVE  IInv'
<1>. DEFINE r == run[p]
            turn == r.turn + 1
<1>1. /\ Waiting(p) /\ load' = load /\ rule' = rule /\ reports' = reports /\ mishaps' = mishaps
  BY DEF Retrieve
<1>2. PICK batch \in load.calls, cost \in load.costs :
          LET guard == Charged(p, TRUE, cost)
              calls == r.calls \union CallsTo(batch.tools, turn) \union Repeats(batch.again, turn) IN
          /\ Billed(p, cost)
          /\ IF Cardinality(calls) > MaxToolCalls
             THEN Conclude(p, guard, Ended("tool_budget_exhausted", "none", turn, r.calls, {}))
             ELSE IF turn = MaxTurns
             THEN Conclude(p, guard, Ended("turn_budget_exhausted", "none", turn, r.calls, {}))
             ELSE Put(p, [r EXCEPT !.guard = guard, !.turn = turn, !.calls = calls], "asking")
  BY DEF Retrieve
<1>. DEFINE guard == Charged(p, TRUE, cost)
            calls == r.calls \union CallsTo(batch.tools, turn) \union Repeats(batch.again, turn)
<1>3. /\ pc[p] = "waiting" /\ pc[p] \in Going /\ r.command.kind = "paid" /\ AreCalls(r.calls)
      /\ turn \in Nat /\ turn > 0
  BY <1>1, WaitingIs
<1>4. cost \in Nat /\ cost <= Worst(p) /\ cost \in load.costs \union {Worst(p)}
  BY <1>3, CostIs
<1>5. AreCalls(calls)
  <2>1. /\ IsFiniteSet(batch.tools) /\ batch.tools \subseteq Tools \union {Unregistered}
        /\ batch.again \subseteq batch.tools
    BY LoadIsLoad DEF IsLoad
  <2>2. IsFiniteSet(batch.again) /\ batch.again \subseteq Tools \union {Unregistered}
    BY <2>1, FS_Subset
  <2>3. AreCalls(CallsTo(batch.tools, turn)) /\ AreCalls(Repeats(batch.again, turn))
    BY <2>1, <2>2, CallsAreCalls, RepeatsAreCalls
  <2>. QED  BY <1>3, <2>3, MoreCalls
<1>6. ASSUME NEW stop \in {"tool_budget_exhausted", "turn_budget_exhausted"},
             Conclude(p, guard, Ended(stop, "none", turn, r.calls, {}))
      PROVE  \E next : Moves(p, next) /\ Local(p)'
  <2>. DEFINE result == Ended(stop, "none", turn, r.calls, {})
  <2>1. Attempted(result) /\ AreCalls(result.calls)
    BY <1>3 DEF Ended, Attempted
  <2>. HIDE DEF result
  <2>2. Conclude(p, Charged(p, TRUE, cost), result)
    BY <1>6, Zenon DEF result
  <2>. QED  BY <1>1, <1>2, <1>3, <1>4, <2>1, <2>2, Settles
<1>7. /\ bill' = [bill EXCEPT ![p] = bill'[p]]
      /\ bill'[p] = bill[p] + cost /\ bill'[p] \in Nat
  BY <1>2, <1>4, BillIs
<1>8. ASSUME Put(p, [r EXCEPT !.guard = guard, !.turn = turn, !.calls = calls], "asking")
      PROVE  Moves(p, "asking") /\ Local(p)'
  <2>1. IsRun(r) /\ r.command \in load.commands /\ r.rule \in Rules /\ turn \in Nat
    BY <1>3, Going1
  <2>2. /\ guard \in Guards /\ guard.sent = r.guard.sent /\ guard.reserved = 0
        /\ guard.spent = r.guard.spent + cost
    BY <1>3, <1>4, ChargeIs
  <2>. HIDE DEF guard, calls, turn
  <2>3. [r EXCEPT !.guard = guard, !.turn = turn, !.calls = calls]
          = RunOf(r.command, r.rule, guard, r.left, turn, calls, r.scores, r.failures, r.stop)
    BY <2>1, RunRetrieves, Zenon
  <2>4. /\ Moves(p, "asking") /\ pc'[p] = "asking"
        /\ run'[p]
              = RunOf(r.command, r.rule, guard, r.left, turn, calls, r.scores, r.failures, r.stop)
    BY <1>1, <1>7, <1>8, <2>3, PutMoves DEF Points
  <2>5. /\ run'[p].command = r.command /\ run'[p].rule = r.rule /\ run'[p].guard = guard
        /\ run'[p].left = r.left /\ run'[p].turn = turn /\ run'[p].calls = calls
        /\ run'[p].scores = r.scores /\ run'[p].stop = r.stop
    BY <2>4, RunFields
  <2>6. IsRun(run[p])'
    <3>1. run'[p] = RunOf(run'[p].command, run'[p].rule, run'[p].guard, run'[p].left,
                          run'[p].turn, run'[p].calls, run'[p].scores, run'[p].failures,
                          run'[p].stop)
      BY <2>4, RunFields
    <3>2. run'[p].command \in load'.commands /\ run'[p].rule \in Rules
          /\ run'[p].guard \in Guards /\ run'[p].turn \in Nat
      BY <1>1, <2>1, <2>2, <2>5
    <3>. QED  BY <3>1, <3>2 DEF IsRun
  <2>7. Placed(p)'
    BY <2>4, <2>6 DEF Placed
  <2>8. Funded(p)'
    BY <1>3, <1>4, <1>7, <2>2, <2>4, <2>5, AskingIs DEF Funded
  <2>9. Cleared(p)'
    BY <1>1, <1>3, <2>4, <2>5, Going1 DEF Cleared, Allowed
  <2>10. Asked(p)'
    <3>1. Planned(run[p].command)' = Planned(r.command)
      BY <1>1, <2>5 DEF Planned
    <3>2. IsSheet(r.command, r.left, r.scores) /\ Loadable(load.dataset)
      BY <1>3, Going1 DEF Asked, IsSheet
    <3>3. IsSheet(run[p].command, run[p].left, run[p].scores)'
      BY <1>1, <2>5, <3>1, <3>2 DEF IsSheet
    <3>. QED  BY <1>1, <1>3, <1>5, <2>4, <2>5, <3>1, <3>2, <3>3, Going1 DEF Asked, Going
  <2>. QED  BY <2>4, <2>7, <2>8, <2>9, <2>10 DEF Local
<1>9. \E next : Moves(p, next) /\ Local(p)'
  BY <1>2, <1>6, <1>8
<1>. QED  BY <1>1, <1>7, <1>9, QuietMoves DEF IInv, TypeOK
\* The result of a selection, as the harness finds it.
Selected(case, turns, calls, selected, faults, slow) ==
    [Selecting(case, turns, calls, selected) EXCEPT !.faults = faults, !.slow = slow]

LEMMA SelectedIs ==
    ASSUME NEW case, NEW turns, NEW calls, NEW selected, NEW faults, NEW slow
    PROVE  LET result == Selected(case, turns, calls, selected, faults, slow) IN
           result.stop # "budget_exhausted" /\ result.turns = turns /\ result.calls = calls
<1>. DEFINE e == Selecting(case, turns, calls, selected)
            result == Selected(case, turns, calls, selected, faults, slow)
<1>1. PICK stop, shown : e = Ended(stop, "none", turns, calls, shown) /\ stop # "budget_exhausted"
  <2>1. CASE ~(selected \subseteq Retrieved(case, calls))
    BY <2>1 DEF Selecting
  <2>2. CASE selected \subseteq Retrieved(case, calls) /\ selected \intersect case.asks = {}
    BY <2>2 DEF Selecting
  <2>3. CASE selected \subseteq Retrieved(case, calls) /\ selected \intersect case.asks # {}
    BY <2>3 DEF Selecting
  <2>. QED  BY <2>1, <2>2, <2>3
<1>2. result = [e EXCEPT !.faults = faults, !.slow = slow]
  BY DEF Selected
<1>. HIDE DEF e, result
<1>3. result.stop = stop /\ result.turns = turns /\ result.calls = calls
  BY <1>1, <1>2 DEF Ended
<1>. QED  BY <1>1, <1>3 DEF result

LEMMA SelectStep ==
    ASSUME IInv, NEW p \in Processes, Select(p)
    PROVE  IInv'
<1>. DEFINE r == run[p]
<1>1. /\ Waiting(p) /\ load' = load /\ rule' = rule /\ reports' = reports /\ mishaps' = mishaps
  BY DEF Select
<1>2. PICK selected \in load.selections, cost \in load.costs, faults \in load.faults,
          slow \in load.slow :
          /\ Billed(p, cost)
          /\ Conclude(p, Charged(p, TRUE, cost),
                      [Selecting(NextOf(r.left), r.turn + 1, r.calls, selected)
                          EXCEPT !.faults = faults, !.slow = slow])
  BY Zenon DEF Select
<1>. DEFINE result == Selected(NextOf(r.left), r.turn + 1, r.calls, selected, faults, slow)
<1>3. /\ pc[p] = "waiting" /\ r.command.kind = "paid" /\ AreCalls(r.calls) /\ r.turn \in Nat
  BY <1>1, WaitingIs
<1>4. result.turns = r.turn + 1 /\ result.calls = r.calls
  BY SelectedIs
<1>. HIDE DEF result
<1>5. Attempted(result) /\ AreCalls(result.calls)
  BY <1>3, <1>4 DEF Attempted
<1>6. Conclude(p, Charged(p, TRUE, cost), result)
  BY <1>2, Zenon DEF result, Selected
<1>7. cost \in load.costs \union {Worst(p)} /\ cost \in Nat
  BY <1>3, CostIs
<1>8. (\E next : Moves(p, next) /\ Local(p)') /\ bill'[p] \in Nat
  BY <1>1, <1>2, <1>3, <1>5, <1>6, <1>7, Settles
<1>. QED  BY <1>1, <1>8, QuietMoves DEF IInv, TypeOK

LEMMA FailStep ==
    ASSUME IInv, NEW p \in Processes, Fail(p)
    PROVE  IInv'
<1>. DEFINE r == run[p]
<1>1. /\ Waiting(p) /\ load' = load /\ rule' = rule /\ reports' = reports /\ mishaps' = mishaps
  BY DEF Fail
<1>2. /\ pc[p] = "waiting" /\ pc[p] \in {"asking", "waiting"} /\ r.command.kind = "paid"
      /\ AreCalls(r.calls) /\ r.turn \in Nat
  BY <1>1, WaitingIs
<1>3. ASSUME NEW error, NEW turns
      PROVE  LET result == Ended(StopOf(error), error, turns, r.calls, {}) IN
             Attempted(result) /\ AreCalls(result.calls)
  <2>1. StopOf(error) \in ProviderStops \union AgentStops
    BY DEF StopOf, ProviderStops, AgentStops
  <2>. QED  BY <1>2, <2>1 DEF Ended, Attempted
<1>4. PICK error \in load.failures :
          IF error = "not_configured"
          THEN /\ Conclude(p, Guard(r.command)!Release(r.guard, Worst(p)),
                           Ended(StopOf(error), error, r.turn, r.calls, {}))
               /\ bill' = bill
          ELSE \E cost \in load.costs \union {Worst(p)} :
                  /\ Billed(p, cost)
                  /\ Conclude(p, Charged(p, error \notin Unreported, cost),
                              Ended(StopOf(error), error, r.turn + 1, r.calls, {}))
  BY <1>1, Zenon DEF Fail
<1>5. CASE error = "not_configured"
  <2>. DEFINE guard == Guard(r.command)!Release(r.guard, Worst(p))
              result == Ended(StopOf(error), error, r.turn, r.calls, {})
  <2>1. Conclude(p, guard, result) /\ bill' = bill
    BY <1>4, <1>5, Zenon
  <2>2. Attempted(result) /\ AreCalls(result.calls)
    BY <1>3, Zenon
  <2>3. guard \in Guards /\ guard.sent = r.guard.sent - 1 /\ guard.reserved = 0
        /\ guard.spent = r.guard.spent
    BY <1>2, ReleaseIs
  <2>. HIDE DEF guard, result
  <2>4. bill' = [bill EXCEPT ![p] = bill'[p]] /\ bill'[p] = bill[p] /\ bill'[p] \in Nat
    BY <2>1 DEF IInv, TypeOK
  <2>5. /\ bill'[p] <= guard.spent /\ guard.sent <= r.command.requests
        /\ guard.spent <= r.command.cost
    BY <1>2, <2>3, <2>4, AskingIs
  <2>6. \E next : Moves(p, next) /\ Local(p)'
    BY <1>1, <1>2, <2>1, <2>2, <2>3, <2>4, <2>5, ConcludeMoves
  <2>. QED  BY <1>1, <2>4, <2>6, QuietMoves DEF IInv, TypeOK
<1>6. CASE error # "not_configured"
  <2>. DEFINE reported == error \notin Unreported
              result == Ended(StopOf(error), error, r.turn + 1, r.calls, {})
  <2>1. PICK cost \in load.costs \union {Worst(p)} :
            Billed(p, cost) /\ Conclude(p, Charged(p, reported, cost), result)
    BY <1>4, <1>6, Zenon
  <2>2. Attempted(result) /\ AreCalls(result.calls) /\ reported \in BOOLEAN
    BY <1>3, Zenon
  <2>. HIDE DEF reported, result
  <2>3. (\E next : Moves(p, next) /\ Local(p)') /\ bill'[p] \in Nat
    BY <1>1, <1>2, <2>1, <2>2, Settles
  <2>. QED  BY <1>1, <2>3, QuietMoves DEF IInv, TypeOK
<1>. QED  BY <1>5, <1>6

\* The run stops, and its report is to be written.
LEMMA Stops ==
    ASSUME IInv, NEW p \in Processes, pc[p] \in {"asking", "waiting"}, load' = load,
           bill' = [bill EXCEPT ![p] = bill'[p]], bill'[p] \in Nat,
           bill'[p] <= run[p].guard.spent + run[p].guard.reserved,
           NEW stop, stop # "none",
           Put(p, [run[p] EXCEPT !.stop = stop], "reporting")
    PROVE  Moves(p, "reporting") /\ Local(p)'
<1>. DEFINE r == run[p]
            q == RunOf(r.command, r.rule, r.guard, r.left, r.turn, r.calls, r.scores, r.failures,
                       stop)
<1>1. IsRun(r) /\ pc[p] \in Going /\ r.command \in load.commands /\ r.rule \in Rules
      /\ r.guard \in Guards /\ r.turn \in Nat
  BY AskingIs, Going1
<1>2. [r EXCEPT !.stop = stop] = q
  BY <1>1, RunStops
<1>3. Moves(p, "reporting") /\ pc'[p] = "reporting" /\ run'[p] = q
  <2>1. Put(p, q, "reporting")
    BY <1>2
  <2>. HIDE DEF q
  <2>. QED  BY <2>1, PutMoves DEF Points
<1>4. /\ run'[p].command = r.command /\ run'[p].rule = r.rule /\ run'[p].guard = r.guard
      /\ run'[p].left = r.left /\ run'[p].turn = r.turn /\ run'[p].calls = r.calls
      /\ run'[p].scores = r.scores /\ run'[p].stop = stop /\ run'[p].failures = r.failures
  BY <1>3, RunFields
<1>5. IsRun(run[p])'
  <2>1. run'[p] = RunOf(run'[p].command, run'[p].rule, run'[p].guard, run'[p].left,
                        run'[p].turn, run'[p].calls, run'[p].scores, run'[p].failures,
                        run'[p].stop)
    BY <1>3, <1>4
  <2>2. run'[p].command \in load'.commands /\ run'[p].rule \in Rules
        /\ run'[p].guard \in Guards /\ run'[p].turn \in Nat
    BY <1>1, <1>4
  <2>. QED  BY <2>1, <2>2 DEF IsRun
<1>. HIDE DEF q
<1>6. Placed(p)'
  BY <1>3, <1>5 DEF Placed
<1>7. Funded(p)'
  BY <1>3, <1>4, AskingIs DEF Funded
<1>8. Cleared(p)'
  BY <1>1, <1>3, <1>4, Going1, AllowedKept DEF Cleared
<1>9. Asked(p)'
  <2>1. Planned(run[p].command)' = Planned(r.command)
    BY <1>4 DEF Planned
  <2>2. Asked(p)
    BY <1>1, Going1
  <2>3. IsSheet(r.command, r.left, r.scores) => IsSheet(run[p].command, run[p].left, run[p].scores)'
    BY <1>4, <2>1 DEF IsSheet
  <2>4. Loadable(load.dataset) => Loadable(load.dataset)'
    OBVIOUS
  <2>. QED  BY <1>1, <1>3, <1>4, <2>1, <2>2, <2>3, <2>4 DEF Asked, Going
<1>. QED  BY <1>3, <1>6, <1>7, <1>8, <1>9 DEF Local

(***************************************************************************)
(* Selection runs                                                          *)
(***************************************************************************)

LEMMA SelectionAskStep ==
    ASSUME IInv, NEW p \in Processes, SelectionAsk(p)
    PROVE  IInv'
<1>. DEFINE r == run[p]
<1>1. /\ pc[p] = "asking" /\ r.command.kind = "selection" /\ load' = load /\ rule' = rule
      /\ reports' = reports /\ bill' = bill /\ mishaps' = mishaps
  BY DEF SelectionAsk
<1>2. bill' = [bill EXCEPT ![p] = bill'[p]] /\ bill'[p] = bill[p] /\ bill'[p] \in Nat
  BY <1>1 DEF IInv, TypeOK
<1>3. CASE Guard(r.command)!Admissible(r.guard, Worst(p))
  <2>1. Put(p, [r EXCEPT !.guard = Guard(r.command)!Admit(@, Worst(p))], "waiting")
    BY <1>3, Zenon DEF SelectionAsk
  <2>. QED  BY <1>1, <1>2, <1>3, <2>1, Sends, QuietMoves DEF IInv, TypeOK
<1>4. CASE ~ Guard(r.command)!Admissible(r.guard, Worst(p))
  <2>1. Put(p, [r EXCEPT !.stop = "budget_exhausted"], "reporting")
    BY <1>4, Zenon DEF SelectionAsk
  <2>2. bill'[p] <= r.guard.spent + r.guard.reserved
    BY <1>1, <1>2, AskingIs
  <2>3. Moves(p, "reporting") /\ Local(p)'
    BY <1>1, <1>2, <2>1, <2>2, Stops
  <2>. QED  BY <1>1, <1>2, <2>3, QuietMoves DEF IInv, TypeOK
<1>. QED  BY <1>3, <1>4

LEMMA SelectionReplyStep ==
    ASSUME IInv, NEW p \in Processes, SelectionReply(p)
    PROVE  IInv'
<1>. DEFINE r == run[p]
<1>1. /\ pc[p] = "waiting" /\ r.command.kind = "selection" /\ load' = load /\ rule' = rule
      /\ reports' = reports /\ mishaps' = mishaps
  BY DEF SelectionReply
<1>2. PICK cost \in load.costs \union {Worst(p)} : \E reported, paid, left, failures, stop, next :
          /\ reported \in BOOLEAN /\ paid \in {0, cost} /\ next \in {"reporting", "asking"}
          /\ Billed(p, paid)
          /\ Put(p, Replying(r, Charged(p, reported, cost), left, failures, stop), next)
  <2>. DEFINE question == CHOOSE q \in r.left : \A other \in r.left : q <= other
              left == r.left \ {question}
  <2>1. PICK error \in load.failures \union {"none"}, cost \in load.costs \union {Worst(p)} :
            LET failures == IF error = "none" THEN 0 ELSE r.failures + 1
                stop == IF error \in Fatal THEN "fatal_failure"
                        ELSE IF failures >= MaxFailures THEN "consecutive_failures" ELSE "none" IN
            /\ Billed(p, IF error = "not_configured" THEN 0 ELSE cost)
            /\ Put(p, [r EXCEPT !.guard = Charged(p, error \notin Unreported
                                                          \union {"not_configured"}, cost),
                                !.left = left, !.failures = failures, !.stop = stop],
                   IF stop # "none" \/ left = {} THEN "reporting" ELSE "asking")
    BY Zenon DEF SelectionReply
  <2>. DEFINE failures == IF error = "none" THEN 0 ELSE r.failures + 1
              stop == IF error \in Fatal THEN "fatal_failure"
                      ELSE IF failures >= MaxFailures THEN "consecutive_failures" ELSE "none"
              reported == error \notin Unreported \union {"not_configured"}
              paid == IF error = "not_configured" THEN 0 ELSE cost
              next == IF stop # "none" \/ left = {} THEN "reporting" ELSE "asking"
  <2>2. /\ Billed(p, paid)
        /\ Put(p, Replying(r, Charged(p, reported, cost), left, failures, stop), next)
    BY <2>1, Zenon DEF Replying
  <2>3. reported \in BOOLEAN /\ paid \in {0, cost} /\ next \in {"reporting", "asking"}
    BY Zenon
  <2>. HIDE DEF left, failures, stop, reported, paid, next
  <2>. QED  BY <2>2, <2>3, Zenon
<1>3. PICK reported, paid, left, failures, stop, next :
          /\ reported \in BOOLEAN /\ paid \in {0, cost} /\ next \in {"reporting", "asking"}
          /\ Billed(p, paid)
          /\ Put(p, Replying(r, Charged(p, reported, cost), left, failures, stop), next)
  BY <1>2
<1>. DEFINE guard == Charged(p, reported, cost)
<1>4. /\ IsRun(r) /\ r.command \in load.commands /\ r.rule \in Rules /\ r.turn \in Nat
      /\ Allowed(r) /\ pc[p] \in Going
  BY <1>1, Going1 DEF Going
<1>5. cost \in Nat /\ cost <= Worst(p) /\ paid \in Nat /\ paid <= cost
  BY <1>1, <1>3, CostIs
<1>6. /\ guard \in Guards /\ guard.sent = r.guard.sent /\ guard.reserved = 0
      /\ guard.spent = r.guard.spent + (IF reported THEN cost ELSE Worst(p))
  BY <1>1, <1>3, <1>5, ChargeIs
<1>7. /\ bill' = [bill EXCEPT ![p] = bill'[p]]
      /\ bill'[p] = bill[p] + paid /\ bill'[p] \in Nat
  BY <1>3, <1>5, BillIs
<1>. HIDE DEF guard
<1>8. Replying(r, guard, left, failures, stop)
        = RunOf(r.command, r.rule, guard, left, r.turn, r.calls, r.scores, failures, stop)
  BY <1>4, RunReplies
<1>9. /\ Moves(p, next) /\ pc'[p] = next
      /\ run'[p]
            = RunOf(r.command, r.rule, guard, left, r.turn, r.calls, r.scores, failures, stop)
  <2>1. next \in Points
    BY <1>3 DEF Points
  <2>2. Put(p, Replying(r, guard, left, failures, stop), next)
    BY <1>3, Zenon DEF guard
  <2>. QED  BY <1>1, <1>7, <1>8, <2>1, <2>2, PutMoves
<1>10. /\ run'[p].command = r.command /\ run'[p].rule = r.rule /\ run'[p].guard = guard
      /\ run'[p].turn = r.turn
  BY <1>9, RunFields
<1>11. IsRun(run[p])'
  <2>1. run'[p] = RunOf(run'[p].command, run'[p].rule, run'[p].guard, run'[p].left,
                        run'[p].turn, run'[p].calls, run'[p].scores, run'[p].failures,
                        run'[p].stop)
    BY <1>9, RunFields
  <2>2. run'[p].command \in load'.commands /\ run'[p].rule \in Rules
        /\ run'[p].guard \in Guards /\ run'[p].turn \in Nat
    BY <1>1, <1>4, <1>6, <1>10
  <2>. QED  BY <2>1, <2>2 DEF IsRun
<1>12. Placed(p)'
  BY <1>3, <1>9, <1>11 DEF Placed
<1>13. Funded(p)'
  BY <1>1, <1>3, <1>5, <1>6, <1>7, <1>9, <1>10, AskingIs DEF Funded
<1>14. Cleared(p)'
  BY <1>1, <1>4, <1>9, <1>10, AllowedKept DEF Cleared
<1>15. Asked(p)'
  BY <1>1, <1>9, <1>10 DEF Asked
<1>. QED  BY <1>1, <1>7, <1>9, <1>12, <1>13, <1>14, <1>15, QuietMoves DEF Local, IInv, TypeOK

(***************************************************************************)
(* Mishaps and reports                                                     *)
(***************************************************************************)

LEMMA OutstandingIs ==
    ASSUME IInv, NEW p \in Processes,
           pc[p] \in {"started", "checked", "asking", "waiting", "reporting"},
           NEW cost \in Outstanding(p), Billed(p, cost)
    PROVE  /\ bill' = [bill EXCEPT ![p] = bill'[p]] /\ bill'[p] \in Nat
           /\ bill'[p] <= run[p].guard.spent + run[p].guard.reserved
<1>1. Local(p) /\ bill[p] \in Nat
  BY DEF IInv, TypeOK
<1>2. bill[p] <= run[p].guard.spent + run[p].guard.reserved
  BY <1>1 DEF Local, Funded
<1>3. CASE pc[p] = "waiting"
  <2>1. cost \in Nat /\ cost <= Worst(p)
    BY <1>3, AskingIs DEF Outstanding
  <2>2. bill[p] <= run[p].guard.spent /\ run[p].guard.reserved = Worst(p)
    BY <1>3, AskingIs
  <2>3. run[p].guard.spent \in Nat /\ Worst(p) \in Nat
    BY <1>3, AskingIs
  <2>. QED  BY <1>1, <2>1, <2>2, <2>3, BillIs
<1>4. CASE pc[p] # "waiting"
  <2>1. cost = 0
    BY <1>4 DEF Outstanding
  <2>. QED  BY <1>1, <1>2, <2>1, BillIs
<1>. QED  BY <1>3, <1>4

LEMMA StopRunStep ==
    ASSUME IInv, NEW p \in Processes, StopRun(p)
    PROVE  IInv'
<1>1. /\ pc[p] \in {"asking", "waiting"} /\ load' = load /\ rule' = rule /\ reports' = reports
      /\ mishaps' = mishaps + 1
  BY DEF StopRun
<1>2. PICK reason \in {"interrupted", "runner_error"}, cost \in Outstanding(p) :
          Billed(p, cost) /\ Put(p, [run[p] EXCEPT !.stop = reason], "reporting")
  BY DEF StopRun
<1>3. /\ bill' = [bill EXCEPT ![p] = bill'[p]] /\ bill'[p] \in Nat
      /\ bill'[p] <= run[p].guard.spent + run[p].guard.reserved
  BY <1>1, <1>2, OutstandingIs
<1>4. Moves(p, "reporting") /\ Local(p)'
  BY <1>1, <1>2, <1>3, Stops
<1>. QED  BY <1>1, <1>3, <1>4, QuietMoves DEF IInv, TypeOK

\* The process ends, and its run stays as it is.
LEMMA Leaves ==
    ASSUME IInv, NEW p \in Processes,
           pc[p] \in {"started", "checked", "asking", "waiting", "reporting"}, load' = load,
           bill' = [bill EXCEPT ![p] = bill'[p]],
           bill'[p] <= run[p].guard.spent + run[p].guard.reserved,
           NEW next \in {"reported", "died"}, Put(p, run[p], next)
    PROVE  Moves(p, next) /\ Local(p)'
<1>1. Local(p) /\ pc[p] \notin {"idle", "refused"}
  BY DEF IInv
<1>2. IsRun(run[p])
  BY <1>1 DEF Local, Placed
<1>3. Moves(p, next) /\ pc'[p] = next /\ run'[p] = run[p]
  BY PutMoves DEF Points
<1>4. Placed(p)'
  BY <1>2, <1>3 DEF Placed, IsRun
<1>5. Funded(p)'
  BY <1>1, <1>3 DEF Local, Funded
<1>6. Cleared(p)'
  <2>1. CASE pc[p] \in Going
    BY <1>1, <1>3, <2>1, AllowedKept DEF Local, Cleared
  <2>2. CASE pc[p] = "started"
    BY <1>3, <2>2, StartedIs, FullBudgetIs DEF Cleared, Going
  <2>. QED  BY <2>1, <2>2 DEF Going
<1>7. Asked(p)'
  <2>1. run[p].command.kind # "selection" => Loadable(load.dataset)
    BY <1>1 DEF Local, Asked
  <2>. QED  BY <1>3, <2>1 DEF Asked, Going
<1>. QED  BY <1>3, <1>4, <1>5, <1>6, <1>7 DEF Local

LEMMA DieStep ==
    ASSUME IInv, NEW p \in Processes, Die(p)
    PROVE  IInv'
<1>1. /\ pc[p] \in {"started", "checked", "asking", "waiting", "reporting"}
      /\ load' = load /\ rule' = rule /\ reports' = reports /\ mishaps' = mishaps + 1
      /\ Put(p, run[p], "died")
  BY DEF Die
<1>2. PICK cost \in Outstanding(p) : Billed(p, cost)
  BY DEF Die
<1>3. /\ bill' = [bill EXCEPT ![p] = bill'[p]] /\ bill'[p] \in Nat
      /\ bill'[p] <= run[p].guard.spent + run[p].guard.reserved
  BY <1>1, <1>2, OutstandingIs
<1>4. Moves(p, "died") /\ Local(p)'
  BY <1>1, <1>3, Leaves
<1>. QED  BY <1>1, <1>3, <1>4, QuietMoves DEF IInv, TypeOK

LEMMA ReportsStay ==
    ASSUME load' = load, NEW report, IsReport(report)
    PROVE  IsReport(report)'
BY PlannedKept, Zenon DEF IsReport, VerdictOf

LEMMA WriteStep ==
    ASSUME IInv, NEW p \in Processes, pc[p] \in {"started", "reporting"}, NEW report,
           Write(p, report), report.kind = "paid" => IsReport(report)
    PROVE  IInv'
<1>1. /\ load' = load /\ rule' = rule /\ bill' = bill /\ mishaps' = mishaps
      /\ Put(p, run[p], "reported")
      /\ reports' = IF run[p].command.output \in Paths
                    THEN [reports EXCEPT ![run[p].command.output] = report] ELSE reports
  BY DEF Write
<1>2. Local(p) /\ bill[p] \in Nat
  BY DEF IInv, TypeOK
<1>3. /\ bill' = [bill EXCEPT ![p] = bill'[p]] /\ bill'[p] \in Nat
      /\ bill'[p] <= run[p].guard.spent + run[p].guard.reserved
  BY <1>1, <1>2 DEF IInv, TypeOK, Local, Funded
<1>4. Moves(p, "reported") /\ Local(p)'
  BY <1>1, <1>3, Leaves
<1>5. reports = [path \in Paths |-> reports[path]]
  BY DEF IInv, TypeOK
<1>6. reports' = [path \in Paths |-> reports'[path]]
  BY <1>1, <1>5
<1>7. \A path \in Paths : reports'[path] \in {reports[path], report}
  BY <1>1, <1>5
<1>8. Reported'
  <2>1. ASSUME NEW path \in Paths, reports'[path].kind = "paid"
        PROVE  IsReport(reports[path])'
    <3>1. IsReport(reports'[path])
      BY <1>7, <2>1 DEF IInv, Reported
    <3>2. \A kept : IsReport(kept) => IsReport(kept)'
      BY <1>1, ReportsStay
    <3>. QED  BY <3>1, <3>2
  <2>. QED  BY <2>1 DEF Reported
<1>9. rule' \in Rules /\ mishaps' \in Nat
  BY <1>1 DEF IInv, TypeOK
<1>. QED  BY <1>3, <1>4, <1>6, <1>8, <1>9, MovesKeep

LEMMA ReportStep ==
    ASSUME IInv, NEW p \in Processes, Report(p)
    PROVE  IInv'
<1>. DEFINE r == run[p]
            verdict == Verdict(r)
            paid == [kind |-> "paid", by |-> p, verdict |-> verdict, scores |-> r.scores,
                     rule |-> r.rule, command |-> r.command]
            selection == [kind |-> "selection", by |-> p]
            report == IF r.command.kind = "selection" THEN selection ELSE paid
<1>1. pc[p] = "reporting" /\ pc[p] \in Going /\ Write(p, report)
  BY Zenon DEF Report, Going
<1>2. ASSUME r.command.kind # "selection"
      PROVE  IsReport(paid)
  <2>1. r.command.kind = "paid"
    BY <1>1, <1>2, Going1 DEF Allowed
  <2>2. /\ r.command \in load.commands /\ r.rule \in Rules
        /\ IsSheet(r.command, r.left, r.scores) /\ (r.stop = "none" => NotStopped(r.scores))
    BY <1>1, <2>1, Going1 DEF Asked
  <2>3. IsSheet(r.command, {}, r.scores)
    BY <2>2 DEF IsSheet
  <2>. DEFINE completed == Completed(r)
  <2>4. verdict = VerdictOf(r.command, r.rule, r.scores, completed)
    BY Zenon DEF Verdict
  <2>5. completed => /\ NotStopped(r.scores)
                     /\ Cardinality(r.scores) = Cardinality(Planned(r.command))
    BY <2>2 DEF Completed
  <2>6. completed \in BOOLEAN
    BY DEF Completed
  <2>. HIDE DEF completed, verdict
  <2>7. /\ paid.command = r.command /\ paid.rule = r.rule /\ paid.scores = r.scores
        /\ paid.verdict = verdict
    OBVIOUS
  <2>. HIDE DEF paid
  <2>. QED  BY <2>2, <2>3, <2>4, <2>5, <2>6, <2>7 DEF IsReport
<1>3. report.kind = "paid" => IsReport(report)
  <2>1. selection.kind = "selection"
    OBVIOUS
  <2>. HIDE DEF paid, selection
  <2>. QED  BY <1>2, <2>1
<1>. HIDE DEF report
<1>. QED  BY <1>1, <1>3, WriteStep

LEMMA ReportOfflineStep ==
    ASSUME IInv, NEW p \in Processes, ReportOffline(p)
    PROVE  IInv'
<1>. DEFINE about == Reliability(load.dataset)
            replay == [kind |-> "replay"]
            reliability == [kind |-> "reliability", about |-> about]
            report == IF run[p].command.kind = "replay" THEN replay ELSE reliability
<1>1. pc[p] = "started" /\ Write(p, report)
  BY Zenon DEF ReportOffline
<1>2. report.kind # "paid"
  <2>. HIDE DEF about
  <2>. QED  OBVIOUS
<1>. HIDE DEF report
<1>. QED  BY <1>1, <1>2, WriteStep

(***************************************************************************)
(* The invariant holds                                                     *)
(***************************************************************************)

LEMMA AcceptRuleStep ==
    ASSUME IInv, AcceptRule
    PROVE  IInv'
<1>1. /\ load' = load /\ reports' = reports /\ pc' = pc /\ run' = run /\ bill' = bill
      /\ mishaps' = mishaps
  BY DEF AcceptRule
<1>2. rule' \in Rules
  BY LoadIsLoad DEF AcceptRule, IsLoad, Rules
<1>3. TypeOK'
  BY <1>1, <1>2 DEF IInv, TypeOK
<1>4. \A p \in Processes : Local(p)'
  BY <1>1, LocalKept DEF IInv
<1>5. Reported'
  BY <1>1, ReportedKept DEF IInv
<1>. QED  BY <1>3, <1>4, <1>5 DEF IInv

LEMMA Unmoved ==
    ASSUME IInv, UNCHANGED vars
    PROVE  IInv'
<1>1. /\ load' = load /\ reports' = reports /\ pc' = pc /\ run' = run /\ bill' = bill
      /\ mishaps' = mishaps /\ rule' = rule
  BY DEF vars
<1>2. TypeOK'
  BY <1>1 DEF IInv, TypeOK
<1>3. \A p \in Processes : Local(p)'
  BY <1>1, LocalKept DEF IInv
<1>4. Reported'
  BY <1>1, ReportedKept DEF IInv
<1>. QED  BY <1>2, <1>3, <1>4 DEF IInv

LEMMA Initially ==
    ASSUME Init
    PROVE  IInv
<1>1. rule \in Rules /\ load \in Loads /\ mishaps \in Nat
  BY DEF Init, Rules
<1>2. pc \in [Processes -> Points]
  BY DEF Init, Points
<1>3. /\ bill \in [Processes -> Nat] /\ run = [p \in Processes |-> run[p]]
      /\ reports = [path \in Paths |-> reports[path]]
  BY DEF Init
<1>4. ASSUME NEW p \in Processes
      PROVE  Local(p)
  <2>1. pc[p] \in {"idle", "refused"} /\ run[p] = NoRun /\ bill[p] = 0
    BY DEF Init
  <2>. QED  BY <2>1 DEF Local, Placed, Funded, Cleared, Asked, Going
<1>5. Reported
  BY DEF Init, Reported, NoReport
<1>. QED  BY <1>1, <1>2, <1>3, <1>4, <1>5 DEF IInv, TypeOK

LEMMA Inductive ==
    ASSUME IInv, [Next]_vars
    PROVE  IInv'
<1>1. ASSUME NEW p \in Processes, Work(p)
      PROVE  IInv'
  BY <1>1, StartStep, CheckStep, PreflightStep, AskStep, RetrieveStep, SelectStep, FailStep,
     SelectionAskStep, SelectionReplyStep, ReportStep, ReportOfflineStep, Zenon DEF Work
<1>2. CASE Next
  BY <1>1, <1>2, StopRunStep, DieStep, AcceptRuleStep, Unmoved, Zenon DEF Next, Terminated
<1>3. CASE UNCHANGED vars
  BY <1>3, Unmoved
<1>. QED  BY <1>2, <1>3

LEMMA Invariant == Spec => []IInv
BY Initially, Inductive, PTL DEF Spec

(***************************************************************************)
(* The scorers and the rule                                                *)
(***************************************************************************)

\* An answering case whose label the loader accepts: scorer v1 requires the
\* claims it names, and one of them is what makes an answer relevant to v2.
LEMMA RequiredIsRelevant ==
    ASSUME NEW case, NEW result, Consistent(case), Expecting(case),
           case.required \subseteq result.shown
    PROVE  AnsweringClaims(case) \intersect result.shown # {}
<1>1. case.required # {}
  BY DEF Consistent, Expecting
<1>2. CASE case.required = {Label}
  BY <1>2 DEF AnsweringClaims
<1>3. CASE case.required # {Label}
  <2>1. PICK c \in case.required : c # Label
    BY <1>1, <1>3
  <2>. QED  BY <2>1, <1>3 DEF AnsweringClaims
<1>. QED  BY <1>2, <1>3

\* Replacing scorer v1 by v2 changes no verdict on a case whose label is
\* consistent, except where the label allows an answer beside other stops:
\* CaseScore.passed and task_success are computed from different fields, and
\* are the same judgement (agent_benchmark.py: passed, agent_scoring.py:
\* score_case_v2, which adds relevance and separates completeness).
THEOREM ScorersAgree ==
    ASSUME NEW case, NEW result, Consistent(case),
           Expecting(case) \/ "answered" \notin case.stops
    PROVE  Passed(case, result) <=> TaskSuccess(case, result)
<1>1. CASE Expecting(case)
  <2>1. case.stops = {"answered"}
    BY <1>1 DEF Consistent, Expecting
  <2>2. result.stop \in case.stops <=> Answered(result)
    BY <2>1 DEF Answered
  <2>3. ASSUME Answered(result)
        PROVE  /\ ClaimsCorrect(case, result) # "no" <=>
                      Complete(case, result) /\ Unpermitted(case, result) = {}
               /\ CitationsValid(result) # "no" <=> CitationsValid(result) = "yes"
    BY <1>1, <2>3 DEF ClaimsCorrect, Complete, CitationsValid, Judged
  <2>4. Complete(case, result) /\ Unpermitted(case, result) = {} <=>
            Relevant(case, result) /\ Complete(case, result)
    BY <1>1, RequiredIsRelevant DEF Relevant, Complete
  <2>. QED  BY <1>1, <2>2, <2>3, <2>4 DEF Passed, TaskSuccess
<1>2. CASE ~ Expecting(case)
  <2>1. result.stop \in case.stops => ~ Answered(result)
    BY <1>2 DEF Answered
  <2>2. ClaimsCorrect(case, result) # "no"
    BY <1>2 DEF ClaimsCorrect
  <2>3. ~ Answered(result) => CitationsValid(result) # "no"
    BY DEF CitationsValid
  <2>. QED  BY <1>2, <2>1, <2>2, <2>3 DEF Passed, TaskSuccess
<1>. QED  BY <1>1, <1>2

\* A criterion that passes was measured on a sample of its size, and what it
\* measured is within its threshold.
LEMMA PassIsMeasured ==
    ASSUME NEW criterion, NEW reading, Status(criterion, reading) = "pass",
           reading.n \in Nat, MinN[criterion] \in Nat
    PROVE  reading.n >= MinN[criterion] /\ reading.n > 0 /\ ~ Misses(criterion, reading)
<1>1. reading # NotMeasured /\ reading.n # 0
  BY DEF Status
<1>2. ~ (reading.n > 0 /\ Misses(criterion, reading))
  BY <1>1 DEF Status
<1>3. ~ (reading.n > 0 /\ ~ Misses(criterion, reading) /\ reading.n < MinN[criterion])
  BY <1>1, <1>2 DEF Status
<1>. QED  BY <1>1, <1>2, <1>3

\* A rule passes when all that binds passes, in a finished run of a real model.
LEMMA BindingPasses ==
    ASSUME NEW used, NEW measured, NEW mode, NEW endpoint, NEW split, NEW completed \in BOOLEAN,
           EvaluateRule(used, measured, mode, endpoint, split, completed) = "PASS"
    PROVE  /\ mode = "live" /\ endpoint = "anthropic_api" /\ split = "heldout"
           /\ used.status = "accepted" /\ completed
           /\ \A c \in used.binding : /\ Status(c, measured[c]) = "pass"
                                      /\ ~ Misses(c, measured[c])
<1>1. /\ mode = "live" /\ endpoint = "anthropic_api" /\ split = "heldout"
      /\ used.status = "accepted"
      /\ Overall(used.binding, measured, completed) = "PASS"
  BY DEF EvaluateRule
<1>. DEFINE statuses == {Status(c, measured[c]) : c \in used.binding}
<1>2. /\ completed
      /\ statuses \intersect {"fail", "not_evaluable", "not_measured", "insufficient_sample"} = {}
  BY <1>1 DEF Overall
<1>3. ASSUME NEW c \in used.binding
      PROVE  Status(c, measured[c]) = "pass" /\ ~ Misses(c, measured[c])
  <2>1. Status(c, measured[c]) \in
            {"not_measured", "not_evaluable", "fail", "insufficient_sample", "pass"}
    BY DEF Status
  <2>2. Status(c, measured[c]) = "pass"
    BY <1>2, <2>1
  <2>. QED  BY <2>2 DEF Status
<1>. QED  BY <1>1, <1>2, <1>3

\* PASS is earned on every criterion that binds: no sample that is missing,
\* empty or too small, no unfinished run and no report that is not of a real
\* model on the held-out split can lead to it (agent_rule.py: evaluate_rule).
THEOREM PassNeedsEveryCriterion ==
    ASSUME NEW used, NEW measured, NEW mode, NEW endpoint, NEW split, NEW completed \in BOOLEAN,
           used.binding \subseteq Criteria,
           \A c \in used.binding : measured[c] = NotMeasured \/ measured[c].n \in Nat,
           EvaluateRule(used, measured, mode, endpoint, split, completed) = "PASS"
    PROVE  /\ mode = "live" /\ endpoint = "anthropic_api" /\ split = "heldout"
           /\ used.status = "accepted" /\ completed
           /\ \A c \in used.binding :
                 /\ measured[c].n > 0 /\ measured[c].n >= MinN[c]
                 /\ ~ Misses(c, measured[c])
<1>1. ASSUME NEW c \in used.binding
      PROVE  measured[c].n > 0 /\ measured[c].n >= MinN[c] /\ ~ Misses(c, measured[c])
  <2>1. Status(c, measured[c]) = "pass"
    BY BindingPasses
  <2>2. measured[c].n \in Nat /\ MinN[c] \in Nat
    <3>1. measured[c] # NotMeasured
      BY <2>1 DEF Status
    <3>. QED  BY <3>1, ScoringAssumption
  <2>. QED  BY <2>1, <2>2, PassIsMeasured
<1>. QED  BY <1>1, BindingPasses

(***************************************************************************)
(* Readings                                                                *)
(***************************************************************************)

\* The live scores that count, and those of the baseline on the same cases.
Quality(live) == {s \in live : CountsForQuality(s.result)}
Paired(live, baseline) == {s \in baseline : \E a \in Quality(live) : a.case = s.case}
Answers(live) == {s \in Quality(live) : Expecting(s.case)}
With(fault, scores) == {s \in scores : fault \in s.result.faults}
UnregisteredCalls(scores) == {c \in CallsOf(scores) : c[2].tool = Unregistered}
RuleRight(live, baseline) ==
    {s \in Paired(live, baseline) : Expecting(s.case) /\ TaskSuccess(s.case, s.result)}
RuleFalse(live, baseline) == {s \in Paired(live, baseline) : FalseAnswer(s.case, s.result)}

\* The readings, by their criteria.
AreReadings(m, live, replayed, baseline) ==
    /\ m.fabricated = Count(With("fabricated", live \union replayed), live \union replayed)
    /\ m.citation = Rate([s \in live |-> CitationsValid(s.result)])
    /\ m.nature = Rate([s \in live \union replayed |-> Judged("nature" \notin s.result.faults)])
    /\ m.new_false_answers =
          Count({s \in NewFalseAnswerCases(Quality(live), baseline) :
                    FalseAnswer(s.case, Of(Quality(live), s.case))},
                NewFalseAnswerCases(Quality(live), baseline))
    /\ m.tool_selection = Rate([s \in Answers(live) |-> ToolsCorrect(s.case, s.result)])
    /\ m.cross_run = Count(With("cross_run", live \union replayed), live \union replayed)
    /\ m.registry_executions =
          Count({c \in UnregisteredCalls(live \union replayed) : c[2].status # "rejected"},
                CallsOf(live \union replayed))
    /\ m.registry_attempts = Count(UnregisteredCalls(live), CallsOf(live))
    /\ m.non_completion = Rate([s \in Quality(live) |-> Judged(DidNotComplete(s.result))])
    /\ m.latency = P95(Quality(live))
    /\ m.new_false_abstentions =
          Count({s \in RuleRight(live, baseline) :
                    IncorrectAbstention(s.case, Of(Quality(live), s.case))},
                RuleRight(live, baseline))
    /\ m.task_success = Rate([s \in Answers(live) |-> Judged(TaskSuccess(s.case, s.result))])
    /\ m.corrected =
          Rate([s \in RuleFalse(live, baseline) |->
                   Judged(TaskSuccess(s.case, Of(Quality(live), s.case)))])
    /\ m.live_false_answers =
          Count({s \in Quality(live) \ Answers(live) : FalseAnswer(s.case, s.result)},
                Quality(live) \ Answers(live))

LEMMA ReadingsAre ==
    ASSUME NEW live, NEW replayed, NEW baseline
    PROVE  AreReadings(Measurements(live, replayed, baseline, TRUE), live, replayed, baseline)
<1>. DEFINE m == Measurements(live, replayed, baseline, TRUE)
<1>1. m.fabricated = Count(With("fabricated", live \union replayed), live \union replayed)
  BY Zenon DEF Measurements, Quality, Answers, With, UnregisteredCalls, Paired, RuleRight, RuleFalse
<1>2. m.citation = Rate([s \in live |-> CitationsValid(s.result)])
  BY Zenon DEF Measurements, Quality, Answers, With, UnregisteredCalls, Paired, RuleRight, RuleFalse
<1>3. m.nature = Rate([s \in live \union replayed |-> Judged("nature" \notin s.result.faults)])
  BY Zenon DEF Measurements, Quality, Answers, With, UnregisteredCalls, Paired, RuleRight, RuleFalse
<1>4. m.new_false_answers =
          Count({s \in NewFalseAnswerCases(Quality(live), baseline) :
                    FalseAnswer(s.case, Of(Quality(live), s.case))},
                NewFalseAnswerCases(Quality(live), baseline))
  BY Zenon DEF Measurements, Quality, Answers, With, UnregisteredCalls, Paired, RuleRight, RuleFalse
<1>5. m.tool_selection = Rate([s \in Answers(live) |-> ToolsCorrect(s.case, s.result)])
  BY Zenon DEF Measurements, Quality, Answers, With, UnregisteredCalls, Paired, RuleRight, RuleFalse
<1>6. m.cross_run = Count(With("cross_run", live \union replayed), live \union replayed)
  BY Zenon DEF Measurements, Quality, Answers, With, UnregisteredCalls, Paired, RuleRight, RuleFalse
<1>7. m.registry_executions =
          Count({c \in UnregisteredCalls(live \union replayed) : c[2].status # "rejected"},
                CallsOf(live \union replayed))
  BY Zenon DEF Measurements, Quality, Answers, With, UnregisteredCalls, Paired, RuleRight, RuleFalse
<1>8. m.registry_attempts = Count(UnregisteredCalls(live), CallsOf(live))
  BY Zenon DEF Measurements, Quality, Answers, With, UnregisteredCalls, Paired, RuleRight, RuleFalse
<1>9. m.non_completion = Rate([s \in Quality(live) |-> Judged(DidNotComplete(s.result))])
  BY Zenon DEF Measurements, Quality, Answers, With, UnregisteredCalls, Paired, RuleRight, RuleFalse
<1>10. m.latency = P95(Quality(live))
  BY Zenon DEF Measurements, Quality, Answers, With, UnregisteredCalls, Paired, RuleRight, RuleFalse
<1>11. m.new_false_abstentions =
          Count({s \in RuleRight(live, baseline) :
                    IncorrectAbstention(s.case, Of(Quality(live), s.case))},
                RuleRight(live, baseline))
  BY Zenon DEF Measurements, Quality, Answers, With, UnregisteredCalls, Paired, RuleRight, RuleFalse
<1>12. m.task_success = Rate([s \in Answers(live) |-> Judged(TaskSuccess(s.case, s.result))])
  BY Zenon DEF Measurements, Quality, Answers, With, UnregisteredCalls, Paired, RuleRight, RuleFalse
<1>13. m.corrected =
          Rate([s \in RuleFalse(live, baseline) |->
                   Judged(TaskSuccess(s.case, Of(Quality(live), s.case)))])
  BY Zenon DEF Measurements, Quality, Answers, With, UnregisteredCalls, Paired, RuleRight, RuleFalse
<1>14. m.live_false_answers =
          Count({s \in Quality(live) \ Answers(live) : FalseAnswer(s.case, s.result)},
                Quality(live) \ Answers(live))
  BY Zenon DEF Measurements, Quality, Answers, With, UnregisteredCalls, Paired, RuleRight, RuleFalse
<1>. QED  BY <1>1, <1>2, <1>3, <1>4, <1>5, <1>6, <1>7, <1>8, <1>9, <1>10, <1>11, <1>12,
             <1>13, <1>14, Zenon DEF AreReadings

LEMMA OfIs ==
    ASSUME NEW scores, NEW case, \E s \in scores : s.case = case
    PROVE  \E s \in scores : s.case = case /\ Of(scores, case) = s.result
BY DEF Of

\* A part of a whole, in percent.
LEMMA Percent ==
    ASSUME NEW threshold \in Nat, threshold <= 100, NEW n \in Nat
    PROVE  threshold * n <= 100 * n
<1>1. (100 - threshold) * n \in Nat
  BY Z3
<1>. QED  BY <1>1, Z3

LEMMA AllYes ==
    ASSUME NEW judgements, IsFiniteSet(DOMAIN judgements),
           \A s \in DOMAIN judgements : judgements[s] \in {"yes", "na"},
           NEW c \in MinRates, Threshold[c] \in Nat, Threshold[c] <= 100
    PROVE  ~ Misses(c, Rate(judgements))
<1>. DEFINE judged == {s \in DOMAIN judgements : judgements[s] # "na"}
            yes == {s \in judged : judgements[s] = "yes"}
            n == Cardinality(judged)
<1>1. yes = judged /\ IsFiniteSet(judged)
  BY FS_Subset
<1>2. n \in Nat
  BY <1>1, FS_CardinalityType
<1>3. Rate(judgements).value = n /\ Rate(judgements).of = n
  BY <1>1 DEF Rate
<1>. HIDE DEF n
<1>4. Threshold[c] * n <= 100 * n
  BY <1>2, Percent
<1>5. Threshold[c] * n \in Nat /\ 100 * n \in Nat
  BY <1>2
<1>. QED  BY <1>3, <1>4, <1>5 DEF Misses

LEMMA NoneYes ==
    ASSUME NEW judgements, IsFiniteSet(DOMAIN judgements),
           \A s \in DOMAIN judgements : judgements[s] # "yes",
           NEW c \in MaxRates, Threshold[c] \in Nat
    PROVE  ~ Misses(c, Rate(judgements))
<1>. DEFINE judged == {s \in DOMAIN judgements : judgements[s] # "na"}
            yes == {s \in judged : judgements[s] = "yes"}
            n == Cardinality(judged)
<1>1. yes = {} /\ IsFiniteSet(judged)
  BY FS_Subset
<1>2. n \in Nat /\ Cardinality(yes) = 0
  BY <1>1, FS_CardinalityType, FS_EmptySet
<1>3. Rate(judgements).value = 0 /\ Rate(judgements).of = n
  BY <1>2 DEF Rate
<1>. HIDE DEF n
<1>4. Threshold[c] * n \in Nat
  BY <1>2
<1>5. c \notin MinRates
  BY DEF MinRates, MaxRates
<1>. QED  BY <1>3, <1>4, <1>5 DEF Misses

LEMMA NoneCounted ==
    ASSUME NEW opportunities, NEW c \in Criteria \ (MinRates \union MaxRates), Threshold[c] \in Nat
    PROVE  ~ Misses(c, Count({}, opportunities))
<1>1. Count({}, opportunities).value = 0
  BY FS_EmptySet DEF Count
<1>. QED  BY <1>1 DEF Misses

LEMMA AllFast ==
    ASSUME NEW scores, IsFiniteSet(scores), \A s \in scores : ~ s.result.slow,
           Threshold["latency"] \in Nat
    PROVE  ~ Misses("latency", P95(scores))
<1>. DEFINE n == Cardinality(scores)
            fast == Cardinality({s \in scores : ~s.result.slow})
<1>1. {s \in scores : ~s.result.slow} = scores
  OBVIOUS
<1>2. n \in Nat /\ fast = n
  BY <1>1, FS_CardinalityType
<1>. HIDE DEF n, fast
<1>3. ~ (fast < (95 * n + 99) \div 100)
  BY <1>2
<1>4. P95(scores).value = 0
  BY <1>3 DEF P95, n, fast
<1>. QED  BY <1>4 DEF Misses, MinRates, MaxRates

\* A score with nothing wrong in it, as far as it counts.
Right(s) ==
    /\ s.result.faults = {} /\ ~ s.result.slow
    /\ \A call \in s.result.calls : call.tool # Unregistered
    /\ CountsForQuality(s.result) =>
          /\ TaskSuccess(s.case, s.result) /\ ToolsCorrect(s.case, s.result) # "no"
          /\ ~ DidNotComplete(s.result)

\* When nothing is wrong, no criterion is missed, whatever the sample.
LEMMA RightMissesNothing ==
    ASSUME \A c \in MinRates : Threshold[c] <= 100,
           NEW live, IsFiniteSet(live), \A s \in live : Right(s),
           NEW replayed, IsFiniteSet(replayed),
           \A s \in replayed :
              /\ s.result.faults = {}
              /\ \A call \in s.result.calls : call.tool = Unregistered => call.status = "rejected",
           NEW baseline, IsFiniteSet(baseline), NEW c \in Criteria
    PROVE  ~ Misses(c, Measurements(live, replayed, baseline, TRUE)[c])
<1>. DEFINE m == Measurements(live, replayed, baseline, TRUE)
            every == live \union replayed
            attempted == Quality(live)
            answers == Answers(live)
            opportunities == NewFalseAnswerCases(attempted, baseline)
<1>0. AreReadings(m, live, replayed, baseline)
  BY ReadingsAre
<1>. HIDE DEF m
<1>1. Threshold \in [Criteria -> Nat]
  BY ScoringAssumption
<1>2. \A k \in MinRates : k \in Criteria /\ Threshold[k] \in Nat /\ Threshold[k] <= 100
  BY <1>1 DEF MinRates, Criteria
<1>3. /\ IsFiniteSet(every) /\ attempted \subseteq live /\ answers \subseteq attempted
      /\ IsFiniteSet(attempted) /\ IsFiniteSet(answers)
  <2>1. IsFiniteSet(every)
    BY FS_Union
  <2>2. attempted \in SUBSET live /\ answers \in SUBSET attempted
    BY DEF Quality, Answers
  <2>3. IsFiniteSet(attempted)
    BY <2>2, FS_Subset
  <2>. QED  BY <2>1, <2>2, <2>3, FS_Subset
<1>4. \A s \in attempted :
          /\ TaskSuccess(s.case, s.result) /\ ToolsCorrect(s.case, s.result) # "no"
          /\ ~ DidNotComplete(s.result) /\ ~ s.result.slow
          /\ ~ FalseAnswer(s.case, s.result) /\ ~ IncorrectAbstention(s.case, s.result)
  <2>1. ASSUME NEW s \in attempted
        PROVE  /\ TaskSuccess(s.case, s.result) /\ ToolsCorrect(s.case, s.result) # "no"
               /\ ~ DidNotComplete(s.result) /\ ~ s.result.slow
    BY DEF Quality, Right
  <2>2. ASSUME NEW s \in attempted
        PROVE  ~ FalseAnswer(s.case, s.result) /\ ~ IncorrectAbstention(s.case, s.result)
    BY <2>1 DEF TaskSuccess, FalseAnswer, IncorrectAbstention, Answered, Abstentions
  <2>. QED  BY <2>1, <2>2
<1>5. \A s \in Paired(live, baseline) :
          \E a \in attempted : a.case = s.case /\ Of(attempted, s.case) = a.result
  <2>1. ASSUME NEW s \in Paired(live, baseline)
        PROVE  \E a \in attempted : a.case = s.case /\ Of(attempted, s.case) = a.result
    <3>1. \E a \in attempted : a.case = s.case
      BY DEF Paired
    <3>. HIDE DEF attempted
    <3>. QED  BY <3>1, OfIs
  <2>. QED  BY <2>1
<1>6. \A s \in every : s.result.faults = {}
  BY DEF Right
<1>7. /\ opportunities \subseteq Paired(live, baseline)
      /\ RuleRight(live, baseline) \subseteq Paired(live, baseline)
      /\ RuleFalse(live, baseline) \subseteq Paired(live, baseline)
  BY DEF NewFalseAnswerCases, RuleRight, RuleFalse, Paired
<1>8. IsFiniteSet(RuleFalse(live, baseline))
  <2>1. RuleFalse(live, baseline) \in SUBSET baseline
    BY DEF RuleFalse, Paired
  <2>. QED  BY <2>1, FS_Subset
<1>9. \A call \in CallsOf(every) : call[2].tool = Unregistered => call[2].status = "rejected"
  <2>1. \A s \in every : \A call \in s.result.calls :
            call.tool = Unregistered => call.status = "rejected"
    BY DEF Right
  <2>. QED  BY <2>1 DEF CallsOf
<1>10. UnregisteredCalls(live) = {}
  BY DEF UnregisteredCalls, CallsOf, Right
<1>. HIDE DEF attempted, answers, every, opportunities
<1>. DEFINE plain == Criteria \ (MinRates \union MaxRates)
<1>11. \A k \in plain : Threshold[k] \in Nat
  BY <1>1
<1>a. ~ Misses("fabricated", m.fabricated)
  <2>1. With("fabricated", every) = {}
    BY <1>6 DEF With
  <2>2. "fabricated" \in plain
    BY Zenon DEF Criteria, MinRates, MaxRates
  <2>3. m.fabricated = Count({}, every)
    BY <1>0, <2>1, Zenon DEF AreReadings, every
  <2>. QED  BY <1>11, <2>2, <2>3, NoneCounted
<1>b. ~ Misses("citation", m.citation)
  <2>. DEFINE j == [s \in live |-> CitationsValid(s.result)]
  <2>1. \A s \in live : j[s] \in {"yes", "na"}
    BY DEF Right, CitationsValid, Judged
  <2>2. "citation" \in MinRates /\ DOMAIN j = live
    BY DEF MinRates
  <2>3. m.citation = Rate(j)
    BY <1>0, Zenon DEF AreReadings
  <2>. HIDE DEF j
  <2>. QED  BY <1>2, <2>1, <2>2, <2>3, AllYes
<1>c. ~ Misses("nature", m.nature)
  <2>. DEFINE j == [s \in every |-> Judged("nature" \notin s.result.faults)]
  <2>1. \A s \in every : j[s] \in {"yes", "na"}
    BY <1>6 DEF Judged
  <2>2. "nature" \in MinRates /\ DOMAIN j = every
    BY DEF MinRates
  <2>3. m.nature = Rate(j)
    BY <1>0, Zenon DEF AreReadings, every
  <2>. HIDE DEF j
  <2>. QED  BY <1>2, <1>3, <2>1, <2>2, <2>3, AllYes
<1>d. ~ Misses("new_false_answers", m.new_false_answers)
  <2>1. {s \in opportunities : FalseAnswer(s.case, Of(attempted, s.case))} = {}
    BY <1>4, <1>5, <1>7
  <2>2. "new_false_answers" \in plain
    BY Zenon DEF Criteria, MinRates, MaxRates
  <2>3. m.new_false_answers = Count({}, opportunities)
    BY <1>0, <2>1, Zenon DEF AreReadings, opportunities, attempted
  <2>. QED  BY <1>11, <2>2, <2>3, NoneCounted
<1>e. ~ Misses("tool_selection", m.tool_selection)
  <2>. DEFINE j == [s \in answers |-> ToolsCorrect(s.case, s.result)]
  <2>1. \A s \in answers : j[s] \in {"yes", "na"}
    <3>1. \A s \in answers : ToolsCorrect(s.case, s.result) \in {"yes", "no", "na"}
      BY DEF ToolsCorrect, ToolsCorrectV1, Judged
    <3>. QED  BY <1>3, <1>4, <3>1
  <2>2. "tool_selection" \in MinRates /\ DOMAIN j = answers
    BY DEF MinRates
  <2>3. m.tool_selection = Rate(j)
    BY <1>0, Zenon DEF AreReadings, answers
  <2>. HIDE DEF j
  <2>. QED  BY <1>2, <1>3, <2>1, <2>2, <2>3, AllYes
<1>f. ~ Misses("cross_run", m.cross_run)
  <2>1. With("cross_run", every) = {}
    BY <1>6 DEF With
  <2>2. "cross_run" \in plain
    BY Zenon DEF Criteria, MinRates, MaxRates
  <2>3. m.cross_run = Count({}, every)
    BY <1>0, <2>1, Zenon DEF AreReadings, every
  <2>. QED  BY <1>11, <2>2, <2>3, NoneCounted
<1>g. ~ Misses("registry_executions", m.registry_executions)
  <2>1. {call \in UnregisteredCalls(every) : call[2].status # "rejected"} = {}
    BY <1>9 DEF UnregisteredCalls
  <2>2. "registry_executions" \in plain
    BY Zenon DEF Criteria, MinRates, MaxRates
  <2>3. m.registry_executions = Count({}, CallsOf(every))
    BY <1>0, <2>1, Zenon DEF AreReadings, every
  <2>. QED  BY <1>11, <2>2, <2>3, NoneCounted
<1>h. ~ Misses("registry_attempts", m.registry_attempts)
  <2>1. "registry_attempts" \in plain
    BY Zenon DEF Criteria, MinRates, MaxRates
  <2>2. m.registry_attempts = Count({}, CallsOf(live))
    BY <1>0, <1>10, Zenon DEF AreReadings
  <2>. QED  BY <1>11, <2>1, <2>2, NoneCounted
<1>i. ~ Misses("non_completion", m.non_completion)
  <2>. DEFINE j == [s \in attempted |-> Judged(DidNotComplete(s.result))]
  <2>1. \A s \in attempted : j[s] # "yes"
    BY <1>4 DEF Judged
  <2>2. "non_completion" \in MaxRates /\ DOMAIN j = attempted
    BY DEF MaxRates
  <2>3. m.non_completion = Rate(j)
    BY <1>0, Zenon DEF AreReadings, attempted
  <2>4. Threshold["non_completion"] \in Nat
    BY <1>1 DEF Criteria
  <2>. HIDE DEF j
  <2>. QED  BY <1>3, <2>1, <2>2, <2>3, <2>4, NoneYes
<1>j. ~ Misses("latency", m.latency)
  <2>1. m.latency = P95(attempted)
    BY <1>0, Zenon DEF AreReadings, attempted
  <2>2. Threshold["latency"] \in Nat
    BY <1>1 DEF Criteria
  <2>. QED  BY <1>3, <1>4, <2>1, <2>2, AllFast
<1>k. ~ Misses("new_false_abstentions", m.new_false_abstentions)
  <2>1. {s \in RuleRight(live, baseline) : IncorrectAbstention(s.case, Of(attempted, s.case))} = {}
    BY <1>4, <1>5, <1>7
  <2>2. "new_false_abstentions" \in plain
    BY Zenon DEF Criteria, MinRates, MaxRates
  <2>3. m.new_false_abstentions = Count({}, RuleRight(live, baseline))
    BY <1>0, <2>1, Zenon DEF AreReadings, attempted
  <2>. QED  BY <1>11, <2>2, <2>3, NoneCounted
<1>l. ~ Misses("task_success", m.task_success)
  <2>. DEFINE j == [s \in answers |-> Judged(TaskSuccess(s.case, s.result))]
  <2>1. \A s \in answers : j[s] \in {"yes", "na"}
    BY <1>3, <1>4 DEF Judged
  <2>2. "task_success" \in MinRates /\ DOMAIN j = answers
    BY DEF MinRates
  <2>3. m.task_success = Rate(j)
    BY <1>0, Zenon DEF AreReadings, answers
  <2>. HIDE DEF j
  <2>. QED  BY <1>2, <1>3, <2>1, <2>2, <2>3, AllYes
<1>m. ~ Misses("corrected", m.corrected)
  <2>. DEFINE wrong == RuleFalse(live, baseline)
              j == [s \in wrong |-> Judged(TaskSuccess(s.case, Of(attempted, s.case)))]
  <2>1. \A s \in wrong : j[s] \in {"yes", "na"}
    BY <1>4, <1>5, <1>7 DEF Judged
  <2>2. "corrected" \in MinRates /\ DOMAIN j = wrong
    BY DEF MinRates
  <2>3. m.corrected = Rate(j)
    BY <1>0, Zenon DEF AreReadings, wrong, attempted
  <2>. HIDE DEF j
  <2>. QED  BY <1>2, <1>8, <2>1, <2>2, <2>3, AllYes
<1>n. ~ Misses("live_false_answers", m.live_false_answers)
  <2>1. {s \in attempted \ answers : FalseAnswer(s.case, s.result)} = {}
    BY <1>4
  <2>2. "live_false_answers" \in plain
    BY Zenon DEF Criteria, MinRates, MaxRates
  <2>3. m.live_false_answers = Count({}, attempted \ answers)
    BY <1>0, <2>1, Zenon DEF AreReadings, attempted, answers
  <2>. QED  BY <1>11, <2>2, <2>3, NoneCounted
<1>. QED  BY <1>a, <1>b, <1>c, <1>d, <1>e, <1>f, <1>g, <1>h, <1>i, <1>j, <1>k, <1>l, <1>m, <1>n
          DEF Criteria, m

(***************************************************************************)
(* The scores a verdict is of                                              *)
(***************************************************************************)

LEMMA ScoredAre ==
    ASSUME NEW results, IsFiniteSet(DOMAIN results)
    PROVE  /\ IsFiniteSet(Scored(results))
           /\ \A s \in Scored(results) : s.case \in DOMAIN results /\ s.result = results[s.case]
<1>. DEFINE score(c) == [case |-> c, result |-> results[c]]
            f == [c \in DOMAIN results |-> score(c)]
<1>1. IsFiniteSet({f[c] : c \in DOMAIN results})
  BY ImageIsFinite
<1>2. Scored(results) = {f[c] : c \in DOMAIN results}
  BY DEF Scored
<1>3. \A c : score(c).case = c /\ score(c).result = results[c]
  OBVIOUS
<1>. QED  BY <1>1, <1>2, <1>3

\* The questions no model is asked, and what scores them; the replays; the baseline.
Unasked(command) == Live(Cases(load.dataset, command.split)) \ Planned(command)
StoppedScores(command) == Scored([c \in Unasked(command) |-> RouteFollowing(c)])
ReplayScores(command) ==
    Scored([c \in Replay(Cases(load.dataset, command.split)) |-> Replayed(c)])
BaselineScores(scored) == Scored([c \in {s.case : s \in scored} |-> RouteFollowing(c)])

LEMMA VerdictIs ==
    ASSUME NEW command, NEW used, NEW asked, NEW completed
    PROVE  LET scored == asked \union StoppedScores(command) IN
           VerdictOf(command, used, asked, completed)
             = EvaluateRule(used, Measurements(scored, ReplayScores(command),
                                               BaselineScores(scored), TRUE),
                            "live", command.endpoint, command.split, completed)
BY Zenon DEF VerdictOf, StoppedScores, ReplayScores, BaselineScores, Unasked

LEMMA CasesAre ==
    ASSUME IInv, NEW command
    PROVE  LET cases == Cases(load.dataset, command.split) IN
           /\ IsFiniteSet(cases) /\ IsFiniteSet(Planned(command)) /\ IsFiniteSet(Unasked(command))
           /\ IsFiniteSet(Replay(cases))
           /\ \A c \in cases : IsCase(c) /\ c \in load.dataset.cases
           /\ Planned(command) = {c \in cases : Reaches(c)}
<1>. DEFINE cases == Cases(load.dataset, command.split)
<1>1. IsFiniteSet(load.dataset.cases) /\ \A c \in load.dataset.cases : IsCase(c)
  BY LoadIsLoad DEF IsLoad
<1>2. cases \in SUBSET load.dataset.cases
  BY DEF Cases
<1>3. IsFiniteSet(cases)
  BY <1>1, <1>2, FS_Subset
<1>4. Planned(command) = {c \in cases : Reaches(c)}
  BY DEF Planned
<1>5. /\ Planned(command) \in SUBSET cases /\ Unasked(command) \in SUBSET cases
      /\ Replay(cases) \in SUBSET cases
  BY <1>4 DEF Unasked, Live, Replay
<1>. HIDE DEF cases
<1>6. /\ IsFiniteSet(Planned(command)) /\ IsFiniteSet(Unasked(command))
      /\ IsFiniteSet(Replay(cases))
  BY <1>3, <1>5, FS_Subset
<1>. QED  BY <1>1, <1>2, <1>3, <1>4, <1>6 DEF cases

\* What stops a question before a model is nobody's fault, and does not count.
LEMMA StoppedAre ==
    ASSUME IInv, NEW command
    PROVE  /\ IsFiniteSet(StoppedScores(command))
           /\ \A s \in StoppedScores(command) :
                 /\ s.result.faults = {} /\ s.result.calls = {} /\ s.result.slow = FALSE
                 /\ ~ Attempted(s.result) /\ ~ Answered(s.result)
<1>. DEFINE f == [c \in Unasked(command) |-> RouteFollowing(c)]
<1>1. IsFiniteSet(Unasked(command))
  BY CasesAre
<1>2. /\ IsFiniteSet(Scored(f))
      /\ \A s \in Scored(f) : s.case \in Unasked(command) /\ s.result = RouteFollowing(s.case)
  BY <1>1, ScoredAre
<1>3. ASSUME NEW c \in Unasked(command)
      PROVE  /\ RouteFollowing(c) = Ended(c.before, "none", 0, {}, {})
             /\ c.before \in Abstentions
  <2>1. ~ Reaches(c) /\ IsCase(c)
    BY CasesAre DEF Unasked, Live
  <2>. QED  BY <2>1 DEF RouteFollowing, StoppedBeforeAModel, IsCase
<1>4. ASSUME NEW stop \in Abstentions
      PROVE  LET e == Ended(stop, "none", 0, {}, {}) IN
             /\ e.faults = {} /\ e.calls = {} /\ e.slow = FALSE
             /\ ~ Attempted(e) /\ ~ Answered(e)
  BY DEF Ended, Attempted, Answered, Abstentions, ProviderStops, AgentStops, OperatorStops
<1>5. StoppedScores(command) = Scored(f)
  BY DEF StoppedScores
<1>. HIDE DEF f
<1>6. ASSUME NEW s \in Scored(f)
      PROVE  /\ s.result.faults = {} /\ s.result.calls = {} /\ s.result.slow = FALSE
             /\ ~ Attempted(s.result) /\ ~ Answered(s.result)
  <2>1. s.result = Ended(s.case.before, "none", 0, {}, {}) /\ s.case.before \in Abstentions
    BY <1>2, <1>3
  <2>. QED  BY <1>4, <2>1
<1>. QED  BY <1>2, <1>5, <1>6

LEMMA ReplaysAre ==
    ASSUME IInv, NEW command
    PROVE  /\ IsFiniteSet(ReplayScores(command))
           /\ \A s \in ReplayScores(command) :
                 /\ s.result.faults = {}
                 /\ \A call \in s.result.calls :
                       call.tool = Unregistered => call.status = "rejected"
<1>. DEFINE cases == Replay(Cases(load.dataset, command.split))
            f == [c \in cases |-> Replayed(c)]
<1>1. IsFiniteSet(cases)
  BY CasesAre
<1>2. IsFiniteSet(Scored(f)) /\ \A s \in Scored(f) : s.result = Replayed(s.case)
  BY <1>1, ScoredAre
<1>3. ASSUME NEW c
      PROVE  /\ Replayed(c).faults = {}
             /\ \A call \in Replayed(c).calls : call.tool = Unregistered => call.status = "rejected"
  <2>. DEFINE calls == CallsTo(c.script.tools, 1)
  <2>1. \A call \in calls : call.tool = Unregistered => call.status = "rejected"
    BY DEF CallsTo
  <2>. HIDE DEF calls
  <2>2. ASSUME NEW turns, NEW selected
        PROVE  LET e == Selecting(c, turns, calls, selected) IN e.faults = {} /\ e.calls = calls
    <3>1. CASE ~(selected \subseteq Retrieved(c, calls))
      BY <3>1 DEF Selecting, Ended
    <3>2. CASE selected \subseteq Retrieved(c, calls) /\ selected \intersect c.asks = {}
      BY <3>2 DEF Selecting, Ended
    <3>3. CASE selected \subseteq Retrieved(c, calls) /\ selected \intersect c.asks # {}
      BY <3>3 DEF Selecting, Ended
    <3>. QED  BY <3>1, <3>2, <3>3
  <2>3. Replayed(c).faults = {} /\ Replayed(c).calls \in {{}, calls}
    <3>1. CASE Cardinality(calls) > MaxToolCalls
      BY <3>1 DEF Replayed, Conversation, Ended, calls
    <3>2. CASE ~ (Cardinality(calls) > MaxToolCalls)
      <4>1. Replayed(c) = Selecting(c, IF calls = {} THEN 1 ELSE 2, calls, c.script.selected)
        BY <3>2, Zenon DEF Replayed, Conversation, calls
      <4>. QED  BY <2>2, <4>1
    <3>. QED  BY <3>1, <3>2
  <2>. QED  BY <2>1, <2>3
<1>4. ReplayScores(command) = Scored(f)
  BY DEF ReplayScores
<1>. HIDE DEF f
<1>. QED  BY <1>2, <1>3, <1>4

LEMMA BaselineIsFinite ==
    ASSUME NEW scored, IsFiniteSet(scored)
    PROVE  IsFiniteSet(BaselineScores(scored))
<1>. DEFINE case == [s \in scored |-> s.case]
            cases == {s.case : s \in scored}
            f == [c \in cases |-> RouteFollowing(c)]
<1>1. cases = {case[s] : s \in scored}
  OBVIOUS
<1>2. IsFiniteSet({case[s] : s \in scored})
  BY ImageIsFinite
<1>3. IsFiniteSet(cases) /\ DOMAIN f = cases
  BY <1>1, <1>2
<1>4. BaselineScores(scored) = Scored(f)
  BY DEF BaselineScores
<1>. HIDE DEF f, cases, case
<1>. QED  BY <1>3, <1>4, ScoredAre

LEMMA BindingsAre ==
    ASSUME NEW used \in Rules
    PROVE  /\ used.binding \subseteq Criteria
           /\ used.status = "accepted" =>
                 {"fabricated", "citation", "nature", "tool_selection", "cross_run",
                  "registry_executions", "registry_attempts", "non_completion", "latency",
                  "new_false_abstentions", "task_success"} \subseteq used.binding
<1>1. RoadmapCriteria \subseteq Criteria
  BY DEF RoadmapCriteria
<1>2. {"new_false_abstentions", "task_success", "live_false_answers"} \subseteq Criteria
  BY DEF Criteria
<1>3. {"fabricated", "citation", "nature", "tool_selection", "cross_run",
       "registry_executions", "registry_attempts", "non_completion", "latency"}
          \subseteq RoadmapCriteria \ {"new_false_answers"}
  BY DEF RoadmapCriteria, Criteria
<1>4. DOMAIN Bindings = {"keep", "remove", "replace"}
  BY DEF Bindings
<1>5. \A option \in DOMAIN Bindings :
          /\ Bindings[option] \subseteq Criteria
          /\ (RoadmapCriteria \ {"new_false_answers"})
                \union {"new_false_abstentions", "task_success"} \subseteq Bindings[option]
  BY <1>1, <1>2, <1>4 DEF Bindings
<1>. QED  BY <1>1, <1>3, <1>5 DEF Rules

(***************************************************************************)
(* The theorems                                                            *)
(***************************************************************************)

LEMMA SpendingIsIn == IInv => SpendingIsApproved
<1>. SUFFICES ASSUME IInv, NEW p \in Processes, Started(p), run[p].guard.sent > 0
              PROVE  LET r == run[p] IN
                     IF r.command.kind = "selection"
                     THEN r.guard.sent <= HardRequests /\ bill[p] <= HardCost
                     ELSE \E a \in load.approvals :
                             /\ a.approved /\ a.stage = r.command.stage
                             /\ a.split = r.command.split /\ a.split = StageSplit[a.stage]
                             /\ a.rule = r.rule /\ a.code = r.command.code
                             /\ r.guard.sent <= a.requests /\ bill[p] <= a.cost
                             /\ a.split = "heldout" => r.rule.status = "accepted"
  BY Zenon DEF SpendingIsApproved
<1>. DEFINE r == run[p]
<1>1. Local(p) /\ pc[p] \in Points /\ bill[p] \in Nat
  BY DEF IInv, TypeOK
<1>2. pc[p] \notin {"idle", "refused"}
  BY <1>1 DEF Local, Placed, Started
<1>3. IsRun(r) /\ r.guard \in Guards /\ r.command \in load.commands
  BY <1>1, <1>2 DEF Local, Placed, IsRun
<1>4. pc[p] # "started"
  BY StartedIs, FullBudgetIs
<1>5. Allowed(r)
  BY <1>1, <1>2, <1>4 DEF Points, Going, Local, Cleared
<1>6. /\ r.guard.sent <= r.command.requests
      /\ bill[p] <= r.guard.spent + r.guard.reserved
      /\ r.guard.spent + r.guard.reserved <= r.command.cost
  BY <1>1, <1>2 DEF Local, Funded
<1>7. /\ r.guard.sent \in Nat /\ r.guard.spent \in Nat /\ r.guard.reserved \in Nat
      /\ r.command.requests \in Nat /\ r.command.cost \in Nat
  BY <1>3, GuardTypes, LoadIsLoad DEF IsLoad
<1>8. bill[p] <= r.command.cost
  BY <1>1, <1>6, <1>7
<1>9. CASE r.command.kind = "selection"
  BY <1>5, <1>6, <1>7, <1>8, <1>1, <1>9, CampaignAssumption DEF Allowed
<1>10. CASE r.command.kind # "selection"
  <2>1. PICK a \in load.approvals :
            /\ a.approved /\ a.stage = r.command.stage
            /\ a.split = r.command.split /\ a.split = StageSplit[a.stage]
            /\ a.rule = r.rule /\ a.code = r.command.code
            /\ r.command.requests <= a.requests /\ r.command.cost <= a.cost
            /\ a.split = "heldout" => r.rule.status = "accepted"
    BY <1>5, <1>10 DEF Allowed
  <2>2. a.requests \in Nat /\ a.cost \in Nat
    BY <2>1, LoadIsLoad DEF IsLoad
  <2>3. r.guard.sent <= a.requests /\ bill[p] <= a.cost
    BY <1>1, <1>6, <1>7, <1>8, <2>1, <2>2
  <2>. QED  BY <1>10, <2>1, <2>3
<1>. QED  BY <1>9, <1>10

\* What a process sends was approved, with the bill it may run up: for any caps,
\* prices, approval records, commands and processes (agent_live.py: check_approval,
\* budget.py, cli/copilot_agent_benchmark.py: _paid_run).
THEOREM SpendingApproved == Spec => []SpendingIsApproved
BY Invariant, SpendingIsIn, PTL

\* A verdict that fails a run found a criterion it misses.
LEMMA FailIsAMiss ==
    ASSUME NEW used, NEW measured, NEW endpoint, NEW split, NEW completed,
           EvaluateRule(used, measured, "live", endpoint, split, completed) = "FAIL"
    PROVE  \E c \in used.binding : Misses(c, measured[c])
<1>1. Overall(used.binding, measured, completed) = "FAIL"
  BY DEF EvaluateRule
<1>2. PICK c \in used.binding : Status(c, measured[c]) = "fail"
  BY <1>1 DEF Overall
<1>. QED  BY <1>2 DEF Status

\* The scores of a report, whole.
LEMMA SheetIs ==
    ASSUME IInv, NEW report, IsReport(report)
    PROVE  LET scored == report.scores \union StoppedScores(report.command) IN
           /\ IsFiniteSet(report.scores) /\ IsFiniteSet(scored)
           /\ IsFiniteSet(BaselineScores(scored)) /\ IsFiniteSet(ReplayScores(report.command))
           /\ \A s \in report.scores : /\ s.case \in Planned(report.command)
                                       /\ Attempted(s.result) /\ AreCalls(s.result.calls)
           /\ \A s \in scored : s \in report.scores \/ s \in StoppedScores(report.command)
<1>1. /\ IsFiniteSet(report.scores)
      /\ \A s \in report.scores : /\ s.case \in Planned(report.command)
                                  /\ Attempted(s.result) /\ AreCalls(s.result.calls)
  BY DEF IsReport, IsSheet
<1>2. IsFiniteSet(report.scores \union StoppedScores(report.command))
  BY <1>1, StoppedAre, FS_Union
<1>. QED  BY <1>1, <1>2, BaselineIsFinite, ReplaysAre

\* A question answered as its label asks did complete.
LEMMA SuccessCompletes ==
    ASSUME NEW case, IsCase(case), case.live, Consistent(case),
           NEW result, TaskSuccess(case, result)
    PROVE  ~ DidNotComplete(result)
<1>1. CASE Expecting(case)
  BY <1>1 DEF TaskSuccess, Answered, DidNotComplete, ProviderStops, AgentStops
<1>2. CASE ~ Expecting(case)
  <2>1. case.stops \subseteq Abstentions
    BY <1>2 DEF IsCase, Consistent, Expecting
  <2>2. result.stop \in Abstentions
    BY <1>2, <2>1 DEF TaskSuccess
  <2>. QED  BY <2>2 DEF DidNotComplete, Abstentions, ProviderStops, AgentStops
<1>. QED  BY <1>1, <1>2

LEMMA CapsAreIn == IInv => CapsAreNobodysFailure
<1>. SUFFICES ASSUME IInv, NEW report \in PaidReports, \A s \in report.scores : NobodyFailed(s),
                     report.verdict = "FAIL"
              PROVE  FALSE
  BY DEF CapsAreNobodysFailure
<1>. DEFINE command == report.command
            scored == report.scores \union StoppedScores(command)
            replayed == ReplayScores(command)
            baseline == BaselineScores(scored)
            measured == Measurements(scored, replayed, baseline, TRUE)
<1>1. IsReport(report)
  BY DEF PaidReports, IInv, Reported
<1>2. PICK completed \in BOOLEAN :
          report.verdict = VerdictOf(command, report.rule, report.scores, completed)
  BY <1>1 DEF IsReport
<1>3. EvaluateRule(report.rule, measured, "live", command.endpoint, command.split, completed)
          = "FAIL"
  BY <1>2, VerdictIs
<1>4. ASSUME NEW s \in scored
      PROVE  Right(s)
  <2>1. CASE s \in report.scores
    <3>1. /\ s.result.faults = {} /\ ~ s.result.slow
          /\ \A call \in s.result.calls : call.tool \in Tools
          /\ \/ s.result.stop = "budget_exhausted"
             \/ TaskSuccess(s.case, s.result) /\ ToolsCorrect(s.case, s.result) # "no"
      BY <2>1 DEF NobodyFailed
    <3>2. \A call \in s.result.calls : call.tool # Unregistered
      BY <3>1, ScoringAssumption
    <3>3. IsCase(s.case) /\ s.case.live /\ Consistent(s.case)
      <4>1. s.case \in Planned(command)
        BY <1>1, <2>1, SheetIs
      <4>2. s.case \in load.dataset.cases /\ IsCase(s.case) /\ s.case.live
        BY <4>1, PlannedAreCases DEF Reaches
      <4>. QED  BY <1>1, <4>2 DEF IsReport, IsSheet, Loadable
    <3>. QED  BY <3>1, <3>2, <3>3, SuccessCompletes DEF Right, CountsForQuality, OperatorStops
  <2>2. CASE s \in StoppedScores(command)
    BY <2>2, StoppedAre DEF Right, CountsForQuality
  <2>. QED  BY <2>1, <2>2
<1>5. PICK c \in report.rule.binding : Misses(c, measured[c])
  <2>. HIDE DEF measured
  <2>. QED  BY <1>3, FailIsAMiss
<1>6. c \in Criteria
  BY <1>1, BindingsAre DEF IsReport
<1>7. /\ IsFiniteSet(scored) /\ IsFiniteSet(replayed) /\ IsFiniteSet(baseline)
      /\ \A s \in replayed :
            /\ s.result.faults = {}
            /\ \A call \in s.result.calls : call.tool = Unregistered => call.status = "rejected"
  BY <1>1, SheetIs, ReplaysAre
<1>. HIDE DEF scored, replayed, baseline
<1>8. ~ Misses(c, measured[c])
  BY <1>4, <1>6, <1>7, RightMissesNothing, ToleranceAssumption
<1>. QED  BY <1>5, <1>8

\* A spend cap, an interrupt or an error of the runner fails nobody, whatever was
\* asked and however far it went: for any tools, claims, samples, thresholds of
\* the rates and datasets (agent_scoring.py: "Counting it here would turn a cap
\* into a FAIL").
THEOREM CapsNobody == Spec => []CapsAreNobodysFailure
BY Invariant, CapsAreIn, PTL

(***************************************************************************)
(* What a PASS has measured                                                *)
(***************************************************************************)

\* Where none is tolerated, none is found.
LEMMA NoneFound ==
    ASSUME NEW counted, IsFiniteSet(counted), NEW opportunities,
           NEW c \in Criteria \ (MinRates \union MaxRates), Threshold[c] = 0,
           ~ Misses(c, Count(counted, opportunities))
    PROVE  counted = {}
<1>1. Cardinality(counted) \in Nat
  BY FS_CardinalityType
<1>2. ~ (Cardinality(counted) > 0)
  BY DEF Misses, Count
<1>. QED  BY <1>1, <1>2, FS_EmptySet

\* Where all must be right, none is wrong.
LEMMA NoneWrong ==
    ASSUME NEW judgements, IsFiniteSet(DOMAIN judgements),
           \A s \in DOMAIN judgements : judgements[s] \in {"yes", "no", "na"},
           NEW c \in MinRates, Threshold[c] = 100, ~ Misses(c, Rate(judgements))
    PROVE  \A s \in DOMAIN judgements : judgements[s] # "no"
<1>. DEFINE judged == {s \in DOMAIN judgements : judgements[s] # "na"}
            yes == {s \in judged : judgements[s] = "yes"}
            n == Cardinality(judged)
            v == Cardinality(yes)
<1>1. IsFiniteSet(judged) /\ yes \in SUBSET judged
  BY FS_Subset
<1>2. n \in Nat /\ v \in Nat /\ v <= n
  BY <1>1, FS_Subset, FS_CardinalityType
<1>3. Rate(judgements).value = v /\ Rate(judgements).of = n
  BY DEF Rate
<1>. HIDE DEF n, v
<1>4. v = n
  BY <1>2, <1>3 DEF Misses
<1>5. yes = judged
  BY <1>1, <1>4, FS_Subset DEF n, v
<1>. QED  BY <1>5

\* A rate that is not missed is reached.
LEMMA RateIsReached ==
    ASSUME NEW judgements, IsFiniteSet(DOMAIN judgements),
           \A s \in DOMAIN judgements : judgements[s] \in {"yes", "no"},
           NEW c \in MinRates, Threshold[c] \in Nat, ~ Misses(c, Rate(judgements)),
           NEW some, some \subseteq DOMAIN judgements,
           \A s \in DOMAIN judgements : judgements[s] = "yes" => s \in some
    PROVE  Reaching(Threshold[c], some, DOMAIN judgements)
<1>. DEFINE judged == {s \in DOMAIN judgements : judgements[s] # "na"}
            yes == {s \in judged : judgements[s] = "yes"}
            n == Cardinality(DOMAIN judgements)
            v == Cardinality(yes)
            w == Cardinality(some)
<1>1. judged = DOMAIN judgements /\ yes \in SUBSET some /\ some \in SUBSET DOMAIN judgements
  OBVIOUS
<1>2. IsFiniteSet(some) /\ n \in Nat
  BY <1>1, FS_Subset, FS_CardinalityType
<1>3. v \in Nat /\ w \in Nat /\ v <= w
  BY <1>1, <1>2, FS_Subset, FS_CardinalityType
<1>4. Rate(judgements).value = v /\ Rate(judgements).of = n
  BY <1>1 DEF Rate
<1>. HIDE DEF n, v, w
<1>5. Threshold[c] * n \in Nat
  BY <1>2
<1>6. 100 * v >= Threshold[c] * n
  BY <1>3, <1>4, <1>5 DEF Misses
<1>7. 100 * w >= Threshold[c] * n
  BY <1>3, <1>5, <1>6
<1>. QED  BY <1>7 DEF Reaching, n, w

LEMMA RateIsWithin ==
    ASSUME NEW judgements, IsFiniteSet(DOMAIN judgements),
           \A s \in DOMAIN judgements : judgements[s] \in {"yes", "no"},
           NEW c \in MaxRates, Threshold[c] \in Nat, ~ Misses(c, Rate(judgements))
    PROVE  Reaching(100 - Threshold[c], {s \in DOMAIN judgements : judgements[s] # "yes"},
                    DOMAIN judgements)
<1>. DEFINE whole == DOMAIN judgements
            judged == {s \in whole : judgements[s] # "na"}
            yes == {s \in judged : judgements[s] = "yes"}
            rest == {s \in whole : judgements[s] # "yes"}
            n == Cardinality(whole)
            v == Cardinality(yes)
            w == Cardinality(rest)
<1>1. judged = whole /\ yes \in SUBSET whole /\ rest = whole \ yes /\ whole \intersect yes = yes
  OBVIOUS
<1>2. n \in Nat /\ v \in Nat /\ w = n - v
  <2>. HIDE DEF whole, yes, rest
  <2>1. n \in Nat /\ v \in Nat
    BY <1>1, FS_Subset, FS_CardinalityType DEF whole
  <2>2. Cardinality(whole \ yes) = n - Cardinality(whole \intersect yes)
    BY FS_Difference DEF whole
  <2>. QED  BY <1>1, <2>1, <2>2
<1>3. Rate(judgements).value = v /\ Rate(judgements).of = n
  BY <1>1 DEF Rate
<1>. HIDE DEF n, v, w
<1>4. c \notin MinRates
  BY DEF MinRates, MaxRates
<1>5. ~ (100 * v > Threshold[c] * n)
  BY <1>3, <1>4 DEF Misses
<1>6. Threshold[c] * n \in Nat /\ 100 * v \in Nat /\ 100 * n \in Nat
  BY <1>2
<1>7. (100 - Threshold[c]) * n = 100 * n - Threshold[c] * n
  BY <1>2, Z3
<1>8. 100 * w = 100 * n - 100 * v
  BY <1>2
<1>9. 100 * w >= (100 - Threshold[c]) * n
  BY <1>5, <1>6, <1>7, <1>8
<1>. QED  BY <1>9 DEF Reaching, n, w

LEMMA MostAreFast ==
    ASSUME NEW scores, IsFiniteSet(scores), Threshold["latency"] = 0,
           ~ Misses("latency", P95(scores))
    PROVE  Reaching(95, {s \in scores : ~ s.result.slow}, scores)
<1>. DEFINE n == Cardinality(scores)
            quick == {s \in scores : ~ s.result.slow}
            fast == Cardinality(quick)
            least == (95 * n + 99) \div 100
<1>1. n \in Nat /\ fast \in Nat
  <2>1. quick \in SUBSET scores
    OBVIOUS
  <2>. QED  BY <2>1, FS_Subset, FS_CardinalityType
<1>2. P95(scores).value = IF fast < least THEN 1 ELSE 0
  BY DEF P95
<1>. HIDE DEF n, fast
<1>3. 100 * least >= 95 * n
  BY <1>1
<1>4. ~ (fast < least)
  BY <1>2 DEF Misses, MinRates, MaxRates
<1>5. 100 * fast >= 95 * n
  BY <1>1, <1>3, <1>4
<1>. QED  BY <1>5 DEF Reaching, n, fast

\* As many different cases as are planned are all of them.
LEMMA EachOnce ==
    ASSUME NEW scores, IsFiniteSet(scores), NEW planned, IsFiniteSet(planned),
           \A s \in scores : s.case \in planned,
           \A s, t \in scores : s.case = t.case => s = t,
           Cardinality(scores) = Cardinality(planned), NEW c \in planned
    PROVE  Cardinality({s \in scores : s.case = c}) = 1
<1>. DEFINE f == [s \in scores |-> s.case]
<1>1. f \in Injection(scores, planned)
  BY DEF Injection, IsInjective
<1>2. f \in Surjection(scores, planned)
  BY <1>1, FS_Injection
<1>3. PICK s \in scores : s.case = c
  BY <1>2 DEF Surjection
<1>4. {t \in scores : t.case = c} = {s}
  BY <1>3
<1>. QED  BY <1>4, FS_Singleton

LEMMA CallsAreFinite ==
    ASSUME NEW scores, IsFiniteSet(scores), \A s \in scores : IsFiniteSet(s.result.calls)
    PROVE  IsFiniteSet(CallsOf(scores))
<1>. DEFINE calls(s) == {<<s.case.id, c>> : c \in s.result.calls}
            f == [s \in scores |-> calls(s)]
<1>1. IsFiniteSet({f[s] : s \in scores})
  BY ImageIsFinite
<1>2. ASSUME NEW s \in scores
      PROVE  IsFiniteSet(calls(s))
  <2>. DEFINE g == [c \in s.result.calls |-> <<s.case.id, c>>]
  <2>1. IsFiniteSet({g[c] : c \in s.result.calls})
    BY ImageIsFinite
  <2>. QED  BY <2>1
<1>. HIDE DEF calls
<1>3. \A T \in {f[s] : s \in scores} : IsFiniteSet(T)
  BY <1>2
<1>4. IsFiniteSet(UNION {f[s] : s \in scores})
  BY <1>1, <1>3, FS_UNION
<1>5. CallsOf(scores) = UNION {f[s] : s \in scores}
  BY DEF CallsOf, calls
<1>. QED  BY <1>4, <1>5

LEMMA PassIsIn == IInv => PassIsEarned
<1>. SUFFICES ASSUME IInv, NEW report \in PaidReports, report.verdict = "PASS"
              PROVE  LET heldout == Cases(load.dataset, "heldout")
                         scores == report.scores
                         answers == {s \in scores : Expecting(s.case)} IN
        /\ report.rule.status = "accepted" /\ report.command.endpoint = "anthropic_api"
        /\ \A c \in heldout : Reaches(c) => Cardinality({s \in scores : s.case = c}) = 1
        /\ \A s \in scores :
              /\ s.case \in heldout
              /\ s.result.faults \intersect {"fabricated", "nature", "cross_run"} = {}
              /\ Answered(s.result) => "citation" \notin s.result.faults
              /\ \A call \in s.result.calls : call.tool \in Tools
              /\ "live_false_answers" \in report.rule.binding => ~FalseAnswer(s.case, s.result)
              /\ IncorrectAbstention(s.case, s.result) =>
                    ~TaskSuccess(s.case, RouteFollowing(s.case))
        /\ Reaching(Threshold["task_success"],
                    {s \in answers : TaskSuccess(s.case, s.result)}, answers)
        /\ Reaching(Threshold["tool_selection"],
                    {s \in answers : s.case.tools \subseteq Executed(s.result)}, answers)
        /\ Reaching(100 - Threshold["non_completion"],
                    {s \in scores : ~DidNotComplete(s.result)}, scores)
        /\ Reaching(95, {s \in scores : ~s.result.slow}, scores)
  BY Zenon DEF PassIsEarned
<1>. DEFINE command == report.command
            heldout == Cases(load.dataset, "heldout")
            scores == report.scores
            answers == {s \in scores : Expecting(s.case)}
            scored == scores \union StoppedScores(command)
            replayed == ReplayScores(command)
            baseline == BaselineScores(scored)
            m == Measurements(scored, replayed, baseline, TRUE)
<1>1. IsReport(report)
  BY DEF PaidReports, IInv, Reported
<1>2. PICK completed \in BOOLEAN :
          /\ report.verdict = VerdictOf(command, report.rule, scores, completed)
          /\ completed => /\ NotStopped(scores)
                          /\ Cardinality(scores) = Cardinality(Planned(command))
  BY <1>1 DEF IsReport
<1>3. EvaluateRule(report.rule, m, "live", command.endpoint, command.split, completed) = "PASS"
  BY <1>2, VerdictIs
<1>4. AreReadings(m, scored, replayed, baseline)
  BY ReadingsAre
<1>. HIDE DEF m
<1>5. /\ command.endpoint = "anthropic_api" /\ command.split = "heldout"
      /\ report.rule.status = "accepted" /\ completed
      /\ \A c \in report.rule.binding : ~ Misses(c, m[c])
  BY <1>3, BindingPasses
<1>6. /\ {"fabricated", "citation", "nature", "tool_selection", "cross_run",
          "registry_executions", "registry_attempts", "non_completion", "latency",
          "new_false_abstentions", "task_success"} \subseteq report.rule.binding
  BY <1>1, <1>5, BindingsAre DEF IsReport
<1>7. /\ IsFiniteSet(scores) /\ IsFiniteSet(scored) /\ IsFiniteSet(replayed)
      /\ \A s \in scores : /\ s.case \in Planned(command)
                           /\ Attempted(s.result) /\ AreCalls(s.result.calls)
  BY <1>1, SheetIs
<1>8. IsFiniteSet(answers) /\ answers \subseteq scores
  <2>1. answers \in SUBSET scores
    OBVIOUS
  <2>. QED  BY <1>7, <2>1, FS_Subset
<1>9. \A s \in StoppedScores(command) :
          /\ s.result.faults = {} /\ s.result.calls = {} /\ ~ Attempted(s.result)
  BY StoppedAre
<1>10. Quality(scored) = scores /\ Answers(scored) = answers
  <2>1. \A s \in scores : CountsForQuality(s.result)
    BY <1>2, <1>5, <1>7 DEF CountsForQuality, NotStopped
  <2>2. Quality(scored) = scores
    BY <1>9, <2>1 DEF Quality, CountsForQuality
  <2>. QED  BY <2>2 DEF Answers
<1>11. Threshold \in [Criteria -> Nat]
  BY ScoringAssumption
<1>. DEFINE plain == Criteria \ (MinRates \union MaxRates)
            every == scored \union replayed
<1>12. IsFiniteSet(every)
  BY <1>7, FS_Union
<1>. HIDE DEF command, scored, replayed, baseline, answers, scores, every
<1>a. \A c \in heldout : Reaches(c) => Cardinality({s \in scores : s.case = c}) = 1
  <2>1. Planned(command) = {c \in heldout : Reaches(c)} /\ IsFiniteSet(Planned(command))
    BY <1>5, CasesAre
  <2>2. \A s, t \in scores : s.case = t.case => s = t
    BY <1>1 DEF IsReport, IsSheet, scores
  <2>3. ASSUME NEW c \in Planned(command)
        PROVE  Cardinality({s \in scores : s.case = c}) = 1
    BY <1>2, <1>5, <1>7, <2>1, <2>2, EachOnce
  <2>. QED  BY <2>1, <2>3
<1>b. \A s \in scores : s.case \in heldout
  BY <1>5, <1>7, CasesAre
<1>c. \A s \in scores : "fabricated" \notin s.result.faults
  <2>1. IsFiniteSet(With("fabricated", every))
    <3>1. With("fabricated", every) \in SUBSET every
      BY DEF With
    <3>. QED  BY <1>12, <3>1, FS_Subset
  <2>2. m.fabricated = Count(With("fabricated", every), every)
    BY <1>4, Zenon DEF AreReadings, every
  <2>3. ~ Misses("fabricated", m.fabricated) /\ Threshold["fabricated"] = 0
    BY <1>5, <1>6, ToleranceAssumption DEF Criteria, MinRates, MaxRates
  <2>4. "fabricated" \in plain
    BY Zenon DEF Criteria, MinRates, MaxRates
  <2>5. With("fabricated", every) = {}
    BY <2>1, <2>2, <2>3, <2>4, NoneFound
  <2>. QED  BY <2>5 DEF With, every, scored
<1>d. \A s \in scores : "cross_run" \notin s.result.faults
  <2>1. IsFiniteSet(With("cross_run", every))
    <3>1. With("cross_run", every) \in SUBSET every
      BY DEF With
    <3>. QED  BY <1>12, <3>1, FS_Subset
  <2>2. m.cross_run = Count(With("cross_run", every), every)
    BY <1>4, Zenon DEF AreReadings, every
  <2>3. ~ Misses("cross_run", m.cross_run) /\ Threshold["cross_run"] = 0
    BY <1>5, <1>6, ToleranceAssumption DEF Criteria, MinRates, MaxRates
  <2>4. "cross_run" \in plain
    BY Zenon DEF Criteria, MinRates, MaxRates
  <2>5. With("cross_run", every) = {}
    BY <2>1, <2>2, <2>3, <2>4, NoneFound
  <2>. QED  BY <2>5 DEF With, every, scored
<1>e. \A s \in scores : "nature" \notin s.result.faults
  <2>. DEFINE j == [s \in every |-> Judged("nature" \notin s.result.faults)]
  <2>1. m.nature = Rate(j)
    BY <1>4, Zenon DEF AreReadings, every
  <2>2. /\ DOMAIN j = every /\ (\A s \in every : j[s] \in {"yes", "no", "na"})
        /\ \A s \in every : "nature" \in s.result.faults => j[s] = "no"
    BY DEF Judged
  <2>. HIDE DEF j
  <2>3. "nature" \in MinRates /\ Threshold["nature"] = 100 /\ ~ Misses("nature", m.nature)
    BY <1>5, <1>6, ToleranceAssumption DEF MinRates
  <2>4. \A s \in every : j[s] # "no"
    BY <1>12, <2>1, <2>2, <2>3, NoneWrong
  <2>. QED  BY <2>2, <2>4 DEF every, scored
<1>f. \A s \in scores : Answered(s.result) => "citation" \notin s.result.faults
  <2>. DEFINE j == [s \in scored |-> CitationsValid(s.result)]
  <2>1. m.citation = Rate(j)
    BY <1>4, Zenon DEF AreReadings
  <2>2. /\ DOMAIN j = scored /\ (\A s \in scored : j[s] \in {"yes", "no", "na"})
        /\ \A s \in scored : Answered(s.result) /\ "citation" \in s.result.faults => j[s] = "no"
    BY DEF CitationsValid, Judged
  <2>. HIDE DEF j
  <2>3. "citation" \in MinRates /\ Threshold["citation"] = 100 /\ ~ Misses("citation", m.citation)
    BY <1>5, <1>6, ToleranceAssumption DEF MinRates
  <2>4. \A s \in scored : j[s] # "no"
    BY <1>7, <2>1, <2>2, <2>3, NoneWrong
  <2>. QED  BY <2>2, <2>4 DEF scored
<1>g. \A s \in scores : \A call \in s.result.calls : call.tool \in Tools
  <2>1. \A s \in scored : IsFiniteSet(s.result.calls)
    BY <1>7, <1>9, FS_EmptySet DEF scored, AreCalls
  <2>2. IsFiniteSet(UnregisteredCalls(scored))
    <3>1. UnregisteredCalls(scored) \in SUBSET CallsOf(scored)
      BY DEF UnregisteredCalls
    <3>. QED  BY <1>7, <2>1, <3>1, CallsAreFinite, FS_Subset
  <2>3. m.registry_attempts = Count(UnregisteredCalls(scored), CallsOf(scored))
    BY <1>4, Zenon DEF AreReadings
  <2>4. ~ Misses("registry_attempts", m.registry_attempts) /\ Threshold["registry_attempts"] = 0
    BY <1>5, <1>6, ToleranceAssumption DEF Criteria, MinRates, MaxRates
  <2>5. "registry_attempts" \in plain
    BY Zenon DEF Criteria, MinRates, MaxRates
  <2>6. UnregisteredCalls(scored) = {}
    BY <2>2, <2>3, <2>4, <2>5, NoneFound
  <2>7. ASSUME NEW s \in scores, NEW call \in s.result.calls
        PROVE  call.tool # Unregistered
    <3>1. <<s.case.id, call>> \in CallsOf(scored)
      BY DEF CallsOf, scored
    <3>2. <<s.case.id, call>>[2] = call
      OBVIOUS
    <3>. QED  BY <2>6, <3>1, <3>2 DEF UnregisteredCalls
  <2>. QED  BY <1>7, <2>7 DEF AreCalls
<1>h. ASSUME "live_false_answers" \in report.rule.binding, NEW s \in scores
      PROVE  ~ FalseAnswer(s.case, s.result)
  <2>. DEFINE wrong == {t \in scores \ answers : FalseAnswer(t.case, t.result)}
  <2>1. IsFiniteSet(wrong)
    <3>1. wrong \in SUBSET scores
      OBVIOUS
    <3>. QED  BY <1>7, <3>1, FS_Subset
  <2>2. m.live_false_answers = Count(wrong, scores \ answers)
    BY <1>4, <1>10, Zenon DEF AreReadings
  <2>3. ~ Misses("live_false_answers", m.live_false_answers) /\ Threshold["live_false_answers"] = 0
    BY <1>5, <1>h, ToleranceAssumption DEF Criteria, MinRates, MaxRates
  <2>4. "live_false_answers" \in plain
    BY Zenon DEF Criteria, MinRates, MaxRates
  <2>5. wrong = {}
    <3>. HIDE DEF wrong
    <3>. QED  BY <2>1, <2>2, <2>3, <2>4, NoneFound
  <2>. QED  BY <2>5 DEF FalseAnswer, answers
<1>i. Reaching(Threshold["task_success"], {s \in answers : TaskSuccess(s.case, s.result)}, answers)
  <2>. DEFINE j == [s \in answers |-> Judged(TaskSuccess(s.case, s.result))]
              some == {s \in answers : TaskSuccess(s.case, s.result)}
  <2>1. m.task_success = Rate(j)
    BY <1>4, <1>10, Zenon DEF AreReadings
  <2>2. /\ DOMAIN j = answers /\ (\A s \in answers : j[s] \in {"yes", "no"})
        /\ \A s \in answers : j[s] = "yes" => s \in some
    BY DEF Judged
  <2>3. some \subseteq answers
    OBVIOUS
  <2>. HIDE DEF j, some
  <2>4. /\ "task_success" \in MinRates /\ Threshold["task_success"] \in Nat
        /\ ~ Misses("task_success", m.task_success)
    BY <1>5, <1>6, <1>11 DEF MinRates, Criteria
  <2>5. Reaching(Threshold["task_success"], some, answers)
    BY <1>8, <2>1, <2>2, <2>3, <2>4, RateIsReached
  <2>. QED  BY <2>5 DEF some
<1>j. Reaching(Threshold["tool_selection"],
               {s \in answers : s.case.tools \subseteq Executed(s.result)}, answers)
  <2>. DEFINE j == [s \in answers |-> ToolsCorrect(s.case, s.result)]
              some == {s \in answers : s.case.tools \subseteq Executed(s.result)}
  <2>1. m.tool_selection = Rate(j)
    BY <1>4, <1>10, Zenon DEF AreReadings
  <2>2. ASSUME NEW s \in answers
        PROVE  j[s] \in {"yes", "no"} /\ (j[s] = "yes" => s \in some)
    <3>1. j[s] = ToolsCorrect(s.case, s.result)
      OBVIOUS
    <3>2. Expecting(s.case) /\ Attempted(s.result) /\ s.result.stop \notin OperatorStops
      BY <1>2, <1>5, <1>7 DEF answers, NotStopped
    <3>3. s.result.turns > 0 \/ DidNotComplete(s.result)
      BY <3>2 DEF Attempted, DidNotComplete
    <3>. HIDE DEF j
    <3>. QED  BY <3>1, <3>2, <3>3 DEF ToolsCorrect, ToolsCorrectV1, Judged
  <2>3. some \subseteq answers /\ DOMAIN j = answers
    OBVIOUS
  <2>. HIDE DEF j, some
  <2>4. /\ "tool_selection" \in MinRates /\ Threshold["tool_selection"] \in Nat
        /\ ~ Misses("tool_selection", m.tool_selection)
    BY <1>5, <1>6, <1>11 DEF MinRates, Criteria
  <2>5. Reaching(Threshold["tool_selection"], some, answers)
    BY <1>8, <2>1, <2>2, <2>3, <2>4, RateIsReached
  <2>. QED  BY <2>5 DEF some
<1>k. Reaching(95, {s \in scores : ~s.result.slow}, scores)
  <2>1. m.latency = P95(scores)
    BY <1>4, <1>10, Zenon DEF AreReadings
  <2>2. ~ Misses("latency", m.latency) /\ Threshold["latency"] = 0
    BY <1>5, <1>6, ToleranceAssumption DEF Criteria, MinRates, MaxRates
  <2>. QED  BY <1>7, <2>1, <2>2, MostAreFast
<1>l. \A s \in scores : s.result.faults \intersect {"fabricated", "nature", "cross_run"} = {}
  BY <1>c, <1>d, <1>e
<1>m. ASSUME NEW s \in scores, IncorrectAbstention(s.case, s.result),
             TaskSuccess(s.case, RouteFollowing(s.case))
      PROVE  FALSE
  <2>. DEFINE b == [case |-> s.case, result |-> RouteFollowing(s.case)]
              right == RuleRight(scored, baseline)
              refused == {t \in right : IncorrectAbstention(t.case, Of(scores, t.case))}
  <2>1. b.case = s.case /\ b.result = RouteFollowing(s.case)
    OBVIOUS
  <2>2. b \in baseline
    BY DEF baseline, BaselineScores, Scored, scored
  <2>. HIDE DEF b
  <2>3. b \in right
    BY <1>10, <1>m, <2>1, <2>2 DEF RuleRight, Paired, IncorrectAbstention
  <2>4. Of(scores, s.case) = s.result
    <3>1. \E t \in scores : t.case = s.case /\ Of(scores, s.case) = t.result
      BY OfIs
    <3>2. \A t, u \in scores : t.case = u.case => t = u
      BY <1>1 DEF IsReport, IsSheet, scores
    <3>. QED  BY <3>1, <3>2
  <2>5. b \in refused
    BY <1>m, <2>1, <2>3, <2>4
  <2>6. IsFiniteSet(refused)
    <3>1. IsFiniteSet(baseline)
      BY <1>7, BaselineIsFinite DEF baseline
    <3>2. refused \in SUBSET baseline
      BY DEF RuleRight, Paired
    <3>. QED  BY <3>1, <3>2, FS_Subset
  <2>7. m.new_false_abstentions = Count(refused, right)
    BY <1>4, <1>10, Zenon DEF AreReadings
  <2>8. "new_false_abstentions" \in plain
    BY Zenon DEF Criteria, MinRates, MaxRates
  <2>9. ~ Misses("new_false_abstentions", m.new_false_abstentions)
        /\ Threshold["new_false_abstentions"] = 0
    BY <1>5, <1>6, <2>8, ToleranceAssumption
  <2>. HIDE DEF refused, right
  <2>10. refused = {}
    BY <2>6, <2>7, <2>8, <2>9, NoneFound
  <2>. QED  BY <2>5, <2>10
<1>n. Reaching(100 - Threshold["non_completion"],
               {s \in scores : ~DidNotComplete(s.result)}, scores)
  <2>. DEFINE j == [s \in scores |-> Judged(DidNotComplete(s.result))]
  <2>1. m.non_completion = Rate(j)
    BY <1>4, <1>10, Zenon DEF AreReadings
  <2>2. /\ DOMAIN j = scores /\ (\A s \in scores : j[s] \in {"yes", "no"})
        /\ {s \in scores : j[s] # "yes"} = {s \in scores : ~DidNotComplete(s.result)}
    BY DEF Judged
  <2>. HIDE DEF j
  <2>3. /\ "non_completion" \in MaxRates /\ Threshold["non_completion"] \in Nat
        /\ ~ Misses("non_completion", m.non_completion)
    BY <1>5, <1>6, <1>11 DEF MaxRates, Criteria
  <2>4. Reaching(100 - Threshold["non_completion"], {s \in DOMAIN j : j[s] # "yes"}, DOMAIN j)
    BY <1>7, <2>1, <2>2, <2>3, RateIsWithin
  <2>. QED  BY <2>2, <2>4
<1>. QED  BY <1>5, <1>a, <1>b, <1>f, <1>g, <1>h, <1>i, <1>j, <1>k, <1>l, <1>m, <1>n
          DEF command, scores, answers

\* A PASS is earned: for any datasets, tools, claims, sample sizes and thresholds
\* of the rates, whatever the model answered and however many runs were made
\* (agent_rule.py: evaluate_rule, agent_scoring.py: measurements_v2,
\* cli/copilot_agent_benchmark.py: build_live_report).
THEOREM PassEarned == Spec => []PassIsEarned
BY Invariant, PassIsIn, PTL

(***************************************************************************)
(* The controls                                                            *)
(***************************************************************************)

LEMMA CallsToAre ==
    ASSUME NEW tools, NEW turn
    PROVE  /\ \A t \in tools : t # Unregistered =>
                 \E call \in CallsTo(tools, turn) : call.tool = t /\ call.status = "ok"
           /\ \A call \in CallsTo(tools, turn) :
                 /\ call.tool \in tools
                 /\ call.status = IF call.tool = Unregistered THEN "rejected" ELSE "ok"
           /\ tools = {} <=> CallsTo(tools, turn) = {}
           /\ IsFiniteSet(tools) =>
                 /\ IsFiniteSet(CallsTo(tools, turn))
                 /\ Cardinality(CallsTo(tools, turn)) <= Cardinality(tools)
<1>. DEFINE call(t) == [tool |-> t, turn |-> turn,
                        status |-> IF t = Unregistered THEN "rejected" ELSE "ok"]
            f == [t \in tools |-> call(t)]
<1>1. CallsTo(tools, turn) = {call(t) : t \in tools}
  BY DEF CallsTo
<1>2. /\ \A t : call(t).tool = t
      /\ \A t : call(t).status = IF t = Unregistered THEN "rejected" ELSE "ok"
  OBVIOUS
<1>3. IsFiniteSet(tools) =>
        /\ IsFiniteSet({f[t] : t \in tools})
        /\ Cardinality({f[t] : t \in tools}) <= Cardinality(tools)
  BY ImageIsFinite
<1>4. {f[t] : t \in tools} = CallsTo(tools, turn)
  BY <1>1
<1>. HIDE DEF f, call
<1>5. \A k \in CallsTo(tools, turn) :
          k.tool \in tools /\ k.status = IF k.tool = Unregistered THEN "rejected" ELSE "ok"
  BY <1>1, <1>2
<1>6. \A t \in tools : t # Unregistered =>
          \E k \in CallsTo(tools, turn) : k.tool = t /\ k.status = "ok"
  BY <1>1, <1>2
<1>7. tools = {} <=> CallsTo(tools, turn) = {}
  BY <1>1
<1>. QED  BY <1>3, <1>4, <1>5, <1>6, <1>7

\* What is offered and owned by a tool that is called is retrieved.
LEMMA RetrievedAre ==
    ASSUME NEW case, IsCase(case), NEW tools, NEW turn
    PROVE  LET retrieved == Retrieved(case, CallsTo(tools, turn)) IN
           /\ retrieved \subseteq case.offered
           /\ \A c \in case.offered : c \in retrieved <=> Owner[c] \in tools
<1>1. \A c \in case.offered : Owner[c] # Unregistered
  BY ScoringAssumption DEF IsCase
<1>. QED  BY <1>1, CallsToAre DEF Retrieved

\* How a conversation ends.
ConversationEnds(case, calls, selected, r) ==
    /\ r.turns \in Nat \ {0} /\ r.faults = {} /\ r.slow = FALSE
    /\ r.stop \in {"tool_budget_exhausted", "selection_rejected", "no_relevant_claim", "answered"}
    /\ r.calls \in {{}, calls}
    /\ r.stop = "answered" =>
          /\ selected \subseteq Retrieved(case, calls) /\ selected \intersect case.asks # {}
          /\ r.shown = {Label} \union selected /\ r.calls = calls
    /\ /\ ~ (Cardinality(calls) > MaxToolCalls)
       /\ selected \subseteq Retrieved(case, calls) /\ selected \intersect case.asks # {}
       => r.stop = "answered"

LEMMA ConversationIs ==
    ASSUME NEW case, NEW calls, NEW selected
    PROVE  ConversationEnds(case, calls, selected, Conversation(case, calls, selected))
<1>. DEFINE turns == IF calls = {} THEN 1 ELSE 2
            r == Conversation(case, calls, selected)
<1>. SUFFICES ConversationEnds(case, calls, selected, r)
  OBVIOUS
<1>0. turns \in Nat \ {0}
  OBVIOUS
<1>1. CASE Cardinality(calls) > MaxToolCalls
  <2>1. r = Ended("tool_budget_exhausted", "none", 1, {}, {})
    BY <1>1, Zenon DEF Conversation
  <2>. HIDE DEF r
  <2>2. r.stop = "tool_budget_exhausted" /\ r.turns = 1 /\ r.calls = {} /\ r.faults = {}
        /\ r.slow = FALSE
    BY <2>1 DEF Ended
  <2>. QED  BY <1>1, <2>2 DEF ConversationEnds
<1>2. CASE ~ (Cardinality(calls) > MaxToolCalls)
  <2>. HIDE DEF turns
  <2>0. r = Selecting(case, turns, calls, selected)
    BY <1>2, Zenon DEF Conversation, turns
  <2>. HIDE DEF r
  <2>1. CASE ~ (selected \subseteq Retrieved(case, calls))
    <3>1. r = Ended("selection_rejected", "none", turns, calls, {})
      BY <2>0, <2>1 DEF Selecting
    <3>2. r.stop = "selection_rejected" /\ r.turns = turns /\ r.calls = calls /\ r.faults = {}
          /\ r.slow = FALSE
      BY <3>1 DEF Ended
    <3>. QED  BY <1>0, <2>1, <3>2 DEF ConversationEnds
  <2>2. CASE selected \subseteq Retrieved(case, calls) /\ selected \intersect case.asks = {}
    <3>1. r = Ended("no_relevant_claim", "none", turns, calls, {})
      BY <2>0, <2>2 DEF Selecting
    <3>2. r.stop = "no_relevant_claim" /\ r.turns = turns /\ r.calls = calls /\ r.faults = {}
          /\ r.slow = FALSE
      BY <3>1 DEF Ended
    <3>. QED  BY <1>0, <2>2, <3>2 DEF ConversationEnds
  <2>3. CASE selected \subseteq Retrieved(case, calls) /\ selected \intersect case.asks # {}
    <3>1. r = Ended("answered", "none", turns, calls, {Label} \union selected)
      BY <2>0, <2>3 DEF Selecting
    <3>2. r.stop = "answered" /\ r.turns = turns /\ r.calls = calls /\ r.faults = {}
          /\ r.slow = FALSE /\ r.shown = {Label} \union selected
      BY <3>1 DEF Ended
    <3>. QED  BY <1>0, <2>3, <3>2 DEF ConversationEnds
  <2>. QED  BY <2>1, <2>2, <2>3, Zenon
<1>. QED  BY <1>1, <1>2

LEMMA GreatestElement ==
    ASSUME NEW S \in SUBSET Nat, IsFiniteSet(S), S # {}
    PROVE  \E s \in S : \A t \in S : t <= s
<1>. DEFINE above(s) == {t \in S : s < t}
            sizes == {Cardinality(above(s)) : s \in S}
<1>1. \A s \in S : above(s) \in SUBSET S /\ IsFiniteSet(above(s)) /\ Cardinality(above(s)) \in Nat
  <2>1. \A s \in S : above(s) \in SUBSET S
    OBVIOUS
  <2>. HIDE DEF above
  <2>. QED  BY <2>1, FS_Subset, FS_CardinalityType
<1>2. PICK n \in sizes : \A m \in sizes : n <= m
  <2>1. sizes \in SUBSET Nat /\ sizes # {}
    BY <1>1
  <2>. HIDE DEF sizes
  <2>. QED  BY <2>1, LeastElement
<1>3. PICK s \in S : \A t \in S : Cardinality(above(s)) <= Cardinality(above(t))
  BY <1>2
<1>4. ASSUME NEW t \in S, ~ (t <= s)
      PROVE  FALSE
  <2>0. s \in Nat /\ t \in Nat /\ s < t /\ ~ (t < t)
    BY <1>4
  <2>a. t \in above(s) /\ t \notin above(t)
    BY <2>0
  <2>b. ASSUME NEW u \in above(t)
        PROVE  u \in above(s)
    <3>1. u \in S /\ t < u /\ u \in Nat
      OBVIOUS
    <3>. QED  BY <2>0, <3>1
  <2>1. t \in above(s) \ above(t) /\ above(t) \in SUBSET above(s)
    BY <2>a, <2>b
  <2>2. above(t) # above(s)
    BY <2>1
  <2>. HIDE DEF above
  <2>3. /\ Cardinality(above(t)) \in Nat /\ Cardinality(above(s)) \in Nat
        /\ Cardinality(above(t)) <= Cardinality(above(s))
        /\ Cardinality(above(t)) = Cardinality(above(s)) => above(t) = above(s)
    BY <1>1, <2>1, FS_Subset
  <2>. QED  BY <1>3, <2>2, <2>3
<1>. QED  BY <1>3, <1>4

\* The tools of some claims are within what a question may call.
LEMMA ToolsForAre ==
    ASSUME NEW S, S \subseteq Claims \union {Label}, IsFiniteSet(S)
    PROVE  LET owners == {Owner[c] : c \in S} IN
           /\ owners \subseteq Nat /\ owners \subseteq Tools /\ IsFiniteSet(owners)
           /\ ToolsFor(S) = {t \in owners : Cardinality({u \in owners : u < t}) < MaxToolCalls}
           /\ IsFiniteSet(ToolsFor(S)) /\ Cardinality(ToolsFor(S)) <= MaxToolCalls
<1>. DEFINE f == [c \in S |-> Owner[c]]
            owners == {Owner[c] : c \in S}
            tools == ToolsFor(S)
            below(t) == {u \in owners : u < t}
<1>1. owners \subseteq Tools /\ owners \subseteq Nat /\ MaxToolCalls \in Nat \ {0}
  BY ScoringAssumption
<1>2. IsFiniteSet(owners)
  <2>1. IsFiniteSet({f[c] : c \in S})
    BY ImageIsFinite
  <2>. QED  BY <2>1
<1>3. tools = {t \in owners : Cardinality(below(t)) < MaxToolCalls}
  BY DEF ToolsFor
<1>. HIDE DEF owners, tools
<1>4. tools \in SUBSET owners /\ IsFiniteSet(tools)
  BY <1>2, <1>3, FS_Subset
<1>5. Cardinality(tools) <= MaxToolCalls
  <2>1. CASE tools = {}
    BY <1>1, <2>1, FS_EmptySet
  <2>2. CASE tools # {}
    <3>1. PICK t \in tools : \A u \in tools : u <= t
      BY <1>1, <1>4, <2>2, GreatestElement
    <3>2. tools \ {t} \in SUBSET below(t) /\ below(t) \in SUBSET owners
      BY <1>1, <1>4, <3>1
    <3>3. IsFiniteSet(below(t))
      BY <1>2, <3>2, FS_Subset
    <3>4. Cardinality(below(t)) < MaxToolCalls /\ Cardinality(below(t)) \in Nat
      BY <1>3, <3>3, FS_CardinalityType
    <3>5. Cardinality(tools \ {t}) <= Cardinality(below(t))
      <4>. HIDE DEF below
      <4>. QED  BY <3>2, <3>3, FS_Subset
    <3>6. Cardinality(tools \ {t}) = Cardinality(tools) - 1 /\ Cardinality(tools) \in Nat
      BY <1>4, FS_RemoveElement, FS_CardinalityType
    <3>. QED  BY <1>1, <3>4, <3>5, <3>6
  <2>. QED  BY <2>1, <2>2
<1>. QED  BY <1>1, <1>2, <1>3, <1>4, <1>5 DEF owners, tools

\* A question that reaches a model, of a benchmark that loads.
IsQuestion(case) == IsCase(case) /\ Consistent(case) /\ Reaches(case)

\* The claims the tools are chosen for.
Wanted(case) == IF case.offered = {Label} THEN {Label} ELSE case.offered \ {Label}

LEMMA WantedAre ==
    ASSUME NEW case, IsQuestion(case)
    PROVE  /\ Wanted(case) \subseteq case.offered /\ Wanted(case) \subseteq case.asks
           /\ Wanted(case) \subseteq Claims \union {Label}
           /\ IsFiniteSet(Wanted(case)) /\ Wanted(case) # {}
           /\ case.offered \subseteq Wanted(case) \union {Label}
           /\ Label \in case.offered /\ Label \notin Wanted(case) => case.offered # {Label}
           /\ OfferedTools(case) = ToolsFor(Wanted(case))
<1>1. /\ IsFiniteSet(case.offered) /\ case.offered \subseteq Claims \union {Label}
      /\ case.offered \ {Label} \subseteq case.asks /\ case.offered \intersect case.asks # {}
  BY DEF IsQuestion, IsCase, Reaches
<1>2. Wanted(case) \in SUBSET case.offered
  BY DEF Wanted
<1>3. IsFiniteSet(Wanted(case))
  BY <1>1, <1>2, FS_Subset
<1>4. OfferedTools(case) = ToolsFor(Wanted(case))
  BY Zenon DEF OfferedTools, Wanted
<1>. QED  BY <1>1, <1>2, <1>3, <1>4 DEF Wanted

LEMMA OwnersAreTools ==
    ASSUME NEW c \in Claims \union {Label}
    PROVE  Owner[c] \in Tools /\ Owner[c] \in Nat
<1>1. Owner[c] \in Tools
  BY ScoringAssumption
<1>2. Tools \subseteq Nat
  BY ScoringAssumption
<1>. QED  BY <1>1, <1>2

\* The least owner of some of the claims.
LEMMA LeastOwner ==
    ASSUME NEW S, S \subseteq Claims \union {Label}, S # {}
    PROVE  \E c \in S : \A d \in S : Owner[c] <= Owner[d]
<1>. DEFINE owners == {Owner[c] : c \in S}
<1>1. owners \in SUBSET Nat /\ owners # {}
  BY OwnersAreTools
<1>2. PICK t \in owners : \A u \in owners : t <= u
  <2>. HIDE DEF owners
  <2>. QED  BY <1>1, LeastElement
<1>. QED  BY <1>2

LEMMA OfferedToolsAre ==
    ASSUME NEW case, IsQuestion(case)
    PROVE  /\ IsFiniteSet(OfferedTools(case)) /\ Cardinality(OfferedTools(case)) <= MaxToolCalls
           /\ OfferedTools(case) \subseteq Tools
           /\ \E c \in Wanted(case) : Owner[c] \in OfferedTools(case)
<1>. DEFINE S == Wanted(case)
            owners == {Owner[c] : c \in S}
<1>1. /\ S \subseteq Claims \union {Label} /\ IsFiniteSet(S) /\ S # {}
      /\ OfferedTools(case) = ToolsFor(S)
  BY WantedAre
<1>. HIDE DEF S
<1>2. /\ owners \subseteq Nat /\ owners \subseteq Tools
      /\ ToolsFor(S) = {t \in owners : Cardinality({u \in owners : u < t}) < MaxToolCalls}
      /\ IsFiniteSet(ToolsFor(S)) /\ Cardinality(ToolsFor(S)) <= MaxToolCalls
  BY <1>1, ToolsForAre
<1>3. PICK c \in S : \A d \in S : Owner[c] <= Owner[d]
  BY <1>1, LeastOwner
<1>4. {u \in owners : u < Owner[c]} = {}
  <2>1. \A d \in S : ~ (Owner[d] < Owner[c])
    <3>1. \A d \in S : Owner[d] \in Nat
      BY <1>1, OwnersAreTools
    <3>. QED  BY <1>3, <3>1
  <2>. QED  BY <2>1
<1>5. Cardinality({u \in owners : u < Owner[c]}) < MaxToolCalls
  BY <1>4, FS_EmptySet, SampleAssumption, ScoringAssumption
<1>6. Owner[c] \in ToolsFor(S)
  BY <1>2, <1>5
<1>. QED  BY <1>1, <1>2, <1>6 DEF S

\* All that is offered, the label too: a tool that is called owns more than the label.
LEMMA EveryToolIs ==
    ASSUME NEW case, IsQuestion(case)
    PROVE  /\ IsFiniteSet(ToolsFor(case.offered))
           /\ Cardinality(ToolsFor(case.offered)) <= MaxToolCalls
           /\ \E c \in Wanted(case) : Owner[c] \in ToolsFor(case.offered)
<1>. DEFINE owners == {Owner[c] : c \in case.offered}
<1>1. /\ case.offered \subseteq Claims \union {Label} /\ IsFiniteSet(case.offered)
      /\ Wanted(case) \subseteq case.offered /\ Wanted(case) # {}
      /\ case.offered \subseteq Wanted(case) \union {Label}
  BY WantedAre DEF IsQuestion, IsCase
<1>2. /\ owners \subseteq Nat
      /\ ToolsFor(case.offered)
            = {t \in owners : Cardinality({u \in owners : u < t}) < MaxToolCalls}
      /\ IsFiniteSet(ToolsFor(case.offered))
      /\ Cardinality(ToolsFor(case.offered)) <= MaxToolCalls
  BY <1>1, ToolsForAre
<1>3. PICK c \in Wanted(case) : \A d \in Wanted(case) : Owner[c] <= Owner[d]
  BY <1>1, LeastOwner
<1>4. {u \in owners : u < Owner[c]} \in SUBSET {Owner[Label]}
  <2>1. \A d \in Wanted(case) : ~ (Owner[d] < Owner[c])
    <3>1. \A d \in Wanted(case) : Owner[d] \in Nat
      BY <1>1, OwnersAreTools
    <3>. QED  BY <1>3, <3>1
  <2>. QED  BY <1>1, <2>1
<1>5. Cardinality({u \in owners : u < Owner[c]}) < MaxToolCalls
  <2>1. IsFiniteSet({Owner[Label]}) /\ Cardinality({Owner[Label]}) = 1
    BY FS_Singleton
  <2>2. /\ Cardinality({u \in owners : u < Owner[c]}) \in Nat
        /\ Cardinality({u \in owners : u < Owner[c]}) <= 1
    BY <1>4, <2>1, FS_Subset, FS_CardinalityType
  <2>. QED  BY <2>2, SampleAssumption, ScoringAssumption
<1>6. Owner[c] \in ToolsFor(case.offered)
  BY <1>1, <1>2, <1>5
<1>. QED  BY <1>2, <1>6

\* Who selects all that tools return answers, when one of them returns what is asked.
LEMMA SelectingAllAnswers ==
    ASSUME NEW case, IsQuestion(case), NEW tools, IsFiniteSet(tools),
           Cardinality(tools) <= MaxToolCalls, NEW c \in Wanted(case), Owner[c] \in tools
    PROVE  LET calls == CallsTo(tools, 1)
               r == Conversation(case, calls, Retrieved(case, calls)) IN
           Answered(r) /\ r.turns > 0
<1>. DEFINE calls == CallsTo(tools, 1)
            retrieved == Retrieved(case, calls)
<1>1. c \in case.offered /\ c \in case.asks /\ IsCase(case)
  BY WantedAre DEF IsQuestion
<1>2. c \in retrieved
  BY <1>1, RetrievedAre
<1>3. ~ (Cardinality(calls) > MaxToolCalls)
  <2>1. Cardinality(calls) <= Cardinality(tools) /\ IsFiniteSet(calls)
    BY CallsToAre
  <2>2. Cardinality(calls) \in Nat /\ Cardinality(tools) \in Nat /\ MaxToolCalls \in Nat
    BY <2>1, FS_CardinalityType, ScoringAssumption
  <2>. QED  BY <2>1, <2>2
<1>4. ConversationEnds(case, calls, retrieved, Conversation(case, calls, retrieved))
  BY ConversationIs
<1>7. retrieved \subseteq Retrieved(case, calls) /\ retrieved \intersect case.asks # {}
  BY <1>1, <1>2
<1>. HIDE DEF retrieved, calls
<1>5. Conversation(case, calls, retrieved).stop = "answered"
  BY <1>3, <1>4, <1>7 DEF ConversationEnds
<1>6. Conversation(case, calls, retrieved).turns > 0
  BY <1>4 DEF ConversationEnds
<1>. QED  BY <1>5, <1>6 DEF Answered, calls, retrieved

LEMMA RouteAnswers ==
    ASSUME NEW case, IsQuestion(case)
    PROVE  Answered(RouteFollowing(case)) /\ RouteFollowing(case).turns > 0
<1>1. PICK c \in Wanted(case) : Owner[c] \in OfferedTools(case)
  BY OfferedToolsAre
<1>2. LET calls == CallsTo(OfferedTools(case), 1) IN
      RouteFollowing(case) = Conversation(case, calls, Retrieved(case, calls))
  BY DEF RouteFollowing, IsQuestion
<1>3. /\ IsFiniteSet(OfferedTools(case)) /\ Cardinality(OfferedTools(case)) <= MaxToolCalls
  BY OfferedToolsAre
<1>. QED  BY <1>1, <1>2, <1>3, SelectingAllAnswers

LEMMA EveryClaimAnswers ==
    ASSUME NEW case, IsQuestion(case)
    PROVE  LET r == Controlled("select_every_claim", case) IN Answered(r) /\ r.turns > 0
<1>1. PICK c \in Wanted(case) : Owner[c] \in ToolsFor(case.offered)
  BY EveryToolIs
<1>2. LET calls == CallsTo(ToolsFor(case.offered), 1) IN
      Controlled("select_every_claim", case) = Conversation(case, calls, Retrieved(case, calls))
  BY DEF Controlled
<1>3. /\ IsFiniteSet(ToolsFor(case.offered)) /\ Cardinality(ToolsFor(case.offered)) <= MaxToolCalls
  BY EveryToolIs
<1>. QED  BY <1>1, <1>2, <1>3, SelectingAllAnswers

\* A conversation was asked of a model, and counts.
LEMMA ConversationCounts ==
    ASSUME NEW case, NEW calls, NEW selected
    PROVE  CountsForQuality(Conversation(case, calls, selected))
<1>1. ConversationEnds(case, calls, selected, Conversation(case, calls, selected))
  BY ConversationIs
<1>. QED  BY <1>1 DEF ConversationEnds, CountsForQuality, Attempted, OperatorStops

LEMMA NothingSelected ==
    ASSUME NEW case, NEW calls
    PROVE  ~ Answered(Conversation(case, calls, {}))
<1>1. ConversationEnds(case, calls, {}, Conversation(case, calls, {}))
  BY ConversationIs
<1>. QED  BY <1>1 DEF ConversationEnds, Answered

\* The controls that answer no question as its label asks.
FailingControls ==
    {"always_abstain", "off_topic_only", "right_tool_wrong_claims", "no_tool",
     "unauthorized_tool", "exhaust_tool_budget", "exhaust_turn_budget", "exceed_deadline",
     "malformed_output", "invalid_tool_arguments"}

LEMMA FailingControlsFail ==
    ASSUME NEW case, IsQuestion(case), Expecting(case), NEW name \in FailingControls
    PROVE  /\ ~ TaskSuccess(case, Controlled(name, case))
           /\ CountsForQuality(Controlled(name, case))
<1>. DEFINE r == Controlled(name, case)
<1>1. /\ ~ Answered(r) => ~ TaskSuccess(case, r)
      /\ ~ Relevant(case, r) => ~ TaskSuccess(case, r)
  BY DEF TaskSuccess
<1>2. CASE name = "always_abstain"
  <2>1. r = Conversation(case, {}, {})
    BY <1>2 DEF Controlled
  <2>. QED  BY <1>1, <2>1, NothingSelected, ConversationCounts
<1>3. CASE name = "unauthorized_tool"
  <2>1. r = Conversation(case, CallsTo({Unregistered}, 1), {})
    BY <1>3 DEF Controlled
  <2>. QED  BY <1>1, <2>1, NothingSelected, ConversationCounts
<1>4. CASE name = "exhaust_tool_budget"
  <2>1. r = Conversation(case, CallsTo(Tools, 1), {})
    BY <1>4 DEF Controlled
  <2>. QED  BY <1>1, <2>1, NothingSelected, ConversationCounts
<1>5. CASE name = "invalid_tool_arguments"
  <2>1. r = Conversation(case, RefusedCalls(OfferedTools(case)), {})
    BY <1>5 DEF Controlled
  <2>. QED  BY <1>1, <2>1, NothingSelected, ConversationCounts
<1>6. CASE name = "exhaust_turn_budget"
  <2>1. r = Ended("turn_budget_exhausted", "none", 2, OneToolATurn(1), {})
    BY <1>6 DEF Controlled
  <2>. QED  BY <1>1, <2>1 DEF Ended, Answered, CountsForQuality, Attempted, OperatorStops
<1>7. CASE name = "exceed_deadline"
  <2>1. r = Ended("deadline_exceeded", "none", 3, OneToolATurn(3), {})
    BY <1>7 DEF Controlled
  <2>. QED  BY <1>1, <2>1 DEF Ended, Answered, CountsForQuality, Attempted, OperatorStops
<1>8. CASE name = "malformed_output"
  <2>1. r = Ended("malformed_response", "invalid_response", 1, {}, {})
    BY <1>8 DEF Controlled
  <2>. QED  BY <1>1, <2>1 DEF Ended, Answered, CountsForQuality, Attempted, OperatorStops
<1>9. CASE name = "off_topic_only"
  <2>. DEFINE calls == CallsTo(OfferedTools(case), 1)
              selected == Retrieved(case, calls) \ (case.permitted \union {Label})
  <2>1. r = Conversation(case, calls, selected)
    BY <1>9 DEF Controlled
  <2>2. ConversationEnds(case, calls, selected, r)
    BY <2>1, ConversationIs
  <2>3. ASSUME Answered(r)
        PROVE  ~ Relevant(case, r)
    <3>1. selected # {} /\ r.shown = {Label} \union selected
      BY <2>2, <2>3 DEF ConversationEnds, Answered
    <3>2. PICK c : c \in selected
      BY <3>1
    <3>3. c \in Unpermitted(case, r)
      BY <3>1, <3>2 DEF Unpermitted
    <3>. QED  BY <3>3 DEF Relevant
  <2>. HIDE DEF calls, selected
  <2>. QED  BY <1>1, <2>1, <2>3, ConversationCounts
<1>10. CASE name = "right_tool_wrong_claims"
  <2>. DEFINE calls == IF case.tools = {} THEN CallsTo(OfferedTools(case), 1)
                       ELSE CallsTo(case.tools, 1)
              selected == Retrieved(case, calls) \ (case.required \union {Label})
  <2>1. r = Conversation(case, calls, selected)
    BY <1>10 DEF Controlled
  <2>2. ConversationEnds(case, calls, selected, r)
    BY <2>1, ConversationIs
  <2>3. ASSUME Answered(r)
        PROVE  ~ Relevant(case, r)
    <3>1. selected # {} /\ r.shown = {Label} \union selected
      BY <2>2, <2>3 DEF ConversationEnds, Answered
    <3>2. CASE case.required = {Label}
      <4>1. case.permitted = {Label}
        BY <3>2 DEF IsQuestion, IsCase
      <4>2. PICK c : c \in selected
        BY <3>1
      <4>3. c \in Unpermitted(case, r)
        BY <3>1, <4>1, <4>2 DEF Unpermitted
      <4>. QED  BY <4>3 DEF Relevant
    <3>3. CASE case.required # {Label}
      <4>1. AnsweringClaims(case) = case.required \ {Label}
        BY <3>3 DEF AnsweringClaims
      <4>2. AnsweringClaims(case) \intersect r.shown = {}
        BY <3>1, <4>1
      <4>. QED  BY <4>2 DEF Relevant
    <3>. QED  BY <3>2, <3>3
  <2>. HIDE DEF calls, selected
  <2>. QED  BY <1>1, <2>1, <2>3, ConversationCounts
<1>11. CASE name = "no_tool"
  <2>1. case.required # {}
    BY DEF IsQuestion, Consistent, Expecting
  <2>2. r = Conversation(case, {}, case.required)
    BY <1>11, <2>1 DEF Controlled
  <2>3. ConversationEnds(case, {}, case.required, r)
    BY <2>2, ConversationIs
  <2>4. Retrieved(case, {}) = {}
    BY DEF Retrieved
  <2>5. ~ Answered(r)
    BY <2>1, <2>3, <2>4 DEF ConversationEnds, Answered
  <2>. QED  BY <1>1, <2>2, <2>5, ConversationCounts
<1>. QED  BY <1>2, <1>3, <1>4, <1>5, <1>6, <1>7, <1>8, <1>9, <1>10, <1>11, Zenon
          DEF FailingControls

LEMMA PassOf ==
    ASSUME NEW binding, NEW measured, NEW completed \in BOOLEAN
    PROVE  Overall(binding, measured, completed) = "PASS" <=>
               completed /\ \A c \in binding : Status(c, measured[c]) = "pass"
<1>. DEFINE statuses == {Status(c, measured[c]) : c \in binding}
<1>1. \A c \in binding : Status(c, measured[c]) \in
          {"not_measured", "not_evaluable", "fail", "insufficient_sample", "pass"}
  BY DEF Status
<1>2. ASSUME Overall(binding, measured, completed) = "PASS"
      PROVE  completed /\ \A c \in binding : Status(c, measured[c]) = "pass"
  <2>1. completed
        /\ statuses \intersect {"fail", "not_evaluable", "not_measured", "insufficient_sample"} = {}
    BY <1>2 DEF Overall
  <2>. QED  BY <1>1, <2>1
<1>3. ASSUME completed, \A c \in binding : Status(c, measured[c]) = "pass"
      PROVE  Overall(binding, measured, completed) = "PASS"
  <2>1. statuses \subseteq {"pass"}
    BY <1>3
  <2>2. "fail" \notin statuses /\ statuses \intersect {"not_evaluable", "not_measured"} = {}
        /\ "insufficient_sample" \notin statuses
    BY <2>1
  <2>. HIDE DEF statuses
  <2>. QED  BY <1>3, <2>2, Zenon DEF Overall, statuses
<1>. QED  BY <1>2, <1>3

\* But for the latency, a measurement does not depend on whether it is taken.
LEMMA LatencyApart ==
    ASSUME NEW live, NEW replayed, NEW baseline, NEW c \in Criteria \ {"latency"}
    PROVE  Measurements(live, replayed, baseline, FALSE)[c]
             = Measurements(live, replayed, baseline, TRUE)[c]
<1>. DEFINE m == Measurements(live, replayed, baseline, FALSE)
            n == Measurements(live, replayed, baseline, TRUE)
<1>1. m.fabricated = n.fabricated
  BY Zenon DEF Measurements
<1>2. m.citation = n.citation
  BY Zenon DEF Measurements
<1>3. m.nature = n.nature
  BY Zenon DEF Measurements
<1>4. m.new_false_answers = n.new_false_answers
  BY Zenon DEF Measurements
<1>5. m.tool_selection = n.tool_selection
  BY Zenon DEF Measurements
<1>6. m.cross_run = n.cross_run
  BY Zenon DEF Measurements
<1>7. m.registry_executions = n.registry_executions
  BY Zenon DEF Measurements
<1>8. m.registry_attempts = n.registry_attempts
  BY Zenon DEF Measurements
<1>9. m.non_completion = n.non_completion
  BY Zenon DEF Measurements
<1>10. m.new_false_abstentions = n.new_false_abstentions
  BY Zenon DEF Measurements
<1>11. m.task_success = n.task_success
  BY Zenon DEF Measurements
<1>12. m.corrected = n.corrected
  BY Zenon DEF Measurements
<1>13. m.live_false_answers = n.live_false_answers
  BY Zenon DEF Measurements
<1>. HIDE DEF m, n
<1>14. m[c] = n[c]
  BY <1>1, <1>2, <1>3, <1>4, <1>5, <1>6, <1>7, <1>8, <1>9, <1>10, <1>11, <1>12, <1>13
     DEF Criteria
<1>. QED  BY <1>14 DEF m, n

(***************************************************************************)
(* What a control is scored                                                *)
(***************************************************************************)

\* The cases of a split of a benchmark that loads.
AreQuestions(cases) == IsFiniteSet(cases) /\ \A c \in cases : IsCase(c) /\ Consistent(c)

Reached(cases) == {c \in cases : Reaches(c)}
ReachedAnswers(cases) == {c \in Reached(cases) : Expecting(c)}

ControlScores(name, cases) == Scored([c \in Live(cases) |-> ControlResult(name, c)])
CasesReplayed(cases) == Scored([c \in Replay(cases) |-> Replayed(c)])
CasesFollowed(cases) == Scored([c \in Live(cases) |-> RouteFollowing(c)])
ControlReadings(name, cases) ==
    Measurements(ControlScores(name, cases), CasesReplayed(cases), CasesFollowed(cases), FALSE)

LEMMA ControlVerdictIs ==
    ASSUME NEW name, NEW cases, NEW binding
    PROVE  ControlVerdict(name, cases, binding)
             = Overall(binding \ {"latency"}, ControlReadings(name, cases),
                       ControlCompleted(ControlScores(name, cases)))
BY Zenon DEF ControlVerdict, ControlReadings, ControlScores, CasesReplayed, CasesFollowed

LEMMA ControlPasses ==
    ASSUME NEW name, NEW cases, NEW binding
    PROVE  ControlVerdict(name, cases, binding) = "PASS" <=>
               /\ ControlCompleted(ControlScores(name, cases))
               /\ \A c \in binding \ {"latency"} :
                     Status(c, ControlReadings(name, cases)[c]) = "pass"
<1>1. ControlCompleted(ControlScores(name, cases)) \in BOOLEAN
  BY DEF ControlCompleted
<1>. QED  BY <1>1, PassOf, ControlVerdictIs

LEMMA ControlReadingsAre ==
    ASSUME NEW name, NEW cases
    PROVE  LET m == ControlReadings(name, cases)
               live == ControlScores(name, cases)
               every == live \union CasesReplayed(cases) IN
           /\ m.fabricated = Count(With("fabricated", every), every)
           /\ m.citation = Rate([s \in live |-> CitationsValid(s.result)])
           /\ m.nature = Rate([s \in every |-> Judged("nature" \notin s.result.faults)])
           /\ m.new_false_answers =
                 Count({s \in NewFalseAnswerCases(Quality(live), CasesFollowed(cases)) :
                           FalseAnswer(s.case, Of(Quality(live), s.case))},
                       NewFalseAnswerCases(Quality(live), CasesFollowed(cases)))
           /\ m.tool_selection = Rate([s \in Answers(live) |-> ToolsCorrect(s.case, s.result)])
           /\ m.cross_run = Count(With("cross_run", every), every)
           /\ m.registry_executions =
                 Count({c \in UnregisteredCalls(every) : c[2].status # "rejected"}, CallsOf(every))
           /\ m.registry_attempts = Count(UnregisteredCalls(live), CallsOf(live))
           /\ m.non_completion = Rate([s \in Quality(live) |-> Judged(DidNotComplete(s.result))])
           /\ m.new_false_abstentions =
                 Count({s \in RuleRight(live, CasesFollowed(cases)) :
                           IncorrectAbstention(s.case, Of(Quality(live), s.case))},
                       RuleRight(live, CasesFollowed(cases)))
           /\ m.task_success = Rate([s \in Answers(live) |-> Judged(TaskSuccess(s.case, s.result))])
           /\ m.live_false_answers =
                 Count({s \in Quality(live) \ Answers(live) : FalseAnswer(s.case, s.result)},
                       Quality(live) \ Answers(live))
<1>. DEFINE live == ControlScores(name, cases)
            n == Measurements(live, CasesReplayed(cases), CasesFollowed(cases), TRUE)
            m == ControlReadings(name, cases)
<1>1. AreReadings(n, live, CasesReplayed(cases), CasesFollowed(cases))
  BY ReadingsAre
<1>2. \A c \in Criteria \ {"latency"} : m[c] = n[c]
  BY LatencyApart, Zenon DEF ControlReadings
<1>. HIDE DEF n
<1>3. /\ m.fabricated = n.fabricated /\ m.citation = n.citation /\ m.nature = n.nature
      /\ m.new_false_answers = n.new_false_answers /\ m.tool_selection = n.tool_selection
      /\ m.cross_run = n.cross_run /\ m.registry_executions = n.registry_executions
      /\ m.registry_attempts = n.registry_attempts /\ m.non_completion = n.non_completion
      /\ m.new_false_abstentions = n.new_false_abstentions /\ m.task_success = n.task_success
      /\ m.live_false_answers = n.live_false_answers
  BY <1>2 DEF Criteria
<1>. HIDE DEF m
<1>. QED  BY <1>1, <1>3, Zenon DEF AreReadings, m

LEMMA LiveIsFinite ==
    ASSUME NEW cases, AreQuestions(cases)
    PROVE  /\ IsFiniteSet(Live(cases)) /\ IsFiniteSet(Replay(cases))
           /\ Reached(cases) \subseteq Live(cases)
           /\ IsFiniteSet(Reached(cases)) /\ IsFiniteSet(ReachedAnswers(cases))
           /\ \A c \in Reached(cases) : IsQuestion(c)
<1>1. /\ Live(cases) \in SUBSET cases /\ Replay(cases) \in SUBSET cases
      /\ Reached(cases) \in SUBSET cases /\ ReachedAnswers(cases) \in SUBSET cases
  BY DEF Live, Replay, Reached, ReachedAnswers
<1>2. IsFiniteSet(cases)
  BY DEF AreQuestions
<1>3. /\ IsFiniteSet(Live(cases)) /\ IsFiniteSet(Replay(cases))
      /\ IsFiniteSet(Reached(cases)) /\ IsFiniteSet(ReachedAnswers(cases))
  BY <1>1, <1>2, FS_Subset
<1>4. Reached(cases) \subseteq Live(cases)
  BY DEF Reached, Live, Reaches
<1>5. \A c \in Reached(cases) : IsQuestion(c)
  BY DEF Reached, IsQuestion, AreQuestions
<1>. QED  BY <1>3, <1>4, <1>5

LEMMA ControlScoresAre ==
    ASSUME NEW cases, AreQuestions(cases), NEW name
    PROVE  /\ IsFiniteSet(ControlScores(name, cases))
           /\ \A s \in ControlScores(name, cases) :
                 /\ s.case \in Live(cases) /\ s.result = ControlResult(name, s.case)
                 /\ s = [case |-> s.case, result |-> s.result]
           /\ \A c \in Live(cases) : \E s \in ControlScores(name, cases) :
                 /\ s.case = c /\ s.result = ControlResult(name, c)
                 /\ s = [case |-> c, result |-> ControlResult(name, c)]
<1>. DEFINE f == [c \in Live(cases) |-> ControlResult(name, c)]
            score(c) == [case |-> c, result |-> ControlResult(name, c)]
<1>1. IsFiniteSet(DOMAIN f)
  BY LiveIsFinite
<1>2. ControlScores(name, cases) = Scored(f)
  BY DEF ControlScores
<1>3. IsFiniteSet(Scored(f))
  <2>. HIDE DEF f
  <2>. QED  BY <1>1, ScoredAre
<1>4. Scored(f) = {score(c) : c \in Live(cases)}
  BY DEF Scored
<1>5. \A c : score(c).case = c /\ score(c).result = ControlResult(name, c)
             /\ score(c) = [case |-> c, result |-> ControlResult(name, c)]
  OBVIOUS
<1>. HIDE DEF score, f
<1>6. ASSUME NEW s \in Scored(f)
      PROVE  /\ s.case \in Live(cases) /\ s.result = ControlResult(name, s.case)
             /\ s = [case |-> s.case, result |-> s.result]
  <2>1. PICK c \in Live(cases) : s = score(c)
    BY <1>4
  <2>. QED  BY <1>5, <2>1
<1>7. \A c \in Live(cases) : score(c) \in Scored(f)
  BY <1>4
<1>. QED  BY <1>2, <1>3, <1>5, <1>6, <1>7

\* A question no model is asked scores like nothing.
LEMMA UnreachedAre ==
    ASSUME NEW case, IsCase(case), ~ Reaches(case), NEW name
    PROVE  LET r == ControlResult(name, case) IN
           /\ r.faults = {} /\ r.calls = {} /\ r.slow = FALSE
           /\ ~ Attempted(r) /\ ~ Answered(r) /\ r.stop \notin OperatorStops
<1>1. ControlResult(name, case) = Ended(case.before, "none", 0, {}, {})
  BY DEF ControlResult, StoppedBeforeAModel
<1>2. case.before \in Abstentions
  BY DEF IsCase
<1>3. ASSUME NEW stop \in Abstentions
      PROVE  LET e == Ended(stop, "none", 0, {}, {}) IN
             /\ e.faults = {} /\ e.calls = {} /\ e.slow = FALSE
             /\ ~ Attempted(e) /\ ~ Answered(e) /\ e.stop \notin OperatorStops
  BY DEF Ended, Attempted, Answered, Abstentions, ProviderStops, AgentStops, OperatorStops
<1>. QED  BY <1>1, <1>2, <1>3

\* The scores that count are those of the questions a model is asked.
LEMMA CountedAreReached ==
    ASSUME NEW cases, AreQuestions(cases), NEW name, NEW s \in Quality(ControlScores(name, cases))
    PROVE  s.case \in Reached(cases) /\ s.result = Controlled(name, s.case)
<1>1. /\ s.case \in Live(cases) /\ s.result = ControlResult(name, s.case)
      /\ CountsForQuality(s.result)
  BY ControlScoresAre DEF Quality
<1>2. s.case \in cases /\ IsCase(s.case)
  BY <1>1 DEF Live, AreQuestions
<1>3. Reaches(s.case)
  <2>1. ASSUME ~ Reaches(s.case)
        PROVE  ~ Attempted(ControlResult(name, s.case))
    BY <1>2, <2>1, UnreachedAre
  <2>2. Attempted(ControlResult(name, s.case))
    BY <1>1 DEF CountsForQuality
  <2>. QED  BY <2>1, <2>2
<1>. QED  BY <1>1, <1>2, <1>3 DEF Reached, ControlResult

LEMMA ReachedIsScored ==
    ASSUME NEW cases, AreQuestions(cases), NEW name, NEW c \in Reached(cases)
    PROVE  \E s \in ControlScores(name, cases) :
              /\ s.case = c /\ s.result = Controlled(name, c)
              /\ s = [case |-> c, result |-> Controlled(name, c)]
              /\ CountsForQuality(Controlled(name, c)) => s \in Quality(ControlScores(name, cases))
<1>1. c \in Live(cases) /\ Reaches(c)
  BY LiveIsFinite DEF Reached
<1>2. ControlResult(name, c) = Controlled(name, c)
  BY <1>1 DEF ControlResult
<1>3. PICK s \in ControlScores(name, cases) :
          s.case = c /\ s.result = Controlled(name, c)
          /\ s = [case |-> c, result |-> Controlled(name, c)]
  BY <1>1, <1>2, ControlScoresAre
<1>. QED  BY <1>3 DEF Quality

\* A split that meets its targets lets questions of both kinds reach a model.
LEMMA BothKindsReach ==
    ASSUME NEW cases, AreQuestions(cases), MeetsTargets(cases)
    PROVE  /\ Cardinality(ReachedAnswers(cases)) >= Targets["answer"]
           /\ Cardinality(Reached(cases) \ ReachedAnswers(cases)) >= Targets["other"]
           /\ ReachedAnswers(cases) # {} /\ Reached(cases) \ ReachedAnswers(cases) # {}
<1>1. /\ Cardinality(ReachedAnswers(cases)) >= Targets["answer"]
      /\ Cardinality(Reached(cases) \ ReachedAnswers(cases)) >= Targets["other"]
  BY Zenon DEF MeetsTargets, Reached, ReachedAnswers
<1>2. Targets["answer"] > 0 /\ Targets["other"] > 0 /\ Targets["answer"] \in Nat
      /\ Targets["other"] \in Nat
  BY SampleAssumption, ControlsAssumption
<1>3. Cardinality({}) = 0
  BY FS_EmptySet
<1>. QED  BY <1>1, <1>2, <1>3

(***************************************************************************)
(* The controls that are told apart                                        *)
(***************************************************************************)

\* What is asked of a rate is missed when none of a sample succeeds.
LEMMA NoneSucceeds ==
    ASSUME NEW judgements, IsFiniteSet(DOMAIN judgements), DOMAIN judgements # {},
           \A s \in DOMAIN judgements : judgements[s] = "no",
           NEW c \in MinRates, Threshold[c] \in Nat, Threshold[c] > 0
    PROVE  Status(c, Rate(judgements)) # "pass"
<1>. DEFINE judged == {s \in DOMAIN judgements : judgements[s] # "na"}
            yes == {s \in judged : judgements[s] = "yes"}
            n == Cardinality(judged)
<1>1. yes = {} /\ judged = DOMAIN judgements
  OBVIOUS
<1>2. n \in Nat /\ n # 0 /\ Cardinality(yes) = 0
  BY <1>1, FS_CardinalityType, FS_EmptySet
<1>3. Rate(judgements).value = 0 /\ Rate(judgements).of = n
  BY <1>2 DEF Rate
<1>. HIDE DEF n
<1>4. Threshold[c] * n > 0
  BY <1>2, Z3
<1>5. Misses(c, Rate(judgements))
  BY <1>3, <1>4 DEF Misses
<1>. QED  BY <1>5 DEF Status

LEMMA FailingControlsDoNotPass ==
    ASSUME NEW cases, AreQuestions(cases), MeetsTargets(cases), NEW name \in FailingControls,
           NEW binding, "task_success" \in binding
    PROVE  ControlVerdict(name, cases, binding) # "PASS"
<1>. DEFINE live == ControlScores(name, cases)
            answers == Answers(live)
            j == [s \in answers |-> Judged(TaskSuccess(s.case, s.result))]
<1>1. ControlReadings(name, cases).task_success = Rate(j)
  BY ControlReadingsAre
<1>2. IsFiniteSet(answers)
  <2>1. answers \in SUBSET live /\ IsFiniteSet(live)
    BY ControlScoresAre DEF Answers, Quality
  <2>. QED  BY <2>1, FS_Subset
<1>3. answers # {}
  <2>1. PICK c \in ReachedAnswers(cases) : TRUE
    BY BothKindsReach
  <2>2. c \in Reached(cases) /\ Expecting(c) /\ IsQuestion(c)
    BY LiveIsFinite DEF ReachedAnswers
  <2>3. PICK s \in live :
            s.case = c /\ (CountsForQuality(Controlled(name, c)) => s \in Quality(live))
    BY <2>2, ReachedIsScored
  <2>4. s \in Quality(live)
    BY <2>2, <2>3, FailingControlsFail
  <2>. QED  BY <2>2, <2>3, <2>4 DEF Answers
<1>4. \A s \in answers : ~ TaskSuccess(s.case, s.result)
  <2>1. ASSUME NEW s \in answers
        PROVE  ~ TaskSuccess(s.case, s.result)
    <3>1. s \in Quality(live) /\ Expecting(s.case)
      BY DEF Answers
    <3>2. s.case \in Reached(cases) /\ s.result = Controlled(name, s.case)
      BY <3>1, CountedAreReached
    <3>3. IsQuestion(s.case)
      BY <3>2, LiveIsFinite
    <3>. QED  BY <3>1, <3>2, <3>3, FailingControlsFail
  <2>. QED  BY <2>1
<1>5. DOMAIN j = answers /\ \A s \in answers : j[s] = "no"
  BY <1>4 DEF Judged
<1>6. "task_success" \in MinRates /\ Threshold["task_success"] \in Nat
      /\ Threshold["task_success"] > 0
  BY ToleranceAssumption, ScoringAssumption DEF MinRates, Criteria
<1>. HIDE DEF j, answers
<1>7. Status("task_success", ControlReadings(name, cases).task_success) # "pass"
  BY <1>1, <1>2, <1>3, <1>5, <1>6, NoneSucceeds
<1>. QED  BY <1>7, ControlPasses

LEMMA CappedControlDoesNotPass ==
    ASSUME NEW cases, AreQuestions(cases), MeetsTargets(cases), NEW binding
    PROVE  ControlVerdict("operator_budget_stop", cases, binding) # "PASS"
<1>. DEFINE name == "operator_budget_stop"
<1>1. PICK c \in Reached(cases) : TRUE
  BY BothKindsReach
<1>2. Controlled(name, c) = Ended("budget_exhausted", "budget_exhausted", 0, {}, {})
  BY DEF Controlled
<1>3. PICK s \in ControlScores(name, cases) : s.result = Controlled(name, c)
  BY ReachedIsScored
<1>4. s.result.stop \in OperatorStops
  BY <1>2, <1>3 DEF Ended, OperatorStops
<1>. QED  BY <1>3, <1>4, ControlPasses DEF ControlCompleted

LEMMA AnsweringControlsDoNotPass ==
    ASSUME NEW cases, AreQuestions(cases), MeetsTargets(cases),
           NEW name \in {"route_following", "select_every_claim"},
           NEW binding, "live_false_answers" \in binding
    PROVE  ControlVerdict(name, cases, binding) # "PASS"
<1>. DEFINE live == ControlScores(name, cases)
            others == Quality(live) \ Answers(live)
            wrong == {s \in others : FalseAnswer(s.case, s.result)}
<1>1. PICK c \in Reached(cases) : ~ Expecting(c)
  BY BothKindsReach DEF ReachedAnswers
<1>2. Answered(Controlled(name, c)) /\ Controlled(name, c).turns > 0
  <2>1. IsQuestion(c)
    BY LiveIsFinite
  <2>2. Controlled("route_following", c) = RouteFollowing(c)
    BY DEF Controlled
  <2>. QED  BY <2>1, <2>2, RouteAnswers, EveryClaimAnswers
<1>3. CountsForQuality(Controlled(name, c))
  BY <1>2 DEF Answered, CountsForQuality, Attempted, OperatorStops
<1>4. PICK s \in Quality(live) : s.case = c /\ s.result = Controlled(name, c)
  BY <1>3, ReachedIsScored
<1>5. s \in wrong
  BY <1>1, <1>2, <1>4 DEF FalseAnswer, Answers
<1>6. IsFiniteSet(wrong)
  <2>1. wrong \in SUBSET live /\ IsFiniteSet(live)
    BY ControlScoresAre DEF Quality
  <2>. QED  BY <2>1, FS_Subset
<1>7. ControlReadings(name, cases).live_false_answers = Count(wrong, others)
  BY ControlReadingsAre
<1>. HIDE DEF wrong, others
<1>8. "live_false_answers" \in Criteria \ (MinRates \union MaxRates)
      /\ Threshold["live_false_answers"] = 0
  BY ToleranceAssumption DEF Criteria, MinRates, MaxRates
<1>9. Misses("live_false_answers", Count(wrong, others))
  BY <1>5, <1>6, <1>8, NoneFound
<1>10. Status("live_false_answers", Count(wrong, others)) # "pass"
  BY <1>9 DEF Status
<1>. QED  BY <1>7, <1>10, ControlPasses

\* Where the baseline answers whatever reaches a model, it leaves nothing to be new.
LEMMA KeepIsNotEvaluable ==
    ASSUME NEW cases, AreQuestions(cases), NEW name, NEW binding, "new_false_answers" \in binding
    PROVE  ControlVerdict(name, cases, binding) # "PASS"
<1>. DEFINE live == ControlScores(name, cases)
            opportunities == NewFalseAnswerCases(Quality(live), CasesFollowed(cases))
            wrong == {s \in opportunities : FalseAnswer(s.case, Of(Quality(live), s.case))}
<1>1. opportunities = {}
  <2>1. ASSUME NEW s \in CasesFollowed(cases), NEW a \in Quality(live), a.case = s.case,
               ~ Expecting(s.case)
        PROVE  FalseAnswer(s.case, s.result)
    <3>1. s.result = RouteFollowing(s.case)
      <4>1. CasesFollowed(cases) = Scored([c \in Live(cases) |-> RouteFollowing(c)])
        BY DEF CasesFollowed
      <4>2. IsFiniteSet(DOMAIN [c \in Live(cases) |-> RouteFollowing(c)])
        BY LiveIsFinite
      <4>. QED  BY <4>1, <4>2, ScoredAre
    <3>2. IsQuestion(s.case)
      BY <2>1, CountedAreReached, LiveIsFinite
    <3>. QED  BY <2>1, <3>1, <3>2, RouteAnswers DEF FalseAnswer
  <2>. QED  BY <2>1 DEF NewFalseAnswerCases
<1>2. ControlReadings(name, cases).new_false_answers = Count(wrong, opportunities)
  BY ControlReadingsAre
<1>. HIDE DEF opportunities, wrong
<1>3. Count(wrong, opportunities).n = 0
  BY <1>1, FS_EmptySet DEF Count
<1>4. Status("new_false_answers", Count(wrong, opportunities)) # "pass"
  BY <1>3 DEF Status
<1>. QED  BY <1>2, <1>4, ControlPasses

LEMMA SampleSuffices ==
    ASSUME NEW c \in Criteria, NEW reading, reading.n \in Nat, reading.n > 0, MinN[c] <= reading.n,
           ~ Misses(c, reading)
    PROVE  Status(c, reading) = "pass"
<1>1. reading # NotMeasured
  BY DEF NotMeasured
<1>2. reading.n # 0 /\ ~ (reading.n < MinN[c])
  BY ScoringAssumption
<1>. QED  BY <1>1, <1>2 DEF Status

\* The questions that are scored as a control makes them are a sample of their size.
LEMMA SampleOf ==
    ASSUME NEW S, IsFiniteSet(S), NEW T, NEW name,
           \A c \in T : [case |-> c, result |-> Controlled(name, c)] \in S
    PROVE  Cardinality(T) <= Cardinality(S) /\ IsFiniteSet(T)
<1>. DEFINE f == [c \in T |-> [case |-> c, result |-> Controlled(name, c)]]
<1>1. \A c \in T : f[c].case = c /\ f[c] \in S
  OBVIOUS
<1>2. f \in [T -> S]
  BY <1>1
<1>3. f \in Injection(T, S)
  BY <1>1, <1>2 DEF Injection, IsInjective
<1>. QED  BY <1>3, FS_Injection

\* What the label oracle makes of a question that it answers as its label asks.
LEMMA OracleIs ==
    ASSUME NEW case, IsQuestion(case), TaskSuccess(case, Controlled("label_oracle", case))
    PROVE  LET r == Controlled("label_oracle", case) IN
           /\ r = Conversation(case, CallsTo(case.tools, 1), case.required)
           /\ CountsForQuality(r) /\ r.turns > 0 /\ ~ DidNotComplete(r)
           /\ r.faults = {} /\ r.slow = FALSE /\ r.stop \notin OperatorStops
           /\ IsFiniteSet(r.calls) /\ \A call \in r.calls : call.tool # Unregistered
           /\ ToolsCorrect(case, r) # "no"
           /\ Expecting(case) => /\ Answered(r) /\ r.calls # {}
                                 /\ ToolsCorrect(case, r) # "na"
           /\ ~ Expecting(case) => ~ Answered(r)
<1>. DEFINE r == Controlled("label_oracle", case)
            calls == CallsTo(case.tools, 1)
<1>0. /\ IsCase(case) /\ case.live /\ Consistent(case)
      /\ IsFiniteSet(case.tools) /\ case.tools \subseteq Tools
  BY DEF IsQuestion, Reaches, IsCase
<1>1. r = Conversation(case, calls, case.required)
  BY DEF Controlled
<1>2. /\ IsFiniteSet(calls) /\ \A call \in calls : call.tool \in case.tools
      /\ \A call \in calls :
            call.status = IF call.tool = Unregistered THEN "rejected" ELSE "ok"
      /\ \A t \in case.tools : t # Unregistered =>
            \E call \in calls : call.tool = t /\ call.status = "ok"
  BY <1>0, CallsToAre
<1>3. \A t \in case.tools : t # Unregistered
  BY <1>0, ScoringAssumption
<1>. HIDE DEF calls
<1>4. ConversationEnds(case, calls, case.required, r)
  BY <1>1, ConversationIs
<1>5. CountsForQuality(r)
  BY <1>1, ConversationCounts
<1>6. ~ DidNotComplete(r)
  BY <1>0, SuccessCompletes
<1>. HIDE DEF r
<1>7. r.turns > 0 /\ r.faults = {} /\ r.slow = FALSE /\ r.calls \in {{}, calls}
  BY <1>4 DEF ConversationEnds
<1>8. r.stop \notin OperatorStops
  BY <1>4 DEF ConversationEnds, OperatorStops
<1>9. IsFiniteSet(r.calls) /\ \A call \in r.calls : call.tool # Unregistered
  BY <1>2, <1>3, <1>7, FS_EmptySet
<1>10. ASSUME Expecting(case)
       PROVE  /\ Answered(r) /\ r.calls # {}
              /\ ToolsCorrect(case, r) # "na" /\ ToolsCorrect(case, r) # "no"
  <2>1. Answered(r)
    BY <1>10 DEF TaskSuccess, r
  <2>2. case.required \subseteq Retrieved(case, calls) /\ r.calls = calls
    BY <1>4, <2>1 DEF ConversationEnds, Answered
  <2>3. case.required # {}
    BY <1>0, <1>10 DEF Consistent, Expecting
  <2>4. calls # {}
    BY <2>2, <2>3 DEF Retrieved
  <2>5. Executed(r) = case.tools
    <3>1. \A call \in calls : call.status = "ok"
      BY <1>2, <1>3
    <3>2. {call \in r.calls : call.status # "rejected"} = calls
      BY <2>2, <3>1
    <3>3. {call.tool : call \in calls} = case.tools
      BY <1>2, <1>3
    <3>. QED  BY <3>2, <3>3 DEF Executed
  <2>6. Executed(r) \intersect case.forbidden = {}
    BY <1>0, <2>5 DEF Consistent
  <2>7. ToolsCorrectV1(case, r) = "yes"
    BY <1>7, <1>10, <2>5, <2>6 DEF ToolsCorrectV1, Judged
  <2>8. ToolsCorrect(case, r) = "yes"
    BY <2>7 DEF ToolsCorrect
  <2>. QED  BY <2>1, <2>2, <2>4, <2>8
<1>11. ASSUME ~ Expecting(case)
       PROVE  ~ Answered(r) /\ ToolsCorrect(case, r) # "no"
  <2>1. ~ Answered(r)
    BY <1>11 DEF TaskSuccess, r
  <2>2. ToolsCorrect(case, r) = "na"
    BY <1>11 DEF ToolsCorrect, ToolsCorrectV1
  <2>. QED  BY <2>1, <2>2
<1>12. ToolsCorrect(case, r) # "no"
  BY <1>10, <1>11
<1>. QED  BY <1>1, <1>5, <1>6, <1>7, <1>8, <1>9, <1>10, <1>11, <1>12 DEF r, calls

\* A rate judged on at least some scores has at least their number as its sample.
LEMMA RateSample ==
    ASSUME NEW judgements, IsFiniteSet(DOMAIN judgements),
           NEW S, S \subseteq DOMAIN judgements, \A s \in S : judgements[s] # "na"
    PROVE  /\ Rate(judgements).n \in Nat
           /\ IsFiniteSet(S) /\ Cardinality(S) \in Nat /\ Cardinality(S) <= Rate(judgements).n
<1>. DEFINE judged == {s \in DOMAIN judgements : judgements[s] # "na"}
<1>1. IsFiniteSet(judged) /\ S \in SUBSET judged
  BY FS_Subset
<1>2. Rate(judgements).n = Cardinality(judged)
  BY DEF Rate
<1>. HIDE DEF judged
<1>. QED  BY <1>1, <1>2, FS_Subset, FS_CardinalityType

LEMMA CountSample ==
    ASSUME NEW counted, NEW S, IsFiniteSet(S), NEW s \in S
    PROVE  /\ Count(counted, S).n = Cardinality(S)
           /\ Count(counted, S).n \in Nat /\ Count(counted, S).n >= 1
<1>1. Cardinality(S) \in Nat /\ Cardinality(S) # 0
  BY FS_CardinalityType, FS_EmptySet
<1>2. Count(counted, S).n = Cardinality(S)
  BY DEF Count
<1>. QED  BY <1>1, <1>2

\* Whoever does what the labels ask passes, when criterion 4 is replaced.
LEMMA OraclePasses ==
    ASSUME NEW cases, AreQuestions(cases), MeetsTargets(cases),
           \A c \in Reached(cases) : TaskSuccess(c, Controlled("label_oracle", c)),
           NEW useful \in ReachedAnswers(cases), TaskSuccess(useful, RouteFollowing(useful)),
           IsFiniteSet(CasesReplayed(cases)),
           \A s \in CasesReplayed(cases) :
              /\ s.result.faults = {} /\ IsFiniteSet(s.result.calls)
              /\ \A call \in s.result.calls : call.tool = Unregistered => call.status = "rejected"
    PROVE  ControlVerdict("label_oracle", cases, Bindings["replace"]) = "PASS"
<1>. DEFINE name == "label_oracle"
            live == ControlScores(name, cases)
            replayed == CasesReplayed(cases)
            baseline == CasesFollowed(cases)
            every == live \union replayed
            attempted == Quality(live)
            answers == Answers(live)
            m == ControlReadings(name, cases)
            score(c) == [case |-> c, result |-> Controlled(name, c)]
            RA == ReachedAnswers(cases)
            RO == Reached(cases) \ ReachedAnswers(cases)
<1>1. \A c \in Reached(cases) : IsQuestion(c) /\ TaskSuccess(c, Controlled(name, c))
  BY LiveIsFinite
<1>2. /\ IsFiniteSet(live) /\ IsFiniteSet(every) /\ IsFiniteSet(attempted) /\ IsFiniteSet(answers)
      /\ attempted \subseteq live /\ answers \subseteq attempted
      /\ IsFiniteSet(attempted \ answers)
  <2>1. IsFiniteSet(live)
    BY ControlScoresAre
  <2>2. attempted \in SUBSET live /\ answers \in SUBSET attempted
        /\ attempted \ answers \in SUBSET live
    BY DEF Quality, Answers
  <2>3. IsFiniteSet(every)
    BY <2>1, FS_Union
  <2>. HIDE DEF live, attempted, answers, every
  <2>4. IsFiniteSet(attempted) /\ IsFiniteSet(attempted \ answers)
    BY <2>1, <2>2, FS_Subset
  <2>5. IsFiniteSet(answers)
    BY <2>2, <2>4, FS_Subset
  <2>. QED  BY <2>1, <2>2, <2>3, <2>4, <2>5
<1>3. ASSUME NEW c \in Reached(cases)
      PROVE  score(c) \in attempted
  <2>1. CountsForQuality(Controlled(name, c))
    BY <1>1, OracleIs
  <2>2. PICK s \in ControlScores(name, cases) :
            /\ s = score(c)
            /\ CountsForQuality(Controlled(name, c)) => s \in Quality(ControlScores(name, cases))
    BY ReachedIsScored
  <2>. QED  BY <2>1, <2>2
<1>4. ASSUME NEW s \in attempted
      PROVE  s.case \in Reached(cases) /\ s.result = Controlled(name, s.case)
  BY CountedAreReached
<1>5. ASSUME NEW s \in live
      PROVE  /\ Right(s) /\ s.result.stop \notin OperatorStops /\ IsFiniteSet(s.result.calls)
  <2>1. s.case \in Live(cases) /\ s.result = ControlResult(name, s.case) /\ s.case \in cases
    BY ControlScoresAre DEF Live
  <2>2. CASE Reaches(s.case)
    <3>1. s.case \in Reached(cases) /\ s.result = Controlled(name, s.case)
      BY <2>1, <2>2 DEF Reached, ControlResult
    <3>. QED  BY <1>1, <3>1, OracleIs DEF Right
  <2>3. CASE ~ Reaches(s.case)
    <3>1. IsCase(s.case)
      BY <2>1 DEF AreQuestions
    <3>2. LET r == ControlResult(name, s.case) IN
          /\ r.faults = {} /\ r.calls = {} /\ r.slow = FALSE
          /\ ~ Attempted(r) /\ r.stop \notin OperatorStops
      BY <2>3, <3>1, UnreachedAre
    <3>3. /\ s.result.faults = {} /\ s.result.calls = {} /\ s.result.slow = FALSE
          /\ ~ Attempted(s.result) /\ s.result.stop \notin OperatorStops
      BY <2>1, <3>2
    <3>. QED  BY <3>3, FS_EmptySet DEF Right, CountsForQuality
  <2>. QED  BY <2>2, <2>3
<1>6. /\ IsFiniteSet(baseline)
      /\ \E s \in baseline : s.case = useful /\ s.result = RouteFollowing(useful)
  <2>. DEFINE f == [c \in Live(cases) |-> RouteFollowing(c)]
              follow(c) == [case |-> c, result |-> RouteFollowing(c)]
  <2>1. baseline = Scored(f) /\ IsFiniteSet(DOMAIN f)
    BY LiveIsFinite DEF CasesFollowed
  <2>2. IsFiniteSet(Scored(f))
    <3>. HIDE DEF f
    <3>. QED  BY <2>1, ScoredAre
  <2>3. useful \in Live(cases)
    BY LiveIsFinite DEF ReachedAnswers
  <2>4. follow(useful) \in Scored(f)
    BY <2>3 DEF Scored
  <2>5. follow(useful).case = useful /\ follow(useful).result = RouteFollowing(useful)
    OBVIOUS
  <2>. HIDE DEF follow, f, baseline
  <2>6. follow(useful) \in baseline
    BY <2>1, <2>4
  <2>. QED  BY <2>1, <2>2, <2>5, <2>6
<1>7. ASSUME NEW c \in Criteria \ {"latency"}
      PROVE  ~ Misses(c, m[c])
  <2>1. \A k \in MinRates : Threshold[k] <= 100
    BY ToleranceAssumption
  <2>2. ~ Misses(c, Measurements(live, replayed, baseline, TRUE)[c])
    <3>. HIDE DEF live, replayed, baseline
    <3>. QED  BY <1>2, <1>5, <1>6, <2>1, RightMissesNothing DEF replayed
  <2>3. m[c] = Measurements(live, replayed, baseline, TRUE)[c]
    BY LatencyApart, Zenon DEF ControlReadings
  <2>. QED  BY <2>2, <2>3
<1>8. /\ Cardinality(RA) >= Targets["answer"] /\ Cardinality(RO) >= Targets["other"]
      /\ Targets["answer"] \in Nat /\ Targets["other"] \in Nat
      /\ Targets["answer"] > 0 /\ Targets["other"] > 0
  BY BothKindsReach, SampleAssumption, ControlsAssumption
<1>9. /\ RA \in SUBSET Reached(cases) /\ RO \in SUBSET Reached(cases)
      /\ \A c \in RA : Expecting(c)
      /\ \A c \in RO : ~ Expecting(c)
  BY DEF ReachedAnswers
\* Every criterion's sample.
<1>10. /\ \A c \in RA : score(c) \in answers
       /\ \A c \in RO : score(c) \in attempted \ answers
  <2>1. \A c : score(c).case = c
    OBVIOUS
  <2>. HIDE DEF score
  <2>. QED  BY <1>3, <1>9, <2>1 DEF Answers
<1>11. /\ Cardinality(RA) <= Cardinality(answers)
       /\ Cardinality(RO) <= Cardinality(attempted \ answers)
       /\ Cardinality(Reached(cases)) <= Cardinality(attempted)
  <2>. HIDE DEF answers, attempted
  <2>1. \A c \in Reached(cases) : score(c) \in attempted
    BY <1>3
  <2>. HIDE DEF RA, RO
  <2>. QED  BY <1>2, <1>10, <2>1, SampleOf
<1>12. Cardinality(Reached(cases)) = Cardinality(RA) + Cardinality(RO)
       /\ Cardinality(RA) \in Nat /\ Cardinality(RO) \in Nat
  <2>1. IsFiniteSet(Reached(cases)) /\ IsFiniteSet(RA)
    BY LiveIsFinite
  <2>2. Reached(cases) \intersect RA = RA
    BY <1>9
  <2>. HIDE DEF RA
  <2>3. /\ Cardinality(Reached(cases) \ RA) = Cardinality(Reached(cases)) - Cardinality(RA)
        /\ IsFiniteSet(Reached(cases) \ RA)
    BY <2>1, <2>2, FS_Difference
  <2>4. /\ Cardinality(Reached(cases)) \in Nat /\ Cardinality(RA) \in Nat
        /\ Cardinality(Reached(cases) \ RA) \in Nat
    BY <2>1, <2>3, FS_CardinalityType
  <2>. QED  BY <2>3, <2>4 DEF RA
<1>13. /\ \A c \in Criteria : MinN[c] \in Nat
       /\ \A c \in {"citation", "tool_selection", "task_success"} : MinN[c] <= Cardinality(RA)
       /\ MinN["live_false_answers"] <= Cardinality(RO)
       /\ \A c \in {"nature", "non_completion"} : MinN[c] <= Cardinality(Reached(cases))
       /\ Cardinality(RA) > 0 /\ Cardinality(RO) > 0 /\ Cardinality(Reached(cases)) > 0
  <2>. HIDE DEF RA, RO
  <2>1. \A c \in Criteria : MinN[c] \in Nat
    BY ScoringAssumption
  <2>2. {"citation", "tool_selection", "task_success", "live_false_answers", "nature",
         "non_completion"} \subseteq Criteria
    BY DEF Criteria
  <2>. DEFINE ra == Cardinality(RA)
              ro == Cardinality(RO)
              all == Cardinality(Reached(cases))
  <2>3. /\ ra \in Nat /\ ro \in Nat /\ all = ra + ro
        /\ ra >= Targets["answer"] /\ ro >= Targets["other"]
        /\ Targets["answer"] \in Nat /\ Targets["other"] \in Nat
        /\ Targets["answer"] > 0 /\ Targets["other"] > 0
    BY <1>8, <1>12
  <2>. HIDE DEF ra, ro, all
  <2>4. \A c \in {"citation", "tool_selection", "task_success"} : MinN[c] <= ra
    <3>1. \A c \in {"citation", "tool_selection", "task_success"} : MinN[c] <= Targets["answer"]
      BY SampleAssumption
    <3>. QED  BY <2>1, <2>2, <2>3, <3>1
  <2>5. MinN["live_false_answers"] <= ro
    <3>1. MinN["live_false_answers"] <= Targets["other"]
      BY SampleAssumption
    <3>. QED  BY <2>1, <2>2, <2>3, <3>1
  <2>6. \A c \in {"nature", "non_completion"} : MinN[c] <= all
    <3>1. \A c \in {"nature", "non_completion"} : MinN[c] <= Targets["answer"] + Targets["other"]
      BY SampleAssumption
    <3>. QED  BY <2>1, <2>2, <2>3, <3>1
  <2>7. ra > 0 /\ ro > 0 /\ all > 0
    BY <2>3
  <2>. QED  BY <2>1, <2>4, <2>5, <2>6, <2>7 DEF ra, ro, all
\* All but the last three of the criteria are read from at least a question.
<1>14. /\ every # {} /\ live # {} /\ score(useful) \in live /\ score(useful) \in every
  BY <1>2, <1>3, <1>9
<1>15. /\ IsFiniteSet(CallsOf(live)) /\ IsFiniteSet(CallsOf(every))
       /\ \E call : call \in CallsOf(live) /\ call \in CallsOf(every)
  <2>1. \A s \in every : IsFiniteSet(s.result.calls)
    BY <1>5
  <2>. HIDE DEF live, every
  <2>2. IsFiniteSet(CallsOf(every))
    BY <1>2, <2>1, CallsAreFinite
  <2>3. live \subseteq every
    BY DEF every
  <2>4. IsFiniteSet(CallsOf(live))
    BY <1>2, <2>1, <2>3, CallsAreFinite
  <2>5. Controlled(name, useful).calls # {}
    <3>1. IsQuestion(useful) /\ Expecting(useful) /\ TaskSuccess(useful, Controlled(name, useful))
      BY <1>1, <1>9
    <3>. QED  BY <3>1, OracleIs
  <2>6. PICK call : call \in Controlled(name, useful).calls
    BY <2>5
  <2>7. score(useful).case = useful /\ score(useful).result = Controlled(name, useful)
    OBVIOUS
  <2>. HIDE DEF score
  <2>8. /\ <<score(useful).case.id, call>> \in CallsOf(live)
        /\ <<score(useful).case.id, call>> \in CallsOf(every)
    BY <1>14, <2>6, <2>7 DEF CallsOf
  <2>. QED  BY <2>2, <2>4, <2>8
<1>16. \A c \in {"fabricated", "cross_run", "registry_executions", "registry_attempts",
               "new_false_abstentions"} : MinN[c] <= 1 /\ MinN[c] \in Nat
  BY <1>13, SampleAssumption DEF Criteria
<1>. HIDE DEF m, live, every, attempted, answers, RA, RO, replayed, baseline, score
<1>a. Status("fabricated", m.fabricated) = "pass"
  <2>1. m.fabricated = Count(With("fabricated", every), every)
    BY ControlReadingsAre DEF m, live, every, replayed
  <2>2. m.fabricated.n \in Nat /\ m.fabricated.n >= 1
    BY <1>2, <1>14, <2>1, CountSample
  <2>. QED  BY <1>7, <1>16, <2>2, SampleSuffices DEF Criteria
<1>b. Status("cross_run", m.cross_run) = "pass"
  <2>1. m.cross_run = Count(With("cross_run", every), every)
    BY ControlReadingsAre DEF m, live, every, replayed
  <2>2. m.cross_run.n \in Nat /\ m.cross_run.n >= 1
    BY <1>2, <1>14, <2>1, CountSample
  <2>. QED  BY <1>7, <1>16, <2>2, SampleSuffices DEF Criteria
<1>c. Status("registry_executions", m.registry_executions) = "pass"
  <2>1. m.registry_executions
          = Count({c \in UnregisteredCalls(every) : c[2].status # "rejected"}, CallsOf(every))
    BY ControlReadingsAre DEF m, live, every, replayed
  <2>2. m.registry_executions.n \in Nat /\ m.registry_executions.n >= 1
    BY <1>15, <2>1, CountSample
  <2>. QED  BY <1>7, <1>16, <2>2, SampleSuffices DEF Criteria
<1>d. Status("registry_attempts", m.registry_attempts) = "pass"
  <2>1. m.registry_attempts = Count(UnregisteredCalls(live), CallsOf(live))
    BY ControlReadingsAre DEF m, live
  <2>2. m.registry_attempts.n \in Nat /\ m.registry_attempts.n >= 1
    BY <1>15, <2>1, CountSample
  <2>. QED  BY <1>7, <1>16, <2>2, SampleSuffices DEF Criteria
<1>e. Status("new_false_abstentions", m.new_false_abstentions) = "pass"
  <2>1. m.new_false_abstentions =
            Count({s \in RuleRight(live, baseline) :
                      IncorrectAbstention(s.case, Of(Quality(live), s.case))},
                  RuleRight(live, baseline))
    BY ControlReadingsAre DEF m, live, baseline
  <2>2. IsFiniteSet(RuleRight(live, baseline))
    <3>1. RuleRight(live, baseline) \in SUBSET baseline
      BY DEF RuleRight, Paired
    <3>. QED  BY <1>6, <3>1, FS_Subset
  <2>3. PICK s \in baseline : s.case = useful /\ s.result = RouteFollowing(useful)
    BY <1>6
  <2>4. score(useful) \in Quality(live) /\ score(useful).case = useful
    BY <1>3, <1>9 DEF attempted, score, RA
  <2>5. s \in RuleRight(live, baseline)
    BY <1>9, <2>3, <2>4 DEF RuleRight, Paired, RA
  <2>6. m.new_false_abstentions.n \in Nat /\ m.new_false_abstentions.n >= 1
    BY <2>1, <2>2, <2>5, CountSample
  <2>. QED  BY <1>7, <1>16, <2>6, SampleSuffices DEF Criteria
<1>f. Status("live_false_answers", m.live_false_answers) = "pass"
  <2>1. m.live_false_answers =
            Count({s \in attempted \ answers : FalseAnswer(s.case, s.result)}, attempted \ answers)
    BY ControlReadingsAre DEF m, live, attempted, answers
  <2>2. m.live_false_answers.n = Cardinality(attempted \ answers)
        /\ Cardinality(attempted \ answers) \in Nat
    BY <1>2, <2>1, FS_CardinalityType DEF Count
  <2>3. MinN["live_false_answers"] \in Nat
    BY <1>13 DEF Criteria
  <2>4. m.live_false_answers.n > 0 /\ MinN["live_false_answers"] <= m.live_false_answers.n
    BY <1>11, <1>12, <1>13, <2>2, <2>3
  <2>. QED  BY <1>7, <2>2, <2>4, SampleSuffices DEF Criteria
<1>g. Status("citation", m.citation) = "pass"
  <2>. DEFINE j == [s \in live |-> CitationsValid(s.result)]
              S == {s \in answers : Answered(s.result)}
  <2>1. m.citation = Rate(j)
    BY ControlReadingsAre DEF m, live
  <2>2. S \subseteq DOMAIN j /\ (\A s \in S : j[s] # "na") /\ DOMAIN j = live
    BY <1>2 DEF CitationsValid, Judged
  <2>3. answers = S
    <3>1. ASSUME NEW s \in answers
          PROVE  Answered(s.result)
      <4>1. s \in attempted /\ Expecting(s.case)
        BY <1>2 DEF answers, Answers
      <4>2. s.case \in Reached(cases) /\ s.result = Controlled(name, s.case)
        BY <1>4, <4>1
      <4>. QED  BY <1>1, <4>1, <4>2, OracleIs
    <3>. QED  BY <3>1
  <2>. HIDE DEF j
  <2>4. m.citation.n \in Nat /\ Cardinality(answers) <= m.citation.n /\ Cardinality(answers) \in Nat
    BY <1>2, <2>1, <2>2, <2>3, RateSample
  <2>5. MinN["citation"] \in Nat
    BY <1>13 DEF Criteria
  <2>6. m.citation.n > 0 /\ MinN["citation"] <= m.citation.n
    BY <1>11, <1>12, <1>13, <2>4, <2>5
  <2>. QED  BY <1>7, <2>4, <2>6, SampleSuffices DEF Criteria
<1>h. Status("tool_selection", m.tool_selection) = "pass"
  <2>. DEFINE j == [s \in answers |-> ToolsCorrect(s.case, s.result)]
  <2>1. m.tool_selection = Rate(j)
    BY ControlReadingsAre DEF m, live, answers
  <2>2. ASSUME NEW s \in answers
        PROVE  j[s] # "na"
    <3>1. s \in attempted /\ Expecting(s.case)
      BY <1>2 DEF answers, Answers
    <3>2. s.case \in Reached(cases) /\ s.result = Controlled(name, s.case)
      BY <1>4, <3>1
    <3>. QED  BY <1>1, <3>1, <3>2, OracleIs
  <2>3. DOMAIN j = answers
    OBVIOUS
  <2>. HIDE DEF j
  <2>4. m.tool_selection.n \in Nat /\ Cardinality(answers) <= m.tool_selection.n
        /\ Cardinality(answers) \in Nat
    BY <1>2, <2>1, <2>2, <2>3, RateSample
  <2>5. MinN["tool_selection"] \in Nat
    BY <1>13 DEF Criteria
  <2>6. m.tool_selection.n > 0 /\ MinN["tool_selection"] <= m.tool_selection.n
    BY <1>11, <1>12, <1>13, <2>4, <2>5
  <2>. QED  BY <1>7, <2>4, <2>6, SampleSuffices DEF Criteria
<1>i. Status("task_success", m.task_success) = "pass"
  <2>. DEFINE j == [s \in answers |-> Judged(TaskSuccess(s.case, s.result))]
  <2>1. m.task_success = Rate(j)
    BY ControlReadingsAre DEF m, live, answers
  <2>2. DOMAIN j = answers /\ \A s \in answers : j[s] # "na"
    BY DEF Judged
  <2>. HIDE DEF j
  <2>4. m.task_success.n \in Nat /\ Cardinality(answers) <= m.task_success.n
        /\ Cardinality(answers) \in Nat
    BY <1>2, <2>1, <2>2, RateSample
  <2>5. MinN["task_success"] \in Nat
    BY <1>13 DEF Criteria
  <2>6. m.task_success.n > 0 /\ MinN["task_success"] <= m.task_success.n
    BY <1>11, <1>12, <1>13, <2>4, <2>5
  <2>. QED  BY <1>7, <2>4, <2>6, SampleSuffices DEF Criteria
<1>j. Status("non_completion", m.non_completion) = "pass"
  <2>. DEFINE j == [s \in attempted |-> Judged(DidNotComplete(s.result))]
  <2>1. m.non_completion = Rate(j)
    BY ControlReadingsAre DEF m, live, attempted
  <2>2. DOMAIN j = attempted /\ \A s \in attempted : j[s] # "na"
    BY DEF Judged
  <2>. HIDE DEF j
  <2>4. m.non_completion.n \in Nat /\ Cardinality(attempted) <= m.non_completion.n
        /\ Cardinality(attempted) \in Nat
    BY <1>2, <2>1, <2>2, RateSample
  <2>5. MinN["non_completion"] \in Nat
    BY <1>13 DEF Criteria
  <2>6. m.non_completion.n > 0 /\ MinN["non_completion"] <= m.non_completion.n
    BY <1>11, <1>12, <1>13, <2>4, <2>5
  <2>. QED  BY <1>7, <2>4, <2>6, SampleSuffices DEF Criteria
<1>k. Status("nature", m.nature) = "pass"
  <2>. DEFINE j == [s \in every |-> Judged("nature" \notin s.result.faults)]
  <2>1. m.nature = Rate(j)
    BY ControlReadingsAre DEF m, live, every, replayed
  <2>2. DOMAIN j = every /\ \A s \in every : j[s] # "na"
    BY DEF Judged
  <2>3. attempted \subseteq every
    BY <1>2 DEF every
  <2>. HIDE DEF j
  <2>4. m.nature.n \in Nat /\ Cardinality(attempted) <= m.nature.n /\ Cardinality(attempted) \in Nat
    BY <1>2, <2>1, <2>2, <2>3, RateSample
  <2>5. MinN["nature"] \in Nat
    BY <1>13 DEF Criteria
  <2>6. m.nature.n > 0 /\ MinN["nature"] <= m.nature.n
    BY <1>11, <1>12, <1>13, <2>4, <2>5
  <2>. QED  BY <1>7, <2>4, <2>6, SampleSuffices DEF Criteria
<1>17. Bindings["replace"] \ {"latency"} =
          {"fabricated", "citation", "nature", "tool_selection", "cross_run",
           "registry_executions", "registry_attempts", "non_completion", "new_false_abstentions",
           "task_success", "live_false_answers"}
  BY DEF Bindings, RoadmapCriteria, Criteria
<1>18. ASSUME NEW c \in Bindings["replace"] \ {"latency"}
       PROVE  Status(c, m[c]) = "pass"
  BY <1>17, <1>a, <1>b, <1>c, <1>d, <1>e, <1>f, <1>g, <1>h, <1>i, <1>j, <1>k
<1>19. ControlCompleted(live)
  BY <1>5 DEF ControlCompleted
<1>. QED  BY <1>18, <1>19, ControlPasses DEF m, live

LEMMA CasesReplayedAre ==
    ASSUME NEW cases, AreQuestions(cases)
    PROVE  /\ IsFiniteSet(CasesReplayed(cases))
           /\ \A s \in CasesReplayed(cases) :
                 /\ s.result.faults = {} /\ IsFiniteSet(s.result.calls)
                 /\ \A call \in s.result.calls :
                       call.tool = Unregistered => call.status = "rejected"
<1>. DEFINE f == [c \in Replay(cases) |-> Replayed(c)]
<1>1. IsFiniteSet(DOMAIN f) /\ CasesReplayed(cases) = Scored(f)
  BY LiveIsFinite DEF CasesReplayed
<1>2. /\ IsFiniteSet(Scored(f))
      /\ \A s \in Scored(f) : s.case \in Replay(cases) /\ s.result = Replayed(s.case)
  <2>1. DOMAIN f = Replay(cases) /\ \A c \in Replay(cases) : f[c] = Replayed(c)
    OBVIOUS
  <2>. HIDE DEF f
  <2>. QED  BY <1>1, <2>1, ScoredAre
<1>3. ASSUME NEW c \in Replay(cases)
      PROVE  /\ Replayed(c).faults = {} /\ IsFiniteSet(Replayed(c).calls)
             /\ \A call \in Replayed(c).calls : call.tool = Unregistered => call.status = "rejected"
  <2>. DEFINE calls == CallsTo(c.script.tools, 1)
  <2>1. IsFiniteSet(c.script.tools)
    BY DEF AreQuestions, IsCase, Replay
  <2>2. /\ IsFiniteSet(calls)
        /\ \A call \in calls : call.tool = Unregistered => call.status = "rejected"
    BY <2>1, CallsToAre
  <2>3. ConversationEnds(c, calls, c.script.selected, Replayed(c))
    BY ConversationIs DEF Replayed
  <2>. HIDE DEF calls
  <2>4. Replayed(c).faults = {} /\ Replayed(c).calls \in {{}, calls}
    BY <2>3 DEF ConversationEnds
  <2>. QED  BY <2>2, <2>4, FS_EmptySet
<1>. HIDE DEF f
<1>. QED  BY <1>1, <1>2, <1>3

\* A reliability report is about the dataset, which loads.
Told ==
    \A path \in Paths : reports[path].kind = "reliability" =>
        Loadable(load.dataset) /\ reports[path].about = Reliability(load.dataset)

LEMMA ControlsAreIn == IInv /\ Told => ControlsAreTold
<1>. SUFFICES ASSUME IInv, Told, NEW path \in Paths, reports[path].kind = "reliability",
                     reports[path].about.meets, BaselineIsUseful, NEW name \in ControlNames
              PROVE  /\ reports[path].about.verdicts.replace[name] = "PASS"
                            <=> name = "label_oracle"
                     /\ reports[path].about.verdicts.keep[name] # "PASS"
  BY Zenon DEF ControlsAreTold
<1>. DEFINE cases == Cases(load.dataset, "heldout")
            verdict(binding) == ControlVerdict(name, cases, binding)
<1>1. Loadable(load.dataset) /\ reports[path].about = Reliability(load.dataset)
  BY DEF Told
<1>2. MeetsTargets(cases)
  BY <1>1 DEF Reliability
<1>3. /\ reports[path].about.verdicts.replace[name] = verdict(Bindings["replace"])
      /\ reports[path].about.verdicts.keep[name] = verdict(Bindings["keep"])
  <2>1. {"replace", "keep"} \subseteq DOMAIN Bindings
    BY DEF Bindings
  <2>. QED  BY <1>1, <2>1 DEF Reliability
<1>4. AreQuestions(cases)
  <2>1. IsLoad(load)
    BY LoadIsLoad
  <2>2. cases \in SUBSET load.dataset.cases
    BY DEF Cases
  <2>3. IsFiniteSet(cases) /\ \A c \in cases : IsCase(c)
    BY <2>1, <2>2, FS_Subset DEF IsLoad
  <2>. QED  BY <1>1, <2>2, <2>3 DEF AreQuestions, Loadable
<1>5. \A c \in Reached(cases) : TaskSuccess(c, Controlled("label_oracle", c))
  <2>1. IsLabelled(load.dataset)
    BY LoadIsLoad DEF IsLoad
  <2>. QED  BY <1>2, <2>1 DEF IsLabelled, Reached, ControlResult
<1>6. PICK useful \in ReachedAnswers(cases) : TaskSuccess(useful, RouteFollowing(useful))
  BY DEF BaselineIsUseful, ReachedAnswers, Reached
<1>7. /\ {"task_success", "live_false_answers"} \subseteq Bindings["replace"]
      /\ "new_false_answers" \in Bindings["keep"]
  BY DEF Bindings, RoadmapCriteria, Criteria
<1>. HIDE DEF cases
<1>8. verdict(Bindings["keep"]) # "PASS"
  BY <1>4, <1>7, KeepIsNotEvaluable
<1>9. CASE name = "label_oracle"
  <2>1. verdict(Bindings["replace"]) = "PASS"
    BY <1>2, <1>4, <1>5, <1>6, <1>9, CasesReplayedAre, OraclePasses
  <2>. QED  BY <1>3, <1>8, <1>9, <2>1
<1>10. CASE name \in FailingControls
  BY <1>2, <1>3, <1>4, <1>7, <1>8, <1>10, FailingControlsDoNotPass DEF FailingControls
<1>11. CASE name \in {"route_following", "select_every_claim"}
  BY <1>2, <1>3, <1>4, <1>7, <1>8, <1>11, AnsweringControlsDoNotPass
<1>12. CASE name = "operator_budget_stop"
  BY <1>2, <1>3, <1>4, <1>8, <1>12, CappedControlDoesNotPass
<1>. QED  BY <1>9, <1>10, <1>11, <1>12 DEF ControlNames, NegativeControls, FailingControls

LEMMA OthersWriteNothing ==
    ASSUME [Next]_vars
    PROVE  /\ load' = load
           /\ \/ reports' = reports
              \/ \E p \in Processes : Report(p) \/ ReportOffline(p)
<1>1. ASSUME NEW p \in Processes, Work(p)
      PROVE  load' = load /\ (reports' = reports \/ Report(p) \/ ReportOffline(p))
  <2>1. CASE Start(p)
    BY <2>1, Zenon DEF Start
  <2>2. CASE Check(p)
    BY <2>2, Zenon DEF Check
  <2>3. CASE Preflight(p)
    BY <2>3, Zenon DEF Preflight
  <2>4. CASE Ask(p)
    BY <2>4, Zenon DEF Ask
  <2>5. CASE Retrieve(p)
    BY <2>5, Zenon DEF Retrieve
  <2>6. CASE Select(p)
    BY <2>6, Zenon DEF Select
  <2>7. CASE Fail(p)
    BY <2>7, Zenon DEF Fail
  <2>8. CASE SelectionAsk(p)
    BY <2>8, Zenon DEF SelectionAsk
  <2>9. CASE SelectionReply(p)
    BY <2>9, Zenon DEF SelectionReply
  <2>10. CASE Report(p)
    BY <2>10, Zenon DEF Report, Write
  <2>11. CASE ReportOffline(p)
    BY <2>11, Zenon DEF ReportOffline, Write
  <2>. QED  BY <1>1, <2>1, <2>2, <2>3, <2>4, <2>5, <2>6, <2>7, <2>8, <2>9, <2>10, <2>11, Zenon
            DEF Work
<1>2. ASSUME NEW p \in Processes, StopRun(p) \/ Die(p)
      PROVE  load' = load /\ reports' = reports
  BY <1>2, Zenon DEF StopRun, Die
<1>3. CASE AcceptRule \/ Terminated \/ UNCHANGED vars
  BY <1>3 DEF AcceptRule, Terminated, vars
<1>. QED  BY <1>1, <1>2, <1>3, Zenon DEF Next

LEMMA ToldKept ==
    ASSUME IInv, Told, [Next]_vars
    PROVE  Told'
<1>1. load' = load
  BY OthersWriteNothing
<1>2. CASE reports' = reports
  BY <1>1, <1>2 DEF Told
<1>3. ASSUME NEW p \in Processes, NEW report, Write(p, report),
             report.kind = "reliability" =>
                 Loadable(load.dataset) /\ report.about = Reliability(load.dataset)
      PROVE  Told'
  <2>1. \A path \in Paths : reports'[path] \in {reports[path], report}
    BY <1>3 DEF Write, IInv, TypeOK
  <2>. QED  BY <1>1, <1>3, <2>1 DEF Told
<1>4. ASSUME NEW p \in Processes, Report(p)
      PROVE  Told'
  <2>. DEFINE r == run[p]
              selection == [kind |-> "selection", by |-> p]
              paid == [kind |-> "paid", by |-> p, verdict |-> Verdict(r), scores |-> r.scores,
                       rule |-> r.rule, command |-> r.command]
              report == IF r.command.kind = "selection" THEN selection ELSE paid
  <2>1. Write(p, report)
    BY <1>4, Zenon DEF Report
  <2>2. report.kind # "reliability"
    OBVIOUS
  <2>. HIDE DEF report
  <2>. QED  BY <1>3, <2>1, <2>2
<1>5. ASSUME NEW p \in Processes, ReportOffline(p)
      PROVE  Told'
  <2>. DEFINE about == Reliability(load.dataset)
              replay == [kind |-> "replay"]
              reliability == [kind |-> "reliability", about |-> about]
              report == IF run[p].command.kind = "replay" THEN replay ELSE reliability
  <2>1. Write(p, report) /\ pc[p] = "started" /\ run[p].command.kind \in {"replay", "reliability"}
    BY <1>5, Zenon DEF ReportOffline
  <2>2. Loadable(load.dataset)
    BY <2>1 DEF IInv, Local, Asked
  <2>3. report.kind = "reliability" => report.about = about
    <3>. HIDE DEF about
    <3>. QED  OBVIOUS
  <2>. HIDE DEF report
  <2>. QED  BY <1>3, <2>1, <2>2, <2>3
<1>. QED  BY <1>2, <1>4, <1>5, OthersWriteNothing

\* Whatever the dataset, if its held-out split meets its targets and the baseline is
\* of some use on it, the rule tells the label oracle from every other control when
\* criterion 4 is replaced, and passes nothing when it is kept: for any claims,
\* tools, cases, thresholds of the rates and samples that the assumptions allow
\* (agent_controls.py, agent_rule.py, docs/v2/COPILOT_AGENT_D7_DECISION.md).
THEOREM ControlsTold == Spec => []ControlsAreTold
<1>1. Init => Told
  BY DEF Init, Told, NoReport
<1>2. Spec => []Told
  BY <1>1, Invariant, ToldKept, PTL DEF Spec
<1>. QED  BY <1>2, Invariant, ControlsAreIn, PTL

=============================================================================
