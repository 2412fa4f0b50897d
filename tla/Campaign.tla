------------------------------ MODULE Campaign ------------------------------
(***************************************************************************)
(* The paid evaluation of the copilot: the owner's decision rule and       *)
(* approval records, and the operator's command line processes that check  *)
(* them, ask the questions within a budget and write one report            *)
(* (cli/copilot_agent_benchmark.py, cli/copilot_eval.py,                   *)
(* cli/copilot_agent_reliability.py, copilot/evaluation/agent_live.py,     *)
(* copilot/evaluation/live.py).                                            *)
(*                                                                         *)
(* "bill" is what a process really costs, whatever its guard counted: a    *)
(* request whose reply is lost may be billed up to its worst case.         *)
(***************************************************************************)
EXTENDS Controls

CONSTANTS
    Processes,
    Loads,         \* what may be met: datasets, approvals, commands, replies
    MaxFailures,   \* failed questions in a row that end a run
    ProbeRequests, \* requests of a protocol probe
    HardRequests, HardCost,    \* caps of a selection run
    AgentRequests, AgentCost,  \* most an approval record may allow
    OutputPrice, OutputSize, \* of a whole output, as in BudgetGuard
    MaxMishaps     \* kills, interrupts and runner errors (bound of the model)

ASSUME CampaignAssumption ==
    /\ {MaxFailures, ProbeRequests, HardRequests, HardCost, AgentRequests, AgentCost,
         OutputSize, MaxMishaps} \subseteq Nat
    /\ OutputPrice \in Nat \ {0}

\* The committed rule tolerates nothing of what it counts, beyond the limit of the
\* latency percentile, and no wrong citation or nature.
ASSUME ToleranceAssumption ==
    /\ \A c \in Criteria \ (MinRates \union MaxRates) : Threshold[c] = 0
    /\ \A c \in {"citation", "nature"} : Threshold[c] = 100
    /\ \A c \in MinRates : Threshold[c] <= 100
    /\ Threshold["task_success"] > 0

\* A question may call more than one tool (loop.py: AgentLimits); and a held-out
\* split that meets its targets (copilot_agent_reliability.py: COVERAGE_TARGETS)
\* holds the samples the committed rule asks for: of its answers, of its other
\* questions, of all of them, or of anything at all (decision-rule-v2.json: min_n).
ASSUME SampleAssumption ==
    /\ MaxToolCalls > 1
    /\ Targets["answer"] > 0 /\ Targets["other"] > 0
    /\ \A c \in {"citation", "tool_selection", "task_success"} : MinN[c] <= Targets["answer"]
    /\ MinN["live_false_answers"] <= Targets["other"]
    /\ \A c \in {"nature", "non_completion"} : MinN[c] <= Targets["answer"] + Targets["other"]
    /\ \A c \in {"fabricated", "cross_run", "registry_executions", "registry_attempts",
                 "new_false_abstentions"} : MinN[c] <= 1

VARIABLES
    load,     \* what this behaviour meets
    rule,     \* the decision rule file: its status and its binding criteria
    reports,  \* the report at each path
    pc, run,  \* where each process is, and its run
    bill,
    mishaps

vars == <<load, rule, reports, pc, run, bill, mishaps>>

Guard(command) == INSTANCE BudgetGuard WITH
    MaxRequests <- command.requests, MaxCost <- command.cost

Paths == {"decision", "other"}
NoReport == [kind |-> "none"]
NoRun == [command |-> "none"]

Fatal == {"not_configured", "authentication", "permission", "billing", "model_unavailable",
          "bad_request", "rate_limited"}
\* Failures that come with no usage, so the guard charges the worst case.
Unreported == {"timeout", "unavailable"} \union (Fatal \ {"not_configured"})

StageSplit == [protocol_probe |-> "dev", development |-> "dev", decision |-> "heldout"]

(***************************************************************************)
(* Plans and approvals                                                     *)
(***************************************************************************)

\* The live questions that reach a model; a selection run samples within its cap.
Planned(command) == {c \in Cases(load.dataset, command.split) : Reaches(c)}
Sampled(command) == 1..(IF load.dataset.selections < command.requests
                        THEN load.dataset.selections ELSE command.requests)

\* The next question of a plan: cases are asked in the order of the file.
NextOf(left) == CHOOSE c \in left : \A d \in left : c.id <= d.id

\* A record that allows more than any run may is no approval record.
Readable(approval) ==
    approval.approved => approval.requests <= AgentRequests /\ approval.cost <= AgentCost

\* The scorer, the prompt, the tools, the SDK and the commit are those approved,
\* and nothing is changed since.
RunsApprovedCode(approval, command) == approval.code = command.code /\ command.clean

\* Mutant: the approval's split is not compared with the command's.
MutantApproves(approval, command) ==
    /\ command.troubles = {}
    /\ approval.approved
    /\ approval.model = command.model
    /\ 0 < command.requests /\ command.requests <= approval.requests
    /\ 0 < command.cost /\ command.cost <= approval.cost
    /\ approval.stage = command.stage
    /\ approval.rule = rule
    /\ approval.dataset = load.dataset.version
    /\ RunsApprovedCode(approval, command)

\* Every condition the owner sets for a paid run.
Approves(approval, command) ==
    /\ command.troubles = {}  \* CI, no key, an unpriced model, an unapproved endpoint,
                              \* a rule of another scorer
    /\ approval.approved
    /\ approval.split = command.split
    /\ approval.model = command.model
    /\ approval.dataset = load.dataset.version
    /\ approval.rule = rule
    /\ 0 < command.requests /\ command.requests <= approval.requests
    /\ 0 < command.cost /\ command.cost <= approval.cost
    /\ approval.stage = command.stage
    /\ approval.stage = "decision" => rule.status = "accepted"
    /\ command.split = StageSplit[approval.stage]
    /\ approval.stage = "protocol_probe" => approval.requests <= ProbeRequests
    /\ RunsApprovedCode(approval, command)

\* A paid result is never only on a screen, and the decision has one path.
OutputAccepted(command) ==
    /\ command.output \in Paths
    /\ command.split = "heldout" => command.output = "decision"
    /\ reports[command.output] = NoReport

\* What a selection run needs instead of an approval.
SelectionAccepted(command) ==
    /\ command.troubles = {}
    /\ 0 < command.requests /\ command.requests <= HardRequests
    /\ 0 < command.cost /\ command.cost <= HardCost

\* A case as the committed files state it: only a replay wants to fail closed, for
\* no live model can be made to do what it scripts (agent_benchmark.py: CaseMode);
\* what the router offers is what is asked for and the label, and a question about
\* the label alone permits nothing else.
IsCase(case) ==
    /\ case.id \in Nat /\ case.live \in BOOLEAN
    /\ case.live => case.outcome \in {"answer", "abstain"}
    /\ case.before \in Abstentions
    /\ IsFiniteSet(case.script.tools)
    /\ IsFiniteSet(case.offered) /\ case.offered \subseteq Claims \union {Label}
    /\ case.offered \ {Label} \subseteq case.asks
    /\ case.tools \subseteq Tools /\ IsFiniteSet(case.tools)
    /\ case.required = {Label} => case.permitted = {Label}

\* Whoever does what the labels ask succeeds at each question a model can reach, on
\* a split that meets its targets (v2/tests/test_copilot_agent_dataset_v3.py:
\* test_the_label_oracle_succeeds_on_every_heldout_case_a_model_can_reach).
IsLabelled(dataset) ==
    LET heldout == Cases(dataset, "heldout") IN
    MeetsTargets(heldout) =>
        \A c \in heldout : Reaches(c) => TaskSuccess(c, ControlResult("label_oracle", c))

\* What may be met: files the schemas accept, and a provider that asks for no more
\* than the price of what was sent and of a whole output.
IsLoad(l) ==
    /\ l.options \subseteq DOMAIN Bindings
    /\ IsFiniteSet(l.dataset.cases)
    /\ \A c \in l.dataset.cases : IsCase(c)
    /\ IsLabelled(l.dataset)
    /\ \A command \in l.commands : {command.requests, command.cost} \subseteq Nat
    /\ \A a \in l.approvals : /\ a.approved \in BOOLEAN
                              /\ a.approved => /\ a.stage \in DOMAIN StageSplit
                                               /\ {a.requests, a.cost} \subseteq Nat
    /\ \A batch \in l.calls :
          /\ IsFiniteSet(batch.tools) /\ batch.tools \subseteq Tools \union {Unregistered}
          /\ batch.again \subseteq batch.tools
    /\ l.costs \subseteq 0..(1 + OutputPrice)

ASSUME LoadsAssumption == \A l \in Loads : IsLoad(l)

(***************************************************************************)
(* Starting a run                                                          *)
(***************************************************************************)

Put(p, r, next) ==
    /\ run' = [run EXCEPT ![p] = r]
    /\ pc' = [pc EXCEPT ![p] = next]

NewRun(command) ==
    [command |-> command, rule |-> rule, guard |-> Guard(command)!FullBudget, left |-> {},
     turn |-> 0, calls |-> {}, scores |-> {}, failures |-> 0, stop |-> "none"]

\* Loading refuses a benchmark whose splits leak, and scoring one that has no
\* rule yet.
Start(p) ==
    /\ pc[p] = "idle"
    /\ \E command \in load.commands :
          /\ Put(p, NewRun(command),
                 IF /\ command.kind # "selection" => Loadable(load.dataset)
                    /\ command.kind \in {"paid", "replay"} => load.dataset.frozen
                 THEN "started" ELSE "refused")
    /\ UNCHANGED <<load, rule, reports, bill, mishaps>>

\* The checks of a paid run, in one process before anything is sent.
Check(p) ==
    LET command == run[p].command IN
    /\ pc[p] = "started" /\ command.kind \in {"paid", "selection"}
    /\ IF command.kind = "selection"
       THEN Put(p, [run[p] EXCEPT !.left = Sampled(command)],
                IF SelectionAccepted(command) THEN "checked" ELSE "refused")
       ELSE Put(p, [run[p] EXCEPT !.left = Planned(command), !.rule = rule],
                IF /\ command.approval \in load.approvals
                   /\ Readable(command.approval)
                   /\ Approves(command.approval, command)
                   /\ OutputAccepted(command)
                THEN "checked" ELSE "refused")
    /\ UNCHANGED <<load, rule, reports, bill, mishaps>>

\* Free, and required: the model answers as the plan needs it, or nothing starts.
Preflight(p) ==
    /\ pc[p] = "checked"
    /\ \E verified \in BOOLEAN :
          Put(p, run[p], IF ~verified THEN "refused"
                         ELSE IF run[p].left = {} THEN "reporting" ELSE "asking")
    /\ UNCHANGED <<load, rule, reports, bill, mishaps>>

(***************************************************************************)
(* Asking                                                                  *)
(***************************************************************************)

Worst(p) == Guard(run[p].command)!WorstCase(1, run[p].turn + 1)

\* A question the budget stopped is scored only if it had spent money.
Kept(result) == result.stop # "budget_exhausted" \/ result.turns > 0

\* The question ends with a result, and with it, perhaps, the run.
Conclude(p, guard, result) ==
    LET r == run[p]
        case == NextOf(r.left)
        failures == IF result.error = "none" THEN 0 ELSE r.failures + 1
        stop == IF result.stop = "budget_exhausted" THEN "budget_exhausted"
                ELSE IF result.error \in Fatal THEN "fatal_failure"
                ELSE IF failures >= MaxFailures THEN "consecutive_failures"
                ELSE "none"
        left == r.left \ {case}
    IN Put(p, [r EXCEPT !.guard = guard, !.left = left, !.turn = 0, !.calls = {},
                        !.failures = failures, !.stop = stop,
                        !.scores = IF Kept(result)
                                   THEN @ \union {[case |-> case, result |-> result]} ELSE @],
           IF stop # "none" \/ left = {} THEN "reporting" ELSE "asking")

\* A turn: admitted and sent, or stopped by the budget.
Ask(p) ==
    LET r == run[p] IN
    /\ pc[p] = "asking" /\ r.command.kind = "paid"
    /\ IF Guard(r.command)!Admissible(r.guard, Worst(p))
       THEN Put(p, [r EXCEPT !.guard = Guard(r.command)!Admit(@, Worst(p))], "waiting")
       ELSE Conclude(p, r.guard,
                     Ended("budget_exhausted", "budget_exhausted", r.turn, r.calls, {}))
    /\ UNCHANGED <<load, rule, reports, bill, mishaps>>

Charged(p, reported, cost) == Guard(run[p].command)!Charge(run[p].guard, Worst(p), reported, cost)

Billed(p, cost) == bill' = [bill EXCEPT ![p] = @ + cost]

Waiting(p) == pc[p] = "waiting" /\ run[p].command.kind = "paid"

\* Second calls of tools in one turn are refused by the registry, and counted.
Repeats(tools, turn) ==
    {[tool |-> t, turn |-> turn, status |-> "rejected", again |-> TRUE] : t \in tools}

\* The model calls tools; calls over a limit are refused as a whole.
Retrieve(p) ==
    LET r == run[p]
        turn == r.turn + 1 IN
    /\ Waiting(p)
    /\ \E batch \in load.calls, cost \in load.costs :
          LET guard == Charged(p, TRUE, cost)
              calls == r.calls \union CallsTo(batch.tools, turn) \union Repeats(batch.again, turn) IN
          /\ Billed(p, cost)
          /\ IF Cardinality(calls) > MaxToolCalls
             THEN Conclude(p, guard, Ended("tool_budget_exhausted", "none", turn, r.calls, {}))
             ELSE IF turn = MaxTurns
             THEN Conclude(p, guard, Ended("turn_budget_exhausted", "none", turn, r.calls, {}))
             ELSE Put(p, [r EXCEPT !.guard = guard, !.turn = turn, !.calls = calls], "asking")
    /\ UNCHANGED <<load, rule, reports, mishaps>>

\* The model selects claims, and the question ends.
Select(p) ==
    LET r == run[p] IN
    /\ Waiting(p)
    /\ \E selected \in load.selections, cost \in load.costs, faults \in load.faults,
          slow \in load.slow :
          /\ Billed(p, cost)
          /\ Conclude(p, Charged(p, TRUE, cost),
                      [Selecting(NextOf(r.left), r.turn + 1, r.calls, selected)
                          EXCEPT !.faults = faults, !.slow = slow])
    /\ UNCHANGED <<load, rule, reports, mishaps>>

StopOf(error) ==
    CASE error = "timeout" -> "model_timeout"
      [] error = "invalid_response" -> "malformed_response"
      [] error = "refusal" -> "model_refusal"
      [] error = "truncated" -> "model_truncated"
      [] OTHER -> "provider_error"

\* The request fails.  One refused locally was never sent, and is released.
Fail(p) ==
    LET r == run[p] IN
    /\ Waiting(p)
    /\ \E error \in load.failures :
          IF error = "not_configured"
          THEN /\ Conclude(p, Guard(r.command)!Release(r.guard, Worst(p)),
                           Ended(StopOf(error), error, r.turn, r.calls, {}))
               /\ bill' = bill
          ELSE \E cost \in load.costs \union {Worst(p)} :
                  /\ Billed(p, cost)
                  /\ Conclude(p, Charged(p, error \notin Unreported, cost),
                              Ended(StopOf(error), error, r.turn + 1, r.calls, {}))
    /\ UNCHANGED <<load, rule, reports, mishaps>>

\* A question of a selection run is one request.
SelectionAsk(p) ==
    LET r == run[p] IN
    /\ pc[p] = "asking" /\ r.command.kind = "selection"
    /\ IF Guard(r.command)!Admissible(r.guard, Worst(p))
       THEN Put(p, [r EXCEPT !.guard = Guard(r.command)!Admit(@, Worst(p))], "waiting")
       ELSE Put(p, [r EXCEPT !.stop = "budget_exhausted"], "reporting")
    /\ UNCHANGED <<load, rule, reports, bill, mishaps>>

SelectionReply(p) ==
    LET r == run[p]
        question == CHOOSE q \in r.left : \A other \in r.left : q <= other IN
    /\ pc[p] = "waiting" /\ r.command.kind = "selection"
    /\ \E error \in load.failures \union {"none"}, cost \in load.costs \union {Worst(p)} :
          LET failures == IF error = "none" THEN 0 ELSE r.failures + 1
              stop == IF error \in Fatal THEN "fatal_failure"
                      ELSE IF failures >= MaxFailures THEN "consecutive_failures" ELSE "none"
              left == r.left \ {question} IN
          /\ Billed(p, IF error = "not_configured" THEN 0 ELSE cost)
          /\ Put(p, [r EXCEPT !.guard = Charged(p, error \notin Unreported \union {"not_configured"}, cost),
                              !.left = left, !.failures = failures, !.stop = stop],
                 IF stop # "none" \/ left = {} THEN "reporting" ELSE "asking")
    /\ UNCHANGED <<load, rule, reports, mishaps>>

(***************************************************************************)
(* Mishaps                                                                 *)
(***************************************************************************)

\* What a request that is under way when its process stops may still cost.
Outstanding(p) == IF pc[p] = "waiting" THEN {0, Worst(p)} ELSE {0}

\* An exception of the runner, or an interrupt, while a question of the agent is
\* asked: the run stops, and its report is still written.
StopRun(p) ==
    /\ pc[p] \in {"asking", "waiting"} /\ run[p].command.kind = "paid"
    /\ mishaps < MaxMishaps /\ mishaps' = mishaps + 1
    /\ \E reason \in {"interrupted", "runner_error"}, cost \in Outstanding(p) :
          /\ reason = "runner_error" => pc[p] = "asking"
          /\ Billed(p, cost)
          /\ Put(p, [run[p] EXCEPT !.stop = reason], "reporting")
    /\ UNCHANGED <<load, rule, reports>>

\* A kill, an interrupt anywhere else, or an exception nothing catches.
Die(p) ==
    /\ pc[p] \in {"started", "checked", "asking", "waiting", "reporting"}
    /\ mishaps < MaxMishaps /\ mishaps' = mishaps + 1
    /\ \E cost \in Outstanding(p) : Billed(p, cost)
    /\ Put(p, run[p], "died")
    /\ UNCHANGED <<load, rule, reports>>

(***************************************************************************)
(* Reporting                                                               *)
(***************************************************************************)

Completed(r) == r.stop = "none" /\ Cardinality(r.scores) = Cardinality(Planned(r.command))

\* The verdict of a paid run: the questions it asked, those that no model is
\* needed for, the baseline on both, and the replayed cases.
VerdictOf(command, used, asked, completed) ==
    LET cases == Cases(load.dataset, command.split)
        stopped == Live(cases) \ Planned(command)
        scored == asked \union Scored([c \in stopped |-> RouteFollowing(c)])
        baseline == Scored([c \in {s.case : s \in scored} |-> RouteFollowing(c)])
        replayed == Scored([c \in Replay(cases) |-> Replayed(c)])
    IN EvaluateRule(used, Measurements(scored, replayed, baseline, TRUE),
                    "live", command.endpoint, command.split, completed)

Verdict(r) == VerdictOf(r.command, r.rule, r.scores, Completed(r))

\* The file is written over whatever is there by now.
Write(p, report) ==
    /\ reports' = IF run[p].command.output \in Paths
                  THEN [reports EXCEPT ![run[p].command.output] = report] ELSE reports
    /\ Put(p, run[p], "reported")
    /\ UNCHANGED <<load, rule, bill, mishaps>>

Report(p) ==
    LET r == run[p] IN
    /\ pc[p] = "reporting"
    /\ Write(p, IF r.command.kind = "selection" THEN [kind |-> "selection", by |-> p]
                ELSE [kind |-> "paid", by |-> p, verdict |-> Verdict(r), scores |-> r.scores,
                      rule |-> r.rule, command |-> r.command])

\* The reports that ask nothing of a model.
ReportOffline(p) ==
    /\ pc[p] = "started" /\ run[p].command.kind \in {"replay", "reliability"}
    /\ Write(p, IF run[p].command.kind = "replay" THEN [kind |-> "replay"]
                ELSE [kind |-> "reliability", about |-> Reliability(load.dataset)])

\* The owner accepts the rule, and binds its criteria: another file, by its hash.
AcceptRule ==
    /\ rule.status = "proposed"
    /\ \E option \in load.options : rule' = [status |-> "accepted", binding |-> Bindings[option]]
    /\ UNCHANGED <<load, reports, pc, run, bill, mishaps>>

Terminated ==
    /\ rule.status = "accepted" \/ load.options = {}
    /\ \A p \in Processes : pc[p] \in {"refused", "reported", "died"} \/ load.commands = {}
    /\ UNCHANGED vars

Init ==
    /\ load \in Loads
    /\ rule = [status |-> "proposed", binding |-> RoadmapCriteria]
    /\ reports = [path \in Paths |-> NoReport]
    /\ pc = [p \in Processes |-> IF p \in load.processes THEN "idle" ELSE "refused"]
    /\ run = [p \in Processes |-> NoRun]
    /\ bill = [p \in Processes |-> 0]
    /\ mishaps = 0

Work(p) ==
    \/ Start(p) \/ Check(p) \/ Preflight(p)
    \/ Ask(p) \/ Retrieve(p) \/ Select(p) \/ Fail(p)
    \/ SelectionAsk(p) \/ SelectionReply(p)
    \/ Report(p) \/ ReportOffline(p)

Next ==
    \/ \E p \in Processes : Work(p) \/ StopRun(p) \/ Die(p)
    \/ AcceptRule
    \/ Terminated

Spec == Init /\ [][Next]_vars

(***************************************************************************)
(* Properties                                                              *)
(***************************************************************************)

Started(p) == run[p] # NoRun

\* What a process sends was approved: an approval record of its stage, its split,
\* the rule it is scored by and the code it runs allows at least the requests it
\* has sent and the money it can have cost, replies that were lost included, and
\* no held-out question is sent before the rule is accepted (agent_live.py:
\* check_approval, budget.py, cli/copilot_agent_benchmark.py: _paid_run).
SpendingIsApproved ==
    \A p \in Processes : Started(p) /\ run[p].guard.sent > 0 =>
        LET r == run[p] IN
        IF r.command.kind = "selection"
        THEN r.guard.sent <= HardRequests /\ bill[p] <= HardCost
        ELSE \E a \in load.approvals :
                /\ a.approved /\ a.stage = r.command.stage
                /\ a.split = r.command.split /\ a.split = StageSplit[a.stage]
                /\ a.rule = r.rule /\ a.code = r.command.code
                /\ r.guard.sent <= a.requests /\ bill[p] <= a.cost
                /\ a.split = "heldout" => r.rule.status = "accepted"

PaidReports == {reports[path] : path \in {q \in Paths : reports[q].kind = "paid"}}

\* At least a percentage of some scores.
Reaching(percentage, some, scores) == 100 * Cardinality(some) >= percentage * Cardinality(scores)

\* A PASS is earned: under an accepted rule, at the real endpoint, each held-out
\* question that reaches a model was asked once and none is left out of what the
\* rates are of; nothing was made up, miscited or asked of a tool that does not
\* exist, no answer was given where none is wanted, and none refused where the
\* baseline gives it; and as often as the rule requires, a question that wants an
\* answer got it whole, from the right tools, and a question ended, in time
\* (agent_rule.py: evaluate_rule, agent_scoring.py: measurements_v2,
\* cli/copilot_agent_benchmark.py: build_live_report).
PassIsEarned ==
    \A report \in PaidReports : report.verdict = "PASS" =>
        LET heldout == Cases(load.dataset, "heldout")
            scores == report.scores
            answers == {s \in scores : Expecting(s.case)} IN
        /\ report.rule.status = "accepted" /\ report.command.endpoint = "anthropic_api"
        /\ \A c \in heldout : Reaches(c) => Cardinality({s \in scores : s.case = c}) = 1
        /\ \A s \in scores :
              /\ s.case \in heldout
              /\ s.result.faults \intersect {"fabricated", "nature", "cross_run"} = {}
              /\ Answered(s.result) => "citation" \notin s.result.faults
              /\ \A call \in s.result.calls : call.tool \in Tools
              /\ "live_false_answers" \in report.rule.binding => ~FalseAnswer(s.case, s.result)
              /\ IncorrectAbstention(s.case, s.result) =>
                    ~TaskSuccess(s.case, RouteFollowing(s.case))
        /\ Reaching(Threshold["task_success"],
                    {s \in answers : TaskSuccess(s.case, s.result)}, answers)
        /\ Reaching(Threshold["tool_selection"],
                    {s \in answers : s.case.tools \subseteq Executed(s.result)}, answers)
        /\ Reaching(100 - Threshold["non_completion"],
                    {s \in scores : ~DidNotComplete(s.result)}, scores)
        /\ Reaching(95, {s \in scores : ~s.result.slow}, scores)

\* The score is what the labels ask for, or what a spend cap cut short.
NobodyFailed(s) ==
    /\ s.result.faults = {} /\ ~s.result.slow
    /\ \A call \in s.result.calls : call.tool \in Tools
    /\ \/ s.result.stop = "budget_exhausted"
       \/ TaskSuccess(s.case, s.result) /\ ToolsCorrect(s.case, s.result) # "no"

\* A spend cap, an interrupt or an error of the runner fails nobody: a run whose
\* every question went right, as far as it went, is never judged a FAIL
\* (agent_scoring.py: "Counting it here would turn a cap into a FAIL").
CapsAreNobodysFailure ==
    \A report \in PaidReports :
        (\A s \in report.scores : NobodyFailed(s)) => report.verdict # "FAIL"

\* The baseline answers some held-out question as it should.
BaselineIsUseful ==
    \E c \in Cases(load.dataset, "heldout") :
        Reaches(c) /\ Expecting(c) /\ TaskSuccess(c, RouteFollowing(c))

\* On every dataset that meets its coverage targets and on which the baseline is
\* of some use, the rule with criterion 4 replaced passes the label oracle and no
\* other control, and with criterion 4 kept passes none
\* (docs/v2/COPILOT_AGENT_D7_DECISION.md, agent_scoring.py, agent_rule.py,
\* agent_controls.py).
ControlsAreTold ==
    \A path \in Paths :
        reports[path].kind = "reliability" /\ reports[path].about.meets /\ BaselineIsUseful =>
            LET verdicts == reports[path].about.verdicts IN
            \A name \in ControlNames :
                /\ verdicts.replace[name] = "PASS" <=> name = "label_oracle"
                /\ verdicts.keep[name] # "PASS"

=============================================================================
