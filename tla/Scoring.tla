------------------------------ MODULE Scoring -------------------------------
(***************************************************************************)
(* How a benchmark question asked of the copilot agent is scored, and how  *)
(* the decision rule turns the scores into a verdict (copilot/evaluation:  *)
(* agent_benchmark.py, agent_scoring.py, agent_rule.py, agent_harness.py). *)
(*                                                                         *)
(* A case is a labelled question: the claims the router offers for it (the *)
(* ones it asks for, and the output-nature label) and what its author      *)
(* expects.  A result is what the agent made of it: the loop itself is the *)
(* module Agent, and here a result keeps how it stopped, the tool calls of *)
(* its trace and the claims it showed.  "faults" are what the harness      *)
(* finds wrong in the response, whatever produced it.  A judgement that    *)
(* does not apply is "na".                                                 *)
(***************************************************************************)
EXTENDS Integers, FiniteSets

CONSTANTS
    Label,         \* the output-nature claim, shown on every answer
    Claims,        \* the other claims
    Tools,         \* the registered tools, numbered in retrieval order
    Owner,         \* the tool that returns a claim
    MaxToolCalls,  \* tool calls a question may make
    MinN,          \* the sample each criterion needs
    Threshold      \* the threshold of each criterion: a count, or a percentage

Criteria ==
    {"fabricated", "citation", "nature", "new_false_answers", "tool_selection",
     "cross_run", "registry_executions", "registry_attempts", "non_completion", "latency",
     "new_false_abstentions", "task_success", "corrected", "live_false_answers"}
MinRates == {"citation", "nature", "tool_selection", "task_success", "corrected"}
MaxRates == {"non_completion"}

Unregistered == 0

ASSUME ScoringAssumption ==
    /\ Label \notin Claims
    /\ Tools \subseteq Nat \ {Unregistered}
    /\ Owner \in [Claims \union {Label} -> Tools]
    /\ MaxToolCalls \in Nat \ {0}
    /\ {MinN, Threshold} \subseteq [Criteria -> Nat]

Faults == {"fabricated", "citation", "nature", "cross_run", "protocol"}
Abstentions == {"unsupported_question", "evidence_not_available", "no_relevant_claim"}

Judged(condition) == IF condition THEN "yes" ELSE "no"

(***************************************************************************)
(* Labels                                                                  *)
(***************************************************************************)

\* What the loader accepts of a label.
Consistent(case) ==
    LET answering == case.outcome = "answer" IN
    /\ answering <=> case.stops = {"answered"}
    /\ answering <=> case.required # {}
    /\ case.outcome = "abstain" => case.stops \subseteq Abstentions
    /\ case.required \subseteq case.permitted
    /\ case.tools \intersect case.forbidden = {}
    /\ answering => {Owner[c] : c \in case.required \ {Label}} \subseteq case.tools

\* A question reaches a model when the evidence holds a claim it asks for.
Reaches(case) == case.live /\ case.offered \intersect case.asks # {}

(***************************************************************************)
(* Results                                                                 *)
(***************************************************************************)

Ended(stop, error, turns, calls, shown) ==
    [stop |-> stop, error |-> error, turns |-> turns, calls |-> calls, shown |-> shown,
     faults |-> {}, slow |-> FALSE]

\* The router or missing evidence ends it, and no model is asked.
StoppedBeforeAModel(case) == Ended(case.before, "none", 0, {}, {})

\* The calls of a turn with well formed arguments: all but one to a tool that is
\* not registered are executed.
CallsTo(tools, turn) ==
    {[tool |-> t, turn |-> turn, status |-> IF t = Unregistered THEN "rejected" ELSE "ok"] :
        t \in tools}

Executed(result) == {c.tool : c \in {d \in result.calls : d.status # "rejected"}}

\* The claims the calls returned.
Retrieved(case, calls) ==
    {c \in case.offered : \E call \in calls : call.tool = Owner[c] /\ call.status = "ok"}

\* The last turn of a conversation: what it selects must have been retrieved,
\* and is shown with the label when it addresses the question.
Selecting(case, turns, calls, selected) ==
    IF ~(selected \subseteq Retrieved(case, calls))
    THEN Ended("selection_rejected", "none", turns, calls, {})
    ELSE IF selected \intersect case.asks = {}
    THEN Ended("no_relevant_claim", "none", turns, calls, {})
    ELSE Ended("answered", "none", turns, calls, {Label} \union selected)

\* Retrieve with some calls, then select.
Conversation(case, calls, selected) ==
    IF Cardinality(calls) > MaxToolCalls THEN Ended("tool_budget_exhausted", "none", 1, {}, {})
    ELSE Selecting(case, IF calls = {} THEN 1 ELSE 2, calls, selected)

\* The tools that own some claims, the first ones of the retrieval order when
\* there are more than a question may call.
ToolsFor(claims) ==
    LET owners == {Owner[c] : c \in claims} IN
    {t \in owners : Cardinality({u \in owners : u < t}) < MaxToolCalls}

OfferedTools(case) == ToolsFor(IF case.offered = {Label} THEN {Label} ELSE case.offered \ {Label})

\* The deterministic baseline: fetch what is offered, and select all of it.
RouteFollowing(case) ==
    IF ~Reaches(case) THEN StoppedBeforeAModel(case)
    ELSE LET calls == CallsTo(OfferedTools(case), 1) IN
         Conversation(case, calls, Retrieved(case, calls))

(***************************************************************************)
(* The two scorers                                                         *)
(***************************************************************************)

Expecting(case) == case.outcome = "answer"
Answered(result) == result.stop = "answered"
Unpermitted(case, result) == (result.shown \ {Label}) \ case.permitted
Sound(result) == result.faults \intersect (Faults \ {"citation"}) = {}

ClaimsCorrect(case, result) ==
    IF Expecting(case)
    THEN Judged(/\ Answered(result)
                /\ case.required \subseteq result.shown
                /\ Unpermitted(case, result) = {})
    ELSE "na"

ToolsCorrectV1(case, result) ==
    IF Expecting(case) /\ result.turns > 0
    THEN Judged(/\ case.tools \subseteq Executed(result)
                /\ Executed(result) \intersect case.forbidden = {})
    ELSE "na"

CitationsValid(result) == IF Answered(result) THEN Judged("citation" \notin result.faults) ELSE "na"
FalseAnswer(case, result) == Answered(result) /\ ~Expecting(case)

\* Scorer v1: a case passes.
Passed(case, result) ==
    /\ result.stop \in case.stops
    /\ ClaimsCorrect(case, result) # "no"
    /\ CitationsValid(result) # "no"
    /\ Sound(result)

\* Whose reliability a stop counts against.
ProviderStops == {"model_timeout", "provider_error"}
AgentStops ==
    {"malformed_response", "model_truncated", "model_refusal", "selection_rejected",
     "citation_rejected", "cross_run_rejected", "tool_budget_exhausted",
     "turn_budget_exhausted", "deadline_exceeded", "prompt_budget_exceeded"}
OperatorStops == {"budget_exhausted"}

\* The provider or the agent kept the question from an outcome.
DidNotComplete(result) == result.stop \in ProviderStops \union AgentStops

Attempted(result) == result.turns > 0 \/ result.stop \in ProviderStops \union AgentStops \union OperatorStops

\* Mutant: a question the spend cap stopped counts like any other.
MutantCountsForQuality(result) == Attempted(result)

CountsForQuality(result) == Attempted(result) /\ result.stop \notin OperatorStops

AnsweringClaims(case) == IF case.required = {Label} THEN {Label} ELSE case.required \ {Label}

Relevant(case, result) ==
    /\ AnsweringClaims(case) \intersect result.shown # {}
    /\ Unpermitted(case, result) = {}
Complete(case, result) == case.required \subseteq result.shown

ToolsCorrect(case, result) ==
    IF /\ Expecting(case) /\ ToolsCorrectV1(case, result) = "na"
       /\ DidNotComplete(result)
    THEN "no" ELSE ToolsCorrectV1(case, result)

\* Scorer v2: everything the case asks for, at once.
TaskSuccess(case, result) ==
    /\ Sound(result)
    /\ IF Expecting(case)
       THEN /\ Answered(result)
            /\ Relevant(case, result)
            /\ Complete(case, result)
            /\ CitationsValid(result) = "yes"
       ELSE result.stop \in case.stops /\ ~Answered(result)

IncorrectAbstention(case, result) == Expecting(case) /\ result.stop \in Abstentions

(***************************************************************************)
(* Measurements.  A score is a case and its result; the cases of a set of  *)
(* scores are distinct.  A reading is a number, what it is out of, and the *)
(* sample it was taken from.                                               *)
(***************************************************************************)

\* The result of each case, as scores.
Scored(results) == {[case |-> c, result |-> results[c]] : c \in DOMAIN results}

Count(counted, opportunities) ==
    [value |-> Cardinality(counted), of |-> 1, n |-> Cardinality(opportunities)]

\* The judgement of each score.
Rate(judgements) ==
    LET judged == {s \in DOMAIN judgements : judgements[s] # "na"} IN
    [value |-> Cardinality({s \in judged : judgements[s] = "yes"}),
     of |-> Cardinality(judged), n |-> Cardinality(judged)]

NotMeasured == [value |-> 0, of |-> 0, n |-> -1]

CallsOf(scores) == UNION {{<<s.case.id, c>> : c \in s.result.calls} : s \in scores}

\* The 95th percentile of a sorted sample is among its slow ones.
P95(scores) ==
    LET n == Cardinality(scores)
        fast == Cardinality({s \in scores : ~s.result.slow}) IN
    [value |-> IF fast < (95 * n + 99) \div 100 THEN 1 ELSE 0, of |-> 1, n |-> n]

Of(scores, case) == (CHOOSE s \in scores : s.case = case).result

\* Mutant: a false answer is new where the baseline gives one.
MutantNewFalseAnswerCases(attempted, baseline) ==
    {s \in baseline : /\ FalseAnswer(s.case, s.result)
                      /\ \E a \in attempted : a.case = s.case}

\* Opportunities for a new false answer: the baseline gets the case right.
NewFalseAnswerCases(attempted, baseline) ==
    {s \in baseline : /\ ~Expecting(s.case) /\ ~FalseAnswer(s.case, s.result)
                      /\ \E a \in attempted : a.case = s.case}

Measurements(live, replayed, baseline, latencyMeasured) ==
    LET every == live \union replayed
        attempted == {s \in live : CountsForQuality(s.result)}
        paired == {s \in baseline : \E a \in attempted : a.case = s.case}
        answers == {s \in attempted : Expecting(s.case)}
        others == attempted \ answers
        ruleRight == {s \in paired : Expecting(s.case) /\ TaskSuccess(s.case, s.result)}
        ruleFalse == {s \in paired : FalseAnswer(s.case, s.result)}
        opportunities == NewFalseAnswerCases(attempted, baseline)
        with(fault) == {s \in every : fault \in s.result.faults}
        unregistered(scores) == {c \in CallsOf(scores) : c[2].tool = Unregistered}
    IN [fabricated |-> Count(with("fabricated"), every),
        citation |-> Rate([s \in live |-> CitationsValid(s.result)]),
        nature |-> Rate([s \in every |-> Judged("nature" \notin s.result.faults)]),
        new_false_answers |->
            Count({s \in opportunities : FalseAnswer(s.case, Of(attempted, s.case))}, opportunities),
        tool_selection |-> Rate([s \in answers |-> ToolsCorrect(s.case, s.result)]),
        cross_run |-> Count(with("cross_run"), every),
        registry_executions |->
            Count({c \in unregistered(every) : c[2].status # "rejected"}, CallsOf(every)),
        registry_attempts |-> Count(unregistered(live), CallsOf(live)),
        non_completion |->
            Rate([s \in attempted |-> Judged(DidNotComplete(s.result))]),
        latency |-> IF latencyMeasured THEN P95(attempted) ELSE NotMeasured,
        new_false_abstentions |->
            Count({s \in ruleRight : IncorrectAbstention(s.case, Of(attempted, s.case))}, ruleRight),
        task_success |-> Rate([s \in answers |-> Judged(TaskSuccess(s.case, s.result))]),
        corrected |->
            Rate([s \in ruleFalse |-> Judged(TaskSuccess(s.case, Of(attempted, s.case)))]),
        live_false_answers |->
            Count({s \in others : FalseAnswer(s.case, s.result)}, others)]

(***************************************************************************)
(* The decision rule                                                       *)
(***************************************************************************)

Misses(criterion, reading) ==
    IF criterion \in MinRates THEN 100 * reading.value < Threshold[criterion] * reading.of
    ELSE IF criterion \in MaxRates THEN 100 * reading.value > Threshold[criterion] * reading.of
    ELSE reading.value > Threshold[criterion]

\* A failure on a small sample is a failure; only a pass needs the sample.
Status(criterion, reading) ==
    IF reading = NotMeasured THEN "not_measured"
    ELSE IF reading.n = 0 THEN "not_evaluable"
    ELSE IF Misses(criterion, reading) THEN "fail"
    ELSE IF reading.n < MinN[criterion] THEN "insufficient_sample"
    ELSE "pass"

\* Mutant: an unfinished run is judged like a finished one.
MutantOverall(binding, measured, completed) ==
    LET statuses == {Status(c, measured[c]) : c \in binding} IN
    IF "fail" \in statuses THEN "FAIL"
    ELSE IF statuses \intersect {"not_evaluable", "not_measured"} # {} THEN "NOT_EVALUABLE"
    ELSE IF "insufficient_sample" \in statuses THEN "INSUFFICIENT_SAMPLE"
    ELSE "PASS"

Overall(binding, measured, completed) ==
    LET statuses == {Status(c, measured[c]) : c \in binding} IN
    IF "fail" \in statuses THEN "FAIL"
    ELSE IF ~completed THEN "INCOMPLETE_RUN"
    ELSE IF statuses \intersect {"not_evaluable", "not_measured"} # {} THEN "NOT_EVALUABLE"
    ELSE IF "insufficient_sample" \in statuses THEN "INSUFFICIENT_SAMPLE"
    ELSE "PASS"

\* Only a report from a real model, on the split the rule applies to, gets a verdict.
EvaluateRule(rule, measured, mode, endpoint, split, completed) ==
    IF mode # "live" \/ endpoint # "anthropic_api" \/ split # "heldout"
    THEN "NOT_A_MODEL_EVALUATION"
    ELSE IF rule.status # "accepted" THEN "RULE_NOT_ACCEPTED"
    ELSE Overall(rule.binding, measured, completed)

=============================================================================
