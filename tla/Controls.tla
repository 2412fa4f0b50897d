------------------------------ MODULE Controls ------------------------------
(***************************************************************************)
(* The scripted controls that test the decision rule, and the datasets     *)
(* they are asked of (copilot/evaluation/agent_controls.py,                *)
(* agent_benchmark.py, cli/copilot_agent_reliability.py).  A dataset is a  *)
(* set of cases; a case names the subject words of its question, and       *)
(* "texts" are the questions found in the texts a model is sent.           *)
(***************************************************************************)
EXTENDS Scoring

CONSTANTS
    MaxTurns,  \* turns a question may take
    Targets    \* the questions the held-out split must let reach a model, by kind

ASSUME ControlsAssumption ==
    /\ MaxTurns \in Nat \ {0}
    /\ Targets \in [{"answer", "other"} -> Nat]

Cases(dataset, split) == {c \in dataset.cases : c.split = split}
Live(cases) == {c \in cases : c.live}
Replay(cases) == {c \in cases : ~c.live}

(***************************************************************************)
(* Loading                                                                 *)
(***************************************************************************)

\* Mostly the same subject words.
Near(first, second) ==
    4 * Cardinality(first \intersect second) >= 3 * Cardinality(first \union second)
    /\ first # {} /\ second # {}

\* Ways a held-out question could already be known to who tuned on development,
\* whatever the fixture.
Leaks(dataset, case) ==
    \/ \E other \in Live(Cases(dataset, "dev")) :
          other.question = case.question \/ Near(other.words, case.words)
    \/ case.question \in dataset.texts

Loadable(dataset) ==
    /\ \A c \in dataset.cases : Consistent(c)
    /\ \A c, d \in dataset.cases : c.id = d.id => c = d
    /\ \A c \in Live(Cases(dataset, "heldout")), d \in Live(Cases(dataset, "dev")) :
          c.fixture # d.fixture \/ c.question # d.question
    /\ dataset.version = 3 => \A c \in Live(Cases(dataset, "heldout")) : ~Leaks(dataset, c)

(***************************************************************************)
(* Controls                                                                *)
(***************************************************************************)

NegativeControls ==
    {"always_abstain", "select_every_claim", "off_topic_only", "right_tool_wrong_claims",
     "no_tool", "unauthorized_tool", "exhaust_tool_budget", "exhaust_turn_budget",
     "exceed_deadline", "malformed_output", "invalid_tool_arguments", "operator_budget_stop"}
ControlNames == {"label_oracle", "route_following"} \union NegativeControls

\* A call that is refused for its arguments.
RefusedCalls(tools) == {[tool |-> t, turn |-> 1, status |-> "rejected"] : t \in tools}

\* One tool a turn, for some turns.
OneToolATurn(turns) == UNION {CallsTo({t}, t) : t \in {u \in Tools : u <= turns}}

\* What a control makes of a case that reaches a model.
Controlled(name, case) ==
    LET offered == CallsTo(OfferedTools(case), 1)
        labelled == IF case.tools = {} THEN offered ELSE CallsTo(case.tools, 1)
        every == CallsTo(ToolsFor(case.offered), 1)
        allBut(calls, claims) == Retrieved(case, calls) \ (claims \union {Label})
    IN CASE name = "label_oracle" -> Conversation(case, CallsTo(case.tools, 1), case.required)
         [] name = "route_following" -> RouteFollowing(case)
         [] name = "always_abstain" -> Conversation(case, {}, {})
         [] name = "select_every_claim" -> Conversation(case, every, Retrieved(case, every))
         [] name = "off_topic_only" ->
               Conversation(case, offered, allBut(offered, case.permitted))
         [] name = "right_tool_wrong_claims" ->
               Conversation(case, labelled, allBut(labelled, case.required))
         [] name = "no_tool" ->
               Conversation(case, {}, IF case.required = {} THEN case.offered ELSE case.required)
         [] name = "unauthorized_tool" -> Conversation(case, CallsTo({Unregistered}, 1), {})
         [] name = "exhaust_tool_budget" -> Conversation(case, CallsTo(Tools, 1), {})
         [] name = "exhaust_turn_budget" ->
               Ended("turn_budget_exhausted", "none", 2, OneToolATurn(1), {})
         [] name = "exceed_deadline" ->
               Ended("deadline_exceeded", "none", 3, OneToolATurn(3), {})
         [] name = "malformed_output" ->
               Ended("malformed_response", "invalid_response", 1, {}, {})
         [] name = "invalid_tool_arguments" ->
               Conversation(case, RefusedCalls(OfferedTools(case)), {})
         [] name = "operator_budget_stop" ->
               Ended("budget_exhausted", "budget_exhausted", 0, {}, {})

ControlResult(name, case) ==
    IF Reaches(case) THEN Controlled(name, case) ELSE StoppedBeforeAModel(case)

\* A recorded misbehaviour, replayed through the loop.
Replayed(case) == Conversation(case, CallsTo(case.script.tools, 1), case.script.selected)

(***************************************************************************)
(* The reliability report                                                  *)
(***************************************************************************)

RoadmapCriteria ==
    Criteria \ {"new_false_abstentions", "task_success", "corrected", "live_false_answers"}

\* The options of decision D7: what the owner may bind.
Bindings ==
    LET recommended == {"new_false_abstentions", "task_success"} IN
    [keep |-> RoadmapCriteria \union recommended,
     remove |-> (RoadmapCriteria \union recommended) \ {"new_false_answers"},
     replace |-> ((RoadmapCriteria \union recommended) \ {"new_false_answers"})
                 \union {"live_false_answers"}]

ControlCompleted(scores) == \A s \in scores : s.result.stop \notin OperatorStops

\* What an accepted rule would say of a control; a script measures no latency.
ControlVerdict(name, cases, binding) ==
    LET scores == Scored([c \in Live(cases) |-> ControlResult(name, c)])
        measured == Measurements(scores, Scored([c \in Replay(cases) |-> Replayed(c)]),
                                 Scored([c \in Live(cases) |-> RouteFollowing(c)]), FALSE)
    IN Overall(binding \ {"latency"}, measured, ControlCompleted(scores))

\* The held-out split lets enough questions of each kind reach a model.
MeetsTargets(cases) ==
    LET reached == {c \in cases : Reaches(c)}
        answers == {c \in reached : Expecting(c)} IN
    /\ Cardinality(answers) >= Targets["answer"]
    /\ Cardinality(reached \ answers) >= Targets["other"]

\* The report on a version 3 dataset; a version 2 one has a report of its own.
Reliability(dataset) ==
    LET heldout == Cases(dataset, "heldout") IN
    [meets |-> MeetsTargets(heldout),
     verdicts |-> [option \in DOMAIN Bindings |->
                      [name \in ControlNames |-> ControlVerdict(name, heldout, Bindings[option])]]]

=============================================================================
