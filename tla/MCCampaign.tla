----------------------------- MODULE MCCampaign -----------------------------
(***************************************************************************)
(* Small datasets, approvals and commands for Campaign.  Tools 1 to 5 own  *)
(* the claims: a is of tool 1, b of tool 2, the label of tool 3.           *)
(***************************************************************************)
EXTENDS Campaign, TLC

CONSTANTS a, b, label, p1, p2

MCClaims == {a, b}
MCTools == 1..5
MCOwner == a :> 1 @@ b :> 2 @@ label :> 3
MCMinN == [c \in Criteria |-> 1]
MCThreshold ==
    [c \in Criteria |->
        CASE c \in {"citation", "nature"} -> 100
          [] c = "tool_selection" -> 90
          [] c = "task_success" -> 80
          [] c = "corrected" -> 50
          [] c = "non_completion" -> 5
          [] OTHER -> 0]
MCTargets == [answer |-> 1, other |-> 1]

(***************************************************************************)
(* Cases                                                                   *)
(***************************************************************************)

\* Question n, about some claims, of which the router offers those in evidence.
Question(n, split, asks, offered) ==
    [id |-> n, split |-> split, live |-> TRUE, fixture |-> n, question |-> n, words |-> {n},
     asks |-> asks, offered |-> offered, before |-> "unsupported_question",
     script |-> [tools |-> {}, selected |-> {}]]

Answer(question, required, permitted, tools) ==
    [outcome |-> "answer", stops |-> {"answered"}, required |-> required,
     permitted |-> permitted, tools |-> tools, forbidden |-> {}] @@ question

Abstain(question, stop) ==
    [outcome |-> "abstain", stops |-> {stop}, required |-> {}, permitted |-> {},
     tools |-> {}, forbidden |-> {}] @@ question

\* The baseline is right on the first, and shows too much on the second.
Both == Answer(Question(1, "heldout", {a, b}, {a, b, label}), {a}, {a, b}, {1})
Narrow == Answer(Question(2, "heldout", {a, b}, {a, b, label}), {a}, {a}, {1})
\* Asked of a model, which should not answer it with what it is offered.
Gap == Abstain(Question(3, "heldout", {b}, {b, label}), "no_relevant_claim")
Nature == Abstain(Question(4, "heldout", {label}, {label}), "no_relevant_claim")
Unsupported == Abstain(Question(5, "heldout", {}, {label}), "unsupported_question")
Forged ==
    [outcome |-> "fail_closed", stops |-> {"selection_rejected"}, live |-> FALSE,
     script |-> [tools |-> {2}, selected |-> {a}]]
    @@ Abstain(Question(6, "heldout", {a}, {a, label}), "selection_rejected")
Known == Answer(Question(7, "dev", {b}, {b, label}), {b}, {b}, {2})
Second == Answer(Question(8, "dev", {a}, {a, label}), {a}, {a}, {1})

\* A held-out question that development holds on another fixture, and one that
\* is near it.
Repeated == [Gap EXCEPT !.id = 9, !.question = Known.question]
Similar == [Gap EXCEPT !.id = 10, !.words = Known.words]

Dataset(cases) ==
    [cases |-> cases \union {Known, Second}, texts |-> {}, version |-> 3, frozen |-> TRUE,
     selections |-> 3]

(***************************************************************************)
(* Approvals and commands                                                  *)
(***************************************************************************)

Proposed == [status |-> "proposed", binding |-> RoadmapCriteria]
Accepted(option) == [status |-> "accepted", binding |-> Bindings[option]]

Approval(stage, split, used, requests, cost) ==
    [approved |-> TRUE, stage |-> stage, split |-> split, dataset |-> 3, rule |-> used,
     requests |-> requests, cost |-> cost, model |-> 1, code |-> 1]

Command(kind, stage, split, approval, requests, cost, output) ==
    [kind |-> kind, stage |-> stage, split |-> split, approval |-> approval,
     requests |-> requests, cost |-> cost, output |-> output, troubles |-> {}, model |-> 1,
     code |-> 1, clean |-> TRUE, endpoint |-> "anthropic_api"]

Probe == Approval("protocol_probe", "dev", Proposed, 2, 7)
Development == Approval("development", "dev", Proposed, 4, 12)
Decision == Approval("decision", "heldout", Accepted("replace"), 6, 20)
\* Records no run may start on: an unaccepted decision, a probe over its cap, and
\* one that allows more than a record may.
Early == Approval("decision", "heldout", Proposed, 6, 20)
Large == Approval("protocol_probe", "dev", Proposed, 6, 20)
Excessive == Approval("development", "dev", Proposed, 9, 40)

NoApproval == [approved |-> FALSE]
Decide == Command("paid", "decision", "heldout", Decision, 6, 20, "decision")
Tight == Command("paid", "decision", "heldout", Decision, 3, 9, "decision")
Develop == Command("paid", "development", "dev", Development, 4, 12, "other")

StageCommands ==
    {Command("paid", "protocol_probe", "dev", Probe, 2, 7, "other"), Develop, Tight,
     [Decide EXCEPT !.endpoint = "loopback_test_double"],
     [Develop EXCEPT !.split = "heldout", !.output = "decision"],
     [Develop EXCEPT !.split = "heldout", !.stage = "decision", !.output = "decision"],
     [Develop EXCEPT !.requests = 9], [Develop EXCEPT !.cost = 13],
     [Develop EXCEPT !.model = 2], [Develop EXCEPT !.code = 2], [Develop EXCEPT !.clean = FALSE],
     [Develop EXCEPT !.output = "screen"], [Develop EXCEPT !.troubles = {"ci"}],
     [Decide EXCEPT !.output = "other"], [Decide EXCEPT !.approval = Early],
     [Develop EXCEPT !.approval = Excessive],
     Command("paid", "protocol_probe", "dev", Large, 6, 20, "other"),
     Command("replay", "none", "heldout", NoApproval, 0, 0, "decision")}

Offline == Command("reliability", "none", "heldout", NoApproval, 0, 0, "other")
Selections ==
    {Command("selection", "none", "none", NoApproval, 2, 7, "other"),
     Command("selection", "none", "none", NoApproval, 9, 20, "other")}

(***************************************************************************)
(* What is met                                                             *)
(***************************************************************************)

\* The calls of one turn: some tools, and those called twice.
Calls(tools) == [tools |-> tools, again |-> {}]

Quiet == [options |-> {"replace"}, calls |-> {Calls({1})}, selections |-> {{}, {a}}, failures |-> {},
          costs |-> {2}, faults |-> {{}}, slow |-> {FALSE},
          approvals |-> {Probe, Development, Decision, Early, Large, Excessive}]

\* One decision, of a model that may do anything.
OneDecision ==
    [processes |-> {p1}, dataset |-> Dataset({Both, Gap, Unsupported, Forged}),
     commands |-> {Decide, Tight}, 
     calls |-> {Calls({1}), Calls({2}), Calls({1, 2}), Calls({0}),
                [tools |-> {1, 2}, again |-> {1, 2}]},
     selections |-> {{}, {a}, {b}, {a, b}}, 
     failures |-> {"timeout", "truncated", "not_configured"},
     faults |-> {{}, {"nature"}}, slow |-> BOOLEAN, options |-> {"keep", "replace"}] @@ Quiet

\* One decision of more questions, that a cap or a mishap may cut short anywhere.
LongDecision ==
    [processes |-> {p1}, dataset |-> Dataset({Both, Narrow, Gap, Nature}),
     commands |-> {Decide, Tight}, failures |-> {"unavailable"}] @@ Quiet

\* Two processes, and one approval.
TwoDecisions ==
    [processes |-> {p1, p2}, dataset |-> Dataset({Both, Gap}), commands |-> {Decide, Tight}] @@ Quiet

Stages ==
    [processes |-> {p1, p2}, dataset |-> Dataset({Both}), commands |-> StageCommands,
     failures |-> {"unavailable"}, selections |-> {{a}}] @@ Quiet

\* Reliability reports on every dataset, those that do not load among them.
Reports ==
    {[processes |-> {p1}, dataset |-> Dataset(cases), commands |-> {Offline}, options |-> {}] @@ Quiet :
        cases \in SUBSET {Both, Narrow, Gap, Nature, Unsupported, Forged}
                  \union {{Both, Repeated}, {Both, Similar}}}

Selecting3 ==
    [processes |-> {p1}, dataset |-> Dataset({}), commands |-> Selections,
     failures |-> {"timeout", "invalid_response", "authentication"}, costs |-> {1, 2}] @@ Quiet

MCLoads == {OneDecision, LongDecision, TwoDecisions, Stages, Selecting3} \union Reports

=============================================================================
