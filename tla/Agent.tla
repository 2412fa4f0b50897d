------------------------------- MODULE Agent --------------------------------
(***************************************************************************)
(* The copilot's two endpoints: the agent that answers a question by a     *)
(* bounded conversation with a paid model (copilot/agent/loop.py, tools.py,*)
(* trace.py, copilot/budget.py), and the explanation service               *)
(* (copilot/service.py).                                                   *)
(*                                                                         *)
(* A request is a thread of the API process.  Threads share the budget and *)
(* the artifact store, whose bytes may be damaged while a request reads    *)
(* them.  Time is counted in units; a reply may take more of them than the *)
(* timeout it was asked under.                                             *)
(***************************************************************************)
EXTENDS Grounding, BudgetGuard, AgentModel

CONSTANTS
    Threads,        \* request threads of the API process
    Runs,           \* the runs of the store, a function from their names
    Menus,          \* replies the model may give, a function from their names
    Dockets,        \* what the threads may be asked, one function for each case
    MaxModelTurns,  \* limits of one question
    MaxToolCalls,
    ModelTimeout,
    TotalTimeout,
    MaxPromptChars, \* bound of the prompt, in units
    ResultSize,     \* units a tool's result adds to it
    NotAsked

Endpoints == {"agent", "explain"}

\* What a thread is asked: at an endpoint, of a run, with the replies the model
\* may give.
Asks == [endpoint : Endpoints, run : DOMAIN Runs, question : SUBSET Words,
         menu : DOMAIN Menus]

Replies == [kind : {"message", "timeout", "error"},
            message : [stop : STRING, calls : Seq(Calls), distinct : BOOLEAN,
                       text : STRING, ids : Seq(ClaimIds \union {"forged"})],
            pace : {"prompt", "slow", "late"}, reported : BOOLEAN, costly : BOOLEAN]

ASSUME AgentAssumption ==
    /\ IsFiniteSet(Threads)
    /\ Runs \in [DOMAIN Runs -> Manifests]
    /\ Menus \in [DOMAIN Menus -> SUBSET Replies]
    /\ NotAsked \notin Asks
    /\ \A d \in Dockets : d \in [Threads -> Asks \union {NotAsked}]
    /\ MaxModelTurns \in 1..5 /\ MaxToolCalls \in 0..4
    /\ ModelTimeout \in Nat \ {0} /\ TotalTimeout \in Nat \ {0}
    /\ {MaxPromptChars, ResultSize} \subseteq Nat

VARIABLES
    asked,    \* the ask of each thread
    damaged,  \* artifacts whose bytes no longer match, by thread's run
    talk,     \* the request each thread is serving
    guard,    \* the budget of the process
    result,   \* how each request ended
    posted,   \* history: requests each thread really sent to the provider
    billed    \* history: what the provider billed for them

vars == <<asked, damaged, talk, guard, result, posted, billed>>

(***************************************************************************)
(* Data                                                                    *)
(***************************************************************************)

NoEvidence == [nature |-> "none"]
NoOutcome == [kind |-> "none"]

\* A thread before it has read anything.
Start == [pc |-> "load", read |-> None, evidence |-> NoEvidence, route |-> Unsupported,
          catalog |-> {}, turn |-> 0, time |-> 0, prompt |-> 1, worst |-> 0,
          outcome |-> NoOutcome, pending |-> <<>>, log |-> <<>>,
          turns |-> 0, complete |-> TRUE, cost |-> 0]

Idle == [Start EXCEPT !.pc = "idle"]

\* What the caller gets, with the part of the trace that is written at the end.
Result(kind, reason) ==
    [kind |-> kind, reason |-> reason, mode |-> "not_invoked",
     selected |-> {}, rejected |-> 0, shown |-> {}, refused |-> 0]

NoResult == Result("none", "none")

IsAgent(t) == asked[t].endpoint = "agent"
RunOf(t) == Runs[asked[t].run]
Intact(t) == Registered(RunOf(t)) \ damaged[t]

Init ==
    /\ asked \in Dockets
    /\ damaged = [t \in Threads |-> {}]
    /\ talk = [t \in Threads |-> IF asked[t] = NotAsked THEN Idle ELSE Start]
    /\ guard = FullBudget
    /\ result = [t \in Threads |-> NoResult]
    /\ posted = [t \in Threads |-> 0]
    /\ billed = [t \in Threads |-> 0]

At(t, point) == talk[t].pc = point

\* A thread ends its request with a result.
End(t, r) ==
    /\ talk' = [talk EXCEPT ![t].pc = "done"]
    /\ result' = [result EXCEPT ![t] = r]

\* The mode of a response that no selection was made for.
Mode(turns) == IF turns = 0 THEN "not_invoked" ELSE "real_model"

Failed(turns, reason) == [Result("unavailable", reason) EXCEPT !.mode = Mode(turns)]

(***************************************************************************)
(* Evidence                                                                *)
(***************************************************************************)

\* The first look at the artifacts, and the reading of the diagnostics.
Load(t) ==
    /\ At(t, "load")
    /\ talk' = [talk EXCEPT ![t].pc = "collect",
                            ![t].read = LoadDiagnostics(RunOf(t), Intact(t))]
    /\ UNCHANGED <<asked, damaged, guard, result, posted, billed>>

\* The store loses an artifact; later damage is not looked at.
Damage(t, a) ==
    /\ talk[t].pc \in {"load", "collect"}
    /\ a \in Intact(t)
    /\ damaged' = [damaged EXCEPT ![t] = @ \union {a}]
    /\ UNCHANGED <<asked, talk, guard, result, posted, billed>>

\* The second look, and what is decided before any model is called: a run that
\* is not completed is refused, and a question that no claim of the run answers
\* is abstained from.
Collect(t) ==
    /\ At(t, "collect")
    /\ \E evidence \in {BuildEvidence(RunOf(t), talk[t].read, Intact(t))},
          route \in {RouteQuestion(asked[t].question)} :
       \E catalog \in {Eligible(BuildCatalog(evidence), route)} :
          IF evidence.status \notin {"succeeded", "partial"}
          THEN End(t, Result("error", "run_not_eligible"))
          ELSE IF route.scope = "unsupported"
          THEN End(t, Result("unavailable", "unsupported_question"))
          ELSE IF ~CanAnswer(catalog, route)
          THEN End(t, Result("unavailable", "evidence_not_available"))
          ELSE /\ talk' = [talk EXCEPT
                              ![t].pc = IF IsAgent(t) THEN "turn" ELSE "select",
                              ![t].turn = 1,
                              ![t].evidence = evidence,
                              ![t].route = route,
                              ![t].catalog = catalog]
               /\ UNCHANGED result
    /\ UNCHANGED <<asked, damaged, guard, posted, billed>>

(***************************************************************************)
(* Grounding                                                               *)
(***************************************************************************)

\* The answer a selection makes of the claims offered in a conversation.
Answer(c, selection) ==
    LET shown == ClaimsToRender(c.catalog, selection, c.route) IN
    [Result("answered", "answered") EXCEPT
        !.mode = "model",
        !.selected = Ids(selection),
        !.shown = shown]

Empty(answer) == answer.shown = {}

NoClaim(answer) ==
    [answer EXCEPT !.kind = "unavailable", !.reason = "no_relevant_claim"]

Cited(c, ids) == ValidCitations(c.evidence, RenderedCitations(c.evidence, ids))

\* Mutant: the ids are looked for in the catalog and not in what the tools returned.
MutantGround(c, selection) ==
    LET answer == Answer(c, selection) IN
    IF IsForged(c.catalog, selection) THEN Failed(c.turns, "citation_rejected")
    ELSE IF Empty(answer) THEN NoClaim(answer)
    ELSE IF ~Cited(c, answer.shown) THEN Failed(c.turns, "citation_rejected")
    ELSE answer

\* The agent publishes a selection whose every id a tool returned, that is not
\* forged, and whose citations are valid.
Ground(c, selection) ==
    LET known == Ids(selection) \intersect Retrieved(c.log)
        answer == Answer(c, selection)
        rejected == [Failed(c.turns, "citation_rejected") EXCEPT !.selected = known]
    IN
    IF known # Ids(selection)
    THEN [rejected EXCEPT !.reason = "selection_rejected",
                          !.rejected = Len(selection) - Cardinality(known)]
    ELSE IF IsForged(c.catalog, selection) THEN rejected
    ELSE IF Empty(answer) THEN NoClaim(answer)
    ELSE IF ~Cited(c, answer.shown) THEN rejected
    ELSE answer

\* What the explanation service makes of a selection; a forged one is an error.
Explained(c, selection) ==
    LET answer == Answer(c, selection) IN
    IF IsForged(c.catalog, selection) THEN Result("error", "forged_citation")
    ELSE IF Empty(answer) THEN NoClaim(answer)
    ELSE IF ~Cited(c, answer.shown) THEN Result("error", "forged_citation")
    ELSE answer

\* The selection of the offline provider, everything it is offered, or one of
\* the real provider.
Explain(t) ==
    /\ At(t, "select")
    /\ \E selection \in {InOrder(talk[t].catalog)}
                          \union {r.message.ids : r \in {r \in Menus[asked[t].menu] :
                                                        IsSelection(r.message)}} :
          End(t, Explained(talk[t], selection))
    /\ UNCHANGED <<asked, damaged, guard, posted, billed>>

\* The provider failed, or its reply was not a selection.
ExplainFails(t) ==
    /\ At(t, "select")
    /\ End(t, Failed(1, "provider_unavailable"))
    /\ UNCHANGED <<asked, damaged, guard, posted, billed>>

(***************************************************************************)
(* Turns of the agent                                                      *)
(***************************************************************************)

\* The time a turn may take.
Timeout(c) ==
    IF ModelTimeout < TotalTimeout - c.time THEN ModelTimeout ELSE TotalTimeout - c.time

\* Mutant: a turn waits for the budget instead of giving up.
MutantBeginTurn(t) ==
    LET c == talk[t]
        worst == WorstCase(c.prompt, c.turn)
        stop == IF c.time >= TotalTimeout THEN "deadline_exceeded"
                ELSE IF c.prompt > MaxPromptChars THEN "prompt_budget_exceeded"
                ELSE "none"
    IN
    /\ At(t, "turn")
    /\ IF stop # "none"
       THEN End(t, Failed(c.turns, stop)) /\ UNCHANGED guard
       ELSE /\ Admissible(guard, worst)
            /\ guard' = Admit(guard, worst)
            /\ talk' = [talk EXCEPT ![t].pc = "call", ![t].worst = worst]
            /\ UNCHANGED result
    /\ UNCHANGED <<asked, damaged, posted, billed>>

\* The deadline, the prompt and the budget of the process, in this order, before
\* anything is sent.
BeginTurn(t) ==
    LET c == talk[t]
        worst == WorstCase(c.prompt, c.turn)
        stop == IF c.time >= TotalTimeout THEN "deadline_exceeded"
                ELSE IF c.prompt > MaxPromptChars THEN "prompt_budget_exceeded"
                ELSE IF ~Admissible(guard, worst) THEN "budget_exhausted"
                ELSE "none"
    IN
    /\ At(t, "turn")
    /\ IF stop # "none"
       THEN End(t, Failed(c.turns, stop)) /\ UNCHANGED guard
       ELSE /\ guard' = Admit(guard, worst)
            /\ talk' = [talk EXCEPT ![t].pc = "call", ![t].worst = worst]
            /\ UNCHANGED result
    /\ UNCHANGED <<asked, damaged, posted, billed>>

\* The adapter finds that it may not call the provider: the admission is undone
\* and no turn has happened.
NotConfigured(t) ==
    /\ At(t, "call")
    /\ guard' = Release(guard, talk[t].worst)
    /\ End(t, Failed(talk[t].turns, "provider_error"))
    /\ UNCHANGED <<asked, damaged, posted, billed>>

Took(c, reply) ==
    IF reply.pace = "prompt" THEN 0
    ELSE IF reply.pace = "slow" THEN Timeout(c)
    ELSE Timeout(c) + 1

Cost(c, reply) == IF reply.costly THEN c.worst ELSE 1

\* The request is sent, and what comes back of it.
Exchange(t) ==
    LET c == talk[t] IN
    /\ At(t, "call")
    /\ \E reply \in Menus[asked[t].menu] :
          /\ talk' = [talk EXCEPT ![t].pc = "settle", ![t].outcome = reply]
          /\ billed' = [billed EXCEPT ![t] = @ + Cost(c, reply)]
    /\ posted' = [posted EXCEPT ![t] = @ + 1]
    /\ UNCHANGED <<asked, damaged, guard, result>>

\* Mutant: a turn without a usage does not make the trace incomplete.
MutantRecorded(c) ==
    [c EXCEPT !.turns = @ + 1,
              !.time = @ + Took(c, c.outcome),
              !.cost = @ + (IF c.outcome.reported THEN Cost(c, c.outcome) ELSE 0),
              !.outcome = NoOutcome]

\* The turn as the recorder counts it.
Recorded(c) ==
    [c EXCEPT !.turns = @ + 1,
              !.time = @ + Took(c, c.outcome),
              !.complete = @ /\ c.outcome.reported,
              !.cost = @ + (IF c.outcome.reported THEN Cost(c, c.outcome) ELSE 0),
              !.outcome = NoOutcome]

\* Why the turn ends the question, "none" when it does not.
StopOfOutcome(c) ==
    LET o == c.outcome IN
    CASE o.kind = "timeout" -> "model_timeout"
      [] o.kind = "error" -> "provider_error"
      [] Fault(o.message) = "refusal" -> "model_refusal"
      [] Fault(o.message) = "truncated" -> "model_truncated"
      [] Fault(o.message) = "invalid_response" -> "malformed_response"
      [] o.pace = "late" -> "model_timeout"
      [] OTHER -> "none"

\* Why the calls of a turn end the question before any of them runs.
Refusal(c, calls) ==
    IF \E i \in DOMAIN calls : ReferencesARun(calls[i]) THEN "cross_run_rejected"
    ELSE IF Len(c.log) + Len(calls) > MaxToolCalls THEN "tool_budget_exhausted"
    ELSE IF c.turn = MaxModelTurns THEN "turn_budget_exhausted"
    ELSE "none"

\* The request is charged, the turn recorded, and the reply acted on: an end, a
\* selection to publish, calls to refuse, or calls to run.
Settle(t) ==
    LET c == talk[t]
        after == Recorded(c)
        stop == StopOfOutcome(c)
        calls == c.outcome.message.calls
        ended(r) == /\ talk' = [talk EXCEPT ![t] = [after EXCEPT !.pc = "done"]]
                    /\ result' = [result EXCEPT ![t] = r]
    IN
    /\ At(t, "settle")
    /\ guard' = Charge(guard, c.worst, c.outcome.reported, Cost(c, c.outcome))
    /\ IF stop # "none" THEN ended(Failed(after.turns, stop))
       ELSE IF calls = <<>> THEN ended(Ground(after, c.outcome.message.ids))
       ELSE IF Refusal(c, calls) # "none"
       THEN ended([Failed(after.turns, Refusal(c, calls)) EXCEPT !.refused = Len(calls)])
       ELSE /\ talk' = [talk EXCEPT ![t] = [after EXCEPT !.pc = "tools", !.pending = calls]]
            /\ UNCHANGED result
    /\ UNCHANGED <<asked, damaged, posted, billed>>

\* One call of the turn; the last one starts the next turn.
RunTool(t) ==
    LET c == talk[t]
        last == Len(c.pending) = 1
    IN
    /\ At(t, "tools")
    /\ talk' = [talk EXCEPT
                   ![t].pc = IF last THEN "turn" ELSE "tools",
                   ![t].turn = IF last THEN @ + 1 ELSE @,
                   ![t].pending = Tail(@),
                   ![t].prompt = @ + ResultSize,
                   ![t].log = Append(@, Execute(@, c.catalog, Head(c.pending)))]
    /\ UNCHANGED <<asked, damaged, guard, result, posted, billed>>

(***************************************************************************)
(* The specification                                                       *)
(***************************************************************************)

Step(t) ==
    \/ Load(t) \/ Collect(t)
    \/ Explain(t) \/ ExplainFails(t)
    \/ BeginTurn(t) \/ NotConfigured(t) \/ Exchange(t) \/ Settle(t) \/ RunTool(t)

Next == \E t \in Threads : Step(t) \/ \E a \in Artifacts : Damage(t, a)

Spec == Init /\ [][Next]_vars

\* A request thread runs to its end: every call it makes is bounded in time.
FairSpec == Spec /\ \A t \in Threads : WF_vars(Step(t))

(***************************************************************************)
(* Safety                                                                  *)
(***************************************************************************)

Answered(t) == result[t].kind = "answered"
Admitted == {t \in Threads : At(t, "call")}
Settling == {t \in Threads : At(t, "settle")}
Worst == [t \in Threads |-> talk[t].worst]

Fun == INSTANCE Functions
Sum(f, threads) == Fun!SumFunctionOnSet(f, threads)

\* What the provider bills to all the questions of the process, those whose
\* reply was late, lost or unreadable included, stays within the budget, and so
\* does the number of requests; the guard never counts less than was billed.
SpendingIsBounded ==
    /\ Sum(billed, Threads) <= MaxCost
    /\ Sum(posted, Threads) <= MaxRequests
    /\ guard.reserved = Sum(Worst, Admitted \union Settling)
    /\ guard.sent = Sum(posted, Threads) + Cardinality(Admitted)
    /\ Sum(billed, Threads) <= guard.spent + Sum(Worst, Settling)

\* Nothing but the label is shown in an agent's answer unless a tool returned it
\* for this question, and every id the model selected was returned by a tool.
OnlyRetrievedIsShown ==
    \A t \in Threads : Answered(t) /\ IsAgent(t) =>
        /\ result[t].shown \subseteq Retrieved(talk[t].log) \union {Label}
        /\ result[t].selected \subseteq Retrieved(talk[t].log)
        /\ Retrieved(talk[t].log) \subseteq talk[t].catalog

\* An answer of either endpoint shows the label and a claim the question was
\* routed to; it does not say that evidence is missing and that none is; and
\* what it says of the run was intact when every artifact was last looked at.
AnswersAreGrounded ==
    \A t \in Threads : Answered(t) =>
        LET shown == result[t].shown
            evidence == talk[t].evidence
        IN
        /\ Label \in shown
        /\ shown \intersect talk[t].route.claims # {}
        /\ ~({"missing_evidence", "no_missing_evidence"} \subseteq shown)
        /\ "no_missing_evidence" \in shown => AllVerified(evidence)
        /\ shown \intersect DiagnosticClaims # {} \/ evidence.nature = "verified_real" =>
              evidence.diagnostics # None /\ evidence.verified[Diagnostics]
        /\ evidence.nature = "verified_real" =>
              RunOf(t).profile = "v1_compat" /\ RunOf(t).payload.core

\* Every claim that is offered can be cited, when the diagnostics were registered
\* with their schema and were not damaged between the two looks.
OfferedIsCitable ==
    \A t \in Threads : LET c == talk[t] IN
        /\ At(t, "select") \/ (At(t, "turn") /\ c.turn = 1)
        /\ c.evidence.diagnostics # None =>
              c.evidence.declared # None /\ c.evidence.verified[Diagnostics]
        => Cited(c, c.catalog)

\* The trace counts the turns whose request was sent, and only those; a response
\* says that no model was invoked only when none was; the cost of the trace is
\* what was billed, or less when it says that a turn reported nothing.
TraceTellsWhatWasSent ==
    \A t \in Threads : At(t, "done") /\ IsAgent(t) =>
        /\ talk[t].turns = posted[t]
        /\ result[t].mode = "not_invoked" <=> posted[t] = 0
        /\ talk[t].cost <= billed[t]
        /\ talk[t].complete => talk[t].cost = billed[t]

\* The limits of a question hold whatever the model asks for: turns, calls of
\* tools, one run of each tool, no call on the last turn, none that names a run,
\* and no request begun after the deadline.
LimitsHold ==
    \A t \in Threads : LET c == talk[t] IN
        /\ posted[t] <= MaxModelTurns
        /\ Len(c.log) <= MaxToolCalls
        /\ \A i, j \in Ran(c.log) : c.log[i].name = c.log[j].name => i = j
        /\ At(t, "tools") => c.turn < MaxModelTurns
        /\ At(t, "tools") => \A i \in DOMAIN c.pending : ~ReferencesARun(c.pending[i])
        /\ At(t, "call") => c.time < TotalTimeout /\ c.prompt <= MaxPromptChars

(***************************************************************************)
(* Liveness                                                                *)
(***************************************************************************)

\* Every question gets its answer, its refusal or its error and keeps it, whatever
\* the model does, however late its replies are, and whatever is left of the budget.
QuestionsEnd ==
    \A t \in Threads :
        asked[t] # NotAsked ~> [](At(t, "done") /\ result[t].kind # "none")

=============================================================================
