----------------------------- MODULE AgentModel -----------------------------
(***************************************************************************)
(* The agent's model and its tools, as the loop sees them: the reading of  *)
(* a reply (copilot/provider.py) and the registry of read-only tools       *)
(* (copilot/agent/tools.py).                                               *)
(***************************************************************************)
EXTENDS Sequences, Routing

(***************************************************************************)
(* Replies                                                                 *)
(***************************************************************************)

\* A message of the provider.  Its blocks are the calls, in order, with whether
\* their ids are well formed and distinct, and the text, which is the selection
\* of claims the protocol asks for or it is not.
Message(stop, calls, distinct, text, ids) ==
    [stop |-> stop, calls |-> calls, distinct |-> distinct, text |-> text, ids |-> ids]

Calling(calls) == Message("tool_use", calls, TRUE, "none", <<>>)
Selecting(ids) == Message("end_turn", <<>>, TRUE, "selection", ids)

\* What comes back from a request that was sent: a message, at once, at the
\* timeout or after it, with a usage or without one; nothing, and the adapter
\* gives up at the timeout; or an error.  The provider bills what it did, which
\* may be all that was asked of it, whatever came back.
Reply(message, pace, reported, costly) ==
    [kind |-> "message", message |-> message, pace |-> pace, reported |-> reported,
     costly |-> costly]

NoMessage == Message("none", <<>>, TRUE, "none", <<>>)

Lost(kind, pace, costly) ==
    [kind |-> kind, message |-> NoMessage, pace |-> pace, reported |-> FALSE,
     costly |-> costly]

Distinct(seq) == \A i, j \in DOMAIN seq : seq[i] = seq[j] => i = j

StopKind(stop) ==
    CASE stop = "refusal" -> "refusal"
      [] stop \in {"max_tokens", "model_context_window_exceeded"} -> "truncated"
      [] OTHER -> "invalid_response"

IsSelection(message) ==
    message.calls = <<>> /\ message.text = "selection" /\ Distinct(message.ids)

\* What is wrong with a message, "none" when it is a turn of the protocol.
Fault(message) ==
    CASE message.stop = "tool_use" ->
            IF message.calls # <<>> /\ message.distinct THEN "none" ELSE "invalid_response"
      [] message.stop = "end_turn" ->
            IF IsSelection(message) THEN "none" ELSE "invalid_response"
      [] OTHER -> StopKind(message.stop)

(***************************************************************************)
(* Tools                                                                   *)
(***************************************************************************)

Owned ==
    [get_run_status |-> {Label, "run_status"},
     get_tracking_diagnostics |-> DiagnosticClaims,
     get_artifact_metadata |-> {"artifact_integrity"},
     get_model_provenance |-> {"provenance", "model_references", "model_details",
                               "source_duration"},
     get_evidence_limitations |-> {"missing_evidence", "no_missing_evidence", "boundaries"}]

Tools == DOMAIN Owned
Arguments == {"none", "extra", "run"}
Calls == [name : Tools \union {"unknown"}, arguments : Arguments]

ReferencesARun(call) == call.arguments = "run"

\* The log has one entry for each call that was executed, refused by the registry
\* or not.
WasCalled(log, name) ==
    \E i \in DOMAIN log : log[i].name = name /\ log[i].status # "rejected"

\* Mutant: a tool may run again.
MutantExecute(log, ids, call) ==
    LET found == IF call.name \in Tools THEN Owned[call.name] \intersect ids ELSE {} IN
    [name |-> call.name,
     status |-> IF call.name \notin Tools \/ call.arguments # "none" THEN "rejected"
                ELSE IF found = {} THEN "no_evidence" ELSE "ok",
     claims |-> IF call.arguments # "none" THEN {} ELSE found]

\* A call runs when the tool is known, it has no argument, and the tool has not
\* run for this question; it returns the claims of the catalog the tool owns.  A
\* handler only picks claims of the catalog, so the answers to one that raises or
\* that returns another claim are left out.
Execute(log, ids, call) ==
    IF call.name \notin Tools \/ call.arguments # "none" \/ WasCalled(log, call.name)
    THEN [name |-> call.name, status |-> "rejected", claims |-> {}]
    ELSE LET found == Owned[call.name] \intersect ids IN
         [name |-> call.name,
          status |-> IF found = {} THEN "no_evidence" ELSE "ok",
          claims |-> found]

Retrieved(log) == UNION {log[i].claims : i \in DOMAIN log}

Ran(log) == {i \in DOMAIN log : log[i].status # "rejected"}

=============================================================================
