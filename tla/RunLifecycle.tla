---------------------------- MODULE RunLifecycle ----------------------------
(***************************************************************************)
(* What the platform promises about an analysis run, whatever the planes   *)
(* it is deployed on: an attempt is created queued, moves only forward,    *)
(* publishes its artifacts in the very step that makes it succeeded or     *)
(* partial, and never changes again once it is terminal                    *)
(* (docs/v2/ANALYSIS_EXECUTION.md, "States and operations").               *)
(***************************************************************************)

CONSTANTS Runs, Artifacts

VARIABLES
    status,     \* status[r]: lifecycle state of run r, "absent" before creation
    published   \* published[r]: artifacts the manifest of r references

vars == <<status, published>>

Init ==
    /\ status = [r \in Runs |-> "absent"]
    /\ published = [r \in Runs |-> {}]

\* A run namespace is created in queued state.
Create(r) ==
    /\ status[r] = "absent"
    /\ status' = [status EXCEPT ![r] = "queued"]
    /\ UNCHANGED published

Begin(r) ==
    /\ status[r] = "queued"
    /\ status' = [status EXCEPT ![r] = "running"]
    /\ UNCHANGED published

\* A run that failed or was cancelled publishes nothing.
Stop(r) ==
    /\ status[r] \in {"queued", "running"}
    /\ \E outcome \in {"failed", "cancelled"} :
           status' = [status EXCEPT ![r] = outcome]
    /\ UNCHANGED published

\* Completion and publication are one step.
Publish(r) ==
    /\ status[r] = "running"
    /\ \E outcome \in {"succeeded", "partial"} :
           status' = [status EXCEPT ![r] = outcome]
    /\ published' = [published EXCEPT ![r] = Artifacts]

Next == \E r \in Runs : Create(r) \/ Begin(r) \/ Stop(r) \/ Publish(r)

Spec == Init /\ [][Next]_vars

=============================================================================
