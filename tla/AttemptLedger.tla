--------------------------- MODULE AttemptLedger ---------------------------
(***************************************************************************)
(* What submission promises of the attempts it records, whatever requests  *)
(* interleave and fail: an attempt is the first of its analysis or repeats *)
(* one that failed or is partial and that no other repeats, with the input *)
(* of that one; nothing but its status changes afterwards, forward only;   *)
(* it gets at most one job, and no work begins without it                  *)
(* (storage/lifecycle.py: immutability, the retry chain and provenance).   *)
(***************************************************************************)
EXTENDS Naturals

CONSTANTS Runs, Contents, None

VARIABLES
    attempt,    \* attempt[r]: the recorded attempt of run r, or None
    job         \* job[r]: jobs accepted for r

vars == <<attempt, job>>

Recorded(r) == attempt[r] # None

Init ==
    /\ attempt = [r \in Runs |-> None]
    /\ job = [r \in Runs |-> 0]

Record(r, analysis, number, previous, digest) ==
    /\ ~Recorded(r)
    /\ attempt' = [attempt EXCEPT ![r] =
           [status |-> "queued", analysis |-> analysis, attempt |-> number,
            previous |-> previous, digest |-> digest]]
    /\ UNCHANGED job

\* A first attempt begins an analysis of its own.
Open(r) == \E c \in Contents : Record(r, r, 1, None, c)

Repeated(p) == \E q \in Runs : Recorded(q) /\ attempt[q].previous = p

Repeat(p, r) ==
    /\ Recorded(p)
    /\ attempt[p].status \in {"failed", "partial"}
    /\ ~Repeated(p)
    /\ Record(r, attempt[p].analysis, attempt[p].attempt + 1, p, attempt[p].digest)

SendJob(r) ==
    /\ Recorded(r) /\ job[r] = 0
    /\ job' = [job EXCEPT ![r] = 1]
    /\ UNCHANGED attempt

Becomes(r, from, to) ==
    /\ Recorded(r)
    /\ attempt[r].status = from
    /\ \E status \in to : attempt' = [attempt EXCEPT ![r].status = status]
    /\ UNCHANGED job

Begin(r) == job[r] = 1 /\ Becomes(r, "queued", {"running"})

End(r) == Becomes(r, "running", {"succeeded", "partial", "failed", "cancelled"})

\* An attempt that was never begun failed or was cancelled.
Withdraw(r) == Becomes(r, "queued", {"failed", "cancelled"})

Next ==
    \E r \in Runs :
        \/ Open(r) \/ SendJob(r) \/ Begin(r) \/ End(r) \/ Withdraw(r)
        \/ \E p \in Runs : Repeat(p, r)

Spec == Init /\ [][Next]_vars

=============================================================================
