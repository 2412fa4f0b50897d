---------------------------- MODULE BudgetGuard -----------------------------
(***************************************************************************)
(* The budget of the paid model (copilot/budget.py, copilot/pricing.py):   *)
(* requests and money, counted under one lock across the threads of a      *)
(* process.  Each operator is one critical section; money is in units.     *)
(***************************************************************************)
EXTENDS Integers

CONSTANTS
    MaxRequests,   \* requests a process may send
    MaxCost,       \* money it may spend
    OutputPrice,   \* price of a whole output; a unit of prompt costs one
    OutputSize     \* units of prompt a whole output makes when it is resent

ASSUME BudgetAssumption ==
    /\ {MaxRequests, MaxCost, OutputSize} \subseteq Nat
    /\ OutputPrice \in Nat \ {0}

FullBudget == [sent |-> 0, spent |-> 0, reserved |-> 0, atWorst |-> 0]

\* The most a turn can cost: what the server wrote, a whole output for each
\* earlier turn, and a whole output.
WorstCase(prompt, turn) == prompt + (turn - 1) * OutputSize + OutputPrice

\* Mutant: what other threads have reserved is not counted.
MutantAdmissible(guard, worst) == guard.sent < MaxRequests /\ guard.spent + worst <= MaxCost

Admissible(guard, worst) ==
    /\ guard.sent < MaxRequests
    /\ guard.spent + guard.reserved + worst <= MaxCost

Admit(guard, worst) ==
    [guard EXCEPT !.sent = @ + 1, !.reserved = @ + worst]

Unreserved(reserved, worst) == IF reserved > worst THEN reserved - worst ELSE 0

\* A request that was refused locally after its admission, and never sent.
Release(guard, worst) ==
    [guard EXCEPT !.sent = @ - 1, !.reserved = Unreserved(@, worst)]

\* A request that was sent: its cost when the reply reported one, and the most
\* it can have cost otherwise.
Charge(guard, worst, reported, cost) ==
    [guard EXCEPT !.reserved = Unreserved(@, worst),
                  !.spent = @ + (IF reported THEN cost ELSE worst),
                  !.atWorst = @ + (IF reported THEN 0 ELSE 1)]

=============================================================================
