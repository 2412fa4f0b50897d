---------------------------- MODULE AgentProofs -----------------------------
(***************************************************************************)
(* The proofs of Agent: types, the limits of a question, the truth of its  *)
(* trace, the grounding of its answer, and the budget the threads share.   *)
(***************************************************************************)
EXTENDS Agent, FiniteSetTheorems, WellFoundedInduction, TLAPS

(***************************************************************************)
(* The inductive invariant                                                 *)
(***************************************************************************)

Reads == [schema : Schemas, quality : Qualities, measure : [Measures -> MeasureStates],
          interpretation : {"absent", "descriptive_only", "other"},
          truth : {"absent", "not_measured", "measured"}, legacy : BOOLEAN]

Snapshots ==
    [status : {"succeeded", "partial", "running", "failed"},
     nature : {"synthetic", "verified_real", "unverified_or_partial"},
     diagnostics : Reads \union {None}, declared : Schemas \union {None},
     verified : UNION {[S -> BOOLEAN] : S \in SUBSET Artifacts},
     missing : BOOLEAN, duration : BOOLEAN, models : {"none", "named", "unnamed"}]

Routes == [scope : {"unsupported", "general", "supported"}, claims : SUBSET ClaimIds]

Points == {"idle", "load", "collect", "select", "turn", "call", "settle", "tools", "done"}

Entries == [name : Tools \union {"unknown"}, status : {"rejected", "no_evidence", "ok"},
            claims : SUBSET ClaimIds]

Talks ==
    [pc : Points, read : Reads \union {None}, evidence : Snapshots \union {NoEvidence},
     route : Routes, catalog : SUBSET ClaimIds,
     turn : Nat, time : Nat, prompt : Nat, worst : Nat,
     outcome : Replies \union {NoOutcome}, pending : Seq(Calls), log : Seq(Entries),
     turns : Nat, complete : BOOLEAN, cost : Nat]

Reasons ==
    {"none", "answered", "run_not_eligible", "unsupported_question",
     "evidence_not_available", "no_relevant_claim", "citation_rejected",
     "selection_rejected", "forged_citation", "provider_unavailable",
     "deadline_exceeded", "prompt_budget_exceeded", "budget_exhausted", "provider_error",
     "model_timeout", "model_refusal", "model_truncated", "malformed_response",
     "cross_run_rejected", "tool_budget_exhausted", "turn_budget_exhausted"}

Results ==
    [kind : {"none", "answered", "unavailable", "error"}, reason : Reasons,
     mode : {"not_invoked", "real_model", "model"},
     selected : SUBSET (ClaimIds \union {"forged"}), rejected : Nat,
     shown : SUBSET ClaimIds, refused : Nat]

Guards == [sent : Nat, spent : Nat, reserved : Nat, atWorst : Nat]

TypeOK ==
    /\ asked \in [Threads -> Asks \union {NotAsked}]
    /\ damaged \in [Threads -> SUBSET Artifacts]
    /\ talk \in [Threads -> Talks]
    /\ guard \in Guards
    /\ result \in [Threads -> Results]
    /\ posted \in [Threads -> Nat]
    /\ billed \in [Threads -> Nat]

AgentPoints == {"turn", "call", "settle", "tools"}

\* Where a thread is, by the endpoint it serves, and what it has by then.
Placed(t) ==
    /\ At(t, "idle") <=> asked[t] = NotAsked
    /\ talk[t].pc \in AgentPoints => IsAgent(t)
    /\ At(t, "select") => ~IsAgent(t)
    /\ \/ talk[t].pc \in AgentPoints \union {"select", "done"}
       \/ talk[t].turns = 0 /\ talk[t].log = <<>>
    /\ At(t, "settle") => talk[t].outcome \in Replies
    /\ ~At(t, "done") => result[t] = NoResult
    /\ At(t, "done") => result[t].kind # "none"

\* The turns, the calls and the requests that are left to a question.
Counted(t) ==
    LET c == talk[t] IN
    /\ c.pc \in {"turn", "call", "settle"} => c.turn \in 1..MaxModelTurns /\ c.turns = c.turn - 1
    /\ At(t, "tools") => /\ c.turn \in 1..(MaxModelTurns - 1) /\ c.turns = c.turn
                         /\ c.pending # <<>>
                         /\ Len(c.log) + Len(c.pending) <= MaxToolCalls
                         /\ \A i \in DOMAIN c.pending : ~ReferencesARun(c.pending[i])
    /\ c.turns <= MaxModelTurns
    /\ Len(c.log) <= MaxToolCalls
    /\ \A i, j \in Ran(c.log) : c.log[i].name = c.log[j].name => i = j
    /\ c.pc \in {"call", "settle"} => c.time < TotalTimeout /\ c.prompt <= MaxPromptChars

\* What the provider will bill, beside what the recorder has counted.
Due == [t \in Threads |-> IF At(t, "settle") THEN Cost(talk[t], talk[t].outcome) ELSE 0]

\* The turn whose request was sent and is not yet recorded is the only one that
\* the recorder has not counted.
Traced(t) ==
    LET c == talk[t] IN
    /\ posted[t] = c.turns + (IF At(t, "settle") THEN 1 ELSE 0)
    /\ c.cost + Due[t] <= billed[t]
    /\ c.complete => c.cost + Due[t] = billed[t]
    /\ At(t, "done") /\ IsAgent(t) => (result[t].mode = "not_invoked" <=> c.turns = 0)

\* What a thread has read is what the diagnostics and the artifacts were.
HasRead(t) ==
    talk[t].pc \notin {"idle", "load"} =>
        \E intact \in SUBSET Registered(RunOf(t)) :
            talk[t].read = LoadDiagnostics(RunOf(t), intact)

Chose(t) == talk[t].pc \in AgentPoints \union {"select"} \/ Answered(t)

HasCollected(t) ==
    Chose(t) =>
        /\ \E intact \in SUBSET Registered(RunOf(t)) :
              talk[t].evidence = BuildEvidence(RunOf(t), talk[t].read, intact)
        /\ talk[t].catalog = Eligible(BuildCatalog(talk[t].evidence), talk[t].route)

LogIsOffered(t) ==
    \A i \in DOMAIN talk[t].log : talk[t].log[i].claims \subseteq talk[t].catalog

\* An answer renders a selection of the claims offered, every citation of which
\* was checked.
Publishes(t, selection) ==
    LET c == talk[t] IN
    /\ result[t].selected = Ids(selection)
    /\ result[t].shown = ClaimsToRender(c.catalog, selection, c.route)
    /\ result[t].shown # {}
    /\ Ids(selection) \subseteq c.catalog
    /\ IsAgent(t) => Ids(selection) \subseteq Retrieved(c.log)
    /\ Cited(c, result[t].shown)

Published(t) ==
    Answered(t) => \E selection \in Seq(ClaimIds \union {"forged"}) : Publishes(t, selection)

\* Money reserved for the requests that are not settled.
Held == [t \in Threads |-> IF talk[t].pc \in {"call", "settle"} THEN talk[t].worst ELSE 0]

Funded ==
    /\ \A t \in Threads : talk[t].pc \in {"call", "settle"} => talk[t].worst # 0
    /\ guard.sent <= MaxRequests
    /\ guard.spent + guard.reserved <= MaxCost
    /\ guard.reserved = Sum(Held, Threads)
    /\ guard.sent = Sum(posted, Threads) + Cardinality(Admitted)
    /\ Sum(billed, Threads) <= guard.spent + Sum(Due, Threads)

Local(t) ==
    /\ Placed(t)
    /\ Counted(t)
    /\ Traced(t)
    /\ HasRead(t)
    /\ HasCollected(t)
    /\ LogIsOffered(t)
    /\ Published(t)

IInv ==
    /\ TypeOK
    /\ \A t \in Threads : Local(t)
    /\ Funded
(***************************************************************************)
(* Induction.  The library's theorems take the property as an operator,    *)
(* which none of the provers instantiates; here it is a set.               *)
(***************************************************************************)

LEMMA LeastElement ==
    ASSUME NEW S \in SUBSET Nat, S # {}
    PROVE  \E s \in S : \A t \in S : s <= t
<1>1. PICK s \in S : \A t \in S : ~ (<<t, s>> \in OpToRel(<, Nat))
  BY NatLessThanWellFounded, WFMin
<1>2. ASSUME NEW t \in S
      PROVE  s <= t
  <2>1. t \in Nat /\ s \in Nat
    OBVIOUS
  <2>2. t < s => <<t, s>> \in OpToRel(<, Nat)
    BY <2>1, Zenon DEF OpToRel
  <2>3. ~ (t < s)
    BY <1>1, <2>2, Zenon
  <2>. QED  BY <2>1, <2>3
<1>. QED  BY <1>2

LEMMA InductionOnNaturals ==
    ASSUME NEW Good, 0 \in Good, \A n \in Nat : n \in Good => n + 1 \in Good
    PROVE  Nat \subseteq Good
<1>. SUFFICES ASSUME Nat \ Good # {} PROVE FALSE
  OBVIOUS
<1>1. PICK m \in Nat \ Good : \A n \in Nat \ Good : m <= n
  BY LeastElement
<1>2. m # 0 /\ m - 1 \in Nat /\ ~ (m <= m - 1)
  BY <1>1
<1>3. m - 1 \in Good
  BY <1>1, <1>2
<1>. QED  BY <1>1, <1>2, <1>3

LEMMA InductionOnFinite ==
    ASSUME NEW U, IsFiniteSet(U), NEW Good,
           \A S \in SUBSET U : (\A x \in S : S \ {x} \in Good) => S \in Good
    PROVE  SUBSET U \subseteq Good
<1>. DEFINE Bad == (SUBSET U) \ Good
            Sizes == {Cardinality(S) : S \in Bad}
<1>. SUFFICES ASSUME Bad # {} PROVE FALSE
  OBVIOUS
<1>1. \A S \in SUBSET U : IsFiniteSet(S) /\ Cardinality(S) \in Nat
  BY FS_Subset, FS_CardinalityType
<1>2. Sizes \in SUBSET Nat /\ Sizes # {}
  BY <1>1
<1>. HIDE DEF Sizes
<1>3. PICK n \in Sizes : \A k \in Sizes : n <= k
  BY <1>2, LeastElement
<1>4. PICK S \in Bad : n = Cardinality(S)
  BY DEF Sizes
<1>5. ASSUME NEW x \in S
      PROVE  S \ {x} \in Good
  <2>1. Cardinality(S \ {x}) = Cardinality(S) - 1 /\ Cardinality(S) \in Nat
    BY <1>1, FS_RemoveElement
  <2>2. S \ {x} \in Bad => Cardinality(S \ {x}) \in Sizes
    BY DEF Sizes
  <2>. QED  BY <1>3, <1>4, <2>1, <2>2
<1>. QED  BY <1>4, <1>5

(***************************************************************************)
(* Sums                                                                    *)
(***************************************************************************)

Picked(s) == CHOOSE x \in s : TRUE

Sums(S, f, g) ==
    g = [s \in SUBSET S |-> IF s = {} THEN 0 ELSE f[Picked(s)] + g[s \ {Picked(s)}]]

SumsOf(f, S) == CHOOSE g : Sums(S, f, g)

LEMMA SumIsFolded ==
    ASSUME NEW f, NEW S
    PROVE  Sum(f, S) = SumsOf(f, S)[S]
BY Zenon DEF Sum, SumsOf, Sums, Picked, Fun!SumFunctionOnSet, Fun!FoldFunctionOnSet,
             Fun!MapThenFoldSet

\* On a finite set the recursion of a sum defines a function.
LEMMA SumsExist ==
    ASSUME NEW f, NEW S, IsFiniteSet(S)
    PROVE  Sums(S, f, SumsOf(f, S))
<1>. DEFINE Upto(n) == {s \in SUBSET S : Cardinality(s) <= n}
            Value(g, s) == IF s = {} THEN 0 ELSE f[Picked(s)] + g[s \ {Picked(s)}]
            Partial(g, n) == \A s \in Upto(n) : g[s] = Value(g, s)
            Good == {n \in Nat : \E g : Partial(g, n)}
<1>1. \A s \in SUBSET S : /\ IsFiniteSet(s) /\ Cardinality(s) \in Nat
                          /\ s # {} => /\ Picked(s) \in s
                                       /\ s \ {Picked(s)} \in SUBSET S
                                       /\ Cardinality(s \ {Picked(s)}) = Cardinality(s) - 1
  BY FS_Subset, FS_CardinalityType, FS_RemoveElement, Zenon DEF Picked
<1>2. 0 \in Good
  <2>. DEFINE g == [s \in SUBSET S |-> 0]
  <2>1. \A s \in Upto(0) : s = {}
    <3>. TAKE s \in Upto(0)
    <3>1. Cardinality(s) <= 0 /\ s \in SUBSET S /\ Cardinality(s) \in Nat
      BY <1>1
    <3>2. s # {} => Cardinality(s) - 1 \in Nat
      BY <1>1, <3>1
    <3>. QED  BY <3>1, <3>2
  <2>2. \A s \in Upto(0) : g[s] = 0
    OBVIOUS
  <2>. HIDE DEF g
  <2>3. Partial(g, 0)
    BY <2>1, <2>2
  <2>. QED  BY <2>3
<1>3. ASSUME NEW n \in Nat, n \in Good
      PROVE  n + 1 \in Good
  <2>1. PICK g : Partial(g, n)
    BY <1>3
  <2>. DEFINE h == [s \in SUBSET S |-> Value(g, s)]
  <2>2. ASSUME NEW s \in Upto(n)
        PROVE  h[s] = g[s]
    <3>1. s \in SUBSET S /\ g[s] = Value(g, s)
      BY <2>1
    <3>. HIDE DEF Step
    <3>. QED  BY <3>1
  <2>3. ASSUME NEW s \in Upto(n + 1)
        PROVE  h[s] = Value(h, s)
    <3>1. s # {} => s \ {Picked(s)} \in Upto(n)
      BY <1>1
    <3>2. s # {} => h[s \ {Picked(s)}] = g[s \ {Picked(s)}]
      BY <2>2, <3>1
    <3>. QED  BY <3>2
  <2>4. Partial(h, n + 1)
    BY <2>3
  <2>. HIDE DEF h, Partial
  <2>. QED  BY <2>4
<1>4. Cardinality(S) \in Nat /\ Cardinality(S) \in Good
  <2>. HIDE DEF Good
  <2>. QED  BY <1>1, <1>2, <1>3, InductionOnNaturals
<1>5. PICK g : Partial(g, Cardinality(S))
  BY <1>4
<1>6. \A s \in SUBSET S : Cardinality(s) <= Cardinality(S)
  BY FS_Subset
<1>. DEFINE h == [s \in SUBSET S |-> g[s]]
<1>7. \A s \in SUBSET S : h[s] = Value(h, s)
  <2>. TAKE s \in SUBSET S
  <2>1. s \in Upto(Cardinality(S))
    BY <1>6
  <2>2. g[s] = Value(g, s)
    BY <1>5, <2>1
  <2>3. s # {} => h[s \ {Picked(s)}] = g[s \ {Picked(s)}]
    OBVIOUS
  <2>. QED  BY <2>2, <2>3
<1>8. h = [s \in SUBSET S |-> Value(h, s)]
  BY <1>7
<1>9. \E e : Sums(S, f, e)
  <2>. HIDE DEF h
  <2>. QED  BY <1>8 DEF Sums
<1>. QED  BY <1>9, Zenon DEF SumsOf

LEMMA SumOfSubset ==
    ASSUME NEW f, NEW S, IsFiniteSet(S), NEW T \in SUBSET S
    PROVE  SumsOf(f, S)[T] = Sum(f, T)
<1>. DEFINE g == SumsOf(f, S)
            h == SumsOf(f, T)
            Good == {s \in SUBSET T : g[s] = h[s]}
<1>1. IsFiniteSet(T)
  BY FS_Subset
<1>2. Sums(S, f, g) /\ Sums(T, f, h)
  BY <1>1, SumsExist
<1>. HIDE DEF g, h
<1>3. \A s \in SUBSET T : s # {} => Picked(s) \in s
  BY Zenon DEF Picked
<1>4. ASSUME NEW s \in SUBSET T, \A x \in s : s \ {x} \in Good
      PROVE  s \in Good
  <2>1. g[s] = IF s = {} THEN 0 ELSE f[Picked(s)] + g[s \ {Picked(s)}]
    BY <1>2 DEF Sums
  <2>2. h[s] = IF s = {} THEN 0 ELSE f[Picked(s)] + h[s \ {Picked(s)}]
    BY <1>2 DEF Sums
  <2>3. s # {} => g[s \ {Picked(s)}] = h[s \ {Picked(s)}]
    BY <1>3, <1>4
  <2>. QED  BY <2>1, <2>2, <2>3
<1>5. SUBSET T \subseteq Good
  <2>. HIDE DEF Good
  <2>. QED  BY <1>1, <1>4, InductionOnFinite
<1>6. T \in Good
  BY <1>5
<1>. QED  BY <1>6, SumIsFolded DEF g, h

\* The sum over a finite set is that over the rest and the value at an element.
LEMMA SumUnfolds ==
    ASSUME NEW f, NEW S, IsFiniteSet(S)
    PROVE  /\ Sum(f, {}) = 0
           /\ S # {} => /\ Picked(S) \in S
                        /\ Sum(f, S) = f[Picked(S)] + Sum(f, S \ {Picked(S)})
<1>1. ASSUME NEW T, IsFiniteSet(T)
      PROVE  SumsOf(f, T)[T] = IF T = {} THEN 0
                               ELSE f[Picked(T)] + SumsOf(f, T)[T \ {Picked(T)}]
  <2>. DEFINE g == SumsOf(f, T)
  <2>1. Sums(T, f, g)
    BY <1>1, SumsExist
  <2>. HIDE DEF g
  <2>2. g[T] = IF T = {} THEN 0 ELSE f[Picked(T)] + g[T \ {Picked(T)}]
    BY <2>1 DEF Sums
  <2>. QED  BY <2>2 DEF g
<1>2. Sum(f, {}) = 0
  BY <1>1, FS_EmptySet, SumIsFolded
<1>3. S # {} => Picked(S) \in S
  BY Zenon DEF Picked
<1>. QED  BY <1>1, <1>2, <1>3, SumIsFolded, SumOfSubset

LEMMA SumIsNatural ==
    ASSUME NEW S, IsFiniteSet(S), NEW f \in [S -> Nat], NEW T \in SUBSET S
    PROVE  Sum(f, T) \in Nat
<1>. DEFINE Good == {R \in SUBSET S : Sum(f, R) \in Nat}
<1>1. ASSUME NEW R \in SUBSET S, \A x \in R : R \ {x} \in Good
      PROVE  R \in Good
  <2>1. IsFiniteSet(R)
    BY FS_Subset
  <2>2. /\ R = {} => Sum(f, R) = 0
        /\ R # {} => Picked(R) \in R /\ Sum(f, R) = f[Picked(R)] + Sum(f, R \ {Picked(R)})
    BY <2>1, SumUnfolds
  <2>. QED  BY <1>1, <2>2
<1>. HIDE DEF Good
<1>2. SUBSET S \subseteq Good
  BY <1>1, InductionOnFinite
<1>. QED  BY <1>2 DEF Good

\* Which element is taken away first does not matter.
LEMMA SumTakes ==
    ASSUME NEW S, IsFiniteSet(S), NEW f \in [S -> Nat], NEW T \in SUBSET S, NEW x \in T
    PROVE  Sum(f, T) = f[x] + Sum(f, T \ {x})
<1>. DEFINE Good == {R \in SUBSET S : \A y \in R : Sum(f, R) = f[y] + Sum(f, R \ {y})}
<1>1. ASSUME NEW R \in SUBSET S, \A y \in R : R \ {y} \in Good
      PROVE  R \in Good
  <2>. DEFINE p == Picked(R)
  <2>1. IsFiniteSet(R)
    BY FS_Subset
  <2>2. R # {} => p \in R /\ Sum(f, R) = f[p] + Sum(f, R \ {p})
    BY <2>1, SumUnfolds
  <2>. HIDE DEF p
  <2>3. ASSUME NEW y \in R, y # p
        PROVE  Sum(f, R) = f[y] + Sum(f, R \ {y})
    <3>. DEFINE rest == (R \ {p}) \ {y}
    <3>1. (R \ {y}) \ {p} = rest /\ rest \in SUBSET S
      OBVIOUS
    <3>2. R \ {p} \in Good /\ y \in R \ {p} /\ R \ {y} \in Good /\ p \in R \ {y}
      BY <1>1, <2>2, <2>3
    <3>3. Sum(f, R \ {p}) = f[y] + Sum(f, rest)
      BY <3>2
    <3>4. Sum(f, R \ {y}) = f[p] + Sum(f, rest)
      BY <3>1, <3>2
    <3>5. Sum(f, rest) \in Nat /\ f[y] \in Nat /\ f[p] \in Nat
      BY <3>1, <3>2, SumIsNatural
    <3>. HIDE DEF rest
    <3>. QED  BY <2>2, <3>3, <3>4, <3>5
  <2>. QED  BY <2>2, <2>3
<1>. HIDE DEF Good
<1>2. SUBSET S \subseteq Good
  BY <1>1, InductionOnFinite
<1>. QED  BY <1>2 DEF Good

\* The sum reads the function on the set, and nowhere else.
LEMMA SumIsLocal ==
    ASSUME NEW S, IsFiniteSet(S), NEW f, NEW g, \A x \in S : f[x] = g[x]
    PROVE  Sum(f, S) = Sum(g, S)
<1>. DEFINE Good == {R \in SUBSET S : Sum(f, R) = Sum(g, R)}
<1>1. ASSUME NEW R \in SUBSET S, \A x \in R : R \ {x} \in Good
      PROVE  R \in Good
  <2>1. IsFiniteSet(R)
    BY FS_Subset
  <2>2. /\ R = {} => Sum(f, R) = 0 /\ Sum(g, R) = 0
        /\ R # {} => /\ Picked(R) \in R
                     /\ Sum(f, R) = f[Picked(R)] + Sum(f, R \ {Picked(R)})
                     /\ Sum(g, R) = g[Picked(R)] + Sum(g, R \ {Picked(R)})
    BY <2>1, SumUnfolds
  <2>. QED  BY <1>1, <2>2
<1>. HIDE DEF Good
<1>2. SUBSET S \subseteq Good
  BY <1>1, InductionOnFinite
<1>. QED  BY <1>2 DEF Good

\* How a sum changes when one value does.
LEMMA SumChanges ==
    ASSUME NEW S, IsFiniteSet(S), NEW f \in [S -> Nat], NEW g \in [S -> Nat],
           NEW x \in S, \A y \in S \ {x} : g[y] = f[y]
    PROVE  Sum(g, S) = Sum(f, S) - f[x] + g[x]
<1>1. Sum(f, S) = f[x] + Sum(f, S \ {x}) /\ Sum(g, S) = g[x] + Sum(g, S \ {x})
  BY SumTakes
<1>2. Sum(f, S \ {x}) = Sum(g, S \ {x})
  BY FS_Subset, SumIsLocal
<1>3. Sum(f, S \ {x}) \in Nat /\ f[x] \in Nat /\ g[x] \in Nat
  BY SumIsNatural
<1>. QED  BY <1>1, <1>2, <1>3

\* The sum over a set is that over a part, when the function is zero elsewhere.
LEMMA SumOfPart ==
    ASSUME NEW S, IsFiniteSet(S), NEW f \in [S -> Nat], NEW T \in SUBSET S,
           \A x \in S \ T : f[x] = 0
    PROVE  Sum(f, S) = Sum(f, T)
<1>. DEFINE Good == {R \in SUBSET S : Sum(f, R) = Sum(f, R \intersect T)}
<1>1. ASSUME NEW R \in SUBSET S, \A x \in R : R \ {x} \in Good
      PROVE  R \in Good
  <2>. DEFINE p == Picked(R)
              rest == R \ {p}
  <2>1. IsFiniteSet(R)
    BY FS_Subset
  <2>2. R # {} => p \in R /\ Sum(f, R) = f[p] + Sum(f, rest)
    BY <2>1, SumUnfolds
  <2>. HIDE DEF p
  <2>3. CASE R = {}
    <3>1. R \intersect T = R
      BY <2>3
    <3>. QED  BY <3>1
  <2>4. CASE R # {} /\ p \in T
    <3>1. Sum(f, R \intersect T) = f[p] + Sum(f, (R \intersect T) \ {p})
      BY <2>2, <2>4, SumTakes
    <3>2. (R \intersect T) \ {p} = rest \intersect T
      OBVIOUS
    <3>3. Sum(f, rest) = Sum(f, rest \intersect T)
      BY <1>1, <2>2, <2>4
    <3>4. Sum(f, R) = f[p] + Sum(f, rest)
      BY <2>2, <2>4
    <3>5. Sum(f, R) = Sum(f, R \intersect T)
      <4>. HIDE DEF rest
      <4>. QED  BY <3>1, <3>2, <3>3, <3>4
    <3>. QED  BY <3>5
  <2>5. CASE R # {} /\ p \notin T
    <3>1. f[p] = 0 /\ R \intersect T = rest \intersect T
      BY <2>2, <2>5
    <3>2. Sum(f, rest) = Sum(f, rest \intersect T) /\ Sum(f, rest) \in Nat
      BY <1>1, <2>2, <2>5, SumIsNatural
    <3>3. Sum(f, R) = f[p] + Sum(f, rest)
      BY <2>2, <2>5
    <3>4. Sum(f, R) = Sum(f, R \intersect T)
      <4>. HIDE DEF rest
      <4>1. Sum(f, R \intersect T) = Sum(f, rest)
        BY <3>1, <3>2, Zenon
      <4>2. Sum(f, rest) \in Nat /\ f[p] = 0
        BY <3>1, <3>2
      <4>. DEFINE n == Sum(f, rest)
                  v == f[p]
      <4>3. n \in Nat /\ v = 0 /\ Sum(f, R) = v + n
        BY <3>3, <4>2
      <4>. HIDE DEF n, v
      <4>4. Sum(f, R) = n
        BY <4>3
      <4>. QED  BY <4>1, <4>4 DEF n
    <3>. QED  BY <3>4
  <2>. QED  BY <2>3, <2>4, <2>5
<1>. HIDE DEF Good
<1>2. S \in Good
  BY <1>1, InductionOnFinite
<1>3. S \intersect T = T
  OBVIOUS
<1>. QED  BY <1>2, <1>3 DEF Good

LEMMA SumOfZeros ==
    ASSUME NEW S, IsFiniteSet(S), NEW f \in [S -> Nat], \A x \in S : f[x] = 0
    PROVE  Sum(f, S) = 0
<1>1. {} \in SUBSET S /\ \A x \in S \ {} : f[x] = 0
  OBVIOUS
<1>2. Sum(f, S) = Sum(f, {})
  BY <1>1, SumOfPart
<1>. QED  BY <1>2, SumUnfolds

LEMMA SumIsMonotone ==
    ASSUME NEW S, IsFiniteSet(S), NEW f \in [S -> Nat], NEW g \in [S -> Nat],
           NEW T \in SUBSET S, \A x \in T : f[x] <= g[x]
    PROVE  Sum(f, T) <= Sum(g, T)
<1>. DEFINE Good == {R \in SUBSET T : Sum(f, R) <= Sum(g, R)}
<1>0. IsFiniteSet(T)
  BY FS_Subset
<1>1. ASSUME NEW R \in SUBSET T, \A x \in R : R \ {x} \in Good
      PROVE  R \in Good
  <2>. DEFINE p == Picked(R)
  <2>1. IsFiniteSet(R)
    BY <1>0, FS_Subset
  <2>2. /\ R = {} => Sum(f, R) = 0 /\ Sum(g, R) = 0
        /\ R # {} => /\ p \in R
                     /\ Sum(f, R) = f[p] + Sum(f, R \ {p})
                     /\ Sum(g, R) = g[p] + Sum(g, R \ {p})
    BY <2>1, SumUnfolds
  <2>. HIDE DEF p
  <2>3. CASE R = {}
    BY <2>2, <2>3
  <2>4. CASE R # {}
    <3>1. f[p] <= g[p] /\ f[p] \in Nat /\ g[p] \in Nat
      BY <2>2, <2>4
    <3>2. Sum(f, R \ {p}) <= Sum(g, R \ {p})
      BY <1>1, <2>2, <2>4
    <3>3. Sum(f, R \ {p}) \in Nat /\ Sum(g, R \ {p}) \in Nat
      BY SumIsNatural
    <3>4. Sum(f, R) <= Sum(g, R)
      BY <2>2, <2>4, <3>1, <3>2, <3>3
    <3>. QED  BY <3>4
  <2>. QED  BY <2>3, <2>4
<1>. HIDE DEF Good
<1>2. T \in Good
  BY <1>0, <1>1, InductionOnFinite
<1>. QED  BY <1>2 DEF Good

(***************************************************************************)
(* Types                                                                   *)
(***************************************************************************)

LEMMA ClaimsAreClaims ==
    /\ Label \in ClaimIds
    /\ DiagnosticClaims \subseteq ClaimIds
    /\ \A name \in Tools : Owned[name] \subseteq ClaimIds
<1>1. Label \in ClaimIds /\ DiagnosticClaims \subseteq ClaimIds
  BY DEF ClaimIds
<1>2. \A name \in Tools : Owned[name] \subseteq ClaimIds
  <2>1. {Label, "run_status"} \subseteq ClaimIds
    BY DEF ClaimIds
  <2>2. {"artifact_integrity"} \subseteq ClaimIds
    BY DEF ClaimIds
  <2>3. {"provenance", "model_references", "model_details", "source_duration"} \subseteq ClaimIds
    BY DEF ClaimIds, ModelClaims
  <2>4. {"missing_evidence", "no_missing_evidence", "boundaries"} \subseteq ClaimIds
    BY DEF ClaimIds, LimitClaims
  <2>. HIDE DEF ClaimIds, DiagnosticClaims, Label
  <2>. QED  BY <1>1, <2>1, <2>2, <2>3, <2>4 DEF Tools, Owned
<1>. QED  BY <1>1, <1>2

LEMMA ReadType ==
    ASSUME NEW run \in Manifests, NEW intact
    PROVE  LoadDiagnostics(run, intact) \in Reads \union {None}
<1>1. run.payload \in Payloads
  BY DEF Manifests
<1>2. run.payload.quality # "malformed" => ApprovedReal(run.payload) \in Reads \union {None}
  BY <1>1 DEF ApprovedReal, Payloads, Reads, RealSchema, Schemas, MeasureStates, Qualities
<1>3. ApprovedReal(run.payload) \in Reads \union {None}
  BY <1>2 DEF ApprovedReal
<1>4. ApprovedSynthetic(run.payload) \in Reads
  BY <1>1 DEF ApprovedSynthetic, Payloads, Reads, SyntheticSchema, Schemas, MeasureStates,
             Qualities
<1>. QED  BY <1>3, <1>4 DEF LoadDiagnostics

LEMMA SnapshotType ==
    ASSUME NEW run \in Manifests, NEW intact, NEW read \in Reads \union {None}
    PROVE  BuildEvidence(run, read, intact) \in Snapshots
<1>1. Registered(run) \subseteq Artifacts
  BY DEF Registered, Manifests, Artifacts
<1>2. [a \in Registered(run) |-> a \in intact] \in UNION {[S -> BOOLEAN] : S \in SUBSET Artifacts}
  BY <1>1
<1>3. (IF run.diagnostics = None THEN None ELSE run.diagnostics.declared) \in Schemas \union {None}
  BY DEF Manifests, Registrations
<1>4. OutputNature(run, read) \in {"synthetic", "verified_real", "unverified_or_partial"}
  BY DEF OutputNature
<1>5. (read = None) \in BOOLEAN
  OBVIOUS
<1>6. /\ run.status \in {"succeeded", "partial", "running", "failed"}
      /\ run.duration \in BOOLEAN
      /\ run.models \in {"none", "named", "unnamed"}
  BY DEF Manifests
<1>. HIDE DEF Registered
<1>. QED  BY <1>2, <1>3, <1>4, <1>5, <1>6, Zenon DEF BuildEvidence, Snapshots

LEMMA RouteType ==
    ASSUME NEW words
    PROVE  /\ RouteQuestion(words) \in Routes
           /\ Unsupported \in Routes
<1>1. /\ {ReliabilityClaims, ModelClaims, TrackCountClaims, DiagnosticClaims, LimitClaims}
             \subseteq SUBSET ClaimIds
      /\ {"diag_short_tracklets", "diag_assignment", "diag_active", "diag_insufficient",
          "diag_interpretation", "diag_ground_truth", "diag_duration"} \subseteq ClaimIds
      /\ {Label, "run_status", "provenance", "artifact_integrity", "source_duration",
          "missing_evidence", "no_missing_evidence", "diag_synthetic", "model_details"}
             \subseteq ClaimIds
  BY DEF ClaimIds, DiagnosticClaims, ReliabilityClaims, TrackCountClaims, ModelClaims,
         LimitClaims
<1>. HIDE DEF ClaimIds, ReliabilityClaims, ModelClaims, TrackCountClaims, DiagnosticClaims,
              LimitClaims, Label
<1>2. /\ \A w \in Specific : SpecificClaims[w] \subseteq ClaimIds
      /\ \A w \in Broad : BroadClaims[w] \subseteq ClaimIds
  BY <1>1 DEF Specific, SpecificClaims, Broad, BroadClaims
<1>3. NamedClaims(words) \subseteq ClaimIds
  <2>1. \A w \in words \intersect Specific : SpecificClaims[w] \subseteq ClaimIds
    BY <1>2
  <2>2. \A w \in words \intersect Broad : BroadClaims[w] \subseteq ClaimIds
    BY <1>2
  <2>. QED  BY <2>1, <2>2 DEF NamedClaims
<1>4. LengthClaims(words) \subseteq ClaimIds /\ SummaryClaims \subseteq ClaimIds
  BY <1>1 DEF LengthClaims, SummaryClaims
<1>5. \A claims \in SUBSET ClaimIds : Supported(claims) \in Routes
  BY DEF Supported, Unsupported, Routes
<1>6. General \in Routes /\ Unsupported \in Routes
  BY <1>4 DEF General, Unsupported, Routes
<1>. QED  BY <1>3, <1>4, <1>5, <1>6 DEF RouteQuestion

\* A call that runs, or is refused, leaves an entry of the log.
LEMMA EntryType ==
    ASSUME NEW log, NEW ids \in SUBSET ClaimIds, NEW call \in Calls
    PROVE  /\ Execute(log, ids, call) \in Entries
           /\ Execute(log, ids, call).name = call.name
           /\ Execute(log, ids, call).claims \subseteq ids
           /\ Execute(log, ids, call).status = "rejected" \/ ~WasCalled(log, call.name)
<1>. HIDE DEF ClaimIds
<1>1. call.name \in Tools \union {"unknown"}
  BY DEF Calls
<1>. QED  BY <1>1 DEF Execute, Entries

LEMMA SomeIds ==
    ASSUME NEW selection \in Seq(ClaimIds \union {"forged"}), NEW S
    PROVE  /\ Ids(selection) \subseteq ClaimIds \union {"forged"}
           /\ Len(selection) - Cardinality(Ids(selection) \intersect S) \in Nat
<1>. HIDE DEF ClaimIds
<1>1. DOMAIN selection = 1..Len(selection) /\ Len(selection) \in Nat
  OBVIOUS
<1>2. IsFiniteSet(1..Len(selection)) /\ Cardinality(1..Len(selection)) = Len(selection)
  BY <1>1, FS_Interval
<1>3. /\ IsFiniteSet(Ids(selection))
      /\ Cardinality(Ids(selection)) <= Len(selection)
  <2>. DEFINE S0 == 1..Len(selection)
              f == [i \in S0 |-> selection[i]]
  <2>1. f \in Surjection(S0, Ids(selection))
    BY <1>1 DEF Ids, Surjection
  <2>. QED  BY <1>2, <2>1, FS_Surjection
<1>4. /\ IsFiniteSet(Ids(selection) \intersect S)
      /\ Cardinality(Ids(selection) \intersect S) <= Cardinality(Ids(selection))
      /\ Cardinality(Ids(selection) \intersect S) \in Nat
      /\ Cardinality(Ids(selection)) \in Nat
  BY <1>3, FS_Subset, FS_CardinalityType
<1>5. Ids(selection) \subseteq ClaimIds \union {"forged"}
  BY <1>1 DEF Ids
<1>. QED  BY <1>1, <1>3, <1>4, <1>5


(***************************************************************************)
(* Recursive functions                                                     *)
(***************************************************************************)

\* A function defined by recursion over an interval.
Recursive(n, V, base, step, f) ==
    /\ f \in [0..n -> V]
    /\ f[0] = base
    /\ \A k \in 1..n : f[k] = step[<<k, f[k - 1]>>]

LEMMA RecursionExists ==
    ASSUME NEW n \in Nat, NEW V, NEW base \in V, NEW step \in [(1..n) \X V -> V]
    PROVE  \E f : Recursive(n, V, base, step, f)
<1>. DEFINE Partial(f, m) == /\ f \in [0..m -> V]
                             /\ f[0] = base
                             /\ \A k \in 1..m : f[k] = step[<<k, f[k - 1]>>]
            Good == {m \in Nat : m <= n => \E f : Partial(f, m)}
<1>1. 0 \in Good
  <2>. DEFINE f == [k \in 0..0 |-> base]
  <2>1. Partial(f, 0)
    OBVIOUS
  <2>. HIDE DEF f, Partial
  <2>. QED  BY <2>1
<1>2. ASSUME NEW m \in Nat, m \in Good
      PROVE  m + 1 \in Good
  <2>. SUFFICES ASSUME m + 1 <= n PROVE \E f : Partial(f, m + 1)
    OBVIOUS
  <2>1. PICK f : Partial(f, m)
    BY <1>2
  <2>2. m + 1 \in 1..n /\ f[m] \in V /\ step[<<m + 1, f[m]>>] \in V
    BY <2>1
  <2>. DEFINE h == [k \in 0..(m + 1) |-> IF k = m + 1 THEN step[<<m + 1, f[m]>>] ELSE f[k]]
  <2>3. h \in [0..(m + 1) -> V] /\ h[0] = base
    BY <2>1, <2>2
  <2>4. h[m + 1] = step[<<m + 1, f[m]>>] /\ \A k \in 0..m : h[k] = f[k]
    OBVIOUS
  <2>. HIDE DEF h
  <2>5. ASSUME NEW k \in 1..(m + 1)
        PROVE  h[k] = step[<<k, h[k - 1]>>]
    <3>1. CASE k = m + 1
      BY <2>4, <3>1
    <3>2. CASE k # m + 1
      <4>1. k \in 1..m /\ k \in 0..m /\ k - 1 \in 0..m
        BY <3>2
      <4>. QED  BY <2>1, <2>4, <4>1
    <3>. QED  BY <3>1, <3>2
  <2>6. Partial(h, m + 1)
    BY <2>3, <2>5
  <2>. HIDE DEF Partial
  <2>. QED  BY <2>6
<1>3. n \in Good
  <2>. HIDE DEF Good
  <2>. QED  BY <1>1, <1>2, InductionOnNaturals
<1>. QED  BY <1>3 DEF Recursive

(***************************************************************************)
(* The order of the claims                                                 *)
(***************************************************************************)

Orders(ids, g) ==
    g = [k \in 0..Len(ClaimOrder) |->
            IF k = 0 THEN <<>>
            ELSE IF ClaimOrder[k] \in ids THEN Append(g[k - 1], ClaimOrder[k])
            ELSE g[k - 1]]

OrderOf(ids) == CHOOSE g : Orders(ids, g)

LEMMA OrderIsOfIds ==
    ASSUME NEW ids
    PROVE  InOrder(ids) \in Seq(ids)
<1>. DEFINE n == Len(ClaimOrder)
            step == [p \in (1..n) \X Seq(ids) |->
                        IF ClaimOrder[p[1]] \in ids THEN Append(p[2], ClaimOrder[p[1]])
                        ELSE p[2]]
<1>1. n \in Nat
  BY DEF ClaimOrder
<1>. HIDE DEF n
<1>2. step \in [(1..n) \X Seq(ids) -> Seq(ids)]
  OBVIOUS
<1>. HIDE DEF step
<1>3. PICK f : Recursive(n, Seq(ids), <<>>, step, f)
  <2>1. <<>> \in Seq(ids)
    OBVIOUS
  <2>. QED  BY <1>1, <1>2, <2>1, RecursionExists, Zenon
<1>4. \A k \in 1..n : f[k] = IF ClaimOrder[k] \in ids THEN Append(f[k - 1], ClaimOrder[k])
                             ELSE f[k - 1]
  <2>. TAKE k \in 1..n
  <2>1. f[k - 1] \in Seq(ids)
    BY <1>1, <1>3 DEF Recursive
  <2>. QED  BY <1>3, <2>1 DEF step, Recursive
<1>. DEFINE Value(e, k) == IF k = 0 THEN <<>>
                           ELSE IF ClaimOrder[k] \in ids THEN Append(e[k - 1], ClaimOrder[k])
                           ELSE e[k - 1]
<1>5. Orders(ids, f)
  <2>1. \A k \in 0..n : k = 0 \/ k \in 1..n
    BY <1>1
  <2>2. \A k \in 0..n : f[k] = Value(f, k)
    BY <1>3, <1>4, <2>1 DEF Recursive
  <2>. HIDE DEF Value
  <2>3. f = [k \in 0..n |-> Value(f, k)]
    BY <1>3, <2>2 DEF Recursive
  <2>. QED  BY <2>3, Zenon DEF Orders, n, Value
<1>. DEFINE g == OrderOf(ids)
<1>6. Orders(ids, g)
  BY <1>5, Zenon DEF OrderOf
<1>. HIDE DEF g
<1>. DEFINE Good == {k \in Nat : k <= n => g[k] \in Seq(ids)}
<1>7. \A k \in 0..n : g[k] = Value(g, k)
  <2>1. g = [k \in 0..n |-> Value(g, k)]
    BY <1>6, Zenon DEF Orders, n, Value
  <2>. HIDE DEF Value, g
  <2>. QED  BY <2>1
<1>8. 0 \in Good
  <2>1. g[0] = <<>> /\ <<>> \in Seq(ids)
    BY <1>1, <1>7
  <2>. QED  BY <2>1
<1>9. ASSUME NEW k \in Nat, k \in Good
      PROVE  k + 1 \in Good
  <2>. SUFFICES ASSUME k + 1 <= n PROVE g[k + 1] \in Seq(ids)
    OBVIOUS
  <2>1. g[k] \in Seq(ids) /\ k + 1 \in 0..n /\ k + 1 # 0 /\ (k + 1) - 1 = k
    BY <1>1, <1>9
  <2>2. g[k + 1] = IF ClaimOrder[k + 1] \in ids THEN Append(g[k], ClaimOrder[k + 1]) ELSE g[k]
    BY <1>7, <2>1
  <2>. QED  BY <2>1, <2>2
<1>10. n \in Good
  <2>. HIDE DEF Good
  <2>. QED  BY <1>1, <1>8, <1>9, InductionOnNaturals
<1>11. InOrder(ids) = g[n]
  BY Zenon DEF InOrder, OrderOf, Orders, g, n
<1>. QED  BY <1>1, <1>10, <1>11

(***************************************************************************)
(* Rendering                                                               *)
(***************************************************************************)

Renders(selection, g) ==
    g = [k \in 0..Len(selection) |->
            IF k = 0 THEN [shown |-> {Label}, length |-> TextLength[Label]]
            ELSE Add(g[k - 1], selection[k])]

RenderedBy(selection) == CHOOSE g : Renders(selection, g)

LEMMA RenderedIsRecursive ==
    ASSUME NEW selection
    PROVE  Rendered(selection) = RenderedBy(selection)[Len(selection)].shown
BY Zenon DEF Rendered, RenderedBy, Renders

LEMMA RendersExists ==
    ASSUME NEW selection \in Seq(ClaimIds)
    PROVE  Renders(selection, RenderedBy(selection))
<1>. DEFINE n == Len(selection)
            V == [shown : SUBSET ClaimIds, length : Nat]
            base == [shown |-> {Label}, length |-> TextLength[Label]]
            step == [p \in (1..n) \X V |-> Add(p[2], selection[p[1]])]
<1>1. n \in Nat /\ \A k \in 1..n : selection[k] \in ClaimIds
  OBVIOUS
<1>2. base \in V
  BY ClaimsAreClaims, GroundingAssumption
<1>. HIDE DEF n, base, ClaimIds
<1>3. \A v \in V, c \in ClaimIds : Add(v, c) \in V
  BY GroundingAssumption DEF Add
<1>4. step \in [(1..n) \X V -> V]
  <2>. HIDE DEF V
  <2>. QED  BY <1>1, <1>3
<1>. HIDE DEF step
<1>5. PICK f : Recursive(n, V, base, step, f)
  <2>. HIDE DEF V
  <2>. QED  BY <1>1, <1>2, <1>4, RecursionExists, Zenon
<1>6. \A k \in 1..n : f[k] = Add(f[k - 1], selection[k])
  <2>. TAKE k \in 1..n
  <2>. HIDE DEF V
  <2>1. f[k - 1] \in V
    BY <1>1, <1>5 DEF Recursive
  <2>. QED  BY <1>5, <2>1 DEF step, Recursive
<1>7. Renders(selection, f)
  <2>. HIDE DEF V
  <2>. QED  BY <1>1, <1>5, <1>6 DEF Renders, n, base, Recursive
<1>. QED  BY <1>7, Zenon DEF RenderedBy

\* What is shown is the label and what was selected; and it is the label alone
\* only when nothing else was selected, because every claim fits beside it.
LEMMA RenderingIsFaithful ==
    ASSUME NEW selection \in Seq(ClaimIds)
    PROVE  /\ Rendered(selection) \subseteq {Label} \union Ids(selection)
           /\ Label \in Rendered(selection)
           /\ Rendered(selection) = {Label} => Ids(selection) \subseteq {Label}
<1>. DEFINE n == Len(selection)
            g == RenderedBy(selection)
            Fits(k) ==
                /\ g[k] = [shown |-> g[k].shown, length |-> g[k].length]
                /\ g[k].shown \subseteq {Label} \union Ids(selection)
                /\ Label \in g[k].shown
                /\ g[k].shown = {Label} =>
                      /\ g[k].length = TextLength[Label]
                      /\ \A i \in 1..k : selection[i] = Label
            Good == {k \in Nat : k <= n => Fits(k)}
<1>1. n \in Nat /\ DOMAIN selection = 1..n /\ \A i \in 1..n : selection[i] \in ClaimIds
  OBVIOUS
<1>2. Renders(selection, g)
  BY <1>1, RendersExists
<1>3. /\ \A c \in ClaimIds : /\ TextLength[Label] + 1 + TextLength[c] <= MaxAnswerChars
                               /\ TextLength[c] \in Nat
      /\ TextLength[Label] \in Nat /\ MaxAnswerChars \in Nat
  BY GroundingAssumption, ClaimsAreClaims
<1>. HIDE DEF g, Label, ClaimIds
<1>4. \A k \in 0..n : g[k] = IF k = 0 THEN [shown |-> {Label}, length |-> TextLength[Label]]
                             ELSE Add(g[k - 1], selection[k])
  BY <1>2 DEF Renders
<1>5. 0 \in Good
  BY <1>1, <1>4
<1>6. ASSUME NEW k \in Nat, k \in Good
      PROVE  k + 1 \in Good
  <2>. SUFFICES ASSUME k + 1 <= n PROVE Fits(k + 1)
    OBVIOUS
  <2>1. Fits(k) /\ k + 1 \in 1..n /\ g[k + 1] = Add(g[k], selection[k + 1])
    BY <1>1, <1>4, <1>6
  <2>. DEFINE c == selection[k + 1]
              length == g[k].length + 1 + TextLength[c]
  <2>2. c \in ClaimIds /\ c \in Ids(selection)
    BY <1>1, <2>1 DEF Ids
  <2>3. CASE c \in g[k].shown \/ length > MaxAnswerChars
    <3>1. g[k + 1] = g[k]
      BY <2>1, <2>3 DEF Add
    <3>2. g[k].shown = {Label} => c = Label
      BY <1>3, <2>1, <2>2, <2>3
    <3>. QED  BY <2>1, <3>1, <3>2
  <2>4. CASE ~(c \in g[k].shown \/ length > MaxAnswerChars)
    <3>1. g[k + 1] = [shown |-> g[k].shown \union {c}, length |-> length]
      BY <2>1, <2>4 DEF Add
    <3>. HIDE DEF length, c
    <3>. QED  BY <2>1, <2>2, <2>4, <3>1
  <2>. QED  BY <2>3, <2>4
<1>7. n \in Good
  <2>. HIDE DEF Good
  <2>. QED  BY <1>1, <1>5, <1>6, InductionOnNaturals
<1>8. Fits(n)
  BY <1>1, <1>7
<1>9. Rendered(selection) = g[n].shown
  BY RenderedIsRecursive DEF g
<1>. QED  BY <1>1, <1>8, <1>9 DEF Ids

(***************************************************************************)
(* Results                                                                 *)
(***************************************************************************)

LEMMA StopType ==
    ASSUME NEW c
    PROVE  StopOfOutcome(c) \in {"model_timeout", "provider_error", "model_refusal",
                                 "model_truncated", "malformed_response", "none"}
BY Zenon DEF StopOfOutcome

LEMMA PlainResults ==
    /\ NoResult \in Results
    /\ \A kind \in {"unavailable", "error"}, reason \in Reasons :
          /\ Result(kind, reason) \in Results
          /\ Result(kind, reason).kind = kind
          /\ Result(kind, reason).mode = "not_invoked"
    /\ \A turns \in Nat, reason \in Reasons :
          /\ Failed(turns, reason) \in Results
          /\ Failed(turns, reason).kind = "unavailable"
          /\ Failed(turns, reason).mode = "not_invoked" <=> turns = 0
<1>. HIDE DEF Reasons
<1>1. "none" \in Reasons
  BY DEF Reasons
<1>2. {} \in SUBSET ClaimIds /\ {} \in SUBSET (ClaimIds \union {"forged"})
  OBVIOUS
<1>. HIDE DEF ClaimIds
<1>. QED  BY <1>1, <1>2 DEF NoResult, Result, Results, Failed, Mode

\* A selection of claims that are offered renders claims.
LEMMA AnswerShows ==
    ASSUME NEW c \in Talks, NEW selection \in Seq(ClaimIds \union {"forged"}),
           Ids(selection) \subseteq c.catalog
    PROVE  /\ selection \in Seq(ClaimIds)
           /\ ClaimsToRender(c.catalog, selection, c.route) \in SUBSET ClaimIds
<1>. HIDE DEF ClaimIds
<1>1. c.catalog \subseteq ClaimIds
  BY DEF Talks
<1>2. DOMAIN selection = 1..Len(selection) /\ Len(selection) \in Nat
  OBVIOUS
<1>3. \A i \in 1..Len(selection) : selection[i] \in ClaimIds
  BY <1>1, <1>2 DEF Ids
<1>4. selection = [i \in 1..Len(selection) |-> selection[i]]
  BY <1>2
<1>5. selection \in Seq(ClaimIds)
  BY <1>2, <1>3
<1>. QED  BY <1>1, <1>5, RenderingIsFaithful, ClaimsAreClaims DEF ClaimsToRender

Answers(c, selection, r) ==
    /\ r.selected = Ids(selection)
    /\ r.shown = ClaimsToRender(c.catalog, selection, c.route)
    /\ r.shown # {}
    /\ Ids(selection) \subseteq c.catalog
    /\ Cited(c, r.shown)

LEMMA ExplainedResult ==
    ASSUME NEW c \in Talks, NEW selection \in Seq(ClaimIds \union {"forged"})
    PROVE  /\ Explained(c, selection) \in Results
           /\ Explained(c, selection).kind # "none"
           /\ Explained(c, selection).kind = "answered" =>
                 Answers(c, selection, Explained(c, selection))
<1>. DEFINE shown == ClaimsToRender(c.catalog, selection, c.route)
<1>1. Ids(selection) \subseteq ClaimIds \union {"forged"}
  BY SomeIds
<1>. HIDE DEF ClaimIds
<1>2. CASE IsForged(c.catalog, selection)
  BY <1>2, PlainResults DEF Explained, Reasons
<1>3. CASE ~IsForged(c.catalog, selection)
  <2>1. Ids(selection) \subseteq c.catalog
    BY <1>3 DEF IsForged
  <2>2. shown \in SUBSET ClaimIds
    BY <2>1, AnswerShows
  <2>. HIDE DEF shown
  <2>3. Answer(c, selection) = [kind |-> "answered", reason |-> "answered", mode |-> "model",
            selected |-> Ids(selection), rejected |-> 0, shown |-> shown, refused |-> 0]
    <3>1. Answer(c, selection) = [Result("answered", "answered") EXCEPT
              !.mode = "model", !.selected = Ids(selection), !.shown = shown]
      BY DEF Answer, shown
    <3>. QED  BY <3>1 DEF Result
  <2>4. Answer(c, selection) \in Results /\ NoClaim(Answer(c, selection)) \in Results
    <3>1. {"answered", "no_relevant_claim"} \subseteq Reasons
      BY DEF Reasons
    <3>2. Ids(selection) \in SUBSET (ClaimIds \union {"forged"})
      BY <1>1
    <3>. HIDE DEF Reasons
    <3>3. Answer(c, selection) \in Results
      BY <2>2, <2>3, <3>1, <3>2 DEF Results
    <3>. QED  BY <3>1, <3>3 DEF NoClaim, Results
  <2>5. CASE shown = {}
    BY <1>3, <2>3, <2>4, <2>5 DEF Explained, NoClaim, Empty
  <2>6. CASE shown # {} /\ ~Cited(c, shown)
    BY <1>3, <2>3, <2>6, PlainResults DEF Explained, Empty, Reasons
  <2>7. CASE shown # {} /\ Cited(c, shown)
    <3>1. Explained(c, selection) = Answer(c, selection)
      BY <1>3, <2>3, <2>7 DEF Explained, Empty
    <3>. QED  BY <2>1, <2>3, <2>4, <2>7, <3>1 DEF Answers, shown
  <2>. QED  BY <2>5, <2>6, <2>7
<1>. QED  BY <1>2, <1>3

LEMMA GroundedResult ==
    ASSUME NEW c \in Talks, NEW selection \in Seq(ClaimIds \union {"forged"})
    PROVE  /\ Ground(c, selection) \in Results
           /\ Ground(c, selection).kind # "none"
           /\ c.turns # 0 => Ground(c, selection).mode # "not_invoked"
           /\ Ground(c, selection).kind = "answered" =>
                 /\ Answers(c, selection, Ground(c, selection))
                 /\ Ids(selection) \subseteq Retrieved(c.log)
<1>. DEFINE shown == ClaimsToRender(c.catalog, selection, c.route)
            known == Ids(selection) \intersect Retrieved(c.log)
            rejected == [Failed(c.turns, "citation_rejected") EXCEPT !.selected = known]
<1>1. /\ known \subseteq ClaimIds \union {"forged"}
      /\ Ids(selection) \subseteq ClaimIds \union {"forged"}
      /\ Len(selection) - Cardinality(known) \in Nat
  BY SomeIds
<1>. HIDE DEF ClaimIds
<1>2. c.turns \in Nat
  BY DEF Talks
<1>3. /\ rejected \in Results /\ rejected.kind = "unavailable"
      /\ c.turns # 0 => rejected.mode # "not_invoked"
  <2>1. Failed(c.turns, "citation_rejected") \in Results
    BY <1>2, PlainResults DEF Reasons
  <2>2. /\ Failed(c.turns, "citation_rejected").kind = "unavailable"
        /\ c.turns # 0 => Failed(c.turns, "citation_rejected").mode # "not_invoked"
    BY <1>2, PlainResults DEF Reasons
  <2>3. known \in SUBSET (ClaimIds \union {"forged"})
    BY <1>1
  <2>. HIDE DEF known
  <2>. QED  BY <2>1, <2>2, <2>3 DEF Results
<1>. DEFINE unknown == [rejected EXCEPT !.reason = "selection_rejected",
                                        !.rejected = Len(selection) - Cardinality(known)]
<1>4. /\ unknown \in Results /\ unknown.kind = "unavailable"
      /\ c.turns # 0 => unknown.mode # "not_invoked"
  <2>. HIDE DEF rejected, known
  <2>. QED  BY <1>1, <1>3 DEF Results, Reasons
<1>5. CASE known # Ids(selection)
  <2>1. Ground(c, selection) = unknown
    BY <1>5 DEF Ground
  <2>. HIDE DEF unknown, known
  <2>. QED  BY <1>4, <2>1
<1>6. CASE known = Ids(selection) /\ IsForged(c.catalog, selection)
  <2>1. Ground(c, selection) = rejected
    BY <1>6 DEF Ground
  <2>. HIDE DEF rejected, known
  <2>. QED  BY <1>3, <2>1
<1>7. CASE known = Ids(selection) /\ ~IsForged(c.catalog, selection)
  <2>1. Ids(selection) \subseteq c.catalog
    BY <1>7 DEF IsForged
  <2>2. shown \in SUBSET ClaimIds
    BY <2>1, AnswerShows
  <2>. HIDE DEF shown
  <2>3. Answer(c, selection) = [kind |-> "answered", reason |-> "answered", mode |-> "model",
            selected |-> Ids(selection), rejected |-> 0, shown |-> shown, refused |-> 0]
    <3>1. Answer(c, selection) = [Result("answered", "answered") EXCEPT
              !.mode = "model", !.selected = Ids(selection), !.shown = shown]
      BY DEF Answer, shown
    <3>. QED  BY <3>1 DEF Result
  <2>4. Answer(c, selection) \in Results /\ NoClaim(Answer(c, selection)) \in Results
    <3>1. {"answered", "no_relevant_claim"} \subseteq Reasons
      BY DEF Reasons
    <3>2. Ids(selection) \in SUBSET (ClaimIds \union {"forged"})
      BY <1>1
    <3>. HIDE DEF Reasons
    <3>3. Answer(c, selection) \in Results
      BY <2>2, <2>3, <3>1, <3>2 DEF Results
    <3>. QED  BY <3>1, <3>3 DEF NoClaim, Results
  <2>5. CASE shown = {}
    <3>1. Ground(c, selection) = NoClaim(Answer(c, selection))
      BY <1>7, <2>3, <2>5 DEF Ground, Empty
    <3>. QED  BY <2>3, <2>4, <3>1 DEF NoClaim
  <2>6. CASE shown # {} /\ ~Cited(c, shown)
    <3>1. Ground(c, selection) = rejected
      BY <1>7, <2>3, <2>6 DEF Ground, Empty
    <3>. HIDE DEF rejected
    <3>. QED  BY <1>3, <3>1
  <2>7. CASE shown # {} /\ Cited(c, shown)
    <3>1. Ground(c, selection) = Answer(c, selection)
      BY <1>7, <2>3, <2>7 DEF Ground, Empty
    <3>. QED  BY <1>7, <2>1, <2>3, <2>4, <2>7, <3>1 DEF Answers, shown
  <2>. QED  BY <2>5, <2>6, <2>7
<1>. QED  BY <1>5, <1>6, <1>7

(***************************************************************************)
(* Every step keeps the types                                              *)
(***************************************************************************)

\* What a thread was asked, once it has been.
LEMMA AskOf ==
    ASSUME IInv, NEW t \in Threads, ~At(t, "idle")
    PROVE  /\ asked[t] \in Asks
           /\ RunOf(t) \in Manifests
           /\ Menus[asked[t].menu] \subseteq Replies
<1>1. asked[t] \in Asks
  BY DEF IInv, Local, TypeOK, Placed
<1>2. asked[t].run \in DOMAIN Runs /\ asked[t].menu \in DOMAIN Menus
  BY <1>1 DEF Asks
<1>. HIDE DEF Asks
<1>. QED  BY <1>1, <1>2, AgentAssumption DEF RunOf

LEMMA AdmittedIsFinite ==
    ASSUME NEW S \in SUBSET Threads
    PROVE  IsFiniteSet(S) /\ Cardinality(S) \in Nat
BY AgentAssumption, FS_Subset, FS_CardinalityType

LEMMA SomeAreSent ==
    ASSUME IInv, NEW t \in Threads, At(t, "call")
    PROVE  guard.sent - 1 \in Nat
<1>1. t \in Admitted /\ Admitted \in SUBSET Threads
  BY DEF Admitted
<1>2. Cardinality(Admitted) # 0
  BY <1>1, AdmittedIsFinite, FS_EmptySet
<1>3. Cardinality(Admitted) \in Nat /\ Sum(posted, Threads) \in Nat /\ guard.sent \in Nat
  BY <1>1, AdmittedIsFinite, SumIsNatural, AgentAssumption DEF IInv, TypeOK, Guards
<1>. QED  BY <1>2, <1>3 DEF IInv, Funded

LEMMA WorstType ==
    ASSUME NEW c \in Talks, c.turn # 0
    PROVE  WorstCase(c.prompt, c.turn) \in Nat \ {0}
<1>1. c.prompt \in Nat /\ c.turn - 1 \in Nat
  BY DEF Talks
<1>2. OutputSize \in Nat /\ OutputPrice \in Nat \ {0}
  BY BudgetAssumption
<1>3. (c.turn - 1) * OutputSize \in Nat
  BY <1>1, <1>2
<1>. QED  BY <1>1, <1>2, <1>3 DEF WorstCase

LEMMA GuardTypes ==
    ASSUME guard \in Guards, NEW worst \in Nat, NEW cost \in Nat, NEW reported \in BOOLEAN
    PROVE  /\ Admit(guard, worst) \in Guards
           /\ guard.sent - 1 \in Nat => Release(guard, worst) \in Guards
           /\ Charge(guard, worst, reported, cost) \in Guards
<1>1. /\ guard.sent \in Nat /\ guard.spent \in Nat /\ guard.reserved \in Nat
      /\ guard.atWorst \in Nat /\ Unreserved(guard.reserved, worst) \in Nat
  BY DEF Guards, Unreserved
<1>2. Admit(guard, worst) \in Guards
  <2>. DEFINE sent == guard.sent + 1
              reserved == guard.reserved + worst
  <2>1. Admit(guard, worst) = [guard EXCEPT !.sent = sent, !.reserved = reserved]
    BY DEF Admit
  <2>2. sent \in Nat /\ reserved \in Nat
    BY <1>1
  <2>. HIDE DEF sent, reserved
  <2>. QED  BY <2>1, <2>2 DEF Guards
<1>3. guard.sent - 1 \in Nat => Release(guard, worst) \in Guards
  <2>. DEFINE rest == Unreserved(guard.reserved, worst)
  <2>1. Release(guard, worst) = [guard EXCEPT !.sent = guard.sent - 1, !.reserved = rest]
    BY DEF Release
  <2>. HIDE DEF rest
  <2>. QED  BY <1>1, <2>1 DEF Guards, rest
<1>4. Charge(guard, worst, reported, cost) \in Guards
  <2>1. (IF reported THEN cost ELSE worst) \in Nat /\ (IF reported THEN 0 ELSE 1) \in Nat
    OBVIOUS
  <2>. DEFINE rest == Unreserved(guard.reserved, worst)
              spent == guard.spent + (IF reported THEN cost ELSE worst)
              atWorst == guard.atWorst + (IF reported THEN 0 ELSE 1)
  <2>2. Charge(guard, worst, reported, cost) =
            [guard EXCEPT !.reserved = rest, !.spent = spent, !.atWorst = atWorst]
    BY DEF Charge
  <2>3. rest \in Nat /\ spent \in Nat /\ atWorst \in Nat
    BY <1>1, <2>1
  <2>. HIDE DEF rest, spent, atWorst
  <2>. QED  BY <2>2, <2>3 DEF Guards
<1>. QED  BY <1>2, <1>3, <1>4

LEMMA CostType ==
    ASSUME NEW c \in Talks, NEW reply \in Replies
    PROVE  /\ Cost(c, reply) \in Nat
           /\ c.worst # 0 => Cost(c, reply) <= c.worst
<1>1. c.worst \in Nat
  BY DEF Talks
<1>. QED  BY <1>1 DEF Cost

LEMMA RecordedType ==
    ASSUME NEW c \in Talks, c.outcome \in Replies, c.time < TotalTimeout
    PROVE  /\ Recorded(c) \in Talks
           /\ Recorded(c) = [c EXCEPT !.turns = c.turns + 1,
                                      !.time = Recorded(c).time,
                                      !.complete = c.complete /\ c.outcome.reported,
                                      !.cost = Recorded(c).cost,
                                      !.outcome = NoOutcome]
           /\ Recorded(c).cost = c.cost + (IF c.outcome.reported THEN Cost(c, c.outcome) ELSE 0)
<1>1. Timeout(c) \in Nat /\ Took(c, c.outcome) \in Nat
  BY AgentAssumption DEF Timeout, Took, Talks
<1>2. c.outcome.reported \in BOOLEAN /\ Cost(c, c.outcome) \in Nat
  BY CostType DEF Replies
<1>. DEFINE added == IF c.outcome.reported THEN Cost(c, c.outcome) ELSE 0
<1>3. Recorded(c) = [c EXCEPT !.turns = c.turns + 1,
                              !.time = c.time + Took(c, c.outcome),
                              !.complete = c.complete /\ c.outcome.reported,
                              !.cost = c.cost + added,
                              !.outcome = NoOutcome]
  BY DEF Recorded
<1>4. added \in Nat /\ (c.complete /\ c.outcome.reported) \in BOOLEAN
  BY <1>2 DEF Talks
<1>. HIDE DEF Replies, Snapshots, Reads, Routes, Entries, Calls, ClaimIds, Points, NoEvidence,
              NoOutcome, added
<1>5. c.turns + 1 \in Nat /\ c.time + Took(c, c.outcome) \in Nat /\ c.cost + added \in Nat
  BY <1>1, <1>4 DEF Talks
<1>6. Recorded(c) \in Talks
  BY <1>3, <1>4, <1>5, Zenon DEF Talks
<1>7. Recorded(c).time = c.time + Took(c, c.outcome) /\ Recorded(c).cost = c.cost + added
  BY <1>3 DEF Talks
<1>. QED  BY <1>3, <1>6, <1>7 DEF added

\* A thread that ends its request keeps the types, whatever the result.
LEMMA EndType ==
    ASSUME TypeOK, NEW t \in Threads, NEW r \in Results, End(t, r)
    PROVE  talk' \in [Threads -> Talks] /\ result' \in [Threads -> Results]
<1>. HIDE DEF Results
<1>1. [talk[t] EXCEPT !.pc = "done"] \in Talks
  <2>. DEFINE c == talk[t]
  <2>1. c \in Talks
    BY DEF TypeOK
  <2>. HIDE DEF Replies, Snapshots, Reads, Routes, Entries, Calls, ClaimIds, c
  <2>2. [c EXCEPT !.pc = "done"] \in Talks
    BY <2>1 DEF Talks, Points
  <2>. QED  BY <2>2 DEF c
<1>2. talk' = [talk EXCEPT ![t] = [talk[t] EXCEPT !.pc = "done"]]
  BY DEF End
<1>. HIDE DEF Talks
<1>. QED  BY <1>1, <1>2 DEF End, TypeOK

LEMMA CatalogType ==
    ASSUME NEW S, NEW route \in Routes
    PROVE  Eligible(S, route) \in SUBSET ClaimIds
BY ClaimsAreClaims DEF Eligible, Routes

LEMMA CollectType ==
    ASSUME IInv, NEW t \in Threads, Collect(t)
    PROVE  TypeOK'
<1>. DEFINE c == talk[t]
            evidence == BuildEvidence(RunOf(t), c.read, Intact(t))
            route == RouteQuestion(asked[t].question)
            catalog == Eligible(BuildCatalog(evidence), route)
            next == IF IsAgent(t) THEN "turn" ELSE "select"
<1>. TypeOK
  BY DEF IInv
<1>1. c \in Talks /\ c.pc = "collect" /\ c.read \in Reads \union {None}
  <2>1. c \in Talks /\ c.pc = "collect"
    BY DEF TypeOK, Collect, At
  <2>. HIDE DEF c
  <2>. QED  BY <2>1 DEF Talks
<1>2. RunOf(t) \in Manifests
  BY AskOf DEF Collect, At
<1>3. evidence \in Snapshots
  BY <1>1, <1>2, SnapshotType
<1>4. route \in Routes /\ catalog \in SUBSET ClaimIds
  BY RouteType, CatalogType
<1>. HIDE DEF evidence, route, catalog, next
<1>5. CASE \E r \in Results : End(t, r)
  BY <1>5, EndType DEF Collect, TypeOK
<1>6. CASE /\ talk' = [talk EXCEPT ![t].pc = next, ![t].turn = 1, ![t].evidence = evidence,
                                   ![t].route = route, ![t].catalog = catalog]
           /\ UNCHANGED result
  <2>1. [c EXCEPT !.pc = next, !.turn = 1, !.evidence = evidence,
                  !.route = route, !.catalog = catalog] \in Talks
    <3>. HIDE DEF Replies, Snapshots, Reads, Routes, Entries, Calls, ClaimIds, c
    <3>. QED  BY <1>1, <1>3, <1>4 DEF Talks, Points, next
  <2>2. talk' = [talk EXCEPT ![t] = [c EXCEPT !.pc = next, !.turn = 1, !.evidence = evidence,
                                              !.route = route, !.catalog = catalog]]
    BY <1>6
  <2>3. talk' \in [Threads -> Talks]
    <3>. HIDE DEF c, Talks
    <3>. QED  BY <2>1, <2>2 DEF TypeOK
  <2>. QED  BY <1>6, <2>3 DEF TypeOK, Collect
<1>7. \A kind \in {"error", "unavailable"},
         reason \in {"run_not_eligible", "unsupported_question", "evidence_not_available"} :
            Result(kind, reason) \in Results
  BY PlainResults DEF Reasons
<1>. QED  BY <1>5, <1>6, <1>7, Zenon DEF Collect, evidence, route, catalog, next, c

LEMMA SettleType ==
    ASSUME IInv, NEW t \in Threads, Settle(t)
    PROVE  TypeOK'
<1>. DEFINE c == talk[t]
            after == Recorded(c)
            calls == c.outcome.message.calls
            ids == c.outcome.message.ids
<1>. TypeOK
  BY DEF IInv
<1>1. c \in Talks /\ c.pc = "settle" /\ c.outcome \in Replies /\ c.time < TotalTimeout
  BY DEF IInv, Local, TypeOK, Placed, Counted, Settle, At
<1>. HIDE DEF c
<1>2. /\ after \in Talks /\ after.turns \in Nat
  BY <1>1, RecordedType DEF Talks
<1>3. calls \in Seq(Calls) /\ ids \in Seq(ClaimIds \union {"forged"})
  BY <1>1 DEF Replies
<1>4. guard' \in Guards
  <2>1. c.worst \in Nat /\ c.outcome.reported \in BOOLEAN /\ Cost(c, c.outcome) \in Nat
    BY <1>1, CostType DEF Talks, Replies
  <2>2. guard' = Charge(guard, c.worst, c.outcome.reported, Cost(c, c.outcome))
    BY DEF Settle, c
  <2>3. guard \in Guards
    BY DEF TypeOK
  <2>. QED  BY <2>1, <2>2, <2>3, GuardTypes
<1>. HIDE DEF after, calls, ids
<1>5. [after EXCEPT !.pc = "done"] \in Talks /\ [after EXCEPT !.pc = "tools", !.pending = calls] \in Talks
  <2>. HIDE DEF Replies, Snapshots, Reads, Routes, Entries, Calls, ClaimIds
  <2>. QED  BY <1>2, <1>3 DEF Talks, Points
<1>6. Refusal(c, calls) # "none" =>
         [Failed(after.turns, Refusal(c, calls)) EXCEPT !.refused = Len(calls)] \in Results
  <2>1. Refusal(c, calls) \in Reasons
    BY DEF Refusal, Reasons
  <2>2. Failed(after.turns, Refusal(c, calls)) \in Results
    BY <1>2, <2>1, PlainResults
  <2>3. Len(calls) \in Nat
    BY <1>3
  <2>. HIDE DEF ClaimIds, Reasons
  <2>. QED  BY <2>2, <2>3 DEF Results
<1>7. Failed(after.turns, StopOfOutcome(c)) \in Results
  <2>1. StopOfOutcome(c) \in Reasons
    BY StopType DEF Reasons
  <2>. QED  BY <1>2, <2>1, PlainResults
<1>8. Ground(after, ids) \in Results
  BY <1>2, <1>3, GroundedResult
<1>9. \/ \E r \in Results : /\ talk' = [talk EXCEPT ![t] = [after EXCEPT !.pc = "done"]]
                            /\ result' = [result EXCEPT ![t] = r]
      \/ /\ talk' = [talk EXCEPT ![t] = [after EXCEPT !.pc = "tools", !.pending = calls]]
         /\ UNCHANGED result
  BY <1>6, <1>7, <1>8, Zenon DEF Settle, c, after, calls, ids
<1>. HIDE DEF Talks, Results, Guards
<1>10. talk' \in [Threads -> Talks] /\ result' \in [Threads -> Results]
  BY <1>5, <1>9 DEF TypeOK
<1>. QED  BY <1>4, <1>10 DEF Settle, TypeOK

LEMMA ToolType ==
    ASSUME IInv, NEW t \in Threads, RunTool(t)
    PROVE  TypeOK'
<1>. DEFINE c == talk[t]
            next == IF Len(c.pending) = 1 THEN "turn" ELSE "tools"
            turn == IF Len(c.pending) = 1 THEN c.turn + 1 ELSE c.turn
            log == Append(c.log, Execute(c.log, c.catalog, Head(c.pending)))
            new == [c EXCEPT !.pc = next, !.turn = turn, !.pending = Tail(c.pending),
                             !.prompt = c.prompt + ResultSize, !.log = log]
<1>. TypeOK
  BY DEF IInv
<1>1. c \in Talks /\ c.pc = "tools" /\ c.pending # <<>>
  BY DEF IInv, Local, TypeOK, Counted, RunTool, At
<1>2. talk' = [talk EXCEPT ![t] = new]
  BY DEF RunTool
<1>. HIDE DEF c
<1>3. c.pending \in Seq(Calls) /\ c.log \in Seq(Entries) /\ c.catalog \in SUBSET ClaimIds
  BY <1>1 DEF Talks
<1>4. Head(c.pending) \in Calls /\ Tail(c.pending) \in Seq(Calls)
  BY <1>1, <1>3
<1>5. log \in Seq(Entries)
  <2>1. Execute(c.log, c.catalog, Head(c.pending)) \in Entries
    BY <1>3, <1>4, EntryType
  <2>. HIDE DEF Entries
  <2>. QED  BY <1>3, <2>1
<1>6. turn \in Nat /\ c.prompt + ResultSize \in Nat
  BY <1>1, AgentAssumption DEF Talks
<1>. HIDE DEF log, turn
<1>7. new \in Talks
  <2>. HIDE DEF Replies, Snapshots, Reads, Routes, Entries, Calls, ClaimIds
  <2>. QED  BY <1>1, <1>4, <1>5, <1>6 DEF Talks, Points
<1>. HIDE DEF new, Talks, Guards, Results
<1>8. talk' \in [Threads -> Talks]
  BY <1>2, <1>7 DEF TypeOK
<1>. QED  BY <1>8 DEF TypeOK, RunTool

LEMMA BeginType ==
    ASSUME IInv, NEW t \in Threads, BeginTurn(t)
    PROVE  TypeOK'
<1>. DEFINE c == talk[t]
            worst == WorstCase(c.prompt, c.turn)
<1>. TypeOK
  BY DEF IInv
<1>1. c \in Talks /\ c.pc = "turn" /\ c.turn # 0 /\ c.turns \in Nat
  <2>1. At(t, "turn")
    BY Zenon DEF BeginTurn
  <2>2. Counted(t)
    BY DEF IInv, Local
  <2>3. c \in Talks /\ c.pc = "turn" /\ c.turn # 0
    BY <2>1, <2>2, AgentAssumption DEF TypeOK, Counted, At
  <2>. HIDE DEF c
  <2>. QED  BY <2>3 DEF Talks
<1>2. worst \in Nat
  BY <1>1, WorstType
<1>3. \A reason \in {"deadline_exceeded", "prompt_budget_exceeded", "budget_exhausted"} :
          Failed(c.turns, reason) \in Results
  BY <1>1, PlainResults DEF Reasons
<1>4. \/ /\ \E r \in Results : End(t, r)
         /\ UNCHANGED guard
      \/ /\ guard' = Admit(guard, worst)
         /\ talk' = [talk EXCEPT ![t].pc = "call", ![t].worst = worst]
         /\ UNCHANGED result
  BY <1>3, Zenon DEF BeginTurn
<1>5. CASE \E r \in Results : End(t, r) /\ UNCHANGED guard
  BY <1>5, EndType DEF BeginTurn, TypeOK
<1>. HIDE DEF worst
<1>6. CASE /\ guard' = Admit(guard, worst)
           /\ talk' = [talk EXCEPT ![t].pc = "call", ![t].worst = worst]
           /\ UNCHANGED result
  <2>1. talk' = [talk EXCEPT ![t] = [c EXCEPT !.pc = "call", !.worst = worst]]
    BY <1>6
  <2>. HIDE DEF c
  <2>2. [c EXCEPT !.pc = "call", !.worst = worst] \in Talks
    <3>. HIDE DEF Replies, Snapshots, Reads, Routes, Entries, Calls, ClaimIds
    <3>. QED  BY <1>1, <1>2 DEF Talks, Points
  <2>3. guard' \in Guards
    BY <1>2, <1>6, GuardTypes DEF TypeOK
  <2>. HIDE DEF Talks, Guards, Results
  <2>. QED  BY <1>6, <2>1, <2>2, <2>3 DEF TypeOK, BeginTurn
<1>. QED  BY <1>4, <1>5, <1>6

LEMMA ExchangeType ==
    ASSUME IInv, NEW t \in Threads, Exchange(t)
    PROVE  TypeOK'
<1>. DEFINE c == talk[t]
<1>. TypeOK
  BY DEF IInv
<1>1. c \in Talks /\ Menus[asked[t].menu] \subseteq Replies
  BY AskOf DEF TypeOK, Exchange, At
<1>2. PICK reply \in Menus[asked[t].menu] :
          /\ talk' = [talk EXCEPT ![t].pc = "settle", ![t].outcome = reply]
          /\ billed' = [billed EXCEPT ![t] = @ + Cost(c, reply)]
  BY DEF Exchange
<1>3. talk' = [talk EXCEPT ![t] = [c EXCEPT !.pc = "settle", !.outcome = reply]]
  BY <1>2
<1>4. reply \in Replies /\ Cost(c, reply) \in Nat
  BY <1>1, CostType
<1>. HIDE DEF c
<1>5. [c EXCEPT !.pc = "settle", !.outcome = reply] \in Talks
  <2>. HIDE DEF Replies, Snapshots, Reads, Routes, Entries, Calls, ClaimIds
  <2>. QED  BY <1>1, <1>4 DEF Talks, Points
<1>. HIDE DEF Talks, Guards, Results
<1>6. talk' \in [Threads -> Talks]
  BY <1>3, <1>5 DEF TypeOK
<1>8. billed' \in [Threads -> Nat]
  <2>1. billed[t] + Cost(c, reply) \in Nat
    BY <1>4 DEF TypeOK
  <2>2. billed' = [billed EXCEPT ![t] = billed[t] + Cost(c, reply)]
    BY <1>2
  <2>. QED  BY <2>1, <2>2 DEF TypeOK
<1>7. posted' \in [Threads -> Nat]
  BY DEF TypeOK, Exchange
<1>. QED  BY <1>6, <1>7, <1>8 DEF TypeOK, Exchange

LEMMA SelectionType ==
    ASSUME IInv, NEW t \in Threads, Explain(t)
    PROVE  \A selection \in {InOrder(talk[t].catalog)}
                            \union {r.message.ids : r \in {r \in Menus[asked[t].menu] :
                                                          IsSelection(r.message)}} :
              selection \in Seq(ClaimIds \union {"forged"})
<1>1. talk[t] \in Talks /\ Menus[asked[t].menu] \subseteq Replies
  BY AskOf DEF IInv, TypeOK, Explain, At
<1>2. InOrder(talk[t].catalog) \in Seq(ClaimIds \union {"forged"})
  <2>1. talk[t].catalog \in SUBSET ClaimIds
    BY <1>1 DEF Talks
  <2>2. InOrder(talk[t].catalog) \in Seq(talk[t].catalog)
    BY OrderIsOfIds
  <2>. HIDE DEF ClaimIds
  <2>. QED  BY <2>1, <2>2
<1>3. \A r \in Menus[asked[t].menu] : r.message.ids \in Seq(ClaimIds \union {"forged"})
  BY <1>1 DEF Replies
<1>. QED  BY <1>2, <1>3

LEMMA TypeStep ==
    ASSUME IInv, [Next]_vars
    PROVE  TypeOK'
<1>. TypeOK
  BY DEF IInv
<1>1. ASSUME NEW t \in Threads, Load(t)
      PROVE  TypeOK'
  <2>. DEFINE c == talk[t]
              read == LoadDiagnostics(RunOf(t), Intact(t))
  <2>1. c \in Talks /\ read \in Reads \union {None}
    BY <1>1, AskOf, ReadType DEF TypeOK, Load, At
  <2>. HIDE DEF c, read
  <2>2. [c EXCEPT !.pc = "collect", !.read = read] \in Talks
    <3>. HIDE DEF Replies, Snapshots, Reads, Routes, Entries, Calls, ClaimIds
    <3>. QED  BY <2>1 DEF Talks, Points
  <2>3. talk' = [talk EXCEPT ![t] = [c EXCEPT !.pc = "collect", !.read = read]]
    BY <1>1 DEF Load, c, read
  <2>. HIDE DEF Talks, Guards, Results
  <2>. QED  BY <1>1, <2>2, <2>3 DEF TypeOK, Load
<1>2. ASSUME NEW t \in Threads, NEW a \in Artifacts, Damage(t, a)
      PROVE  TypeOK'
  <2>. HIDE DEF Talks, Guards, Results
  <2>. QED  BY <1>2 DEF TypeOK, Damage
<1>3. ASSUME NEW t \in Threads, Explain(t)
      PROVE  TypeOK'
  <2>1. talk[t] \in Talks
    BY DEF TypeOK
  <2>2. PICK selection \in Seq(ClaimIds \union {"forged"}) : End(t, Explained(talk[t], selection))
    BY <1>3, SelectionType DEF Explain
  <2>. QED  BY <1>3, <2>1, <2>2, ExplainedResult, EndType DEF Explain, TypeOK
<1>4. ASSUME NEW t \in Threads, ExplainFails(t)
      PROVE  TypeOK'
  <2>1. Failed(1, "provider_unavailable") \in Results
    BY PlainResults DEF Reasons
  <2>. QED  BY <1>4, <2>1, EndType DEF ExplainFails, TypeOK
<1>5. ASSUME NEW t \in Threads, NotConfigured(t)
      PROVE  TypeOK'
  <2>1. talk[t] \in Talks
    BY DEF TypeOK
  <2>2. talk[t].turns \in Nat /\ talk[t].worst \in Nat
    BY <2>1 DEF Talks
  <2>3. Failed(talk[t].turns, "provider_error") \in Results
    BY <2>2, PlainResults DEF Reasons
  <2>4. guard' \in Guards
    BY <1>5, <2>2, GuardTypes, SomeAreSent DEF NotConfigured, TypeOK
  <2>. QED  BY <1>5, <2>3, <2>4, EndType DEF NotConfigured, TypeOK
<1>. QED
  BY <1>1, <1>2, <1>3, <1>4, <1>5, CollectType, BeginType, ExchangeType, SettleType, ToolType
     DEF Next, Step, vars, TypeOK

(***************************************************************************)
(* What a step does to the threads                                         *)
(***************************************************************************)

\* The step of a thread leaves the others where they are.
Frame(t) ==
    /\ asked' = asked
    /\ \A u \in Threads \ {t} : /\ talk'[u] = talk[u] /\ result'[u] = result[u]
                                /\ posted'[u] = posted[u] /\ billed'[u] = billed[u]

Still(t) == talk'[t] = talk[t] /\ result'[t] = result[t]
Unpaid(t) == posted'[t] = posted[t] /\ billed'[t] = billed[t]

LEMMA KeptIsLocal ==
    ASSUME IInv, NEW t \in Threads, asked' = asked, Still(t), Unpaid(t)
    PROVE  Local(t)'
<1>1. Local(t)
  BY DEF IInv
<1>2. Placed(t)' /\ Counted(t)'
  BY <1>1 DEF Still, Local, Placed, Counted, At, IsAgent
<1>3. Due'[t] = Due[t]
  BY DEF Still, Due, At
<1>4. Traced(t)'
  BY <1>1, <1>3 DEF Still, Unpaid, Local, Traced, At, IsAgent
<1>5. HasRead(t)' /\ HasCollected(t)' /\ LogIsOffered(t)'
  BY <1>1 DEF Still, Local, HasRead, HasCollected, LogIsOffered, Chose, Answered, RunOf
<1>6. Published(t)'
  BY <1>1, Zenon DEF Still, Local, Published, Answered, Publishes, IsAgent
<1>. QED  BY <1>2, <1>4, <1>5, <1>6 DEF Local

\* What a thread has read stays as it was read.
LEMMA SnapshotStays ==
    ASSUME NEW t \in Threads, Local(t), asked' = asked, Chose(t),
           talk[t].pc \notin {"idle", "load"},
           talk'[t].read = talk[t].read, talk'[t].evidence = talk[t].evidence,
           talk'[t].catalog = talk[t].catalog, talk'[t].route = talk[t].route
    PROVE  HasRead(t)' /\ HasCollected(t)'
<1>1. HasRead(t)'
  BY DEF Local, HasRead, RunOf
<1>2. PICK intact \in SUBSET Registered(RunOf(t)) :
          talk[t].evidence = BuildEvidence(RunOf(t), talk[t].read, intact)
  BY DEF Local, HasCollected
<1>3. talk[t].catalog = Eligible(BuildCatalog(talk[t].evidence), talk[t].route)
  BY DEF Local, HasCollected
<1>4. HasCollected(t)'
  BY <1>2, <1>3 DEF HasCollected, RunOf
<1>. QED  BY <1>1, <1>4

\* What a request that ends must have found for its result.
LEMMA EndIsLocal ==
    ASSUME IInv, NEW t \in Threads, NEW r \in Results, End(t, r),
           asked' = asked, Unpaid(t),
           talk[t].pc \notin {"idle", "load", "settle"},
           r.kind # "none",
           IsAgent(t) => (r.mode = "not_invoked" <=> talk[t].turns = 0),
           r.kind = "answered" =>
               /\ At(t, "select") /\ ~IsAgent(t)
               /\ \E selection \in Seq(ClaimIds \union {"forged"}) :
                     Answers(talk[t], selection, r)
    PROVE  Local(t)'
<1>. DEFINE c == talk[t]
            d == [c EXCEPT !.pc = "done"]
<1>1. Local(t) /\ c \in Talks
  BY DEF IInv, TypeOK
<1>2. talk'[t] = d /\ result'[t] = r
  BY DEF End, IInv, TypeOK
<1>3. /\ d.pc = "done" /\ d.turns = c.turns /\ d.log = c.log /\ d.cost = c.cost
      /\ d.complete = c.complete /\ d.read = c.read /\ d.evidence = c.evidence
      /\ d.catalog = c.catalog /\ d.route = c.route
  BY <1>1 DEF Talks
<1>4. c.turns \in Nat /\ c.cost \in Nat
  BY <1>1 DEF Talks
<1>. HIDE DEF d
<1>5. Placed(t)'
  BY <1>1, <1>2, <1>3 DEF Local, Placed, At, AgentPoints, IsAgent
<1>6. Counted(t)'
  BY <1>1, <1>2, <1>3 DEF Local, Counted, At
<1>7. Due'[t] = 0 /\ Due[t] = 0
  BY <1>2, <1>3 DEF Due, At
<1>8. Traced(t)'
  BY <1>1, <1>2, <1>3, <1>4, <1>7 DEF Local, Traced, At, IsAgent, Unpaid
<1>9. HasRead(t)' /\ LogIsOffered(t)'
  BY <1>1, <1>2, <1>3 DEF Local, HasRead, LogIsOffered, RunOf
<1>10. HasCollected(t)'
  BY <1>1, <1>2, <1>3 DEF Local, HasCollected, Chose, Answered, AgentPoints, RunOf, At
<1>11. Published(t)'
  BY <1>2, <1>3, Zenon DEF Published, Publishes, Answers, Answered, IsAgent, Cited
<1>. QED  BY <1>5, <1>6, <1>8, <1>9, <1>10, <1>11 DEF Local

LEMMA EndFrame ==
    ASSUME IInv, NEW t \in Threads, NEW r, End(t, r), UNCHANGED <<asked, posted, billed>>
    PROVE  Frame(t) /\ Unpaid(t)
BY DEF End, Frame, Unpaid, IInv, TypeOK

LEMMA LoadIsLocal ==
    ASSUME IInv, NEW t \in Threads, Load(t)
    PROVE  Local(t)' /\ Frame(t) /\ UNCHANGED <<posted, billed, guard>> /\ Due' = Due
<1>. DEFINE c == talk[t]
            read == LoadDiagnostics(RunOf(t), Intact(t))
            d == [c EXCEPT !.pc = "collect", !.read = read]
<1>1. Local(t) /\ c \in Talks /\ c.pc = "load"
  BY DEF IInv, TypeOK, Load, At
<1>2. /\ talk' = [talk EXCEPT ![t] = d]
      /\ asked' = asked /\ result' = result /\ posted' = posted /\ billed' = billed
      /\ guard' = guard
  BY DEF Load
<1>. HIDE DEF read
<1>3. /\ d.pc = "collect" /\ d.turns = c.turns /\ d.log = c.log /\ d.cost = c.cost
      /\ d.complete = c.complete /\ d.read = read /\ d.evidence = c.evidence
      /\ d.catalog = c.catalog /\ d.route = c.route
  BY <1>1 DEF Talks
<1>. HIDE DEF c, d
<1>4. talk'[t] = d /\ \A u \in Threads \ {t} : talk'[u] = talk[u]
  BY <1>2 DEF IInv, TypeOK
<1>5. Frame(t)
  BY <1>2, <1>4 DEF Frame
<1>6. Due' = Due
  <2>1. \A u \in Threads : Due'[u] = Due[u]
    BY <1>1, <1>3, <1>4 DEF Due, At, c
  <2>. QED  BY <2>1 DEF Due
<1>7. Placed(t)' /\ Counted(t)'
  <2>1. Placed(t)'
    BY <1>1, <1>2, <1>3, <1>4 DEF Local, Placed, At, AgentPoints, IsAgent, c
  <2>2. Counted(t)'
    BY <1>1, <1>3, <1>4 DEF Local, Counted, At, c
  <2>. QED  BY <2>1, <2>2
<1>8. Traced(t)'
  BY <1>1, <1>2, <1>3, <1>4, <1>6 DEF Local, Traced, At, c
<1>9. HasRead(t)'
  <2>1. PICK intact \in SUBSET Registered(RunOf(t)) : read = LoadDiagnostics(RunOf(t), intact)
    BY Zenon DEF Intact, read
  <2>2. talk'[t].read = read
    BY <1>3, <1>4
  <2>. QED  BY <1>2, <2>1, <2>2 DEF HasRead, RunOf
<1>10. result[t] = NoResult /\ NoResult.kind = "none"
  BY <1>1 DEF Local, Placed, At, c, NoResult, Result
<1>11. ~Chose(t)' /\ ~Answered(t)'
  BY <1>2, <1>3, <1>4, <1>10 DEF Chose, AgentPoints, Answered
<1>12. LogIsOffered(t)'
  BY <1>1, <1>3, <1>4 DEF Local, LogIsOffered, c
<1>. QED  BY <1>2, <1>5, <1>6, <1>7, <1>8, <1>9, <1>11, <1>12 DEF Local, HasCollected, Published

LEMMA CollectIsLocal ==
    ASSUME IInv, NEW t \in Threads, Collect(t)
    PROVE  Local(t)' /\ Frame(t) /\ UNCHANGED <<posted, billed, guard>> /\ Due' = Due
<1>. DEFINE c == talk[t]
            evidence == BuildEvidence(RunOf(t), c.read, Intact(t))
            route == RouteQuestion(asked[t].question)
            catalog == Eligible(BuildCatalog(evidence), route)
            next == IF IsAgent(t) THEN "turn" ELSE "select"
            d == [c EXCEPT !.pc = next, !.turn = 1, !.evidence = evidence,
                           !.route = route, !.catalog = catalog]
<1>1. Local(t) /\ c \in Talks /\ c.pc = "collect"
  BY DEF IInv, TypeOK, Collect, At
<1>2. asked' = asked /\ posted' = posted /\ billed' = billed /\ guard' = guard /\ Unpaid(t)
  BY DEF Collect, Unpaid
<1>3. c.turns = 0
  BY <1>1 DEF Local, Placed, AgentPoints
<1>. HIDE DEF evidence, route, catalog, next
<1>4. ASSUME NEW reason \in Reasons, NEW kind \in {"error", "unavailable"},
             End(t, Result(kind, reason))
      PROVE  Local(t)' /\ Frame(t) /\ Due' = Due
  <2>1. /\ Result(kind, reason) \in Results
        /\ Result(kind, reason).kind \in {"error", "unavailable"}
        /\ Result(kind, reason).mode = "not_invoked"
    BY PlainResults
  <2>2. Local(t)'
    BY <1>1, <1>2, <1>3, <1>4, <2>1, EndIsLocal
  <2>3. \A u \in Threads : Due'[u] = Due[u]
    BY <1>1, <1>4 DEF Due, At, End, IInv, TypeOK
  <2>. QED  BY <1>2, <1>4, <2>2, <2>3, EndFrame DEF Due
<1>5. ASSUME talk' = [talk EXCEPT ![t].pc = next, ![t].turn = 1, ![t].evidence = evidence,
                                  ![t].route = route, ![t].catalog = catalog],
             UNCHANGED result
      PROVE  Local(t)' /\ Frame(t) /\ Due' = Due
  <2>1. talk' = [talk EXCEPT ![t] = d]
    BY <1>5
  <2>2. /\ d.pc = next /\ d.turn = 1 /\ d.turns = c.turns /\ d.log = c.log /\ d.cost = c.cost
        /\ d.complete = c.complete /\ d.read = c.read /\ d.evidence = evidence
        /\ d.catalog = catalog /\ d.route = route
    BY <1>1 DEF Talks
  <2>. HIDE DEF d, c
  <2>3. talk'[t] = d /\ \A u \in Threads \ {t} : talk'[u] = talk[u]
    BY <2>1 DEF IInv, TypeOK
  <2>4. (IsAgent(t) => next = "turn") /\ (~IsAgent(t) => next = "select")
    BY Zenon DEF next
  <2>5. \A u \in Threads : Due'[u] = Due[u]
    BY <1>1, <2>2, <2>3, <2>4 DEF Due, At, c
  <2>6. Placed(t)'
    BY <1>1, <1>2, <1>5, <2>2, <2>3, <2>4 DEF Local, Placed, At, AgentPoints, IsAgent, c
  <2>7. Counted(t)'
    <3>1. 1 \in 1..MaxModelTurns /\ talk'[t].turns = talk'[t].turn - 1
      BY <1>3, <2>2, <2>3, AgentAssumption
    <3>2. talk'[t].pc \in {"turn", "select"}
      BY <2>2, <2>3 DEF next
    <3>. QED  BY <1>1, <2>2, <2>3, <3>1, <3>2 DEF Local, Counted, At, c
  <2>8. Traced(t)'
    BY <1>1, <1>2, <2>2, <2>3, <2>4, <2>5 DEF Local, Traced, At, c
  <2>9. HasRead(t)'
    BY <1>1, <1>2, <2>2, <2>3 DEF Local, HasRead, RunOf, c
  <2>10. HasCollected(t)'
    <3>1. PICK intact \in SUBSET Registered(RunOf(t)) :
              evidence = BuildEvidence(RunOf(t), c.read, intact)
      BY Zenon DEF Intact, evidence
    <3>2. catalog = Eligible(BuildCatalog(evidence), route)
      BY DEF catalog
    <3>3. /\ talk'[t].evidence = evidence /\ talk'[t].read = c.read
          /\ talk'[t].catalog = catalog /\ talk'[t].route = route
      BY <2>2, <2>3
    <3>. QED  BY <1>2, <3>1, <3>2, <3>3 DEF HasCollected, RunOf
  <2>11. LogIsOffered(t)'
    <3>1. c.log = <<>>
      BY <1>1 DEF Local, Placed, AgentPoints, c
    <3>. QED  BY <2>2, <2>3, <3>1 DEF LogIsOffered
  <2>12. ~Answered(t)'
    <3>1. result[t] = NoResult /\ NoResult.kind = "none"
      BY <1>1 DEF Local, Placed, At, c, NoResult, Result
    <3>. QED  BY <1>5, <3>1 DEF Answered
  <2>. QED
    BY <1>2, <1>5, <2>3, <2>5, <2>6, <2>7, <2>8, <2>9, <2>10, <2>11, <2>12
       DEF Local, Published, Frame, Due
<1>6. {"run_not_eligible", "unsupported_question", "evidence_not_available"} \subseteq Reasons
  BY DEF Reasons
<1>. HIDE DEF Reasons
<1>. QED
  BY <1>2, <1>4, <1>5, <1>6, Zenon DEF Collect, evidence, route, catalog, next, c

LEMMA ExplainIsLocal ==
    ASSUME IInv, NEW t \in Threads, Explain(t) \/ ExplainFails(t)
    PROVE  Local(t)' /\ Frame(t) /\ UNCHANGED <<posted, billed, guard>> /\ Due' = Due
<1>1. Local(t) /\ talk[t] \in Talks /\ talk[t].pc = "select"
  BY DEF IInv, TypeOK, Explain, ExplainFails, At
<1>2. asked' = asked /\ posted' = posted /\ billed' = billed /\ guard' = guard /\ Unpaid(t)
  BY DEF Explain, ExplainFails, Unpaid
<1>3. ~IsAgent(t)
  BY <1>1 DEF Local, Placed, At
<1>4. PICK r \in Results :
          /\ End(t, r)
          /\ r.kind # "none"
          /\ r.kind = "answered" => \E selection \in Seq(ClaimIds \union {"forged"}) :
                                       Answers(talk[t], selection, r)
  <2>1. CASE ExplainFails(t)
    BY <2>1, PlainResults DEF ExplainFails, Reasons
  <2>2. CASE Explain(t)
    <3>1. PICK selection \in Seq(ClaimIds \union {"forged"}) : End(t, Explained(talk[t], selection))
      BY <2>2, SelectionType DEF Explain
    <3>. QED  BY <1>1, <3>1, ExplainedResult
  <2>. QED  BY <2>1, <2>2
<1>5. Local(t)'
  BY <1>1, <1>2, <1>3, <1>4, EndIsLocal DEF At
<1>6. \A u \in Threads : Due'[u] = Due[u]
  BY <1>1, <1>4 DEF Due, At, End, IInv, TypeOK
<1>. QED  BY <1>2, <1>4, <1>5, <1>6, EndFrame DEF Due

LEMMA BeginIsLocal ==
    ASSUME IInv, NEW t \in Threads, BeginTurn(t)
    PROVE  Local(t)' /\ Frame(t) /\ UNCHANGED <<posted, billed>> /\ Due' = Due
<1>. DEFINE c == talk[t]
            worst == WorstCase(c.prompt, c.turn)
            d == [c EXCEPT !.pc = "call", !.worst = worst]
<1>1. Local(t) /\ c \in Talks /\ c.pc = "turn"
  <2>1. At(t, "turn")
    BY Zenon DEF BeginTurn
  <2>. QED  BY <2>1 DEF IInv, TypeOK, At
<1>2. asked' = asked /\ posted' = posted /\ billed' = billed /\ Unpaid(t)
  BY Zenon DEF BeginTurn, Unpaid
<1>3. c.turns \in Nat
  BY <1>1 DEF Talks
<1>4. ASSUME NEW reason \in Reasons, End(t, Failed(c.turns, reason))
      PROVE  Local(t)' /\ Frame(t) /\ Due' = Due
  <2>1. /\ Failed(c.turns, reason) \in Results
        /\ Failed(c.turns, reason).kind = "unavailable"
        /\ Failed(c.turns, reason).mode = "not_invoked" <=> c.turns = 0
    BY <1>3, PlainResults
  <2>2. Local(t)'
    BY <1>1, <1>2, <1>4, <2>1, EndIsLocal
  <2>3. \A u \in Threads : Due'[u] = Due[u]
    BY <1>1, <1>4 DEF Due, At, End, IInv, TypeOK
  <2>. QED  BY <1>2, <1>4, <2>2, <2>3, EndFrame DEF Due
<1>5. ASSUME talk' = [talk EXCEPT ![t].pc = "call", ![t].worst = worst], UNCHANGED result,
             c.time < TotalTimeout, c.prompt <= MaxPromptChars
      PROVE  Local(t)' /\ Frame(t) /\ Due' = Due
  <2>1. talk' = [talk EXCEPT ![t] = d]
    BY <1>5
  <2>. HIDE DEF worst
  <2>2. /\ d.pc = "call" /\ d.turn = c.turn /\ d.turns = c.turns /\ d.log = c.log
        /\ d.cost = c.cost /\ d.complete = c.complete /\ d.read = c.read
        /\ d.evidence = c.evidence /\ d.catalog = c.catalog /\ d.route = c.route
        /\ d.time = c.time /\ d.prompt = c.prompt
    BY <1>1 DEF Talks
  <2>. HIDE DEF d, c
  <2>3. talk'[t] = d /\ \A u \in Threads \ {t} : talk'[u] = talk[u]
    BY <2>1 DEF IInv, TypeOK
  <2>4. \A u \in Threads : Due'[u] = Due[u]
    BY <1>1, <2>2, <2>3 DEF Due, At, c
  <2>5. Placed(t)'
    BY <1>1, <1>2, <1>5, <2>2, <2>3 DEF Local, Placed, At, AgentPoints, IsAgent, c
  <2>6. Counted(t)'
    <3>1. /\ c.turn \in 1..MaxModelTurns /\ c.turns = c.turn - 1 /\ c.turns <= MaxModelTurns
          /\ Len(c.log) <= MaxToolCalls
          /\ \A i, j \in Ran(c.log) : c.log[i].name = c.log[j].name => i = j
      BY <1>1 DEF Local, Counted, At, c
    <3>2. At(t, "call")' /\ ~At(t, "tools")'
      BY <2>2, <2>3 DEF At
    <3>3. c.time < TotalTimeout /\ c.prompt <= MaxPromptChars
      BY <1>5
    <3>. QED  BY <2>2, <2>3, <3>1, <3>2, <3>3 DEF Counted, At
  <2>7. Traced(t)'
    BY <1>1, <1>2, <2>2, <2>3, <2>4 DEF Local, Traced, At, c
  <2>8. HasRead(t)' /\ HasCollected(t)'
    <3>1. Chose(t) /\ c.pc \notin {"idle", "load"}
      BY <1>1 DEF Chose, AgentPoints, c
    <3>. QED  BY <1>1, <1>2, <2>2, <2>3, <3>1, SnapshotStays DEF c
  <2>10. LogIsOffered(t)'
    BY <1>1, <2>2, <2>3 DEF Local, LogIsOffered, c
  <2>9. ~Answered(t)'
    <3>1. result[t] = NoResult /\ NoResult.kind = "none"
      BY <1>1 DEF Local, Placed, At, c, NoResult, Result
    <3>. QED  BY <1>5, <3>1 DEF Answered
  <2>. QED
    BY <1>2, <1>5, <2>3, <2>4, <2>5, <2>6, <2>7, <2>8, <2>9, <2>10
       DEF Local, Published, Frame, Due
<1>6. {"deadline_exceeded", "prompt_budget_exceeded", "budget_exhausted"} \subseteq Reasons
  BY DEF Reasons
<1>7. c.time \in Nat /\ c.prompt \in Nat /\ {TotalTimeout, MaxPromptChars} \subseteq Nat
  BY <1>1, AgentAssumption DEF Talks
<1>8. \/ \E reason \in Reasons : End(t, Failed(c.turns, reason))
      \/ /\ talk' = [talk EXCEPT ![t].pc = "call", ![t].worst = worst]
         /\ UNCHANGED result
         /\ ~(c.time >= TotalTimeout) /\ ~(c.prompt > MaxPromptChars)
  <2>. HIDE DEF Reasons
  <2>. QED  BY <1>6, Zenon DEF BeginTurn, c, worst
<1>9. /\ ~(c.time >= TotalTimeout) => c.time < TotalTimeout
      /\ ~(c.prompt > MaxPromptChars) => c.prompt <= MaxPromptChars
  BY <1>7
<1>. QED  BY <1>2, <1>4, <1>5, <1>8, <1>9, Zenon

LEMMA NotConfiguredIsLocal ==
    ASSUME IInv, NEW t \in Threads, NotConfigured(t)
    PROVE  Local(t)' /\ Frame(t) /\ UNCHANGED <<posted, billed>> /\ Due' = Due
<1>. DEFINE r == Failed(talk[t].turns, "provider_error")
<1>1. Local(t) /\ talk[t] \in Talks /\ talk[t].pc = "call"
  BY DEF IInv, TypeOK, NotConfigured, At
<1>2. asked' = asked /\ posted' = posted /\ billed' = billed /\ Unpaid(t) /\ End(t, r)
  BY DEF NotConfigured, Unpaid
<1>3. talk[t].turns \in Nat
  BY <1>1 DEF Talks
<1>4. /\ r \in Results /\ r.kind = "unavailable"
      /\ r.mode = "not_invoked" <=> talk[t].turns = 0
  BY <1>3, PlainResults DEF Reasons
<1>. HIDE DEF r
<1>5. Local(t)'
  BY <1>1, <1>2, <1>4, EndIsLocal
<1>6. \A u \in Threads : Due'[u] = Due[u]
  BY <1>1, <1>2 DEF Due, At, End, IInv, TypeOK
<1>. QED  BY <1>2, <1>5, <1>6, EndFrame DEF Due

LEMMA ExchangeIsLocal ==
    ASSUME IInv, NEW t \in Threads, Exchange(t)
    PROVE  Local(t)' /\ Frame(t) /\ guard' = guard
<1>. DEFINE c == talk[t]
<1>1. Local(t) /\ c \in Talks /\ c.pc = "call" /\ Menus[asked[t].menu] \subseteq Replies
  BY AskOf DEF IInv, TypeOK, Exchange, At
<1>2. PICK reply \in Replies :
          /\ talk' = [talk EXCEPT ![t].pc = "settle", ![t].outcome = reply]
          /\ billed' = [billed EXCEPT ![t] = @ + Cost(c, reply)]
  BY <1>1 DEF Exchange
<1>. DEFINE d == [c EXCEPT !.pc = "settle", !.outcome = reply]
<1>3. asked' = asked /\ result' = result /\ guard' = guard
  BY DEF Exchange
<1>4. talk' = [talk EXCEPT ![t] = d]
  BY <1>2
<1>5. /\ d.pc = "settle" /\ d.turn = c.turn /\ d.turns = c.turns /\ d.log = c.log
      /\ d.cost = c.cost /\ d.complete = c.complete /\ d.read = c.read
      /\ d.evidence = c.evidence /\ d.catalog = c.catalog /\ d.route = c.route
      /\ d.time = c.time /\ d.prompt = c.prompt /\ d.worst = c.worst /\ d.outcome = reply
  BY <1>1 DEF Talks
<1>6. c.turns \in Nat /\ c.cost \in Nat /\ Cost(c, reply) \in Nat
  BY <1>1, CostType DEF Talks
<1>. HIDE DEF d, c
<1>7. talk'[t] = d /\ \A u \in Threads \ {t} : talk'[u] = talk[u]
  BY <1>4 DEF IInv, TypeOK
<1>8. /\ posted'[t] = posted[t] + 1 /\ billed'[t] = billed[t] + Cost(c, reply)
      /\ \A u \in Threads \ {t} : posted'[u] = posted[u] /\ billed'[u] = billed[u]
  BY <1>2 DEF Exchange, IInv, TypeOK
<1>9. Frame(t)
  BY <1>3, <1>7, <1>8 DEF Frame
<1>10. Due[t] = 0 /\ Due'[t] = Cost(c, reply)
  BY <1>1, <1>5, <1>7 DEF Due, At, c, Cost
<1>11. Placed(t)'
  BY <1>1, <1>3, <1>5, <1>7 DEF Local, Placed, At, AgentPoints, IsAgent, c
<1>12. Counted(t)'
  <2>1. /\ c.turn \in 1..MaxModelTurns /\ c.turns = c.turn - 1 /\ c.turns <= MaxModelTurns
        /\ Len(c.log) <= MaxToolCalls
        /\ \A i, j \in Ran(c.log) : c.log[i].name = c.log[j].name => i = j
        /\ c.time < TotalTimeout /\ c.prompt <= MaxPromptChars
    BY <1>1 DEF Local, Counted, At, c
  <2>2. At(t, "settle")' /\ ~At(t, "tools")'
    BY <1>5, <1>7 DEF At
  <2>. QED  BY <1>5, <1>7, <2>1, <2>2, Zenon DEF Counted
<1>13. Traced(t)'
  <2>1. /\ posted[t] = c.turns /\ c.cost <= billed[t]
        /\ c.complete => c.cost = billed[t]
        /\ billed[t] \in Nat
    BY <1>1, <1>6, <1>10 DEF Local, Traced, At, c, IInv, TypeOK
  <2>. QED  BY <1>5, <1>6, <1>7, <1>8, <1>10, <2>1 DEF Traced, At
<1>14. HasRead(t)' /\ HasCollected(t)'
  <2>1. Chose(t) /\ c.pc \notin {"idle", "load"}
    BY <1>1 DEF Chose, AgentPoints, c
  <2>. QED  BY <1>1, <1>3, <1>5, <1>7, <2>1, SnapshotStays DEF c
<1>15. LogIsOffered(t)'
  BY <1>1, <1>5, <1>7 DEF Local, LogIsOffered, c
<1>16. ~Answered(t)'
  <2>1. result[t] = NoResult /\ NoResult.kind = "none"
    BY <1>1 DEF Local, Placed, At, c, NoResult, Result
  <2>. QED  BY <1>3, <2>1 DEF Answered
<1>. QED
  BY <1>3, <1>9, <1>11, <1>12, <1>13, <1>14, <1>15, <1>16 DEF Local, Published

LEMMA ToolIsLocal ==
    ASSUME IInv, NEW t \in Threads, RunTool(t)
    PROVE  Local(t)' /\ Frame(t) /\ UNCHANGED <<posted, billed, guard>> /\ Due' = Due
<1>. DEFINE c == talk[t]
            last == Len(c.pending) = 1
            next == IF Len(c.pending) = 1 THEN "turn" ELSE "tools"
            turn == IF Len(c.pending) = 1 THEN c.turn + 1 ELSE c.turn
            entry == Execute(c.log, c.catalog, Head(c.pending))
            log == Append(c.log, entry)
            d == [c EXCEPT !.pc = next, !.turn = turn, !.pending = Tail(c.pending),
                           !.prompt = c.prompt + ResultSize, !.log = log]
<1>1. Local(t) /\ c \in Talks /\ c.pc = "tools"
  BY DEF IInv, TypeOK, RunTool, At
<1>2. /\ talk' = [talk EXCEPT ![t] = d]
      /\ asked' = asked /\ result' = result /\ posted' = posted /\ billed' = billed
      /\ guard' = guard
  BY DEF RunTool
<1>. HIDE DEF next, turn, entry, log
<1>3. /\ d.pc = next /\ d.turn = turn /\ d.turns = c.turns /\ d.log = log
      /\ d.cost = c.cost /\ d.complete = c.complete /\ d.read = c.read
      /\ d.evidence = c.evidence /\ d.catalog = c.catalog /\ d.route = c.route
      /\ d.pending = Tail(c.pending)
  BY <1>1 DEF Talks
<1>4. /\ c.turn \in Nat /\ c.turns \in Nat /\ c.log \in Seq(Entries) /\ c.pending \in Seq(Calls)
      /\ c.catalog \in SUBSET ClaimIds
  BY <1>1 DEF Talks
<1>5. /\ c.turn \in 1..(MaxModelTurns - 1) /\ c.turns = c.turn /\ c.pending # <<>>
      /\ Len(c.log) + Len(c.pending) <= MaxToolCalls
      /\ \A i \in DOMAIN c.pending : ~ReferencesARun(c.pending[i])
      /\ c.turns <= MaxModelTurns
      /\ \A i, j \in Ran(c.log) : c.log[i].name = c.log[j].name => i = j
  BY <1>1 DEF Local, Counted, At
<1>. HIDE DEF d, c
<1>6. talk'[t] = d /\ \A u \in Threads \ {t} : talk'[u] = talk[u]
  BY <1>2 DEF IInv, TypeOK
<1>7. Frame(t)
  BY <1>2, <1>6 DEF Frame
<1>8. next \in {"turn", "tools"}
  BY DEF next
<1>9. Due' = Due
  <2>1. \A u \in Threads : Due'[u] = Due[u]
    BY <1>1, <1>3, <1>6, <1>8 DEF Due, At, c
  <2>. QED  BY <2>1 DEF Due
<1>10. Placed(t)'
  BY <1>1, <1>2, <1>3, <1>6, <1>8 DEF Local, Placed, At, AgentPoints, IsAgent, c
<1>11. Head(c.pending) \in Calls
  BY <1>4, <1>5
<1>12. /\ entry \in Entries
       /\ entry.name = Head(c.pending).name
       /\ entry.claims \subseteq c.catalog
       /\ entry.status = "rejected" \/ ~WasCalled(c.log, Head(c.pending).name)
  BY <1>4, <1>11, EntryType DEF entry
<1>13. /\ log \in Seq(Entries) /\ Len(log) = Len(c.log) + 1 /\ log[Len(c.log) + 1] = entry
       /\ \A i \in DOMAIN c.log : log[i] = c.log[i]
       /\ DOMAIN log = (DOMAIN c.log) \union {Len(c.log) + 1}
       /\ Len(c.log) \in Nat
  <2>. HIDE DEF Entries
  <2>. QED  BY <1>4, <1>12 DEF log
<1>14. \A i, j \in Ran(log) : log[i].name = log[j].name => i = j
  <2>. SUFFICES ASSUME NEW i \in Ran(log), NEW j \in Ran(log), log[i].name = log[j].name, i # j
                PROVE  FALSE
    OBVIOUS
  <2>1. \A k \in Ran(log) : k \in Ran(c.log) \/ k = Len(c.log) + 1
    BY <1>13 DEF Ran
  <2>2. \A k \in Ran(c.log) : /\ log[k] = c.log[k]
                              /\ entry.status # "rejected" => c.log[k].name # entry.name
    BY <1>12, <1>13 DEF Ran, WasCalled
  <2>3. Len(c.log) + 1 \in Ran(log) => entry.status # "rejected"
    BY <1>13 DEF Ran
  <2>. QED  BY <1>5, <1>13, <2>1, <2>2, <2>3
<1>15. Counted(t)'
  <2>1. Len(Tail(c.pending)) = Len(c.pending) - 1 /\ Len(c.pending) \in Nat \ {0}
    BY <1>4, <1>5
  <2>2. Len(log) <= MaxToolCalls /\ Len(log) + Len(Tail(c.pending)) <= MaxToolCalls
    <3>. DEFINE k == Len(c.log)
                p == Len(c.pending)
                q == Len(Tail(c.pending))
                n == Len(log)
    <3>1. k + p <= MaxToolCalls /\ n = k + 1 /\ q = p - 1 /\ k \in Nat /\ p \in Nat \ {0}
      BY <1>5, <1>13, <2>1
    <3>2. MaxToolCalls \in Nat
      BY AgentAssumption
    <3>. HIDE DEF k, p, q, n
    <3>3. n <= MaxToolCalls /\ n + q <= MaxToolCalls
      BY <3>1, <3>2
    <3>. QED  BY <3>3 DEF n, q
  <2>3. next = "tools" => Tail(c.pending) # <<>> /\ turn = c.turn
    <3>1. next = "tools" => Len(c.pending) # 1 /\ turn = c.turn
      BY DEF next, turn
    <3>2. Len(<<>>) = 0
      OBVIOUS
    <3>3. Len(c.pending) # 1 => Len(Tail(c.pending)) # 0
      BY <2>1
    <3>. QED  BY <3>1, <3>2, <3>3, Zenon
  <2>4. next = "turn" => turn = c.turn + 1 /\ turn \in 1..MaxModelTurns
    <3>1. next = "turn" => turn = c.turn + 1
      BY DEF next, turn
    <3>2. c.turn + 1 \in 1..MaxModelTurns
      BY <1>5, AgentAssumption
    <3>. QED  BY <3>1, <3>2
  <2>5. \A i \in DOMAIN Tail(c.pending) : ~ReferencesARun(Tail(c.pending)[i])
    <3>1. \A i \in DOMAIN Tail(c.pending) : /\ i + 1 \in DOMAIN c.pending
                                            /\ Tail(c.pending)[i] = c.pending[i + 1]
      BY <1>4, <1>5
    <3>. QED  BY <1>5, <3>1
  <2>6. next = "turn" => c.turns = turn - 1
    BY <1>4, <1>5, <2>4
  <2>. QED
    BY <1>3, <1>5, <1>6, <1>8, <1>14, <2>2, <2>3, <2>4, <2>5, <2>6 DEF Counted, At
<1>16. Traced(t)'
  BY <1>1, <1>2, <1>3, <1>6, <1>8, <1>9 DEF Local, Traced, At, c
<1>17. HasRead(t)' /\ HasCollected(t)'
  <2>1. Chose(t) /\ c.pc \notin {"idle", "load"}
    BY <1>1 DEF Chose, AgentPoints, c
  <2>. QED  BY <1>1, <1>2, <1>3, <1>6, <2>1, SnapshotStays DEF c
<1>19. LogIsOffered(t)'
  BY <1>1, <1>3, <1>6, <1>12, <1>13 DEF Local, LogIsOffered, c
<1>20. ~Answered(t)'
  <2>1. result[t] = NoResult /\ NoResult.kind = "none"
    BY <1>1 DEF Local, Placed, At, c, NoResult, Result
  <2>. QED  BY <1>2, <2>1 DEF Answered
<1>. QED
  BY <1>2, <1>7, <1>9, <1>10, <1>15, <1>16, <1>17, <1>19, <1>20 DEF Local, Published

LEMMA SettleIsLocal ==
    ASSUME IInv, NEW t \in Threads, Settle(t)
    PROVE  Local(t)' /\ Frame(t) /\ UNCHANGED <<posted, billed>> /\ Due'[t] = 0
<1>. DEFINE c == talk[t]
            after == Recorded(c)
            calls == c.outcome.message.calls
            ids == c.outcome.message.ids
            Ends(r) == /\ talk' = [talk EXCEPT ![t] = [after EXCEPT !.pc = "done"]]
                       /\ result' = [result EXCEPT ![t] = r]
            Goes(d) == /\ d = [after EXCEPT !.pc = "tools", !.pending = calls]
                       /\ talk' = [talk EXCEPT ![t] = d]
                       /\ UNCHANGED result
            Same(d) == /\ d.turn = c.turn /\ d.turns = c.turns + 1 /\ d.log = c.log
                       /\ d.complete = (c.complete /\ c.outcome.reported)
                       /\ d.cost = c.cost + (IF c.outcome.reported THEN Cost(c, c.outcome) ELSE 0)
                       /\ d.read = c.read /\ d.evidence = c.evidence
                       /\ d.catalog = c.catalog /\ d.route = c.route
<1>1. /\ Local(t) /\ c \in Talks /\ c.pc = "settle" /\ c.outcome \in Replies
      /\ c.time < TotalTimeout
  BY DEF IInv, Local, TypeOK, Placed, Counted, Settle, At
<1>2. /\ c.turn \in 1..MaxModelTurns /\ c.turns = c.turn - 1 /\ c.turns <= MaxModelTurns
      /\ Len(c.log) <= MaxToolCalls
      /\ \A i, j \in Ran(c.log) : c.log[i].name = c.log[j].name => i = j
  BY <1>1 DEF Local, Counted, At
<1>3. asked' = asked /\ posted' = posted /\ billed' = billed
  BY DEF Settle
<1>4. IsAgent(t)
  BY <1>1 DEF Local, Placed, AgentPoints
<1>. HIDE DEF c
<1>5. c.turns \in Nat /\ c.cost \in Nat /\ c.complete \in BOOLEAN
  BY <1>1 DEF Talks
<1>6. after \in Talks /\ Same(after) /\ after.turns \in Nat \ {0}
  <2>1. /\ after \in Talks
        /\ after = [c EXCEPT !.turns = c.turns + 1, !.time = after.time,
                             !.complete = c.complete /\ c.outcome.reported,
                             !.cost = after.cost, !.outcome = NoOutcome]
        /\ after.cost = c.cost + (IF c.outcome.reported THEN Cost(c, c.outcome) ELSE 0)
    BY <1>1, RecordedType
  <2>. HIDE DEF after
  <2>2. Same(after)
    BY <1>1, <2>1 DEF Talks
  <2>. QED  BY <1>5, <2>1, <2>2
<1>7. calls \in Seq(Calls) /\ ids \in Seq(ClaimIds \union {"forged"})
  BY <1>1 DEF Replies
<1>8. /\ c.outcome.reported \in BOOLEAN /\ Cost(c, c.outcome) \in Nat
  BY <1>1, CostType DEF Replies
<1>. HIDE DEF after, calls, ids
<1>9. \A d : d \in {[after EXCEPT !.pc = "done"], [after EXCEPT !.pc = "tools", !.pending = calls]}
            => Same(d)
  BY <1>6 DEF Talks
<1>10. /\ [after EXCEPT !.pc = "done"].pc = "done"
       /\ [after EXCEPT !.pc = "tools", !.pending = calls].pc = "tools"
       /\ [after EXCEPT !.pc = "tools", !.pending = calls].pending = calls
  BY <1>6 DEF Talks
\* What holds wherever the thread goes.
<1>11. ASSUME NEW d, talk' = [talk EXCEPT ![t] = d], Same(d), d.pc \in {"tools", "done"},
              \A u \in Threads \ {t} : result'[u] = result[u]
       PROVE  /\ talk'[t] = d /\ Frame(t) /\ Due'[t] = 0
              /\ posted[t] = d.turns /\ d.cost <= billed[t]
              /\ d.complete => d.cost = billed[t]
              /\ d.turns # 0
              /\ HasRead(t)' /\ HasCollected(t)' /\ LogIsOffered(t)'
  <2>1. talk'[t] = d /\ \A u \in Threads \ {t} : talk'[u] = talk[u]
    BY <1>11 DEF IInv, TypeOK
  <2>2. Frame(t)
    BY <1>3, <1>11, <2>1 DEF Frame
  <2>3. Due'[t] = 0 /\ Due[t] = Cost(c, c.outcome)
    BY <1>1, <1>11, <2>1 DEF Due, At, c
  <2>4. /\ posted[t] = c.turns + 1
        /\ c.cost + Cost(c, c.outcome) <= billed[t]
        /\ c.complete => c.cost + Cost(c, c.outcome) = billed[t]
        /\ billed[t] \in Nat
    BY <1>1, <2>3 DEF Local, Traced, At, c, IInv, TypeOK
  <2>5. posted[t] = d.turns /\ d.cost <= billed[t] /\ (d.complete => d.cost = billed[t])
    BY <1>5, <1>8, <1>11, <2>4
  <2>6. d.turns # 0
    BY <1>5, <1>11
  <2>7. HasRead(t)' /\ HasCollected(t)'
    <3>1. Chose(t) /\ c.pc \notin {"idle", "load"}
      BY <1>1 DEF Chose, AgentPoints, c
    <3>. QED  BY <1>1, <1>3, <1>11, <2>1, <3>1, SnapshotStays DEF c
  <2>8. LogIsOffered(t)'
    BY <1>1, <1>11, <2>1 DEF Local, LogIsOffered, c
  <2>. QED  BY <2>1, <2>2, <2>3, <2>5, <2>6, <2>7, <2>8
<1>12. ASSUME NEW r \in Results, Ends(r), r.kind # "none", r.mode # "not_invoked",
              r.kind = "answered" =>
                  \E selection \in Seq(ClaimIds \union {"forged"}) :
                      Answers(after, selection, r) /\ Ids(selection) \subseteq Retrieved(after.log)
       PROVE  Local(t)' /\ Frame(t) /\ Due'[t] = 0
  <2>. DEFINE d == [after EXCEPT !.pc = "done"]
  <2>1. talk' = [talk EXCEPT ![t] = d] /\ Same(d) /\ d.pc = "done"
    BY <1>9, <1>10, <1>12
  <2>2. result'[t] = r /\ \A u \in Threads \ {t} : result'[u] = result[u]
    BY <1>12 DEF IInv, TypeOK
  <2>3. /\ d.evidence = after.evidence /\ d.catalog = after.catalog
        /\ d.route = after.route /\ d.log = after.log
    BY <1>6, <2>1
  <2>. HIDE DEF d
  <2>4. /\ talk'[t] = d /\ Frame(t) /\ Due'[t] = 0
        /\ posted[t] = d.turns /\ d.cost <= billed[t]
        /\ d.complete => d.cost = billed[t]
        /\ d.turns # 0
        /\ HasRead(t)' /\ HasCollected(t)' /\ LogIsOffered(t)'
    <3>. HIDE DEF Same
    <3>. QED  BY <1>11, <2>1, <2>2
  <2>5. Placed(t)'
    BY <1>1, <1>3, <1>12, <2>1, <2>2, <2>4 DEF Local, Placed, At, AgentPoints, IsAgent, c
  <2>6. Counted(t)'
    <3>1. d.turns <= MaxModelTurns
      <4>1. d.turns = c.turns + 1
        BY <2>1
      <4>. QED  BY <1>2, <1>5, <4>1, AgentAssumption
    <3>2. talk'[t] = d /\ d.pc = "done" /\ d.log = c.log
      BY <2>1, <2>4
    <3>. QED  BY <1>2, <3>1, <3>2 DEF Counted, At
  <2>7. Traced(t)'
    <3>1. d.cost + 0 = d.cost /\ d.turns + 0 = d.turns
      BY <1>5, <1>8, <2>1
    <3>. QED  BY <1>3, <1>12, <2>1, <2>2, <2>4, <3>1 DEF Traced, At
  <2>8. Published(t)'
    <3>1. ASSUME Answered(t)'
          PROVE  \E selection \in Seq(ClaimIds \union {"forged"}) : Publishes(t, selection)'
      <4>1. r.kind = "answered"
        BY <2>2, <3>1 DEF Answered
      <4>2. PICK selection \in Seq(ClaimIds \union {"forged"}) :
                    Answers(after, selection, r) /\ Ids(selection) \subseteq Retrieved(after.log)
        BY <1>12, <4>1
      <4>3. Publishes(t, selection)'
        BY <2>2, <2>3, <2>4, <4>2, Zenon DEF Publishes, Answers, Cited
      <4>. QED  BY <4>3
    <3>. QED  BY <3>1, Zenon DEF Published
  <2>. QED  BY <2>4, <2>5, <2>6, <2>7, <2>8 DEF Local
<1>13. ASSUME NEW d, Goes(d), calls # <<>>, Refusal(c, calls) = "none"
       PROVE  Local(t)' /\ Frame(t) /\ Due'[t] = 0
  <2>1. talk' = [talk EXCEPT ![t] = d] /\ Same(d) /\ d.pc = "tools" /\ d.pending = calls
    BY <1>9, <1>10, <1>13
  <2>2. result' = result
    BY <1>13
  <2>3. /\ talk'[t] = d /\ Frame(t) /\ Due'[t] = 0
        /\ posted[t] = d.turns /\ d.cost <= billed[t]
        /\ d.complete => d.cost = billed[t]
        /\ HasRead(t)' /\ HasCollected(t)' /\ LogIsOffered(t)'
    <3>. HIDE DEF Same
    <3>. QED  BY <1>11, <2>1, <2>2
  <2>4. Placed(t)'
    BY <1>1, <1>3, <1>4, <2>1, <2>2, <2>3 DEF Local, Placed, At, AgentPoints, IsAgent, c
  <2>5. Counted(t)'
    <3>1. /\ \A i \in DOMAIN calls : ~ReferencesARun(calls[i])
          /\ ~(Len(c.log) + Len(calls) > MaxToolCalls)
          /\ c.turn # MaxModelTurns
      BY <1>13 DEF Refusal
    <3>2. c.turn \in 1..(MaxModelTurns - 1) /\ d.turns = c.turn /\ d.turns <= MaxModelTurns
      <4>1. d.turns = c.turns + 1
        BY <2>1
      <4>2. MaxModelTurns \in Nat
        BY AgentAssumption
      <4>3. c.turn \in Nat /\ c.turn >= 1 /\ c.turn <= MaxModelTurns /\ c.turn # MaxModelTurns
        BY <1>2, <3>1, <4>2
      <4>. QED  BY <1>2, <4>1, <4>2, <4>3
    <3>3. Len(c.log) + Len(calls) <= MaxToolCalls
      <4>1. Len(c.log) \in Nat /\ Len(calls) \in Nat /\ MaxToolCalls \in Nat
        BY <1>1, <1>7, AgentAssumption DEF Talks
      <4>. DEFINE k == Len(c.log)
                  n == Len(calls)
      <4>2. ~(k + n > MaxToolCalls)
        BY <3>1
      <4>. HIDE DEF k, n
      <4>3. k \in Nat /\ n \in Nat => k + n <= MaxToolCalls
        BY <4>1, <4>2
      <4>. QED  BY <4>1, <4>3 DEF k, n
    <3>4. talk'[t] = d /\ d.pc = "tools" /\ d.log = c.log /\ d.turn = c.turn /\ d.pending = calls
      BY <2>1, <2>3
    <3>5. calls # <<>>
      BY <1>13
    <3>. HIDE DEF Same, Goes
    <3>. QED  BY <1>2, <3>1, <3>2, <3>3, <3>4, <3>5 DEF Counted, At
  <2>6. Traced(t)'
    <3>1. d.cost + 0 = d.cost /\ d.turns + 0 = d.turns
      BY <1>5, <1>8, <2>1
    <3>. QED  BY <1>3, <2>1, <2>3, <3>1 DEF Traced, At
  <2>7. ~Answered(t)'
    <3>1. result[t] = NoResult /\ NoResult.kind = "none"
      BY <1>1 DEF Local, Placed, At, c, NoResult, Result
    <3>. QED  BY <2>2, <3>1 DEF Answered
  <2>. QED  BY <2>3, <2>4, <2>5, <2>6, <2>7 DEF Local, Published
<1>14. /\ Failed(after.turns, StopOfOutcome(c)) \in Results
       /\ Failed(after.turns, StopOfOutcome(c)).kind = "unavailable"
       /\ Failed(after.turns, StopOfOutcome(c)).mode # "not_invoked"
  <2>1. StopOfOutcome(c) \in Reasons
    BY StopType DEF Reasons
  <2>. QED  BY <1>6, <2>1, PlainResults
<1>15. LET r == [Failed(after.turns, Refusal(c, calls)) EXCEPT !.refused = Len(calls)] IN
       r \in Results /\ r.kind = "unavailable" /\ r.mode # "not_invoked"
  <2>1. Refusal(c, calls) \in Reasons
    BY DEF Refusal, Reasons
  <2>2. /\ Failed(after.turns, Refusal(c, calls)) \in Results
        /\ Failed(after.turns, Refusal(c, calls)).kind = "unavailable"
        /\ Failed(after.turns, Refusal(c, calls)).mode # "not_invoked"
    BY <1>6, <2>1, PlainResults
  <2>3. Len(calls) \in Nat
    BY <1>7
  <2>. HIDE DEF ClaimIds, Reasons
  <2>. QED  BY <2>2, <2>3 DEF Results
<1>16. /\ Ground(after, ids) \in Results
       /\ Ground(after, ids).kind # "none"
       /\ Ground(after, ids).mode # "not_invoked"
       /\ Ground(after, ids).kind = "answered" =>
             Answers(after, ids, Ground(after, ids)) /\ Ids(ids) \subseteq Retrieved(after.log)
  BY <1>6, <1>7, GroundedResult
<1>17. \/ Ends(Failed(after.turns, StopOfOutcome(c)))
       \/ Ends(Ground(after, ids))
       \/ Ends([Failed(after.turns, Refusal(c, calls)) EXCEPT !.refused = Len(calls)])
       \/ /\ calls # <<>> /\ Refusal(c, calls) = "none"
          /\ Goes([after EXCEPT !.pc = "tools", !.pending = calls])
  BY Zenon DEF Settle, c, after, calls, ids
<1>. HIDE DEF Ends, Goes, Same
<1>18. CASE Ends(Failed(after.turns, StopOfOutcome(c)))
  BY <1>3, <1>12, <1>14, <1>18
<1>19. CASE Ends(Ground(after, ids))
  BY <1>3, <1>7, <1>12, <1>16, <1>19
<1>20. CASE Ends([Failed(after.turns, Refusal(c, calls)) EXCEPT !.refused = Len(calls)])
  BY <1>3, <1>12, <1>15, <1>20
<1>21. CASE /\ calls # <<>> /\ Refusal(c, calls) = "none"
            /\ Goes([after EXCEPT !.pc = "tools", !.pending = calls])
  BY <1>3, <1>13, <1>21
<1>. QED  BY <1>17, <1>18, <1>19, <1>20, <1>21

\* Every step keeps what the invariant says of each thread.
LEMMA LocalStep ==
    ASSUME IInv, [Next]_vars, NEW u \in Threads
    PROVE  Local(u)'
<1>1. ASSUME NEW t \in Threads, Local(t)', Frame(t)
      PROVE  Local(u)'
  BY <1>1, KeptIsLocal DEF Frame, Still, Unpaid
<1>2. CASE UNCHANGED vars
  BY <1>2, KeptIsLocal DEF vars, Still, Unpaid
<1>3. ASSUME NEW t \in Threads, NEW a \in Artifacts, Damage(t, a)
      PROVE  Local(u)'
  BY <1>3, KeptIsLocal DEF Damage, Still, Unpaid
<1>. QED
  BY <1>1, <1>2, <1>3, LoadIsLocal, CollectIsLocal, ExplainIsLocal, BeginIsLocal,
     NotConfiguredIsLocal, ExchangeIsLocal, ToolIsLocal, SettleIsLocal
     DEF Next, Step

(***************************************************************************)
(* The budget                                                              *)
(***************************************************************************)

LEMMA FundTypes ==
    ASSUME IInv, [Next]_vars
    PROVE  /\ Held \in [Threads -> Nat] /\ Held' \in [Threads -> Nat]
           /\ Due \in [Threads -> Nat] /\ Due' \in [Threads -> Nat]
           /\ posted \in [Threads -> Nat] /\ posted' \in [Threads -> Nat]
           /\ billed \in [Threads -> Nat] /\ billed' \in [Threads -> Nat]
           /\ guard.sent \in Nat /\ guard.spent \in Nat /\ guard.reserved \in Nat
           /\ IsFiniteSet(Threads) /\ {MaxRequests, MaxCost} \subseteq Nat
<1>1. TypeOK /\ TypeOK' /\ \A t \in Threads : Placed(t) /\ Placed(t)'
  BY TypeStep, LocalStep DEF IInv, Local
<1>2. \A c \in Talks : c.worst \in Nat
  BY DEF Talks
<1>. HIDE DEF Talks
<1>3. Held \in [Threads -> Nat] /\ Held' \in [Threads -> Nat]
  BY <1>1, <1>2 DEF Held, TypeOK
<1>4. Due \in [Threads -> Nat]
  <2>1. \A t \in Threads : At(t, "settle") => Cost(talk[t], talk[t].outcome) \in Nat
    BY <1>1, CostType DEF TypeOK, Placed
  <2>. QED  BY <2>1 DEF Due
<1>5. Due' \in [Threads -> Nat]
  <2>1. \A t \in Threads : At(t, "settle")' => Cost(talk'[t], talk'[t].outcome) \in Nat
    BY <1>1, CostType DEF TypeOK, Placed
  <2>. QED  BY <2>1 DEF Due
<1>. QED  BY <1>1, <1>3, <1>4, <1>5, AgentAssumption, BudgetAssumption DEF TypeOK, Guards

\* Steps of a thread that neither reserve nor send.
LEMMA QuietIsFunded ==
    ASSUME IInv, UNCHANGED <<guard, posted, billed>>, Due' = Due,
           NEW t \in Threads, Frame(t),
           talk[t].pc \notin {"call", "settle"}, talk'[t].pc \notin {"call", "settle"}
    PROVE  Funded'
<1>1. \A u \in Threads : u # t => talk'[u] = talk[u]
  BY DEF Frame
<1>2. Held' = Held
  BY <1>1 DEF Held
<1>3. Admitted' = Admitted
  BY <1>1 DEF Admitted, At
<1>4. \A u \in Threads : talk'[u].pc \in {"call", "settle"} => talk'[u].worst # 0
  BY <1>1 DEF IInv, Funded
<1>. QED  BY <1>2, <1>3, <1>4 DEF IInv, Funded

LEMMA BeginIsFunded ==
    ASSUME IInv, [Next]_vars, NEW t \in Threads, BeginTurn(t)
    PROVE  Funded'
<1>. DEFINE c == talk[t]
            worst == WorstCase(c.prompt, c.turn)
<1>1. talk[t].pc = "turn"
  <2>1. At(t, "turn")
    BY Zenon DEF BeginTurn
  <2>. QED  BY <2>1 DEF At
<1>2. Frame(t) /\ posted' = posted /\ billed' = billed /\ Due' = Due
  BY BeginIsLocal
<1>3. \/ guard' = guard /\ \E r : End(t, r)
      \/ /\ Admissible(guard, worst)
         /\ guard' = Admit(guard, worst)
         /\ talk' = [talk EXCEPT ![t].pc = "call", ![t].worst = worst]
  BY Zenon DEF BeginTurn
<1>4. CASE guard' = guard /\ \E r : End(t, r)
  <2>1. talk'[t].pc = "done"
    BY <1>4 DEF End, IInv, TypeOK, Talks
  <2>. QED  BY <1>1, <1>2, <1>4, <2>1, QuietIsFunded
<1>5. CASE /\ Admissible(guard, worst)
           /\ guard' = Admit(guard, worst)
           /\ talk' = [talk EXCEPT ![t].pc = "call", ![t].worst = worst]
  <2>1. worst \in Nat \ {0}
    <3>1. c \in Talks
      BY DEF IInv, TypeOK
    <3>2. Counted(t)
      BY DEF IInv, Local
    <3>3. c.turn \in 1..MaxModelTurns
      BY <1>1, <3>2, Zenon DEF Counted
    <3>4. c.turn # 0
      BY <3>3
    <3>. QED  BY <3>1, <3>4, WorstType
  <2>. HIDE DEF worst
  <2>2. talk'[t].pc = "call" /\ talk'[t].worst = worst
    BY <1>5 DEF IInv, TypeOK, Talks
  <2>3. \A u \in Threads : u # t => talk'[u] = talk[u]
    BY <1>2 DEF Frame
  <2>4. Held[t] = 0 /\ Held'[t] = worst /\ \A u \in Threads \ {t} : Held'[u] = Held[u]
    BY <1>1, <2>2, <2>3 DEF Held
  <2>5. Sum(Held', Threads) = Sum(Held, Threads) + worst
    <3>1. Sum(Held', Threads) = Sum(Held, Threads) - Held[t] + Held'[t]
      BY <2>4, FundTypes, SumChanges
    <3>2. Sum(Held, Threads) \in Nat
      BY FundTypes, SumIsNatural
    <3>. QED  BY <2>1, <2>4, <3>1, <3>2
  <2>6. Admitted' = Admitted \union {t} /\ t \notin Admitted
    BY <1>1, <2>2, <2>3 DEF Admitted, At
  <2>7. Cardinality(Admitted)' = Cardinality(Admitted) + 1 /\ Cardinality(Admitted) \in Nat
    <3>1. IsFiniteSet(Admitted) /\ Cardinality(Admitted) \in Nat
      BY AdmittedIsFinite DEF Admitted
    <3>. QED  BY <2>6, <3>1, FS_AddElement
  <2>8. \A u \in Threads : talk'[u].pc \in {"call", "settle"} => talk'[u].worst # 0
    BY <2>1, <2>2, <2>3 DEF IInv, Funded
  <2>9. /\ guard'.sent = guard.sent + 1 /\ guard'.spent = guard.spent
        /\ guard'.reserved = guard.reserved + worst
        /\ guard.sent < MaxRequests /\ guard.spent + guard.reserved + worst <= MaxCost
    BY <1>5 DEF Admit, Admissible, IInv, TypeOK, Guards
  <2>10. guard'.sent <= MaxRequests /\ guard'.spent + guard'.reserved <= MaxCost
    BY <2>1, <2>9, FundTypes
  <2>11. guard'.sent = Sum(posted, Threads) + Cardinality(Admitted)'
    <3>1. guard.sent = Sum(posted, Threads) + Cardinality(Admitted) /\ Sum(posted, Threads) \in Nat
      BY FundTypes, SumIsNatural DEF IInv, Funded
    <3>. QED  BY <2>7, <2>9, <3>1
  <2>12. Sum(billed, Threads) <= guard.spent + Sum(Due, Threads)
    BY DEF IInv, Funded
  <2>13. guard'.reserved = Sum(Held', Threads)
    BY <2>5, <2>9 DEF IInv, Funded
  <2>. QED  BY <1>2, <2>8, <2>9, <2>10, <2>11, <2>12, <2>13 DEF Funded
<1>. QED  BY <1>3, <1>4, <1>5

LEMMA NotConfiguredIsFunded ==
    ASSUME IInv, [Next]_vars, NEW t \in Threads, NotConfigured(t)
    PROVE  Funded'
<1>. DEFINE worst == talk[t].worst
<1>1. talk[t].pc = "call" /\ worst \in Nat
  BY DEF NotConfigured, At, IInv, TypeOK, Talks
<1>2. Frame(t) /\ posted' = posted /\ billed' = billed /\ Due' = Due
  BY NotConfiguredIsLocal
<1>3. talk'[t].pc = "done"
  BY DEF NotConfigured, End, IInv, TypeOK, Talks
<1>4. \A u \in Threads : u # t => talk'[u] = talk[u]
  BY <1>2 DEF Frame
<1>. HIDE DEF worst
<1>5. Held[t] = worst /\ Held'[t] = 0 /\ \A u \in Threads \ {t} : Held'[u] = Held[u]
  BY <1>1, <1>3, <1>4 DEF Held, worst
<1>6. /\ Sum(Held', Threads) = Sum(Held, Threads) - worst
      /\ Sum(Held', Threads) \in Nat /\ Sum(Held, Threads) \in Nat
  <2>1. Sum(Held', Threads) = Sum(Held, Threads) - Held[t] + Held'[t]
    BY <1>5, FundTypes, SumChanges
  <2>2. Sum(Held, Threads) \in Nat /\ Sum(Held', Threads) \in Nat
    BY FundTypes, SumIsNatural
  <2>. QED  BY <1>1, <1>5, <2>1, <2>2
<1>7. Admitted' = Admitted \ {t} /\ t \in Admitted
  BY <1>1, <1>3, <1>4 DEF Admitted, At
<1>8. Cardinality(Admitted)' = Cardinality(Admitted) - 1 /\ Cardinality(Admitted) \in Nat
  <2>1. IsFiniteSet(Admitted) /\ Cardinality(Admitted) \in Nat
    BY AdmittedIsFinite DEF Admitted
  <2>. QED  BY <1>7, <2>1, FS_RemoveElement
<1>9. \A u \in Threads : talk'[u].pc \in {"call", "settle"} => talk'[u].worst # 0
  BY <1>3, <1>4 DEF IInv, Funded
<1>10. /\ guard'.sent = guard.sent - 1 /\ guard'.spent = guard.spent
       /\ guard'.reserved = Unreserved(guard.reserved, worst)
  BY DEF NotConfigured, Release, IInv, TypeOK, Guards, worst
<1>11. /\ guard.sent <= MaxRequests /\ guard.spent + guard.reserved <= MaxCost
       /\ guard.reserved = Sum(Held, Threads)
       /\ guard.sent = Sum(posted, Threads) + Cardinality(Admitted)
       /\ Sum(billed, Threads) <= guard.spent + Sum(Due, Threads)
       /\ Sum(posted, Threads) \in Nat
  BY FundTypes, SumIsNatural DEF IInv, Funded
<1>12. guard'.reserved = Sum(Held', Threads) /\ guard'.reserved <= guard.reserved
  BY <1>1, <1>6, <1>10, <1>11 DEF Unreserved
<1>13. guard'.sent <= MaxRequests /\ guard'.spent + guard'.reserved <= MaxCost
  BY <1>6, <1>10, <1>11, <1>12, FundTypes
<1>14. guard'.sent = Sum(posted, Threads) + Cardinality(Admitted)'
  BY <1>8, <1>10, <1>11
<1>. QED  BY <1>2, <1>9, <1>10, <1>11, <1>12, <1>13, <1>14 DEF Funded

LEMMA ExchangeIsFunded ==
    ASSUME IInv, [Next]_vars, NEW t \in Threads, Exchange(t)
    PROVE  Funded'
<1>1. talk[t].pc = "call" /\ Frame(t) /\ guard' = guard
  BY ExchangeIsLocal DEF Exchange, At
<1>2. PICK reply \in Replies :
          /\ talk' = [talk EXCEPT ![t].pc = "settle", ![t].outcome = reply]
          /\ billed' = [billed EXCEPT ![t] = @ + Cost(talk[t], reply)]
  BY AskOf DEF Exchange, At
<1>3. talk'[t].pc = "settle" /\ talk'[t].worst = talk[t].worst /\ talk'[t].outcome = reply
  BY <1>2 DEF IInv, TypeOK, Talks
<1>4. \A u \in Threads : u # t => talk'[u] = talk[u]
  BY <1>1 DEF Frame
<1>5. Held' = Held
  BY <1>1, <1>3, <1>4 DEF Held
<1>6. Due[t] = 0 /\ Due'[t] = Cost(talk[t], reply) /\ \A u \in Threads \ {t} : Due'[u] = Due[u]
  BY <1>1, <1>3, <1>4 DEF Due, At, Cost
<1>7. Cost(talk[t], reply) \in Nat
  BY CostType DEF IInv, TypeOK
<1>8. /\ billed'[t] = billed[t] + Cost(talk[t], reply)
      /\ posted'[t] = posted[t] + 1
      /\ \A u \in Threads \ {t} : billed'[u] = billed[u] /\ posted'[u] = posted[u]
  BY <1>2 DEF Exchange, IInv, TypeOK
<1>. DEFINE cost == Cost(talk[t], reply)
<1>. HIDE DEF cost
<1>9. /\ Sum(Due', Threads) = Sum(Due, Threads) + cost
      /\ Sum(billed', Threads) = Sum(billed, Threads) + cost
      /\ Sum(posted', Threads) = Sum(posted, Threads) + 1
      /\ Sum(posted, Threads) \in Nat /\ Sum(billed, Threads) \in Nat
      /\ Sum(Due, Threads) \in Nat
  <2>1. /\ Sum(Due', Threads) = Sum(Due, Threads) - Due[t] + Due'[t]
        /\ Sum(billed', Threads) = Sum(billed, Threads) - billed[t] + billed'[t]
        /\ Sum(posted', Threads) = Sum(posted, Threads) - posted[t] + posted'[t]
    BY <1>6, <1>8, FundTypes, SumChanges
  <2>2. /\ Sum(posted, Threads) \in Nat /\ Sum(billed, Threads) \in Nat
        /\ Sum(Due, Threads) \in Nat
    BY FundTypes, SumIsNatural
  <2>3. billed[t] \in Nat /\ posted[t] \in Nat
    BY FundTypes
  <2>. QED  BY <1>6, <1>7, <1>8, <2>1, <2>2, <2>3 DEF cost
<1>10. Admitted' = Admitted \ {t} /\ t \in Admitted
  BY <1>1, <1>3, <1>4 DEF Admitted, At
<1>11. Cardinality(Admitted)' = Cardinality(Admitted) - 1 /\ Cardinality(Admitted) \in Nat
  <2>1. IsFiniteSet(Admitted) /\ Cardinality(Admitted) \in Nat
    BY AdmittedIsFinite DEF Admitted
  <2>. QED  BY <1>10, <2>1, FS_RemoveElement
<1>12. \A u \in Threads : talk'[u].pc \in {"call", "settle"} => talk'[u].worst # 0
  BY <1>1, <1>3, <1>4 DEF IInv, Funded
<1>13. guard.sent = Sum(posted', Threads) + Cardinality(Admitted)'
  <2>1. guard.sent = Sum(posted, Threads) + Cardinality(Admitted)
    BY DEF IInv, Funded
  <2>. QED  BY <1>9, <1>11, <2>1
<1>14. Sum(billed', Threads) <= guard.spent + Sum(Due', Threads)
  <2>1. Sum(billed, Threads) <= guard.spent + Sum(Due, Threads) /\ guard.spent \in Nat /\ cost \in Nat
    BY <1>7, FundTypes DEF IInv, Funded, cost
  <2>. QED  BY <1>9, <2>1
<1>. QED  BY <1>1, <1>5, <1>12, <1>13, <1>14 DEF IInv, Funded

LEMMA SettleIsFunded ==
    ASSUME IInv, [Next]_vars, NEW t \in Threads, Settle(t)
    PROVE  Funded'
<1>. DEFINE c == talk[t]
            worst == talk[t].worst
            cost == Cost(talk[t], talk[t].outcome)
<1>1. /\ c \in Talks /\ c.pc = "settle" /\ c.outcome \in Replies /\ c.time < TotalTimeout
      /\ worst # 0
  BY DEF IInv, Local, TypeOK, Placed, Counted, Settle, At, Funded
<1>2. worst \in Nat /\ cost \in Nat /\ cost <= worst /\ c.outcome.reported \in BOOLEAN
  BY <1>1, CostType DEF Talks, Replies
<1>3. Frame(t) /\ posted' = posted /\ billed' = billed /\ Due'[t] = 0
  BY SettleIsLocal
<1>4. \A u \in Threads : u # t => talk'[u] = talk[u]
  BY <1>3 DEF Frame
<1>5. talk'[t].pc \in {"done", "tools"}
  <2>1. \/ talk' = [talk EXCEPT ![t] = [Recorded(c) EXCEPT !.pc = "done"]]
        \/ talk' = [talk EXCEPT ![t] = [Recorded(c) EXCEPT !.pc = "tools",
                                                           !.pending = c.outcome.message.calls]]
    BY Zenon DEF Settle
  <2>2. Recorded(c) \in Talks
    BY <1>1, RecordedType
  <2>3. /\ [Recorded(c) EXCEPT !.pc = "done"].pc = "done"
        /\ [Recorded(c) EXCEPT !.pc = "tools", !.pending = c.outcome.message.calls].pc = "tools"
    BY <2>2 DEF Talks
  <2>. QED  BY <2>1, <2>3 DEF IInv, TypeOK
<1>6. guard' = Charge(guard, worst, c.outcome.reported, cost)
  BY DEF Settle
<1>7. Held[t] = worst /\ Held'[t] = 0 /\ \A u \in Threads \ {t} : Held'[u] = Held[u]
  BY <1>1, <1>4, <1>5 DEF Held
<1>8. Due[t] = cost /\ Due'[t] = 0 /\ \A u \in Threads \ {t} : Due'[u] = Due[u]
  BY <1>1, <1>3, <1>4 DEF Due, At
<1>9. Admitted' = Admitted
  BY <1>1, <1>4, <1>5 DEF Admitted, At
<1>10. \A u \in Threads : talk'[u].pc \in {"call", "settle"} => talk'[u].worst # 0
  BY <1>4, <1>5 DEF IInv, Funded
<1>. DEFINE reported == c.outcome.reported
<1>. HIDE DEF c, worst, cost, reported
<1>11. /\ guard'.sent = guard.sent
       /\ guard'.spent = guard.spent + (IF reported THEN cost ELSE worst)
       /\ guard'.reserved = Unreserved(guard.reserved, worst)
  BY <1>6 DEF Charge, IInv, TypeOK, Guards, reported
<1>12. /\ Sum(Held', Threads) = Sum(Held, Threads) - worst
       /\ Sum(Due', Threads) = Sum(Due, Threads) - cost
       /\ Sum(Held', Threads) \in Nat /\ Sum(Held, Threads) \in Nat
       /\ Sum(Due', Threads) \in Nat /\ Sum(Due, Threads) \in Nat
       /\ Sum(billed, Threads) \in Nat
  <2>1. /\ Sum(Held', Threads) = Sum(Held, Threads) - Held[t] + Held'[t]
        /\ Sum(Due', Threads) = Sum(Due, Threads) - Due[t] + Due'[t]
    BY <1>7, <1>8, FundTypes, SumChanges
  <2>2. /\ Sum(Held, Threads) \in Nat /\ Sum(Held', Threads) \in Nat
        /\ Sum(Due, Threads) \in Nat /\ Sum(Due', Threads) \in Nat
        /\ Sum(billed, Threads) \in Nat
    BY FundTypes, SumIsNatural
  <2>. QED  BY <1>2, <1>7, <1>8, <2>1, <2>2
<1>13. /\ guard.sent <= MaxRequests /\ guard.spent + guard.reserved <= MaxCost
       /\ guard.reserved = Sum(Held, Threads)
       /\ guard.sent = Sum(posted, Threads) + Cardinality(Admitted)
       /\ Sum(billed, Threads) <= guard.spent + Sum(Due, Threads)
  BY DEF IInv, Funded
<1>14. guard'.reserved = Sum(Held', Threads) /\ guard'.reserved = guard.reserved - worst
  BY <1>2, <1>11, <1>12, <1>13 DEF Unreserved
<1>15. guard'.spent + guard'.reserved <= MaxCost
  BY <1>2, <1>11, <1>12, <1>13, <1>14, FundTypes
<1>16. Sum(billed, Threads) <= guard'.spent + Sum(Due', Threads)
  BY <1>2, <1>11, <1>12, <1>13, FundTypes
<1>. QED  BY <1>3, <1>9, <1>10, <1>11, <1>13, <1>14, <1>15, <1>16 DEF Funded

LEMMA FundedStep ==
    ASSUME IInv, [Next]_vars
    PROVE  Funded'
<1>1. CASE UNCHANGED vars
  BY <1>1 DEF vars, IInv, Funded, Held, Due, Admitted, At
<1>2. ASSUME NEW t \in Threads, Load(t)
      PROVE  Funded'
  <2>1. talk[t].pc = "load" /\ talk'[t].pc = "collect"
    BY <1>2 DEF Load, At, IInv, TypeOK, Talks
  <2>. QED  BY <1>2, <2>1, LoadIsLocal, QuietIsFunded
<1>3. ASSUME NEW t \in Threads, Collect(t)
      PROVE  Funded'
  <2>1. talk[t].pc = "collect"
    BY <1>3 DEF Collect, At
  <2>2. \/ \E r : End(t, r)
        \/ \E evidence, route, catalog : talk' = [talk EXCEPT
               ![t].pc = IF IsAgent(t) THEN "turn" ELSE "select", ![t].turn = 1,
               ![t].evidence = evidence, ![t].route = route, ![t].catalog = catalog]
    BY <1>3, Zenon DEF Collect
  <2>3. ASSUME NEW r, End(t, r)
        PROVE  talk'[t].pc = "done"
    BY <2>3 DEF End, IInv, TypeOK, Talks
  <2>4. ASSUME NEW evidence, NEW route, NEW catalog,
               talk' = [talk EXCEPT
                   ![t].pc = IF IsAgent(t) THEN "turn" ELSE "select", ![t].turn = 1,
                   ![t].evidence = evidence, ![t].route = route, ![t].catalog = catalog]
        PROVE  talk'[t].pc \in {"turn", "select"}
    <3>. DEFINE c == talk[t]
                next == IF IsAgent(t) THEN "turn" ELSE "select"
                d == [c EXCEPT !.pc = next, !.turn = 1, !.evidence = evidence,
                               !.route = route, !.catalog = catalog]
    <3>1. c \in Talks /\ talk' = [talk EXCEPT ![t] = d]
      BY <2>4 DEF IInv, TypeOK
    <3>2. d.pc \in {"turn", "select"}
      BY <3>1 DEF Talks
    <3>. HIDE DEF d
    <3>. QED  BY <3>1, <3>2 DEF IInv, TypeOK
  <2>5. talk'[t].pc \in {"done", "turn", "select"}
    BY <2>2, <2>3, <2>4
  <2>. QED  BY <1>3, <2>1, <2>5, CollectIsLocal, QuietIsFunded
<1>4. ASSUME NEW t \in Threads, Explain(t) \/ ExplainFails(t)
      PROVE  Funded'
  <2>1. talk[t].pc = "select" /\ \E r : End(t, r)
    BY <1>4 DEF Explain, ExplainFails, At
  <2>2. talk'[t].pc = "done"
    BY <2>1 DEF End, IInv, TypeOK, Talks
  <2>. QED  BY <1>4, <2>1, <2>2, ExplainIsLocal, QuietIsFunded
<1>5. ASSUME NEW t \in Threads, RunTool(t)
      PROVE  Funded'
  <2>1. talk[t].pc = "tools" /\ talk'[t].pc \in {"turn", "tools"}
    BY <1>5 DEF RunTool, At, IInv, TypeOK, Talks
  <2>. QED  BY <1>5, <2>1, ToolIsLocal, QuietIsFunded
<1>6. ASSUME NEW t \in Threads, NEW a \in Artifacts, Damage(t, a)
      PROVE  Funded'
  <2>1. talk[t].pc \in {"load", "collect"} /\ UNCHANGED <<asked, talk, guard, result, posted, billed>>
    BY <1>6 DEF Damage
  <2>2. Due' = Due /\ Frame(t)
    BY <2>1 DEF Due, At, Frame
  <2>. QED  BY <2>1, <2>2, QuietIsFunded
<1>. QED
  BY <1>1, <1>2, <1>3, <1>4, <1>5, <1>6, BeginIsFunded, NotConfiguredIsFunded,
     ExchangeIsFunded, SettleIsFunded DEF Next, Step

(***************************************************************************)
(* The invariant is inductive                                              *)
(***************************************************************************)

LEMMA InitIsSafe ==
    ASSUME Init
    PROVE  IInv
<1>1. /\ Start.pc = "load" /\ Start.turns = 0 /\ Start.log = <<>> /\ Start.cost = 0
      /\ Idle.pc = "idle" /\ Idle.turns = 0 /\ Idle.log = <<>> /\ Idle.cost = 0
  BY DEF Start, Idle
<1>2. Start \in Talks /\ Idle \in Talks
  <2>1. Start \in Talks
    <3>1. /\ None \in Reads \union {None} /\ NoEvidence \in Snapshots \union {NoEvidence}
          /\ NoOutcome \in Replies \union {NoOutcome}
          /\ <<>> \in Seq(Calls) /\ <<>> \in Seq(Entries) /\ Unsupported \in Routes
          /\ {} \in SUBSET ClaimIds
      BY RouteType
    <3>. HIDE DEF Replies, Snapshots, Reads, Routes, Entries, Calls, ClaimIds, NoEvidence,
                  NoOutcome, Unsupported
    <3>. QED  BY <3>1 DEF Start, Talks, Points
  <2>. HIDE DEF Replies, Snapshots, Reads, Routes, Entries, Calls, ClaimIds, Start
  <2>. QED  BY <2>1 DEF Idle, Talks, Points
<1>3. /\ asked \in [Threads -> Asks \union {NotAsked}]
      /\ \A t \in Threads : /\ talk[t] = IF asked[t] = NotAsked THEN Idle ELSE Start
                            /\ result[t] = NoResult /\ posted[t] = 0 /\ billed[t] = 0
  BY AgentAssumption DEF Init
<1>4. NoResult \in Results /\ NoResult.kind = "none"
  BY PlainResults DEF NoResult, Result
<1>5. guard \in Guards /\ guard.sent = 0 /\ guard.spent = 0 /\ guard.reserved = 0
  BY DEF Init, Guards, FullBudget
<1>6. TypeOK
  <2>. HIDE DEF Talks, Results, Guards, Asks
  <2>1. talk \in [Threads -> Talks]
    BY <1>2 DEF Init
  <2>. QED  BY <1>3, <1>4, <1>5, <2>1 DEF Init, TypeOK
<1>7. \A t \in Threads : talk[t].pc \in {"idle", "load"}
  BY <1>1, <1>3
<1>8. ASSUME NEW t \in Threads
      PROVE  Local(t)
  <2>1. talk[t] \in {Start, Idle} /\ (talk[t].pc = "idle" <=> asked[t] = NotAsked)
    BY <1>1, <1>3
  <2>2. talk[t].turns = 0 /\ talk[t].log = <<>> /\ talk[t].cost = 0
    BY <1>1, <2>1
  <2>3. Placed(t)
    BY <1>3, <1>7, <2>1, <2>2 DEF Placed, At, AgentPoints
  <2>4. Counted(t)
    <3>1. Len(<<>>) = 0 /\ \A log : log = <<>> => Ran(log) = {}
      BY DEF Ran
    <3>. QED  BY <1>7, <2>2, <3>1, AgentAssumption DEF Counted, At
  <2>5. Due[t] = 0
    BY <1>7 DEF Due, At
  <2>6. Traced(t)
    BY <1>3, <1>7, <2>2, <2>5 DEF Traced, At
  <2>7. ~Chose(t) /\ ~Answered(t)
    BY <1>3, <1>4, <1>7 DEF Chose, AgentPoints, Answered
  <2>8. LogIsOffered(t)
    BY <2>2 DEF LogIsOffered
  <2>. QED
    BY <1>7, <2>3, <2>4, <2>6, <2>7, <2>8 DEF Local, HasRead, HasCollected, Published
<1>9. Funded
  <2>1. /\ Held \in [Threads -> Nat] /\ \A t \in Threads : Held[t] = 0
        /\ Due \in [Threads -> Nat] /\ \A t \in Threads : Due[t] = 0
    BY <1>7 DEF Held, Due, At
  <2>2. /\ posted \in [Threads -> Nat] /\ billed \in [Threads -> Nat] /\ IsFiniteSet(Threads)
    BY <1>6, AgentAssumption DEF TypeOK
  <2>3. /\ Sum(Held, Threads) = 0 /\ Sum(Due, Threads) = 0
        /\ Sum(posted, Threads) = 0 /\ Sum(billed, Threads) = 0
    BY <1>3, <2>1, <2>2, SumOfZeros
  <2>4. Cardinality(Admitted) = 0
    <3>1. Admitted = {}
      BY <1>7 DEF Admitted, At
    <3>. QED  BY <3>1, FS_EmptySet
  <2>5. MaxRequests \in Nat /\ MaxCost \in Nat
    BY BudgetAssumption
  <2>. QED  BY <1>5, <1>7, <2>3, <2>4, <2>5 DEF Funded
<1>. QED  BY <1>6, <1>8, <1>9 DEF IInv

LEMMA StepIsSafe ==
    ASSUME IInv, [Next]_vars
    PROVE  IInv'
BY TypeStep, LocalStep, FundedStep DEF IInv

LEMMA Safe == Spec => []IInv
BY InitIsSafe, StepIsSafe, PTL DEF Spec

(***************************************************************************)
(* The properties                                                          *)
(***************************************************************************)

LEMMA IInvImpliesSpending ==
    ASSUME IInv
    PROVE  SpendingIsBounded
<1>. DEFINE open == Admitted \union Settling
<1>1. /\ Held \in [Threads -> Nat] /\ Worst \in [Threads -> Nat]
      /\ Due \in [Threads -> Nat]
      /\ posted \in [Threads -> Nat] /\ billed \in [Threads -> Nat]
      /\ guard.sent \in Nat /\ guard.spent \in Nat /\ guard.reserved \in Nat
      /\ IsFiniteSet(Threads) /\ MaxRequests \in Nat /\ MaxCost \in Nat
  <2>1. talk \in [Threads -> Talks] /\ \A c \in Talks : c.worst \in Nat
    BY DEF IInv, TypeOK, Talks
  <2>. HIDE DEF Talks
  <2>2. Held \in [Threads -> Nat] /\ Worst \in [Threads -> Nat]
    BY <2>1 DEF Held, Worst
  <2>3. \A t \in Threads : At(t, "settle") => Cost(talk[t], talk[t].outcome) \in Nat
    BY <2>1, CostType DEF IInv, Local, Placed
  <2>4. Due \in [Threads -> Nat]
    BY <2>3 DEF Due
  <2>. QED  BY <2>2, <2>4, AgentAssumption, BudgetAssumption DEF IInv, TypeOK, Guards
<1>2. open \in SUBSET Threads /\ Settling \in SUBSET Threads
  BY DEF Admitted, Settling
<1>3. /\ \A t \in open : Held[t] = Worst[t]
      /\ \A t \in Threads \ open : Held[t] = 0
      /\ \A t \in Threads \ Settling : Due[t] = 0
  BY DEF Held, Worst, Due, Admitted, Settling, At
<1>4. \A t \in Settling : Due[t] <= Worst[t] /\ t \in open
  <2>. TAKE t \in Settling
  <2>1. t \in Threads /\ talk[t].pc = "settle"
    BY DEF Settling, At
  <2>2. talk[t] \in Talks /\ talk[t].outcome \in Replies /\ talk[t].worst # 0
    BY <2>1 DEF IInv, TypeOK, Local, Placed, At, Funded
  <2>3. Cost(talk[t], talk[t].outcome) <= talk[t].worst
    BY <2>2, CostType
  <2>. QED  BY <2>1, <2>3 DEF Due, Worst, At
<1>5. guard.reserved = Sum(Worst, open)
  <2>1. Sum(Held, Threads) = Sum(Held, open)
    BY <1>1, <1>2, <1>3, SumOfPart
  <2>2. Sum(Held, open) = Sum(Worst, open)
    <3>. HIDE DEF open
    <3>. QED  BY <1>1, <1>2, <1>3, FS_Subset, SumIsLocal
  <2>. QED  BY <2>1, <2>2 DEF IInv, Funded
<1>6. Sum(Due, Threads) <= Sum(Worst, Settling)
  <2>1. Sum(Due, Threads) = Sum(Due, Settling)
    BY <1>1, <1>2, <1>3, SumOfPart
  <2>2. Sum(Due, Settling) <= Sum(Worst, Settling)
    BY <1>1, <1>2, <1>4, SumIsMonotone
  <2>. QED  BY <2>1, <2>2
<1>7. Sum(Due, Threads) <= Sum(Held, Threads)
  <2>1. \A t \in Threads : Due[t] <= Held[t]
    <3>. TAKE t \in Threads
    <3>1. CASE t \in Settling
      BY <1>3, <1>4, <3>1
    <3>2. CASE t \notin Settling
      BY <1>1, <1>3, <3>2
    <3>. QED  BY <3>1, <3>2
  <2>. QED  BY <1>1, <2>1, SumIsMonotone
<1>8. /\ Sum(billed, Threads) <= guard.spent + Sum(Due, Threads)
      /\ guard.reserved = Sum(Held, Threads)
      /\ guard.spent + guard.reserved <= MaxCost
      /\ guard.sent <= MaxRequests
      /\ guard.sent = Sum(posted, Threads) + Cardinality(Admitted)
  BY DEF IInv, Funded
<1>9. /\ Sum(billed, Threads) \in Nat /\ Sum(Due, Threads) \in Nat
      /\ Sum(Held, Threads) \in Nat /\ Sum(posted, Threads) \in Nat
      /\ Sum(Worst, Settling) \in Nat /\ Cardinality(Admitted) \in Nat
  BY <1>1, <1>2, SumIsNatural, AdmittedIsFinite DEF Admitted
<1>10. Sum(billed, Threads) <= MaxCost
  BY <1>1, <1>7, <1>8, <1>9
<1>11. Sum(posted, Threads) <= MaxRequests
  BY <1>1, <1>8, <1>9
<1>12. Sum(billed, Threads) <= guard.spent + Sum(Worst, Settling)
  BY <1>1, <1>6, <1>8, <1>9
<1>. QED  BY <1>5, <1>8, <1>10, <1>11, <1>12 DEF SpendingIsBounded

LEMMA IInvImpliesTrace ==
    ASSUME IInv
    PROVE  TraceTellsWhatWasSent
<1>. SUFFICES ASSUME NEW t \in Threads, At(t, "done"), IsAgent(t)
              PROVE  /\ talk[t].turns = posted[t]
                     /\ result[t].mode = "not_invoked" <=> posted[t] = 0
                     /\ talk[t].cost <= billed[t]
                     /\ talk[t].complete => talk[t].cost = billed[t]
  BY DEF TraceTellsWhatWasSent
<1>1. Due[t] = 0 /\ ~At(t, "settle")
  BY DEF Due, At
<1>2. talk[t].turns \in Nat /\ talk[t].cost \in Nat
  BY DEF IInv, TypeOK, Talks
<1>3. Traced(t)
  BY DEF IInv, Local
<1>. QED  BY <1>1, <1>2, <1>3 DEF Traced

LEMMA IInvImpliesLimits ==
    ASSUME IInv
    PROVE  LimitsHold
<1>. SUFFICES ASSUME NEW t \in Threads
              PROVE  LET c == talk[t] IN
                     /\ posted[t] <= MaxModelTurns
                     /\ Len(c.log) <= MaxToolCalls
                     /\ \A i, j \in Ran(c.log) : c.log[i].name = c.log[j].name => i = j
                     /\ At(t, "tools") => c.turn < MaxModelTurns
                     /\ At(t, "tools") => \A i \in DOMAIN c.pending : ~ReferencesARun(c.pending[i])
                     /\ At(t, "call") => c.time < TotalTimeout /\ c.prompt <= MaxPromptChars
  BY DEF LimitsHold
<1>. DEFINE c == talk[t]
<1>1. Counted(t) /\ Traced(t) /\ c \in Talks
  BY DEF IInv, Local, TypeOK
<1>2. MaxModelTurns \in Nat
  BY AgentAssumption
<1>3. c.turns \in Nat /\ c.turn \in Nat
  BY <1>1 DEF Talks
<1>. HIDE DEF c
<1>4. posted[t] <= MaxModelTurns
  <2>1. CASE At(t, "settle")
    <3>1. c.turn \in 1..MaxModelTurns /\ c.turns = c.turn - 1 /\ posted[t] = c.turns + 1
      BY <1>1, <2>1 DEF Counted, Traced, At, c
    <3>. QED  BY <1>2, <1>3, <3>1
  <2>2. CASE ~At(t, "settle")
    <3>1. c.turns <= MaxModelTurns /\ posted[t] = c.turns + 0
      BY <1>1, <2>2 DEF Counted, Traced, c
    <3>. QED  BY <1>2, <1>3, <3>1
  <2>. QED  BY <2>1, <2>2
<1>5. At(t, "tools") => c.turn < MaxModelTurns
  <2>1. At(t, "tools") => c.turn \in 1..(MaxModelTurns - 1)
    BY <1>1 DEF Counted, c
  <2>. QED  BY <1>2, <1>3, <2>1
<1>6. /\ Len(c.log) <= MaxToolCalls
      /\ \A i, j \in Ran(c.log) : c.log[i].name = c.log[j].name => i = j
      /\ At(t, "tools") => \A i \in DOMAIN c.pending : ~ReferencesARun(c.pending[i])
      /\ At(t, "call") => c.time < TotalTimeout /\ c.prompt <= MaxPromptChars
  BY <1>1 DEF Counted, At, c
<1>. QED  BY <1>4, <1>5, <1>6 DEF c

\* What the evidence of a run holds once the two looks were taken.
Seen(t) ==
    LET e == talk[t].evidence
        run == RunOf(t)
    IN
    /\ e.nature = OutputNature(run, e.diagnostics)
    /\ e.missing = (e.diagnostics = None)
    /\ DOMAIN e.verified = Registered(run)
    /\ e.declared = IF run.diagnostics = None THEN None ELSE run.diagnostics.declared
    /\ e.diagnostics # None =>
          /\ Diagnostics \in Registered(run)
          /\ run.diagnostics # None
          /\ run.diagnostics.declared \in {None, e.diagnostics.schema}
          /\ e.diagnostics.schema = RealSchema => run.payload.core
    /\ talk[t].catalog = Eligible(BuildCatalog(e), talk[t].route)

LEMMA ChoseHasSeen ==
    ASSUME IInv, NEW t \in Threads, Chose(t)
    PROVE  Seen(t)
<1>. DEFINE e == talk[t].evidence
            run == RunOf(t)
            read == talk[t].read
<1>1. Local(t)
  BY DEF IInv
<1>2. talk[t].pc \notin {"idle", "load"}
  <2>1. Answered(t) => talk[t].pc = "done"
    BY <1>1 DEF Local, Placed, Answered, At, NoResult, Result
  <2>. QED  BY <2>1 DEF Chose, AgentPoints
<1>3. PICK first \in SUBSET Registered(run) : read = LoadDiagnostics(run, first)
  BY <1>1, <1>2 DEF Local, HasRead
<1>4. PICK second \in SUBSET Registered(run) : e = BuildEvidence(run, read, second)
  BY <1>1 DEF Local, HasCollected
<1>5. talk[t].catalog = Eligible(BuildCatalog(e), talk[t].route)
  BY <1>1 DEF Local, HasCollected
<1>. HIDE DEF e, run, read
<1>6. /\ e.nature = OutputNature(run, read) /\ e.diagnostics = read
      /\ e.missing = (read = None)
      /\ DOMAIN e.verified = Registered(run)
      /\ e.declared = IF run.diagnostics = None THEN None ELSE run.diagnostics.declared
  BY <1>4 DEF BuildEvidence
<1>7. ASSUME read # None
      PROVE  /\ Diagnostics \in Registered(run)
             /\ run.diagnostics # None
             /\ run.diagnostics.declared \in {None, read.schema}
             /\ read.schema = RealSchema => run.payload.core
  <2>1. Acceptable(run, first)
    BY <1>3, <1>7 DEF LoadDiagnostics
  <2>2. run.diagnostics # None /\ Diagnostics \in Registered(run)
    BY <2>1 DEF Acceptable, Registered
  <2>3. /\ read = IF run.payload.schema = RealSchema THEN ApprovedReal(run.payload)
                  ELSE ApprovedSynthetic(run.payload)
        /\ run.payload.schema \in {RealSchema, SyntheticSchema}
        /\ run.diagnostics.declared \in {None, run.payload.schema}
    BY <1>3, <2>1 DEF LoadDiagnostics, Acceptable
  <2>4. CASE run.payload.schema = RealSchema
    <3>1. read.schema = RealSchema /\ run.payload.core
      BY <1>7, <2>3, <2>4 DEF ApprovedReal
    <3>. QED  BY <2>2, <2>3, <2>4, <3>1
  <2>5. CASE run.payload.schema # RealSchema
    <3>1. read.schema = SyntheticSchema /\ run.payload.schema = SyntheticSchema
      BY <2>3, <2>5 DEF ApprovedSynthetic
    <3>. QED  BY <2>2, <2>3, <3>1 DEF RealSchema, SyntheticSchema
  <2>. QED  BY <2>3, <2>4, <2>5
<1>. QED  BY <1>5, <1>6, <1>7, Zenon DEF Seen, e, run

LEMMA IInvImpliesRetrieved ==
    ASSUME IInv
    PROVE  OnlyRetrievedIsShown
<1>. SUFFICES ASSUME NEW t \in Threads, Answered(t), IsAgent(t)
              PROVE  /\ result[t].shown \subseteq Retrieved(talk[t].log) \union {Label}
                     /\ result[t].selected \subseteq Retrieved(talk[t].log)
                     /\ Retrieved(talk[t].log) \subseteq talk[t].catalog
  BY DEF OnlyRetrievedIsShown
<1>1. Local(t) /\ talk[t] \in Talks
  BY DEF IInv, TypeOK
<1>2. PICK selection \in Seq(ClaimIds \union {"forged"}) : Publishes(t, selection)
  BY <1>1 DEF Local, Published
<1>3. selection \in Seq(ClaimIds)
  BY <1>1, <1>2, AnswerShows DEF Publishes
<1>4. result[t].shown \subseteq {Label} \union Ids(selection)
  BY <1>2, <1>3, RenderingIsFaithful DEF Publishes, ClaimsToRender
<1>5. Ids(selection) \subseteq Retrieved(talk[t].log) /\ result[t].selected = Ids(selection)
  BY <1>2 DEF Publishes
<1>6. Retrieved(talk[t].log) \subseteq talk[t].catalog
  BY <1>1 DEF Local, LogIsOffered, Retrieved
<1>. QED  BY <1>4, <1>5, <1>6

\* The claims of the diagnostics are not among those of the manifest.
LEMMA ManifestIsNoDiagnostic ==
    ASSUME NEW e
    PROVE  /\ ManifestIds(e) \intersect DiagnosticClaims = {}
           /\ "missing_evidence" \in ManifestIds(e) <=> e.missing
           /\ "no_missing_evidence" \in ManifestIds(e) <=> ~e.missing /\ NothingIsMissing(e)
<1>1. ManifestIds(e) \subseteq {Label, "run_status", "provenance", "model_references",
          "artifact_integrity", "boundaries", "model_details", "source_duration",
          "missing_evidence", "no_missing_evidence"}
  BY DEF ManifestIds
<1>2. DiagnosticClaims \intersect {Label, "run_status", "provenance", "model_references",
          "artifact_integrity", "boundaries", "model_details", "source_duration",
          "missing_evidence", "no_missing_evidence"} = {}
  BY DEF DiagnosticClaims, ReliabilityClaims, TrackCountClaims, Label
<1>3. /\ "missing_evidence" \in ManifestIds(e) <=> e.missing
      /\ "no_missing_evidence" \in ManifestIds(e) <=> ~e.missing /\ NothingIsMissing(e)
  BY DEF ManifestIds, Label
<1>. QED  BY <1>1, <1>2, <1>3

LEMMA DiagnosticsAreDiagnostic ==
    ASSUME NEW read
    PROVE  DiagnosticIdsOf(read) \subseteq DiagnosticClaims
BY DEF DiagnosticIdsOf, DiagnosticClaims, ReliabilityClaims, TrackCountClaims, MeasureClaim

\* A citation of the diagnostics that is valid vouches for the artifact.
LEMMA CitedIsVerified ==
    ASSUME NEW e, NEW fields, NEW citations, CiteDiagnostics(e, fields) # {},
           CiteDiagnostics(e, fields) \subseteq citations, ValidCitations(e, citations)
    PROVE  e.verified[Diagnostics]
<1>1. PICK x \in CiteDiagnostics(e, fields) : x.artifact = Diagnostics
  BY DEF CiteDiagnostics
<1>2. Diagnostics # None
  BY EvidenceAssumption DEF Diagnostics
<1>. QED  BY <1>1, <1>2 DEF ValidCitations

LEMMA IInvImpliesGrounding ==
    ASSUME IInv
    PROVE  AnswersAreGrounded
<1>. SUFFICES ASSUME NEW t \in Threads, Answered(t)
              PROVE  LET shown == result[t].shown
                         evidence == talk[t].evidence
                     IN
                     /\ Label \in shown
                     /\ shown \intersect talk[t].route.claims # {}
                     /\ ~({"missing_evidence", "no_missing_evidence"} \subseteq shown)
                     /\ "no_missing_evidence" \in shown => AllVerified(evidence)
                     /\ shown \intersect DiagnosticClaims # {} \/ evidence.nature = "verified_real" =>
                           evidence.diagnostics # None /\ evidence.verified[Diagnostics]
                     /\ evidence.nature = "verified_real" =>
                           RunOf(t).profile = "v1_compat" /\ RunOf(t).payload.core
  BY DEF AnswersAreGrounded
<1>. DEFINE c == talk[t]
            e == talk[t].evidence
            run == RunOf(t)
            shown == result[t].shown
<1>1. Local(t) /\ c \in Talks
  BY DEF IInv, TypeOK
<1>2. PICK selection \in Seq(ClaimIds \union {"forged"}) : Publishes(t, selection)
  BY <1>1 DEF Local, Published
<1>3. selection \in Seq(ClaimIds)
  BY <1>1, <1>2, AnswerShows DEF Publishes
<1>4. Seen(t)
  BY ChoseHasSeen DEF Chose
<1>5. /\ e.nature = OutputNature(run, e.diagnostics)
      /\ e.missing = (e.diagnostics = None)
      /\ e.diagnostics # None => /\ e.diagnostics.schema = RealSchema => run.payload.core
      /\ c.catalog = Eligible(BuildCatalog(e), c.route)
  BY <1>4 DEF Seen
<1>6. /\ shown = ClaimsToRender(c.catalog, selection, c.route) /\ shown # {}
      /\ Ids(selection) \subseteq c.catalog
      /\ ValidCitations(e, RenderedCitations(e, shown))
  BY <1>2 DEF Publishes, Cited
<1>. HIDE DEF c, e, run, shown
<1>7. shown = Rendered(selection) /\ CanAnswer(Ids(selection), c.route) /\ Label \in c.catalog
  BY <1>6 DEF ClaimsToRender
<1>8. /\ shown \subseteq {Label} \union Ids(selection) /\ Label \in shown
      /\ shown = {Label} => Ids(selection) \subseteq {Label}
  BY <1>3, <1>7, RenderingIsFaithful
<1>9. shown \subseteq c.catalog
  BY <1>6, <1>7, <1>8
<1>10. c.catalog = BuildCatalog(e) \intersect (c.route.claims \union {Label})
  BY <1>5 DEF Eligible
<1>11. shown \intersect c.route.claims # {}
  <2>1. CASE shown = {Label}
    BY <1>7, <1>8, <2>1 DEF CanAnswer
  <2>2. CASE shown # {Label}
    <3>1. PICK x \in shown : x # Label
      BY <1>8, <2>2
    <3>. QED  BY <1>9, <1>10, <3>1
  <2>. QED  BY <2>1, <2>2
<1>12. \A x \in shown : /\ x \in ManifestIds(e) \/ (e.diagnostics # None /\ x \in DiagnosticClaims)
                        /\ Citations(e, x) # {}
                        /\ Citations(e, x) \subseteq RenderedCitations(e, shown)
  <2>1. \A x \in BuildCatalog(e) :
            /\ x \in ManifestIds(e) \/ (e.diagnostics # None /\ x \in DiagnosticIdsOf(e.diagnostics))
            /\ Citations(e, x) # {}
    BY DEF BuildCatalog
  <2>2. \A x \in shown : Citations(e, x) \subseteq RenderedCitations(e, shown)
    BY DEF RenderedCitations
  <2>. QED  BY <1>9, <1>10, <2>1, <2>2, DiagnosticsAreDiagnostic
<1>13. "missing_evidence" \notin DiagnosticClaims /\ "no_missing_evidence" \notin DiagnosticClaims
  BY DEF DiagnosticClaims, ReliabilityClaims, TrackCountClaims
<1>14. /\ "missing_evidence" \in shown => e.missing
       /\ "no_missing_evidence" \in shown => ~e.missing /\ NothingIsMissing(e)
  BY <1>12, <1>13, ManifestIsNoDiagnostic
<1>15. "no_missing_evidence" \in shown => AllVerified(e)
  BY <1>14 DEF NothingIsMissing
<1>16. e.nature = "verified_real" => IsVerifiedReal(run, e.diagnostics)
  BY <1>5 DEF OutputNature
<1>17. e.nature = "verified_real" =>
          /\ run.profile = "v1_compat" /\ e.diagnostics # None /\ run.payload.core
  BY <1>5, <1>16 DEF IsVerifiedReal
<1>18. ASSUME shown \intersect DiagnosticClaims # {}
       PROVE  e.diagnostics # None /\ e.verified[Diagnostics]
  <2>1. PICK x \in shown : x \in DiagnosticClaims
    BY <1>18
  <2>2. x \notin ManifestIds(e) /\ e.diagnostics # None
    BY <1>12, <2>1, ManifestIsNoDiagnostic
  <2>3. Citations(e, x) = CiteDiagnostics(e, FieldsOf(e.diagnostics, x))
    BY <2>2 DEF Citations
  <2>. QED  BY <1>6, <1>12, <2>2, <2>3, CitedIsVerified
<1>19. ASSUME e.nature = "verified_real"
       PROVE  e.diagnostics # None /\ e.verified[Diagnostics]
  <2>1. e.diagnostics # None
    BY <1>17, <1>19
  <2>2. Label \in ManifestIds(e)
    BY DEF ManifestIds
  <2>3. CiteDiagnostics(e, {"schema"}) \subseteq Citations(e, Label)
    BY <1>19, <2>2 DEF Citations, ManifestCitations
  <2>4. <<"diagnostics", "schema">> \in FieldPaths(e)
    <3>1. <<"diagnostics", "schema">> \in
              {<<"diagnostics", f>> : f \in
                     {"schema"}
                     \union (IF e.diagnostics.schema = RealSchema THEN {"counts"} ELSE {})
                     \union (IF e.diagnostics.quality # "absent" THEN {"quality"} ELSE {})
                     \union {m \in Measures : e.diagnostics.measure[m] # "absent"}
                     \union (IF e.diagnostics.interpretation # "absent" THEN {"interpretation"} ELSE {})
                     \union (IF e.diagnostics.truth # "absent" THEN {"truth"} ELSE {})
                     \union (IF e.diagnostics.legacy THEN {"legacy"} ELSE {})}
      OBVIOUS
    <3>. QED  BY <2>1, <3>1, Zenon DEF FieldPaths
  <2>5. CiteDiagnostics(e, {"schema"}) # {}
    BY <2>4 DEF CiteDiagnostics
  <2>6. CiteDiagnostics(e, {"schema"}) \subseteq RenderedCitations(e, shown)
    BY <1>8, <1>12, <2>3
  <2>. QED  BY <1>6, <2>1, <2>5, <2>6, CitedIsVerified
<1>20. ~({"missing_evidence", "no_missing_evidence"} \subseteq shown)
  BY <1>14
<1>. QED
  BY <1>8, <1>11, <1>15, <1>17, <1>18, <1>19, <1>20, Zenon DEF c, e, run, shown

LEMMA IInvImpliesCitable ==
    ASSUME IInv
    PROVE  OfferedIsCitable
<1>. SUFFICES ASSUME NEW t \in Threads, talk[t].pc \in {"select", "turn"},
                     talk[t].evidence.diagnostics # None =>
                         /\ talk[t].evidence.declared # None
                         /\ talk[t].evidence.verified[Diagnostics]
              PROVE  Cited(talk[t], talk[t].catalog)
  BY DEF OfferedIsCitable, At
<1>. DEFINE c == talk[t]
            e == talk[t].evidence
            run == RunOf(t)
<1>1. Seen(t)
  BY ChoseHasSeen DEF Chose, AgentPoints
<1>2. /\ e.nature = OutputNature(run, e.diagnostics)
      /\ DOMAIN e.verified = Registered(run)
      /\ e.declared = IF run.diagnostics = None THEN None ELSE run.diagnostics.declared
      /\ e.diagnostics # None =>
            /\ Diagnostics \in Registered(run)
            /\ run.diagnostics # None
            /\ run.diagnostics.declared \in {None, e.diagnostics.schema}
      /\ c.catalog = Eligible(BuildCatalog(e), c.route)
  BY <1>1 DEF Seen
<1>3. e.diagnostics # None => e.declared # None /\ e.verified[Diagnostics]
  OBVIOUS
<1>. HIDE DEF c, e, run
<1>. DEFINE Resolves(x) ==
                /\ x.path \in FieldPaths(e)
                /\ x.artifact # None =>
                      /\ x.artifact \in DOMAIN e.verified
                      /\ e.verified[x.artifact]
                      /\ x.schema \in {None, e.declared}
<1>4. \A paths : \A x \in Cite(e, paths) : Resolves(x)
  BY DEF Cite
<1>5. e.diagnostics # None => \A fields : \A x \in CiteDiagnostics(e, fields) : Resolves(x)
  <2>. SUFFICES ASSUME e.diagnostics # None, NEW fields, NEW x \in CiteDiagnostics(e, fields)
                PROVE  Resolves(x)
    OBVIOUS
  <2>1. x.path \in FieldPaths(e) /\ x.artifact = Diagnostics /\ x.schema = e.diagnostics.schema
    BY DEF CiteDiagnostics
  <2>2. e.declared = e.diagnostics.schema
    BY <1>2, <1>3
  <2>. QED  BY <1>2, <1>3, <2>1, <2>2
<1>6. ASSUME NEW id \in c.catalog, NEW x \in Citations(e, id)
      PROVE  Resolves(x)
  <2>1. id \in ManifestIds(e) \/ e.diagnostics # None
    BY <1>2 DEF Eligible, BuildCatalog
  <2>2. CASE id \notin ManifestIds(e)
    <3>1. x \in CiteDiagnostics(e, FieldsOf(e.diagnostics, id))
      BY <1>6, <2>2 DEF Citations
    <3>. HIDE DEF Resolves
    <3>. QED  BY <1>5, <2>1, <2>2, <3>1
  <2>3. CASE id \in ManifestIds(e)
    <3>1. \/ x \in Cite(e, ManifestPaths(e, id))
          \/ /\ (id = Label /\ e.nature = "verified_real") \/ id = "no_missing_evidence"
             /\ x \in CiteDiagnostics(e, {"schema"})
      BY <1>6, <2>3 DEF Citations, ManifestCitations
    <3>2. e.nature = "verified_real" => e.diagnostics # None
      BY <1>2 DEF OutputNature, IsVerifiedReal
    <3>3. id = "no_missing_evidence" => e.diagnostics # None
      BY <2>3, ManifestIsNoDiagnostic DEF NothingIsMissing
    <3>. HIDE DEF Resolves
    <3>. QED  BY <1>4, <1>5, <3>1, <3>2, <3>3
  <2>. QED  BY <2>2, <2>3
<1>7. \A x \in RenderedCitations(e, c.catalog) : Resolves(x)
  <2>. HIDE DEF Resolves
  <2>. QED  BY <1>6 DEF RenderedCitations
<1>8. ValidCitations(e, RenderedCitations(e, c.catalog))
  BY <1>7, Zenon DEF ValidCitations
<1>. QED  BY <1>8 DEF Cited, c, e

(***************************************************************************)
(* The theorems                                                            *)
(***************************************************************************)

\* The provider never bills the questions of a process more than its budget, nor
\* is it sent more requests than allowed, however many threads ask at once and
\* whatever becomes of the replies (copilot/budget.py, agent/loop.py).
THEOREM SpendingBounded == Spec => []SpendingIsBounded
BY Safe, IInvImpliesSpending, PTL

\* An agent's answer shows nothing but the label and claims a tool returned for
\* its question, and those were all offered to it (agent/loop.py, grounding).
THEOREM RetrievedOnly == Spec => []OnlyRetrievedIsShown
BY Safe, IInvImpliesRetrieved, PTL

\* An answer says what kind of output it is about and something the question was
\* routed to, it is not of two minds about missing evidence, and what it says of
\* the diagnostics was read from bytes that matched the manifest
\* (copilot/evidence.py, grounding.py).
THEOREM AnswersGrounded == Spec => []AnswersAreGrounded
BY Safe, IInvImpliesGrounding, PTL

\* Whatever of the offered catalog is selected can be cited: no honest selection
\* is rejected, when the diagnostics are registered with their schema and stay
\* intact (copilot/grounding.py).
THEOREM OfferedCitable == Spec => []OfferedIsCitable
BY Safe, IInvImpliesCitable, PTL

\* The trace of a question counts the requests that were sent and their cost, and
\* never says that no model was invoked when one was (agent/trace.py).
THEOREM TraceTrue == Spec => []TraceTellsWhatWasSent
BY Safe, IInvImpliesTrace, PTL

\* The limits of a question hold whatever the model asks for (agent/loop.py,
\* agent/tools.py).
THEOREM LimitsKept == Spec => []LimitsHold
BY Safe, IInvImpliesLimits, PTL
=============================================================================
