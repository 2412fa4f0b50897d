------------------------- MODULE IdentityEvaluation -------------------------
(***************************************************************************)
(* What the evaluation of an artifact counts against a ground truth        *)
(* (execution/ai2c/evaluation.py, ai2a/model.py).                          *)
(*                                                                         *)
(* A truth annotates some tracklets with a player, a team, a role and how  *)
(* sure the annotator is.  A scope is a set of players, None when there    *)
(* is none.  Rates are left out: they divide the counts below.             *)
(***************************************************************************)
EXTENDS IdentityArtifact

Annotation(players) ==
    [player : players \union {None}, team : Teams \union {None},
     role : {"player", "official", None}, status : {"confirmed", "uncertain", "unknown"}]

IsAnnotation(note) ==
    /\ note.status = "confirmed" => note.player # None
    /\ note.status = "unknown" => note.player = None

IsTruth(truth, players) ==
    /\ DOMAIN truth \subseteq Tracklets
    /\ \A t \in DOMAIN truth : truth[t] \in Annotation(players) /\ IsAnnotation(truth[t])

\* The tracklets that are scored: those of the confirmed players in scope.
Labelled(truth, scope) ==
    {t \in DOMAIN truth : truth[t].status = "confirmed"
                          /\ (scope = None \/ truth[t].player \in scope)}

PlayersOf(truth, tracklets) == {truth[t].player : t \in tracklets}

\* An evaluation that is refused: another input, a tracklet the identities lack,
\* a scope that names a player nobody labelled.
IsEvaluable(s, truth, scope) ==
    /\ s.kind # "legacy"
    /\ DOMAIN truth \subseteq s.present
    /\ scope # None => scope \subseteq PlayersOf(truth, Labelled(truth, scope))

\* Mutant: two tracklets without an identity have the same one.
MutantPredictedSame(a, x, y) == a.assignment[x].identity = a.assignment[y].identity

PredictedSame(a, x, y) == Together(a, x, y)

Judge(a, truth, pair) ==
    LET x == CHOOSE t \in pair : TRUE
        y == CHOOSE t \in pair : t # x
        same == PredictedSame(a, x, y)
    IN IF truth[x].player = truth[y].player
       THEN IF same THEN "true_positive" ELSE "false_negative"
       ELSE IF same THEN "false_positive" ELSE "true_negative"

\* The units that a labelled player is left in.
Units(a, tracklets) ==
    {IF a.assignment[t].identity = {} THEN {t} ELSE a.assignment[t].identity : t \in tracklets}

Merged(a, truth) ==
    {p \in Pairs(DOMAIN truth) : \A x, y \in p : x # y => PredictedSame(a, x, y)}

Evaluation(s, a, truth, scope) ==
    LET labelled == Labelled(truth, scope)
        of(kind) == {p \in Pairs(labelled) : Judge(a, truth, p) = kind}
        inScope == {p \in Merged(a, truth) : p \intersect labelled # {}}
        values(p, field) == {truth[t][field] : t \in p}
        named == {t \in labelled : a.assignment[t].identity # {}}
        members(identity) == {t \in labelled : a.assignment[t].identity = identity}
    IN [truePositive |-> of("true_positive"), falsePositive |-> of("false_positive"),
        falseNegative |-> of("false_negative"),
        crossTeam |->
            {p \in IF scope = None THEN Merged(a, truth) ELSE inScope :
                Cardinality(values(p, "team") \ {None}) = 2},
        contamination |-> {p \in inScope : values(p, "role") = {"player", "official"}},
        uncertain |->
            {p \in IF scope = None THEN Merged(a, truth) ELSE inScope :
                /\ "uncertain" \in values(p, "status")
                /\ Cardinality(values(p, "player") \ {None}) = 2},
        contaminated |->
            {i \in {a.assignment[t].identity : t \in named} :
                Cardinality(PlayersOf(truth, members(i))) > 1},
        unitsBefore |-> Cardinality(labelled),
        unitsAfter |->
            Cardinality(UNION {{<<player, unit>> :
                                   unit \in Units(a, {t \in labelled : truth[t].player = player})} :
                               player \in PlayersOf(truth, labelled)}),
        unresolved |-> {t \in labelled : a.assignment[t].status = "unresolved"}]

=============================================================================
