-------------------------- MODULE IdentityResolver --------------------------
(***************************************************************************)
(* A reviewer's log grows and the offline resolver reads it                *)
(* (execution/ai2c/resolver.py, cli.py): human links first, then automatic *)
(* proposals one by one, each checked against every member of the two      *)
(* groups it would join, and the artifact that results.                    *)
(***************************************************************************)
EXTENDS IdentityEvaluation

CONSTANTS
    Scenes,      \* the inputs that are resolved
    Drafts,      \* what a reviewer may decide: [action, tracklets, revokes]
    Requests,    \* the calls of resolve_identities
    Players, Truths, Scopes,  \* the ground truths an artifact is evaluated against
    Margin,      \* min_ambiguity_margin, in the unit of the costs
    MaxLog       \* bound on the entries of the log

Modes == {"review_only", "temporal_only", "temporal_kinematic"}

Request ==
    [mode : Modes,
     corrections : BOOLEAN,  \* a log is given
     cited : 0..2,           \* corrections evidence inputs
     known : BOOLEAN,        \* the evidence names tracklets of the input only
     digest : BOOLEAN,       \* the cited SHA-256 is that of the canonical log
     pinned : BOOLEAN]       \* the log names the checksum of these tracklets

ASSUME ResolverAssumption ==
    /\ \A s \in Scenes : IsScene(s)
    /\ Drafts \subseteq Entries
    /\ Requests \subseteq Request
    /\ None \notin Players
    /\ \A truth \in Truths : IsTruth(truth, Players)
    /\ Scopes \subseteq (SUBSET Players) \union {None}
    /\ Margin \in Nat
    /\ MaxLog \in Nat

VARIABLES
    log,         \* the corrections file
    scene,       \* the tracklets and the evidence
    phase,       \* where resolve_identities stands
    mode,        \* the mode of the call
    given,       \* whether the call has a log, cited with its digest
    used,        \* the corrections of the call; <<>> when it has none
    todo,        \* the live must-links not yet looked at
    groups,      \* _Groups: the eligible tracklets, partitioned
    links,       \* the links made
    redundant,   \* must-links whose tracklets were one identity already
    proposals,   \* the candidates still to be merged
    abstained,   \* the tracklets of the abstentions
    artifact     \* what the call returned

work == <<mode, given, used, todo, groups, links, redundant, proposals, abstained>>
vars == <<log, scene, phase, work, artifact>>

Over == {"done", "rejected", "crashed", "invalid"}

(***************************************************************************)
(* Groups                                                                  *)
(***************************************************************************)

GroupOf(t) == CHOOSE g \in groups : t \in g

SameIdentity(x, y) == GroupOf(x) = GroupOf(y)

\* Only the two tracklets are checked, not the groups they bring along.
MutantMayJoin(x, y, human) == ~Violation(scene, used, x, y, human)

\* Every member of one group may live with every member of the other.
MayJoin(x, y, human) ==
    \A p \in GroupOf(x), q \in GroupOf(y) : ~Violation(scene, used, p, q, human)

Joined(x, y) ==
    (groups \ {GroupOf(x), GroupOf(y)}) \union {GroupOf(x) \union GroupOf(y)}

(***************************************************************************)
(* Automatic candidates                                                    *)
(***************************************************************************)

Cost(x, y) ==
    IF mode = "temporal_only" THEN scene.start[y] - scene.end[x] ELSE scene.cost[x, y]

InWindow(x, y) ==
    scene.start[y] > scene.end[x] /\ scene.start[y] - scene.end[x] <= MaxGap

Candidate(x, y) ==
    /\ mode # "review_only"
    /\ InWindow(x, y)
    /\ ~Violation(scene, used, x, y, FALSE)
    /\ ~CutBetween(scene, EligibleTracklets(scene, used), x, y)
    /\ Cost(x, y) # Gated

Gathered ==
    {[earlier |-> p[1], later |-> p[2], cost |-> Cost(p[1], p[2])] :
        p \in {q \in EligibleTracklets(scene, used) \X EligibleTracklets(scene, used) :
                  Candidate(q[1], q[2])}}

Successors(all, x) == {c \in all : c.earlier = x}

Predecessors(all, y) == {c \in all : c.later = y}

\* Candidates are sorted by cost, then by the earlier and the later tracklet.
Before(c, d) ==
    \/ c.cost < d.cost
    \/ c.cost = d.cost /\ c.earlier < d.earlier
    \/ c.cost = d.cost /\ c.earlier = d.earlier /\ c.later <= d.later

Best(options) == CHOOSE c \in options : \A d \in options : Before(c, d)

Ambiguous(options, best) == \E c \in options \ {best} : c.cost < best.cost + Margin

MutualBest(all, x) ==
    LET best == Best(Successors(all, x))
    IN  best = Best(Predecessors(all, best.later))

\* Each tracklet proposes its best successor or abstains, on its own behalf or
\* on behalf of that successor.
Proposed(all) ==
    {c \in all :
        /\ c = Best(Successors(all, c.earlier))
        /\ MutualBest(all, c.earlier)
        /\ ~Ambiguous(Successors(all, c.earlier), c)
        /\ ~Ambiguous(Predecessors(all, c.later), c)}

AbstainedBy(all) ==
    {IF MutualBest(all, c.earlier) /\ ~Ambiguous(Successors(all, c.earlier), c)
     THEN c.later ELSE c.earlier :
        c \in {d \in all : d = Best(Successors(all, d.earlier))} \ Proposed(all)}

(***************************************************************************)
(* The artifact                                                            *)
(***************************************************************************)

StatusOf(members) ==
    IF From(Within(links, members), "automatic") = {} THEN "confirmed" ELSE "provisional"

Identities ==
    {[members |-> g, status |-> StatusOf(g),
      automatic |-> Cardinality(From(Within(links, g), "automatic")),
      human |-> Cardinality(From(Within(links, g), "human"))] :
        g \in {h \in groups : Cardinality(h) > 1}}

\* A class is overridden by a human exclusion, whose entry the reason cites.
Assignment(t) ==
    IF t \in Excluded(scene, used)
    THEN [status |-> "excluded", identity |-> {},
          by |-> IF t \in HumanExcluded(used) THEN ExcludedBy(used, t) ELSE 0]
    ELSE IF Cardinality(GroupOf(t)) > 1
    THEN [status |-> StatusOf(GroupOf(t)), identity |-> GroupOf(t), by |-> 0]
    ELSE [status |-> "unresolved", identity |-> {}, by |-> 0]

Outcome(i) ==
    CASE used[i].action = "revoke" -> "recorded"
      [] i \in Revoked(used) -> "revoked"
      [] i \in redundant -> "redundant"
      [] OTHER -> "applied"

Artifact ==
    [identities |-> Identities,
     assignment |-> [t \in scene.present |-> Assignment(t)],
     links |-> links,
     abstentions |-> abstained,
     applied |-> [i \in DOMAIN used |->
                     [action |-> used[i].action, outcome |-> Outcome(i),
                      tracklets |-> used[i].tracklets]],
     cited |-> given]

(***************************************************************************)
(* Actions                                                                 *)
(***************************************************************************)

Init ==
    /\ scene \in Scenes
    /\ log = <<>> /\ used = <<>> /\ given = FALSE
    /\ phase = "idle" /\ mode = "review_only"
    /\ todo = {} /\ groups = {} /\ links = {} /\ redundant = {}
    /\ proposals = {} /\ abstained = {}
    /\ artifact = None

\* A reviewer appends a decision; nothing checks the file before it is read.
Decide(entry) ==
    /\ phase = "idle" \/ phase \in Over
    /\ Len(log) < MaxLog
    /\ IsEntry(entry, Len(log) + 1)
    /\ log' = Append(log, entry)
    /\ phase' = "idle"
    /\ mode' = "review_only" /\ used' = <<>> /\ given' = FALSE
    /\ todo' = {} /\ groups' = {} /\ links' = {} /\ redundant' = {}
    /\ proposals' = {} /\ abstained' = {}
    /\ artifact' = None
    /\ UNCHANGED scene

\* The log, its provenance and the tracklets it names, revoked or not.
Admissible(request) ==
    /\ request.known
    /\ request.cited = IF request.corrections THEN 1 ELSE 0
    /\ request.corrections =>
          /\ request.digest /\ request.pinned /\ scene.kind # "legacy"
          /\ IsCorrections(log)
          /\ \A i \in DOMAIN log : log[i].tracklets \subseteq scene.present

Refuse(request) ==
    /\ phase = "idle"
    /\ ~Admissible(request)
    /\ phase' = "rejected"
    /\ UNCHANGED <<log, scene, work, artifact>>

Start(request) ==
    /\ phase = "idle"
    /\ Admissible(request)
    /\ phase' = "human"
    /\ mode' = request.mode
    /\ given' = request.corrections
    /\ used' = IF request.corrections THEN log ELSE <<>>
    /\ todo' = Live(used', "must_link")
    /\ groups' = {{t} : t \in EligibleTracklets(scene, used')}
    /\ UNCHANGED <<log, scene, links, redundant, proposals, abstained, artifact>>

NextDecision(i) == i \in todo /\ \A j \in todo : i <= j

\* groups.find knows the eligible tracklets only.
CrashOnIneligible(i) ==
    /\ phase = "human" /\ NextDecision(i)
    /\ ~(used[i].tracklets \subseteq UNION groups)
    /\ phase' = "crashed"
    /\ UNCHANGED <<log, scene, work, artifact>>

SkipRedundant(i) ==
    /\ phase = "human" /\ NextDecision(i)
    /\ used[i].tracklets \subseteq UNION groups
    /\ \A x, y \in used[i].tracklets : SameIdentity(x, y)
    /\ todo' = todo \ {i}
    /\ redundant' = redundant \union {i}
    /\ UNCHANGED <<log, scene, phase, mode, given, used, groups, links, proposals, abstained,
                   artifact>>

\* An impossible must-link is passed over.
MutantRejectImpossible(i) ==
    /\ phase = "human" /\ NextDecision(i)
    /\ used[i].tracklets \subseteq UNION groups
    /\ \E x, y \in used[i].tracklets : ~SameIdentity(x, y) /\ ~MayJoin(x, y, TRUE)
    /\ todo' = todo \ {i}
    /\ redundant' = redundant \union {i}
    /\ UNCHANGED <<log, scene, phase, mode, given, used, groups, links, proposals, abstained,
                   artifact>>

RejectImpossible(i) ==
    /\ phase = "human" /\ NextDecision(i)
    /\ used[i].tracklets \subseteq UNION groups
    /\ \E x, y \in used[i].tracklets : ~SameIdentity(x, y) /\ ~MayJoin(x, y, TRUE)
    /\ phase' = "rejected"
    /\ UNCHANGED <<log, scene, work, artifact>>

HumanLink(i, x, y) ==
    /\ phase = "human" /\ NextDecision(i)
    /\ used[i].tracklets \subseteq UNION groups
    /\ used[i].tracklets = {x, y} /\ x # y
    /\ StartsBefore(scene, x, y)
    /\ ~SameIdentity(x, y)
    /\ MayJoin(x, y, TRUE)
    /\ groups' = Joined(x, y)
    /\ links' = links \union
          {[earlier |-> x, later |-> y, source |-> "human", sequence |-> i, cost |-> 0]}
    /\ todo' = todo \ {i}
    /\ UNCHANGED <<log, scene, phase, mode, given, used, redundant, proposals, abstained, artifact>>

\* Candidates, mutual best choices and ambiguities, in one pass.
Propose ==
    /\ phase = "human" /\ todo = {}
    /\ phase' = "automatic"
    /\ \E all \in {Gathered} :
          /\ proposals' = Proposed(all)
          /\ abstained' = AbstainedBy(all)
    /\ UNCHANGED <<log, scene, mode, given, used, todo, groups, links, redundant, artifact>>

NextProposal(c) == c \in proposals /\ \A d \in proposals : Before(c, d)

Contradicts(c) ==
    SameIdentity(c.earlier, c.later) \/ ~MayJoin(c.earlier, c.later, FALSE)

AbstainFromProposal(c) ==
    /\ phase = "automatic" /\ NextProposal(c)
    /\ Contradicts(c)
    /\ proposals' = proposals \ {c}
    /\ abstained' = abstained \union {c.earlier}
    /\ UNCHANGED <<log, scene, phase, mode, given, used, todo, groups, links, redundant, artifact>>

AutomaticLink(c) ==
    /\ phase = "automatic" /\ NextProposal(c)
    /\ ~Contradicts(c)
    /\ groups' = Joined(c.earlier, c.later)
    /\ links' = links \union
          {[earlier |-> c.earlier, later |-> c.later, source |-> "automatic",
            sequence |-> 0, cost |-> c.cost]}
    /\ proposals' = proposals \ {c}
    /\ UNCHANGED <<log, scene, phase, mode, given, used, todo, redundant, abstained, artifact>>

\* The artifact checks itself; one that does not hold is a ValueError.
Build ==
    /\ phase = "automatic" /\ proposals = {}
    /\ artifact' = Artifact
    /\ phase' = IF IsAccepted(scene, artifact') THEN "done" ELSE "invalid"
    /\ UNCHANGED <<log, scene, work>>

Next ==
    \/ \E entry \in Drafts : Decide(entry)
    \/ \E request \in Requests : Refuse(request) \/ Start(request)
    \/ \E i \in todo :
          \/ CrashOnIneligible(i) \/ SkipRedundant(i) \/ RejectImpossible(i)
          \/ \E x, y \in used[i].tracklets : HumanLink(i, x, y)
    \/ Propose
    \/ \E c \in proposals : AbstainFromProposal(c) \/ AutomaticLink(c)
    \/ Build

Spec == Init /\ [][Next]_vars

(***************************************************************************)
(* Properties                                                              *)
(***************************************************************************)

\* What the resolver builds step by step is never refused by the checks that
\* the artifact makes of itself: links that form a spanning tree of each
\* identity, one applied must-link for each human link, statuses that agree
\* (_build_artifact against PlayerIdentitiesArtifact.__post_init__).
ArtifactsAreAccepted == phase # "invalid"

Mixed(a, x, y) == Together(a, x, y) /\ Opposed(scene, x, y)

\* A set of pairs holds the members together: however they are split, a pair
\* of theirs lies on both sides.
HeldBy(pairs, members, from, to) ==
    \A part \in SUBSET members :
        from \in part /\ to \notin part =>
            \E p \in pairs : p \subseteq members /\ p \intersect part \notin {{}, p}

\* The two tracklets are joined by links of the reviewer alone.
JoinedByHand(a, x, y) ==
    HeldBy({{l.earlier, l.later} : l \in From(a.links, "human")},
           a.assignment[x].identity, x, y)

\* However its links were chained, no identity holds two tracklets that overlap
\* in time, that the evidence or a live decision separates, or of two classes;
\* and it holds two teams only where the reviewer's own links join them
\* (the group-level re-check of _Groups.conflict).
SeparatedStayApart ==
    phase = "done" =>
        /\ TemporalViolations(scene, artifact) = {}
        /\ ExplicitViolations(scene, artifact) = {}
        /\ \A x, y \in scene.present :
               /\ Together(artifact, x, y) =>
                      {x, y} \notin Separated(scene, used) /\ ~Mismatch(scene, x, y)
               /\ Mixed(artifact, x, y) => JoinedByHand(artifact, x, y)

\* What a consumer sees by default rests on a live must-link of the log, and
\* the live must-links alone hold each confirmed identity together
\* (iter_player_observations, AssignmentStatus).
ConfirmedIsHuman ==
    phase = "done" =>
        \A x \in Observed(scene, artifact, FALSE, FALSE) :
            /\ x \in artifact.assignment[x].identity
            /\ \A y \in artifact.assignment[x].identity :
                   HeldBy(Decided(log, "must_link"), artifact.assignment[x].identity, x, y)

\* A call that returns has carried out every live decision of the log it was
\* given, whatever was revoked on the way: the linked are together, the
\* excluded are nowhere and cite the entry that excluded them.
DecisionsAreHonoured ==
    phase = "done" =>
        /\ \A p \in Decided(used, "must_link") :
               \A x, y \in p : Together(artifact, x, y)
        /\ \A t \in HumanExcluded(used) :
               /\ artifact.assignment[t].status = "excluded"
               /\ t \in used[artifact.assignment[t].by].tracklets
        /\ \A i \in Revoked(used) : artifact.applied[i].outcome = "revoked"

\* Every live must-link joins two tracklets that the truth labels alike.
DecisionsAreTrue(truth) ==
    \A p \in Decided(used, "must_link") :
        p \subseteq Labelled(truth, None) /\ Cardinality(PlayersOf(truth, p)) = 1

\* The evaluation counts one thing in several ways, and they agree: there are
\* false merges exactly when an identity holds two players, and pairs are missed
\* exactly when a player is left in two units; a scope never finds an error that
\* the whole does not; and a reviewer who only joined what belongs together is
\* charged with no false merge (evaluate_identities).
EvaluationAgrees ==
    phase = "done" =>
        \A truth \in Truths, scope \in Scopes : IsEvaluable(scene, truth, scope) =>
            LET report == Evaluation(scene, artifact, truth, scope)
                whole == Evaluation(scene, artifact, truth, None)
            IN  /\ report.falsePositive = {} <=> report.contaminated = {}
                /\ report.falseNegative = {} <=>
                       report.unitsAfter = Cardinality(PlayersOf(truth, Labelled(truth, scope)))
                /\ report.unitsAfter <= report.unitsBefore
                /\ report.truePositive = {} <=> report.unitsAfter = report.unitsBefore
                /\ \A errors \in {"falsePositive", "crossTeam", "contamination", "uncertain"} :
                       report[errors] \subseteq whole[errors]
                /\ mode = "review_only" /\ DecisionsAreTrue(truth) => report.falsePositive = {}
=============================================================================
