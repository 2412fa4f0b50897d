--------------------------- MODULE IdentityScene ----------------------------
(***************************************************************************)
(* What the resolver reads: one summary per tracklet, the AI2A evidence,   *)
(* and the hard constraints between two tracklets (inputs.py, evidence.py  *)
(* and _Constraints, _features of resolver.py).                            *)
(*                                                                         *)
(* Frames stand for time.  A team is one above the confidence threshold.   *)
(* The pixel boxes are abstracted to the cost of a link from one tracklet  *)
(* to a later one, Gated when the kinematic gates refuse it.               *)
(***************************************************************************)
EXTENDS IdentityCorrections, Integers

CONSTANTS
    None,        \* no class, no confident team
    Gated,       \* the cost of a link that the gates refuse
    Classes,     \* the semantic classes of AI1
    Eligible,    \* eligible_semantic_classes
    Teams,       \* the known teams
    MaxGap,      \* max_gap_seconds, in frames
    CutBirths    \* shot_cut_min_births; with None there is no cut

Kinds == {"tracklets", "review_samples", "legacy"}

ASSUME SceneAssumption ==
    /\ Eligible \subseteq Classes
    /\ None \notin Classes \union Teams
    /\ Gated \notin Nat
    /\ MaxGap \in Nat \ {0}
    /\ CutBirths \in (Nat \ {0, 1}) \union {None}

\* A well-formed input; only the AI1 artifact records classes.  Time is counted in
\* sampled frames, which the timestamps of an input follow.
IsScene(s) ==
    /\ s.kind \in Kinds
    /\ s.present \subseteq Tracklets /\ IsFiniteSet(s.present)
    /\ s.start \in [s.present -> Nat]
    /\ s.end \in [s.present -> Nat]
    /\ \A t \in s.present : s.start[t] <= s.end[t]
    /\ s.class \in [s.present -> Classes \union {None}]
    /\ s.kind # "tracklets" => \A t \in s.present : s.class[t] = None
    /\ s.team \in [s.present -> Teams \union {None}]
    /\ s.cannot \subseteq Pairs(s.present)
    /\ s.cost \in [s.present \X s.present -> Nat \union {Gated}]

Overlap(s, x, y) == s.start[x] <= s.end[y] /\ s.start[y] <= s.end[x]

Mismatch(s, x, y) ==
    s.class[x] # None /\ s.class[y] # None /\ s.class[x] # s.class[y]

Opposed(s, x, y) ==
    s.team[x] # None /\ s.team[y] # None /\ s.team[x] # s.team[y]

\* The separations of the evidence and those of the reviewer.
Separated(s, log) == s.cannot \union Decided(log, "cannot_link")

\* A reviewer may join two teams, and nothing else that is apart.
Violation(s, log, x, y, human) ==
    \/ Overlap(s, x, y)
    \/ {x, y} \in Separated(s, log)
    \/ Mismatch(s, x, y)
    \/ ~human /\ Opposed(s, x, y)

Ineligible(s) == {t \in s.present : s.class[t] \notin Eligible \union {None}}

Excluded(s, log) == Ineligible(s) \union HumanExcluded(log)

EligibleTracklets(s, log) == s.present \ Excluded(s, log)

\* The ids alone decide.
MutantStartsBefore(s, x, y) == x <= y

\* Sorted by start frame and then by id.
StartsBefore(s, x, y) ==
    \/ s.start[x] < s.start[y]
    \/ s.start[x] = s.start[y] /\ x <= y

(***************************************************************************)
(* Suspected shot cuts                                                     *)
(***************************************************************************)

Births(s, tracklets, f) == {t \in tracklets : s.start[t] = f}

IsCut(s, tracklets, f) ==
    /\ CutBirths # None
    /\ Cardinality(Births(s, tracklets, f)) >= CutBirths
    /\ \E t \in tracklets : s.start[t] < f

CutBetween(s, tracklets, x, y) ==
    \E f \in (s.end[x] + 1)..s.start[y] : IsCut(s, tracklets, f)
=============================================================================
