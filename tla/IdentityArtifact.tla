-------------------------- MODULE IdentityArtifact --------------------------
(***************************************************************************)
(* footballai.player-identities/v1: what the artifact checks of itself     *)
(* whenever it is built or read (artifact.py), who may be observed from it *)
(* (observations.py) and what its evaluation counts (evaluation.py).       *)
(*                                                                         *)
(* An identity stands for its own PID: it is the set of its members.       *)
(***************************************************************************)
EXTENDS IdentityScene

Gap(s, link) == s.start[link.later] - s.end[link.earlier]

\* Every way to split the members is crossed by a link.
Connects(links, members) ==
    \A part \in (SUBSET members) \ {{}, members} :
        \E l \in links : ({l.earlier, l.later} \intersect part) # {}
                         /\ ({l.earlier, l.later} \intersect (members \ part)) # {}

Within(links, members) == {l \in links : {l.earlier, l.later} \subseteq members}

From(links, source) == {l \in links : l.source = source}

LinkIsSound(s, link) ==
    /\ link.earlier # link.later
    /\ Gap(s, link) > 0
    /\ link.source = "automatic" <=> link.sequence = 0

IdentityIsSound(s, a, identity) ==
    LET links == Within(a.links, identity.members)
    IN  /\ Cardinality(identity.members) >= 2
        /\ \A t \in identity.members :
               /\ a.assignment[t].identity = identity.members
               /\ a.assignment[t].status = identity.status
        /\ \A x, y \in identity.members : x # y => ~Overlap(s, x, y)
        /\ Cardinality(links) = Cardinality(identity.members) - 1
        /\ Cardinality(From(links, "automatic")) = identity.automatic
        /\ Cardinality(From(links, "human")) = identity.human
        /\ Connects(links, identity.members)
        /\ identity.status = IF identity.automatic = 0 THEN "confirmed" ELSE "provisional"

Applied(a, action) ==
    {i \in DOMAIN a.applied : a.applied[i].action = action
                              /\ a.applied[i].outcome = "applied"}

\* Human decisions are traceable to the corrections log the artifact cites.
IsTraceable(s, a) ==
    LET human == From(a.links, "human")
        byHand == {t \in s.present : a.assignment[t].status = "excluded"
                                     /\ a.assignment[t].by # 0}
    IN  /\ human # {} \/ Applied(a, "must_link") # {} \/ byHand # {} => a.cited
        /\ \A t \in byHand :
               a.assignment[t].by \in Applied(a, "exclude")
               /\ t \in a.applied[a.assignment[t].by].tracklets
        /\ {l.sequence : l \in human} = Applied(a, "must_link")
        /\ \A l \in human :
               /\ a.applied[l.sequence].tracklets = {l.earlier, l.later}
               /\ \A k \in human : k.sequence = l.sequence => k = l

IsAccepted(s, a) ==
    /\ \A l \in a.links :
           /\ LinkIsSound(s, l)
           /\ \E i \in a.identities : {l.earlier, l.later} \subseteq i.members
    /\ \A i, j \in a.identities : i # j => i.members \intersect j.members = {}
    /\ \A i \in a.identities : IdentityIsSound(s, a, i)
    /\ \A t \in s.present :
           LET given == a.assignment[t]
           IN  /\ given.identity # {} <=> given.status \in {"confirmed", "provisional"}
               /\ given.identity # {} =>
                      \E i \in a.identities : i.members = given.identity /\ t \in i.members
    /\ IsTraceable(s, a)

(***************************************************************************)
(* The consumers                                                           *)
(***************************************************************************)

\* Automatic identities are yielded unless they are refused.
MutantObserved(s, a, provisional, unresolved) ==
    {t \in s.present :
        \/ a.assignment[t].identity # {}
        \/ a.assignment[t].status = "unresolved" /\ unresolved}

\* The tracklets whose observations are yielded; each carries its identity.  The
\* refusals of artifacts that do not belong together, or that come from another
\* kind of input, yield nothing and are left out.
Observed(s, a, provisional, unresolved) ==
    {t \in s.present :
        \/ a.assignment[t].status = "confirmed"
        \/ a.assignment[t].status = "provisional" /\ provisional
        \/ a.assignment[t].status = "unresolved" /\ unresolved}

Together(a, x, y) ==
    a.assignment[x].identity # {} /\ a.assignment[x].identity = a.assignment[y].identity

\* The certain errors that the evaluation counts over every assignment.
TemporalViolations(s, a) ==
    {p \in Pairs(s.present) : \A x, y \in p : Together(a, x, y) /\ Overlap(s, x, y)}

ExplicitViolations(s, a) ==
    {p \in s.cannot : \A x, y \in p : Together(a, x, y)}
=============================================================================
