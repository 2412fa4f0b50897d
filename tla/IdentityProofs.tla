--------------------------- MODULE IdentityProofs ---------------------------
(***************************************************************************)
(* The proofs of IdentityResolver: the groups the links build, the artifact*)
(* made of them, and what its evaluation counts.                           *)
(***************************************************************************)
EXTENDS IdentityResolver, FiniteSetTheorems, WellFoundedInduction, TLAPS

(***************************************************************************)
(* Groups held together by links                                           *)
(***************************************************************************)

Ends(l) == {l.earlier, l.later}

ByHand(ls) == {Ends(l) : l \in From(ls, "human")}

IsPartition(gs, all) ==
    /\ \A g \in gs : g # {}
    /\ UNION gs = all
    /\ \A g, h \in gs : g \intersect h # {} => g = h

\* A link joins two tracklets of one group, the first of which ends before the
\* second starts.
Joins(s, gs, l) ==
    /\ l.earlier # l.later
    /\ Gap(s, l) > 0
    /\ l.source \in {"human", "automatic"}
    /\ l.source = "automatic" <=> l.sequence = 0
    /\ \E g \in gs : l.earlier \in g /\ l.later \in g

\* The links within a group form a tree that spans it.
Spans(ls, g) ==
    /\ IsFiniteSet(g)
    /\ IsFiniteSet(Within(ls, g))
    /\ Cardinality(Within(ls, g)) = Cardinality(g) - 1
    /\ Connects(ls, g)

\* Two tracklets of a group may live together.
MayLive(s, log_, ls, g) ==
    \A x, y \in g : x # y =>
        /\ ~Overlap(s, x, y)
        /\ {x, y} \notin Separated(s, log_)
        /\ ~Mismatch(s, x, y)
        /\ Opposed(s, x, y) => HeldBy(ByHand(ls), g, x, y)

\* Every way to part two tracklets of a connected group is crossed by a link.
LEMMA ConnectedIsHeld ==
    ASSUME NEW ls, NEW g, Connects(ls, g), NEW x \in g, NEW y \in g
    PROVE  HeldBy({Ends(l) : l \in Within(ls, g)}, g, x, y)
<1> SUFFICES ASSUME NEW part \in SUBSET g, x \in part, y \notin part
             PROVE  \E p \in {Ends(l) : l \in Within(ls, g)} :
                        p \subseteq g /\ p \intersect part \notin {{}, p}
    BY DEF HeldBy
<1>1. PICK l \in ls : /\ Ends(l) \intersect part # {}
                      /\ Ends(l) \intersect (g \ part) # {}
    BY DEF Connects, Ends
<1>2. Ends(l) \subseteq g
    BY <1>1 DEF Ends
<1>3. l \in Within(ls, g)
    BY <1>2 DEF Within, Ends
<1>4. Ends(l) \intersect part \notin {{}, Ends(l)}
    BY <1>1
<1> QED
    BY <1>2, <1>3, <1>4

\* Being held is symmetric, and grows with the pairs and with the members.
LEMMA HeldIsSymmetric ==
    ASSUME NEW pairs, NEW g, NEW x \in g, NEW y \in g, HeldBy(pairs, g, x, y)
    PROVE  HeldBy(pairs, g, y, x)
<1> SUFFICES ASSUME NEW part \in SUBSET g, y \in part, x \notin part
             PROVE  \E p \in pairs : p \subseteq g /\ p \intersect part \notin {{}, p}
    BY DEF HeldBy
<1>1. PICK p \in pairs : p \subseteq g /\ p \intersect (g \ part) \notin {{}, p}
    BY g \ part \in SUBSET g DEF HeldBy
<1>2. p \intersect part \notin {{}, p}
    BY <1>1
<1> QED
    BY <1>1, <1>2

LEMMA HeldGrows ==
    ASSUME NEW pairs, NEW more, pairs \subseteq more, NEW g, NEW h, g \subseteq h,
           NEW x \in g, NEW y \in g, HeldBy(pairs, g, x, y)
    PROVE  HeldBy(more, h, x, y)
<1> SUFFICES ASSUME NEW part \in SUBSET h, x \in part, y \notin part
             PROVE  \E p \in more : p \subseteq h /\ p \intersect part \notin {{}, p}
    BY DEF HeldBy
<1>1. PICK p \in pairs : p \subseteq g /\ p \intersect (part \intersect g) \notin {{}, p}
    BY part \intersect g \in SUBSET g DEF HeldBy
<1>2. p \intersect part \notin {{}, p}
    BY <1>1
<1> QED
    BY <1>1, <1>2

\* What two held pairs share is held from end to end.
LEMMA HeldIsTransitive ==
    ASSUME NEW pairs, NEW g, NEW x, NEW y, NEW z,
           HeldBy(pairs, g, x, y), HeldBy(pairs, g, y, z)
    PROVE  HeldBy(pairs, g, x, z)
    BY DEF HeldBy

(***************************************************************************)
(* Joining two groups                                                      *)
(***************************************************************************)

LEMMA JoinedIsPartition ==
    ASSUME NEW gs, NEW all, IsPartition(gs, all), NEW G \in gs, NEW H \in gs
    PROVE  IsPartition((gs \ {G, H}) \union {G \union H}, all)
<1> DEFINE new == (gs \ {G, H}) \union {G \union H}
<1>1. \A g \in new : g # {}
    BY DEF IsPartition
<1>2. UNION new = all
    <2>1. ASSUME NEW t \in UNION new PROVE t \in all
        BY DEF IsPartition
    <2>2. ASSUME NEW t \in all PROVE t \in UNION new
        <3>1. PICK g \in gs : t \in g
            BY DEF IsPartition
        <3>2. CASE g \in {G, H}
            BY <3>1, <3>2
        <3>3. CASE g \notin {G, H}
            BY <3>1, <3>3
        <3> QED
            BY <3>2, <3>3
    <2> QED
        BY <2>1, <2>2
<1>3. ASSUME NEW g \in new, NEW h \in new, g \intersect h # {}
      PROVE  g = h
    <2>1. CASE g \in gs \ {G, H} /\ h \in gs \ {G, H}
        BY <1>3, <2>1 DEF IsPartition
    <2>2. CASE g \in gs \ {G, H} /\ h = G \union H
        BY <1>3, <2>2 DEF IsPartition
    <2>3. CASE g = G \union H /\ h \in gs \ {G, H}
        BY <1>3, <2>3 DEF IsPartition
    <2> QED
        BY <2>1, <2>2, <2>3
<1> QED
    BY <1>1, <1>2, <1>3 DEF IsPartition

LEMMA JoinedJoins ==
    ASSUME NEW s, NEW gs, NEW G \in gs, NEW H \in gs, NEW l, Joins(s, gs, l)
    PROVE  Joins(s, (gs \ {G, H}) \union {G \union H}, l)
<1>1. PICK g \in gs : l.earlier \in g /\ l.later \in g
    BY DEF Joins
<1>2. \E h \in (gs \ {G, H}) \union {G \union H} : l.earlier \in h /\ l.later \in h
  <2>1. CASE g \in {G, H}
    BY <1>1, <2>1
  <2>2. CASE g \notin {G, H}
    BY <1>1, <2>2
  <2> QED
    BY <2>1, <2>2
<1> QED
    BY <1>2 DEF Joins

\* A group that is not joined keeps its links.
LEMMA OthersKeepTheirLinks ==
    ASSUME NEW gs, NEW all, IsPartition(gs, all), NEW G \in gs, NEW H \in gs,
           NEW ls, NEW l, l.earlier \in G \union H, NEW g \in gs, g \notin {G, H}
    PROVE  Within(ls \union {l}, g) = Within(ls, g)
<1>1. l.earlier \notin g
    BY DEF IsPartition
<1> QED
    BY <1>1 DEF Within

\* The links within the union are those of the two groups and the new one.
LEMMA LinksOfUnion ==
    ASSUME NEW gs, NEW all, IsPartition(gs, all), NEW G \in gs, NEW H \in gs,
           NEW ls, \A k \in ls : \E g \in gs : k.earlier \in g /\ k.later \in g,
           NEW l, l.earlier \in G, l.later \in H
    PROVE  Within(ls \union {l}, G \union H) = Within(ls, G) \union Within(ls, H) \union {l}
<1>1. ASSUME NEW k \in ls, {k.earlier, k.later} \subseteq G \union H
      PROVE  k \in Within(ls, G) \union Within(ls, H)
    <2>1. PICK g \in gs : k.earlier \in g /\ k.later \in g
        OBVIOUS
    <2>2. g \intersect G # {} \/ g \intersect H # {}
        BY <1>1, <2>1
    <2>3. g = G \/ g = H
        BY <2>2 DEF IsPartition
    <2> QED
        BY <2>1, <2>3 DEF Within
<1>2. l \in Within(ls \union {l}, G \union H)
    BY DEF Within
<1>3. Within(ls, G) \union Within(ls, H) \subseteq Within(ls \union {l}, G \union H)
    BY DEF Within
<1>4. Within(ls \union {l}, G \union H) \subseteq Within(ls, G) \union Within(ls, H) \union {l}
    BY <1>1 DEF Within
<1> QED
    BY <1>2, <1>3, <1>4

LEMMA UnionConnects ==
    ASSUME NEW ls, NEW G, NEW H, Connects(ls, G), Connects(ls, H),
           NEW l, l.earlier \in G, l.later \in H
    PROVE  Connects(ls \union {l}, G \union H)
<1> DEFINE all == G \union H
<1> SUFFICES ASSUME NEW part \in (SUBSET all) \ {{}, all}
             PROVE  \E k \in ls \union {l} : /\ Ends(k) \intersect part # {}
                                            /\ Ends(k) \intersect (all \ part) # {}
    BY Zenon DEF Connects, Ends
<1>1. CASE part \intersect G \notin {{}, G}
    <2>1. PICK k \in ls : /\ Ends(k) \intersect (part \intersect G) # {}
                          /\ Ends(k) \intersect (G \ (part \intersect G)) # {}
        BY <1>1, part \intersect G \in (SUBSET G) \ {{}, G} DEF Connects, Ends
    <2> QED
        BY <2>1
<1>2. CASE part \intersect H \notin {{}, H}
    <2>1. PICK k \in ls : /\ Ends(k) \intersect (part \intersect H) # {}
                          /\ Ends(k) \intersect (H \ (part \intersect H)) # {}
        BY <1>2, part \intersect H \in (SUBSET H) \ {{}, H} DEF Connects, Ends
    <2> QED
        BY <2>1
<1>3. CASE part \intersect G \in {{}, G} /\ part \intersect H \in {{}, H}
    <2>1. \/ part \intersect G = {} /\ part \intersect H = H
          \/ part \intersect G = G /\ part \intersect H = {}
        BY <1>3
    <2>2. /\ Ends(l) \intersect part # {}
          /\ Ends(l) \intersect (all \ part) # {}
        <3>1. CASE part \intersect G = {} /\ part \intersect H = H
            BY <3>1 DEF Ends
        <3>2. CASE part \intersect G = G /\ part \intersect H = {}
            BY <3>2 DEF Ends
        <3> QED
            BY <2>1, <3>1, <3>2
    <2> QED
        BY <2>2
<1> QED
    BY <1>1, <1>2, <1>3

LEMMA EmptyCounts == Cardinality({}) = 0
    BY FS_EmptySet

LEMMA CountIsNat ==
    ASSUME NEW S, IsFiniteSet(S)
    PROVE  Cardinality(S) \in Nat
    BY FS_CardinalityType, Zenon

LEMMA UnionSpans ==
    ASSUME NEW s, NEW gs, NEW all, IsPartition(gs, all), NEW G \in gs, NEW H \in gs, G # H,
           NEW ls, \A k \in ls : Joins(s, gs, k), Spans(ls, G), Spans(ls, H),
           NEW l, l.earlier \in G, l.later \in H
    PROVE  Spans(ls \union {l}, G \union H)
<1> DEFINE WG == Within(ls, G)
           WH == Within(ls, H)
<1>1. G \intersect H = {}
    BY DEF IsPartition
<1>2. WG \intersect WH = {}
    BY <1>1 DEF Within
<1>3. l \notin WG \union WH
    BY <1>1 DEF Within
<1>4. Within(ls \union {l}, G \union H) = (WG \union WH) \union {l}
    <2>1. Within(ls \union {l}, G \union H) = Within(ls, G) \union Within(ls, H) \union {l}
        <3>1. \A k \in ls : \E g \in gs : k.earlier \in g /\ k.later \in g
            BY DEF Joins
        <3> HIDE DEF WG, WH
        <3> QED
            BY <3>1, LinksOfUnion
    <2> QED
        BY <2>1
<1>5. /\ IsFiniteSet(G) /\ IsFiniteSet(H) /\ IsFiniteSet(WG) /\ IsFiniteSet(WH)
      /\ Cardinality(WG) = Cardinality(G) - 1
      /\ Cardinality(WH) = Cardinality(H) - 1
    BY DEF Spans
<1> HIDE DEF WG, WH
<1>6. /\ IsFiniteSet(G \union H)
      /\ Cardinality(G \union H) = Cardinality(G) + Cardinality(H)
    <2>1. /\ IsFiniteSet(G \union H)
          /\ Cardinality(G \union H)
                = Cardinality(G) + Cardinality(H) - Cardinality(G \intersect H)
        BY <1>5, FS_Union, Zenon
    <2>2. Cardinality(G \intersect H) = 0
        BY <1>1, EmptyCounts
    <2>3. Cardinality(G) \in Nat /\ Cardinality(H) \in Nat
        BY <1>5, CountIsNat
    <2> QED
        BY <2>1, <2>2, <2>3
<1>7. /\ IsFiniteSet(WG \union WH)
      /\ Cardinality(WG \union WH) = Cardinality(WG) + Cardinality(WH)
    <2>1. /\ IsFiniteSet(WG \union WH)
          /\ Cardinality(WG \union WH)
                = Cardinality(WG) + Cardinality(WH) - Cardinality(WG \intersect WH)
        BY <1>5, FS_Union, Zenon
    <2>2. Cardinality(WG \intersect WH) = 0
        BY <1>2, EmptyCounts
    <2>3. Cardinality(WG) \in Nat /\ Cardinality(WH) \in Nat
        BY <1>5, CountIsNat
    <2> QED
        BY <2>1, <2>2, <2>3
<1>8. /\ IsFiniteSet((WG \union WH) \union {l})
      /\ Cardinality((WG \union WH) \union {l}) = Cardinality(WG \union WH) + 1
    BY <1>3, <1>7, FS_AddElement
<1>9. Cardinality((WG \union WH) \union {l}) = Cardinality(G \union H) - 1
    <2>1. Cardinality(G) \in Nat /\ Cardinality(H) \in Nat
        BY <1>5, CountIsNat
    <2> QED
        BY <1>5, <1>6, <1>7, <1>8, <2>1
<1>10. Connects(ls \union {l}, G \union H)
    BY UnionConnects DEF Spans
<1> QED
    BY <1>4, <1>6, <1>8, <1>9, <1>10 DEF Spans

LEMMA OthersSpan ==
    ASSUME NEW gs, NEW all, IsPartition(gs, all), NEW G \in gs, NEW H \in gs,
           NEW ls, NEW l, l.earlier \in G \union H,
           NEW g \in gs, g \notin {G, H}, Spans(ls, g)
    PROVE  Spans(ls \union {l}, g)
<1>1. Within(ls \union {l}, g) = Within(ls, g)
    BY OthersKeepTheirLinks
<1>2. Connects(ls \union {l}, g)
    BY DEF Spans, Connects
<1> QED
    BY <1>1, <1>2 DEF Spans

\* What may live together in a group may do so when links are added.
LEMMA LivesOn ==
    ASSUME NEW s, NEW log_, NEW ls, NEW g, MayLive(s, log_, ls, g), NEW more, ls \subseteq more
    PROVE  MayLive(s, log_, more, g)
<1> SUFFICES ASSUME NEW x \in g, NEW y \in g, x # y, Opposed(s, x, y)
             PROVE  HeldBy(ByHand(more), g, x, y)
    BY DEF MayLive
<1>1. HeldBy(ByHand(ls), g, x, y)
    BY DEF MayLive
<1>2. ByHand(ls) \subseteq ByHand(more)
    BY DEF ByHand, From
<1> QED
    BY <1>1, <1>2, HeldGrows

LEMMA ViolationIsSymmetric ==
    ASSUME NEW s, NEW log_, NEW x, NEW y, NEW human \in BOOLEAN, ~Violation(s, log_, x, y, human)
    PROVE  /\ ~Overlap(s, x, y) /\ ~Overlap(s, y, x)
           /\ {x, y} \notin Separated(s, log_)
           /\ ~Mismatch(s, x, y) /\ ~Mismatch(s, y, x)
           /\ ~human => ~Opposed(s, x, y) /\ ~Opposed(s, y, x)
    BY DEF Violation, Overlap, Mismatch, Opposed

\* Two groups all of whose members may live together make one whose members
\* may; a reviewer may join two teams, while all the links are his own.
LEMMA UnionMayLive ==
    ASSUME NEW s, NEW log_, NEW G, NEW H, NEW ls, NEW l,
           Connects(ls, G), Connects(ls, H), l.earlier \in G, l.later \in H,
           MayLive(s, log_, ls, G), MayLive(s, log_, ls, H),
           NEW human \in BOOLEAN,
           \A p \in G, q \in H : ~Violation(s, log_, p, q, human),
           human => \A k \in ls \union {l} : k.source = "human"
    PROVE  MayLive(s, log_, ls \union {l}, G \union H)
<1> DEFINE more == ls \union {l}
           all == G \union H
<1> SUFFICES ASSUME NEW x \in all, NEW y \in all, x # y
             PROVE  /\ ~Overlap(s, x, y)
                    /\ {x, y} \notin Separated(s, log_)
                    /\ ~Mismatch(s, x, y)
                    /\ Opposed(s, x, y) => HeldBy(ByHand(more), all, x, y)
    BY Zenon DEF MayLive
<1>1. ByHand(ls) \subseteq ByHand(more)
    BY DEF ByHand, From
<1>2. CASE x \in G /\ y \in G
    <2>1. Opposed(s, x, y) => HeldBy(ByHand(ls), G, x, y)
        BY <1>2 DEF MayLive
    <2> QED
        BY <1>1, <1>2, <2>1, HeldGrows, G \subseteq all DEF MayLive
<1>3. CASE x \in H /\ y \in H
    <2>1. Opposed(s, x, y) => HeldBy(ByHand(ls), H, x, y)
        BY <1>3 DEF MayLive
    <2> QED
        BY <1>1, <1>3, <2>1, HeldGrows, H \subseteq all DEF MayLive
<1>4. CASE \/ x \in G /\ y \in H
           \/ x \in H /\ y \in G
    <2>1. ~Violation(s, log_, x, y, human) \/ ~Violation(s, log_, y, x, human)
        BY <1>4
    <2>2. /\ ~Overlap(s, x, y)
          /\ {x, y} \notin Separated(s, log_)
          /\ ~Mismatch(s, x, y)
          /\ ~human => ~Opposed(s, x, y)
        <3>1. {x, y} = {y, x}
            OBVIOUS
        <3> QED
            BY <2>1, <3>1, ViolationIsSymmetric
    <2>3. human => HeldBy(ByHand(more), all, x, y)
        <3> SUFFICES ASSUME human PROVE HeldBy(ByHand(more), all, x, y)
            OBVIOUS
        <3>1. Connects(more, all)
            BY UnionConnects
        <3>2. HeldBy({Ends(k) : k \in Within(more, all)}, all, x, y)
            BY <3>1, ConnectedIsHeld
        <3>3. {Ends(k) : k \in Within(more, all)} \subseteq ByHand(more)
            BY DEF ByHand, From, Within
        <3> HIDE DEF more, all
        <3> QED
            BY <3>2, <3>3, HeldGrows
    <2> QED
        BY <2>2, <2>3
<1> QED
    BY <1>2, <1>3, <1>4

(***************************************************************************)
(* What the groups and the links keep                                      *)
(***************************************************************************)

Grouped(s, log_, gs, ls) ==
    /\ IsPartition(gs, EligibleTracklets(s, log_))
    /\ \A l \in ls : Joins(s, gs, l)
    /\ \A g \in gs : Spans(ls, g) /\ MayLive(s, log_, ls, g)

Union(gs, G, H) == (gs \ {G, H}) \union {G \union H}

\* Every tracklet starts in a group of its own.
LEMMA SingletonsAreGrouped ==
    ASSUME NEW s, NEW log_
    PROVE  Grouped(s, log_, {{t} : t \in EligibleTracklets(s, log_)}, {})
<1> DEFINE all == EligibleTracklets(s, log_)
           gs == {{t} : t \in all}
<1>1. IsPartition(gs, all)
    <2> HIDE DEF all
    <2>1. UNION gs = all
        OBVIOUS
    <2>2. \A g, h \in gs : g \intersect h # {} => g = h
        OBVIOUS
    <2>3. \A g \in gs : g # {}
        OBVIOUS
    <2> HIDE DEF gs
    <2> QED
        BY <2>1, <2>2, <2>3 DEF IsPartition
<1>2. ASSUME NEW t PROVE Spans({}, {t})
    <2>1. IsFiniteSet({t}) /\ Cardinality({t}) = 1
        BY FS_Singleton
    <2>2. Within({}, {t}) = {}
        BY DEF Within
    <2>3. IsFiniteSet({}) /\ Cardinality({}) = 0
        BY FS_EmptySet
    <2>4. Connects({}, {t})
        <3>1. (SUBSET {t}) \ {{}, {t}} = {}
            OBVIOUS
        <3> QED
            BY <3>1 DEF Connects
    <2> QED
        BY <2>1, <2>2, <2>3, <2>4 DEF Spans
<1>3. ASSUME NEW t PROVE MayLive(s, log_, {}, {t})
    BY DEF MayLive
<1>4. \A g \in gs : Spans({}, g) /\ MayLive(s, log_, {}, g)
    BY <1>2, <1>3
<1> QED
    BY <1>1, <1>4 DEF Grouped

\* A link between two groups that may be joined keeps the groups well formed.
LEMMA JoinKeepsGroups ==
    ASSUME NEW s, NEW log_, NEW gs, NEW ls, Grouped(s, log_, gs, ls),
           NEW G \in gs, NEW H \in gs, G # H,
           NEW l, l.earlier \in G, l.later \in H, Gap(s, l) > 0,
           l.source \in {"human", "automatic"}, l.source = "automatic" <=> l.sequence = 0,
           NEW human \in BOOLEAN,
           \A p \in G, q \in H : ~Violation(s, log_, p, q, human),
           human => \A k \in ls \union {l} : k.source = "human"
    PROVE  Grouped(s, log_, Union(gs, G, H), ls \union {l})
<1> DEFINE all == EligibleTracklets(s, log_)
<1>1. /\ IsPartition(gs, all)
      /\ \A k \in ls : Joins(s, gs, k)
      /\ \A g \in gs : Spans(ls, g) /\ MayLive(s, log_, ls, g)
    BY DEF Grouped
<1> HIDE DEF all
<1>2. IsPartition(Union(gs, G, H), all)
    BY <1>1, JoinedIsPartition DEF Union
<1>3. ASSUME NEW k \in ls \union {l} PROVE Joins(s, Union(gs, G, H), k)
    <2>1. CASE k \in ls
        <3>1. Joins(s, gs, k)
            BY <1>1, <2>1
        <3> QED
            BY <3>1, JoinedJoins DEF Union
    <2>2. CASE k = l
        <3>1. G \intersect H = {}
            BY <1>1 DEF IsPartition
        <3>2. G \union H \in Union(gs, G, H)
            BY DEF Union
        <3>3. l.earlier # l.later
            BY <3>1
        <3>4. l.earlier \in G \union H /\ l.later \in G \union H
            OBVIOUS
        <3>5. \E g \in Union(gs, G, H) : l.earlier \in g /\ l.later \in g
            BY <3>2, <3>4
        <3> QED
            BY <2>2, <3>3, <3>5 DEF Joins
    <2> QED
        BY <2>1, <2>2
<1>4. Spans(ls \union {l}, G \union H)
    BY <1>1, UnionSpans
<1>5. MayLive(s, log_, ls \union {l}, G \union H)
    <2>1. Connects(ls, G) /\ Connects(ls, H)
        BY <1>1 DEF Spans
    <2> QED
        BY <1>1, <2>1, UnionMayLive
<1>6. ASSUME NEW g \in gs, g \notin {G, H}
      PROVE  Spans(ls \union {l}, g) /\ MayLive(s, log_, ls \union {l}, g)
    <2>1. Spans(ls \union {l}, g)
        BY <1>1, <1>6, OthersSpan
    <2>2. MayLive(s, log_, ls \union {l}, g)
        BY <1>1, LivesOn
    <2> QED
        BY <2>1, <2>2
<1>7. \A g \in Union(gs, G, H) : Spans(ls \union {l}, g) /\ MayLive(s, log_, ls \union {l}, g)
    BY <1>4, <1>5, <1>6 DEF Union
<1> QED
    BY <1>2, <1>3, <1>7 DEF Grouped, all

\* A tracklet of some group is in the one that GroupOf names.
LEMMA GroupOfIsItsGroup ==
    ASSUME NEW t \in UNION groups
    PROVE  GroupOf(t) \in groups /\ t \in GroupOf(t)
    BY DEF GroupOf

LEMMA GroupOfIsUnique ==
    ASSUME NEW all, IsPartition(groups, all), NEW g \in groups, NEW t \in g
    PROVE  GroupOf(t) = g
<1>1. GroupOf(t) \in groups /\ t \in GroupOf(t)
    BY DEF GroupOf
<1> QED
    BY <1>1 DEF IsPartition

(***************************************************************************)
(* The inductive invariant                                                 *)
(***************************************************************************)

Resolving == phase \in {"human", "automatic", "done"}

Phases == {"idle", "human", "automatic"} \union Over

\* The corrections of the call are none, or those of a log that was admitted.
InputInv ==
    /\ scene \in Scenes
    /\ phase \in Phases
    /\ log \in Seq(Entries)
    /\ \A i \in DOMAIN log : IsEntry(log[i], i)
    /\ used \in {<<>>, log}
    /\ used # <<>> => given
    /\ IsCorrections(used)
    /\ \A i \in DOMAIN used : used[i].tracklets \subseteq scene.present
    /\ phase = "idle" => links = {} /\ redundant = {} /\ proposals = {} /\ abstained = {}

\* Each live must-link that was looked at was applied by a link of its own, or
\* its tracklets were one identity already.
DecisionsInv ==
    /\ todo \subseteq Live(used, "must_link")
    /\ redundant \subseteq Live(used, "must_link") \ todo
    /\ {l.sequence : l \in From(links, "human")} = (Live(used, "must_link") \ todo) \ redundant
    /\ \A l \in From(links, "human") :
           /\ used[l.sequence].tracklets = Ends(l)
           /\ \A k \in From(links, "human") : k.sequence = l.sequence => k = l
    /\ \A i \in Live(used, "must_link") \ todo : \E g \in groups : used[i].tracklets \subseteq g

\* Automatic links come last, and only when they were asked for.
AutomaticInv ==
    /\ phase = "human" => proposals = {}
    /\ phase # "human" => todo = {}
    /\ phase = "human" \/ mode = "review_only" =>
           proposals = {} /\ From(links, "automatic") = {}
    /\ \A c \in proposals :
           /\ c.earlier \in EligibleTracklets(scene, used)
           /\ c.later \in EligibleTracklets(scene, used)
           /\ scene.start[c.later] > scene.end[c.earlier]

ResolvingInv ==
    Resolving =>
        /\ Grouped(scene, used, groups, links)
        /\ DecisionsInv
        /\ AutomaticInv

ArtifactInv ==
    /\ phase = "done" => artifact = Artifact
    /\ phase # "invalid"

IInv == InputInv /\ ResolvingInv /\ ArtifactInv

(***************************************************************************)
(* The artifact that the groups make                                       *)
(***************************************************************************)

LEMMA SceneIsScene ==
    ASSUME scene \in Scenes
    PROVE  IsScene(scene)
    BY ResolverAssumption

LEMMA UsedIsALog ==
    ASSUME InputInv
    PROVE  /\ used \in Seq(Entries)
           /\ DOMAIN used \subseteq Nat \ {0}
           /\ \A i \in DOMAIN used : used[i] \in Entries /\ IsEntry(used[i], i)
<1>1. used \in Seq(Entries)
    <2>1. <<>> \in Seq(Entries)
        OBVIOUS
    <2> QED
        BY <2>1 DEF InputInv
<1>2. DOMAIN used \subseteq Nat \ {0}
    BY <1>1
<1>3. \A i \in DOMAIN used : used[i] \in Entries
    BY <1>1
<1>4. \A i \in DOMAIN used : IsEntry(used[i], i)
    BY DEF InputInv, IsCorrections
<1> QED
    BY <1>1, <1>2, <1>3, <1>4

LEMMA TwoMembersCount ==
    ASSUME NEW g, IsFiniteSet(g), NEW x \in g, NEW y \in g, x # y
    PROVE  Cardinality(g) > 1
<1>1. IsFiniteSet(g \ {x}) /\ Cardinality(g \ {x}) = Cardinality(g) - 1
    BY FS_RemoveElement
<1>2. Cardinality(g \ {x}) # 0
    <2>1. g \ {x} # {}
        OBVIOUS
    <2> QED
        BY <1>1, <2>1, FS_EmptySet
<1>3. Cardinality(g) \in Nat /\ Cardinality(g \ {x}) \in Nat
    BY <1>1, CountIsNat
<1> QED
    BY <1>1, <1>2, <1>3

LEMMA TwoCount ==
    ASSUME NEW x, NEW y, x # y
    PROVE  IsFiniteSet({x, y}) /\ Cardinality({x, y}) = 2
<1>1. IsFiniteSet({x}) /\ Cardinality({x}) = 1
    BY FS_Singleton
<1>2. IsFiniteSet({x} \union {y}) /\ Cardinality({x} \union {y}) = Cardinality({x}) + 1
    BY <1>1, FS_AddElement
<1>3. {x} \union {y} = {x, y}
    OBVIOUS
<1> QED
    BY <1>1, <1>2, <1>3

LEMMA OneMemberCounts ==
    ASSUME NEW g, IsFiniteSet(g), Cardinality(g) > 1, NEW x \in g
    PROVE  \E y \in g : y # x
<1> SUFFICES ASSUME \A y \in g : y = x
             PROVE  FALSE
    OBVIOUS
<1>1. g = {x}
    OBVIOUS
<1> QED
    BY <1>1, FS_Singleton

\* A pair of a finite set is two of its members.
LEMMA PairHasTwo ==
    ASSUME NEW S, IsFiniteSet(S), NEW p \in Pairs(S)
    PROVE  \E x, y \in S : x # y /\ p = {x, y}
<1>1. p \subseteq S /\ Cardinality(p) = 2 /\ IsFiniteSet(p)
    BY FS_Subset DEF Pairs
<1>2. PICK x \in p : TRUE
    BY <1>1, EmptyCounts
<1>3. PICK y \in p : y # x
    BY <1>1, <1>2, OneMemberCounts
<1>4. IsFiniteSet({x, y}) /\ Cardinality({x, y}) = 2
    BY <1>3, TwoCount
<1>5. p = {x, y}
    BY <1>1, <1>2, <1>3, <1>4, FS_Subset, {x, y} \in SUBSET p
<1> QED
    BY <1>1, <1>2, <1>3, <1>5

LEMMA TwoAreAPair ==
    ASSUME NEW S, NEW x \in S, NEW y \in S, x # y
    PROVE  {x, y} \in Pairs(S)
    BY TwoCount DEF Pairs

Several == {h \in groups : Cardinality(h) > 1}

\* What each tracklet is assigned.
LEMMA AssignmentIsItsGroup ==
    ASSUME Grouped(scene, used, groups, links)
    PROVE  /\ \A g \in Several : \A t \in g :
                  /\ t \in EligibleTracklets(scene, used)
                  /\ Assignment(t) = [status |-> StatusOf(g), identity |-> g, by |-> 0]
           /\ \A t \in scene.present :
                  /\ Assignment(t).identity # {} =>
                         Assignment(t).identity \in Several /\ t \in Assignment(t).identity
                  /\ Assignment(t).identity # {} <=>
                         Assignment(t).status \in {"confirmed", "provisional"}
                  /\ Assignment(t).status = "excluded" <=> t \in Excluded(scene, used)
                  /\ Assignment(t).status = "confirmed" =>
                         From(Within(links, Assignment(t).identity), "automatic") = {}
<1> DEFINE all == EligibleTracklets(scene, used)
<1>1. IsPartition(groups, all)
    BY DEF Grouped
<1>2. ASSUME NEW g \in Several, NEW t \in g
      PROVE  /\ t \in all
             /\ Assignment(t) = [status |-> StatusOf(g), identity |-> g, by |-> 0]
    <2>1. g \in groups /\ Cardinality(g) > 1
        BY DEF Several
    <2>2. t \in all
        BY <1>1, <2>1 DEF IsPartition
    <2>3. t \notin Excluded(scene, used)
        BY <2>2 DEF EligibleTracklets
    <2>4. GroupOf(t) = g
        BY <1>1, <2>1, GroupOfIsUnique
    <2> QED
        BY <2>1, <2>2, <2>3, <2>4 DEF Assignment
<1>3. ASSUME NEW t \in scene.present
      PROVE  /\ Assignment(t).identity # {} =>
                    Assignment(t).identity \in Several /\ t \in Assignment(t).identity
             /\ Assignment(t).identity # {} <=>
                    Assignment(t).status \in {"confirmed", "provisional"}
             /\ Assignment(t).status = "excluded" <=> t \in Excluded(scene, used)
             /\ Assignment(t).status = "confirmed" =>
                    From(Within(links, Assignment(t).identity), "automatic") = {}
    <2>1. CASE t \in Excluded(scene, used)
        BY <2>1 DEF Assignment
    <2>2. CASE t \notin Excluded(scene, used)
        <3>1. t \in UNION groups
            BY <1>1, <2>2 DEF IsPartition, EligibleTracklets
        <3>2. GroupOf(t) \in groups /\ t \in GroupOf(t)
            BY <3>1, GroupOfIsItsGroup
        <3>3. CASE Cardinality(GroupOf(t)) > 1
            BY <2>2, <3>2, <3>3 DEF Assignment, Several, StatusOf
        <3>4. CASE ~(Cardinality(GroupOf(t)) > 1)
            BY <2>2, <3>4 DEF Assignment
        <3> QED
            BY <3>3, <3>4
    <2> QED
        BY <2>1, <2>2
<1> QED
    BY <1>2, <1>3

LEMMA ArtifactFields ==
    /\ Artifact.identities = Identities
    /\ \A t \in scene.present : Artifact.assignment[t] = Assignment(t)
    /\ Artifact.links = links
    /\ DOMAIN Artifact.applied = DOMAIN used
    /\ \A i \in DOMAIN used :
           Artifact.applied[i] = [action |-> used[i].action, outcome |-> Outcome(i),
                                  tracklets |-> used[i].tracklets]
    /\ Artifact.cited = given
    BY DEF Artifact

LEMMA IdentityFields ==
    ASSUME NEW i \in Identities
    PROVE  /\ i.members \in Several
           /\ i.status = StatusOf(i.members)
           /\ i.automatic = Cardinality(From(Within(links, i.members), "automatic"))
           /\ i.human = Cardinality(From(Within(links, i.members), "human"))
           /\ \A j \in Identities : j.members = i.members => j = i
    BY DEF Identities, Several

LEMMA SeveralAreIdentities ==
    ASSUME NEW g \in Several
    PROVE  \E i \in Identities : i.members = g
<1> DEFINE i == [members |-> g, status |-> StatusOf(g),
                 automatic |-> Cardinality(From(Within(links, g), "automatic")),
                 human |-> Cardinality(From(Within(links, g), "human"))]
<1>1. i \in Identities
    BY DEF Identities, Several
<1>2. i.members = g
    OBVIOUS
<1> HIDE DEF i
<1> QED
    BY <1>1, <1>2

LEMMA IdentitiesAreSound ==
    ASSUME Grouped(scene, used, groups, links), NEW i \in Identities
    PROVE  IdentityIsSound(scene, Artifact, i)
<1> DEFINE g == i.members
           within == Within(links, g)
<1>1. g \in groups /\ Cardinality(g) > 1
    BY IdentityFields DEF Several
<1>2. Spans(links, g) /\ MayLive(scene, used, links, g)
    BY <1>1 DEF Grouped
<1>3. \A t \in g : /\ Artifact.assignment[t].identity = g
                   /\ Artifact.assignment[t].status = i.status
    <2> TAKE t \in g
    <2>1. /\ t \in scene.present
          /\ Assignment(t) = [status |-> StatusOf(g), identity |-> g, by |-> 0]
        BY <1>1, AssignmentIsItsGroup DEF Several, EligibleTracklets
    <2>2. Artifact.assignment[t] = Assignment(t)
        BY <2>1, ArtifactFields
    <2>3. i.status = StatusOf(g)
        BY IdentityFields
    <2> QED
        BY <2>1, <2>2, <2>3
<1>4. \A x, y \in g : x # y => ~Overlap(scene, x, y)
    BY <1>2 DEF MayLive
<1>5. IsFiniteSet(within) /\ Cardinality(within) = Cardinality(g) - 1
    BY <1>2 DEF Spans
<1>6. Connects(within, g)
    <2> SUFFICES ASSUME NEW part \in (SUBSET g) \ {{}, g}
                 PROVE  \E l \in within : /\ Ends(l) \intersect part # {}
                                          /\ Ends(l) \intersect (g \ part) # {}
        BY Zenon DEF Connects, Ends
    <2>1. PICK l \in links : /\ Ends(l) \intersect part # {}
                             /\ Ends(l) \intersect (g \ part) # {}
        BY <1>2 DEF Spans, Connects, Ends
    <2>2. l \in within
        BY <2>1 DEF Within, Ends
    <2> QED
        BY <2>1, <2>2
<1>7. i.status = IF i.automatic = 0 THEN "confirmed" ELSE "provisional"
    <2>1. IsFiniteSet(From(within, "automatic"))
        BY <1>5, FS_Subset DEF From
    <2>2. From(within, "automatic") = {} <=> i.automatic = 0
        BY <2>1, IdentityFields, FS_EmptySet
    <2> QED
        BY <2>2, IdentityFields DEF StatusOf
<1>8. Artifact.links = links
    BY ArtifactFields
<1>9. Cardinality(g) >= 2
    BY <1>1, <1>2, CountIsNat DEF Spans
<1>10. /\ Cardinality(From(within, "automatic")) = i.automatic
       /\ Cardinality(From(within, "human")) = i.human
    BY IdentityFields
<1> QED
    BY <1>3, <1>4, <1>5, <1>6, <1>7, <1>8, <1>9, <1>10, Zenon DEF IdentityIsSound

\* The entry an exclusion cites is the first live one that names the tracklet.
LEMMA ExclusionIsCited ==
    ASSUME InputInv, NEW t \in HumanExcluded(used)
    PROVE  /\ ExcludedBy(used, t) \in Live(used, "exclude")
           /\ t \in used[ExcludedBy(used, t)].tracklets
<1> DEFINE naming == {i \in Live(used, "exclude") : t \in used[i].tracklets}
<1>1. naming \subseteq Nat
    BY UsedIsALog DEF Live
<1>2. naming # {}
    BY DEF HumanExcluded, Decided
<1>3. PICK i \in naming : \A j \in naming : ~(<<j, i>> \in OpToRel(<, Nat))
    <2> HIDE DEF naming
    <2> QED
        BY <1>1, <1>2, NatLessThanWellFounded, WFMin, Zenon
<1>4. \A j \in naming : i <= j
    <2> TAKE j \in naming
    <2>1. i \in Nat /\ j \in Nat
        BY <1>1
    <2>2. ~(j < i)
        BY <1>3, <2>1 DEF OpToRel
    <2> QED
        BY <2>1, <2>2
<1> QED
    BY <1>3, <1>4 DEF ExcludedBy

\* What a live decision comes to, once every must-link was looked at.
LEMMA LiveOutcome ==
    ASSUME InputInv, DecisionsInv, todo = {},
           NEW action \in {"must_link", "exclude"}
    PROVE  {i \in DOMAIN used : used[i].action = action /\ Outcome(i) = "applied"}
               = IF action = "must_link" THEN Live(used, action) \ redundant
                 ELSE Live(used, action)
<1>1. redundant \subseteq Live(used, "must_link")
    BY DEF DecisionsInv
<1>2. ASSUME NEW i \in DOMAIN used, used[i].action = action
      PROVE  Outcome(i) = "applied" <=> i \notin Revoked(used) /\ i \notin redundant
    BY <1>2 DEF Outcome
<1>3. ASSUME NEW i \in DOMAIN used, used[i].action = "exclude"
      PROVE  i \notin redundant
    BY <1>1, <1>3 DEF Live
<1> QED
    BY <1>2, <1>3 DEF Live

LEMMA AppliedFields ==
    /\ DOMAIN Artifact.applied = DOMAIN used
    /\ \A i \in DOMAIN used :
           /\ Artifact.applied[i].action = used[i].action
           /\ Artifact.applied[i].outcome = Outcome(i)
           /\ Artifact.applied[i].tracklets = used[i].tracklets
<1>1. ASSUME NEW i \in DOMAIN used
      PROVE  /\ Artifact.applied[i].action = used[i].action
             /\ Artifact.applied[i].outcome = Outcome(i)
             /\ Artifact.applied[i].tracklets = used[i].tracklets
    <2>1. Artifact.applied[i] = [action |-> used[i].action, outcome |-> Outcome(i),
                                 tracklets |-> used[i].tracklets]
        BY ArtifactFields
    <2> QED
        BY <2>1
<1> QED
    BY <1>1, ArtifactFields

LEMMA ArtifactIsTraceable ==
    ASSUME InputInv, DecisionsInv, Grouped(scene, used, groups, links), todo = {}
    PROVE  IsTraceable(scene, Artifact)
<1> DEFINE human == From(links, "human")
           byHand == {t \in scene.present : Artifact.assignment[t].status = "excluded"
                                            /\ Artifact.assignment[t].by # 0}
<1>0. \A action : Applied(Artifact, action) =
          {i \in DOMAIN used : used[i].action = action /\ Outcome(i) = "applied"}
    BY AppliedFields DEF Applied
<1>1. Applied(Artifact, "must_link") = Live(used, "must_link") \ redundant
    BY <1>0, LiveOutcome
<1>2. Applied(Artifact, "exclude") = Live(used, "exclude")
    BY <1>0, LiveOutcome
<1>3. {l.sequence : l \in human} = Applied(Artifact, "must_link")
    BY <1>1 DEF DecisionsInv
<1>4. ASSUME NEW t \in byHand
      PROVE  /\ Artifact.assignment[t].by \in Live(used, "exclude")
             /\ t \in Artifact.applied[Artifact.assignment[t].by].tracklets
    <2>1. /\ Artifact.assignment[t] = Assignment(t)
          /\ Assignment(t).status = "excluded" /\ Assignment(t).by # 0
        BY ArtifactFields
    <2>2. t \in Excluded(scene, used)
        BY <2>1, AssignmentIsItsGroup
    <2>3. t \in HumanExcluded(used) /\ Assignment(t).by = ExcludedBy(used, t)
        BY <2>1, <2>2 DEF Assignment
    <2>4. /\ ExcludedBy(used, t) \in Live(used, "exclude")
          /\ t \in used[ExcludedBy(used, t)].tracklets
        BY <2>3, ExclusionIsCited
    <2>5. ExcludedBy(used, t) \in DOMAIN used
        BY <2>4 DEF Live
    <2>6. Artifact.applied[ExcludedBy(used, t)].tracklets = used[ExcludedBy(used, t)].tracklets
        BY <2>5, AppliedFields
    <2> HIDE DEF byHand
    <2> QED
        BY <2>1, <2>3, <2>4, <2>6
<1>5. Applied(Artifact, "must_link") # {} \/ byHand # {} => used # <<>>
    <2>1. Live(used, "must_link") # {} \/ Live(used, "exclude") # {} => DOMAIN used # {}
        BY DEF Live
    <2>2. DOMAIN used # {} => used # <<>>
        OBVIOUS
    <2> HIDE DEF byHand
    <2> QED
        BY <1>1, <1>4, <2>1, <2>2
<1>6. human # {} => Applied(Artifact, "must_link") # {}
    BY <1>3
<1>7. ASSUME NEW l \in human
      PROVE  /\ Artifact.applied[l.sequence].tracklets = {l.earlier, l.later}
             /\ \A k \in human : k.sequence = l.sequence => k = l
    <2>1. l.sequence \in Live(used, "must_link")
        BY DEF DecisionsInv
    <2>2. l.sequence \in DOMAIN used
        BY <2>1 DEF Live
    <2>3. used[l.sequence].tracklets = {l.earlier, l.later}
        BY DEF DecisionsInv, Ends
    <2>4. Artifact.applied[l.sequence].tracklets = used[l.sequence].tracklets
        BY <2>2, AppliedFields
    <2>5. \A k \in human : k.sequence = l.sequence => k = l
        BY DEF DecisionsInv
    <2> QED
        BY <2>3, <2>4, <2>5
<1>8. Artifact.links = links /\ (used # <<>> => Artifact.cited)
    BY ArtifactFields DEF InputInv
<1>9. human # {} \/ Applied(Artifact, "must_link") # {} \/ byHand # {} => Artifact.cited
    BY <1>5, <1>6, <1>8
<1> QED
    BY <1>2, <1>3, <1>4, <1>7, <1>8, <1>9, Zenon DEF IsTraceable

\* The checks that the artifact makes of itself accept what the groups make.
LEMMA ArtifactIsAccepted ==
    ASSUME InputInv, DecisionsInv, Grouped(scene, used, groups, links), todo = {}
    PROVE  IsAccepted(scene, Artifact)
<1> DEFINE a == Artifact
<1>1. ASSUME NEW l \in links
      PROVE  /\ LinkIsSound(scene, l)
             /\ \E i \in Identities : {l.earlier, l.later} \subseteq i.members
    <2>1. Joins(scene, groups, l)
        BY DEF Grouped
    <2>2. PICK g \in groups : l.earlier \in g /\ l.later \in g
        BY <2>1 DEF Joins
    <2>3. Cardinality(g) > 1
        BY <2>1, <2>2, TwoMembersCount DEF Joins, Grouped, Spans
    <2>4. \E i \in Identities : i.members = g
        BY <2>3, SeveralAreIdentities DEF Several
    <2>5. LinkIsSound(scene, l)
        BY <2>1 DEF LinkIsSound, Joins
    <2> QED
        BY <2>2, <2>4, <2>5
<1>2. ASSUME NEW i \in Identities, NEW j \in Identities, i # j
      PROVE  i.members \intersect j.members = {}
    <2>1. i.members \in groups /\ j.members \in groups /\ i.members # j.members
        BY <1>2, IdentityFields DEF Several
    <2> QED
        BY <2>1 DEF Grouped, IsPartition
<1>3. ASSUME NEW i \in Identities PROVE IdentityIsSound(scene, a, i)
    BY IdentitiesAreSound
<1>4. ASSUME NEW t \in scene.present
      PROVE  /\ a.assignment[t].identity # {} <=>
                    a.assignment[t].status \in {"confirmed", "provisional"}
             /\ a.assignment[t].identity # {} =>
                    \E i \in Identities : i.members = a.assignment[t].identity /\ t \in i.members
    <2>1. a.assignment[t] = Assignment(t)
        BY ArtifactFields
    <2>2. /\ Assignment(t).identity # {} =>
                 Assignment(t).identity \in Several /\ t \in Assignment(t).identity
          /\ Assignment(t).identity # {} <=>
                 Assignment(t).status \in {"confirmed", "provisional"}
        BY AssignmentIsItsGroup
    <2>3. ASSUME Assignment(t).identity # {}
          PROVE  \E i \in Identities : i.members = Assignment(t).identity /\ t \in i.members
        BY <2>2, <2>3, SeveralAreIdentities
    <2> QED
        BY <2>1, <2>2, <2>3
<1>5. IsTraceable(scene, a)
    BY ArtifactIsTraceable
<1>6. a.links = links /\ a.identities = Identities
    BY ArtifactFields
<1> HIDE DEF a
<1>7. IsAccepted(scene, a)
    BY <1>1, <1>2, <1>3, <1>4, <1>5, <1>6, Zenon DEF IsAccepted
<1> QED
    BY <1>7 DEF a

(***************************************************************************)
(* The steps                                                               *)
(***************************************************************************)

LEMMA NoLogIsALog ==
    /\ <<>> \in Seq(Entries) /\ DOMAIN <<>> = {}
    /\ IsCorrections(<<>>)
<1>1. <<>> \in Seq(Entries) /\ DOMAIN <<>> = {}
    OBVIOUS
<1>2. \A action : Live(<<>>, action) = {} /\ Decided(<<>>, action) = {}
    BY DEF Live, Decided
<1>3. RevocationsAreLegal(<<>>)
    BY DEF RevocationsAreLegal, Revokes, Revoked
<1>4. EffectiveIsConsistent(<<>>)
    BY <1>2 DEF EffectiveIsConsistent, HumanExcluded
<1> QED
    BY <1>1, <1>3, <1>4 DEF IsCorrections

LEMMA InitIsSound == Init => IInv
<1> SUFFICES ASSUME Init PROVE IInv
    OBVIOUS
<1>1. InputInv
    BY NoLogIsALog DEF Init, InputInv, Phases
<1>2. ResolvingInv
    BY DEF Init, ResolvingInv, Resolving
<1>3. ArtifactInv
    BY DEF Init, ArtifactInv
<1> QED
    BY <1>1, <1>2, <1>3 DEF IInv

\* A step that ends the call, or begins a decision, leaves nothing to resolve.
LEMMA DecideKeeps ==
    ASSUME IInv, NEW entry \in Drafts, Decide(entry)
    PROVE  IInv'
<1>1. entry \in Entries /\ log \in Seq(Entries) /\ log' = Append(log, entry)
    BY ResolverAssumption DEF IInv, InputInv, Decide
<1>2. log' \in Seq(Entries)
    BY <1>1
<1>3. ASSUME NEW i \in DOMAIN log' PROVE IsEntry(log'[i], i)
    <2>1. CASE i \in 1 .. Len(log)
        BY <1>1, <2>1 DEF IInv, InputInv
    <2>2. CASE i = Len(log) + 1
        BY <1>1, <2>2 DEF Decide
    <2> QED
        BY <1>1, <2>1, <2>2
<1>4. InputInv'
    BY <1>2, <1>3, NoLogIsALog DEF IInv, InputInv, Decide, Phases
<1>5. ~Resolving' /\ phase' = "idle"
    BY DEF Decide, Resolving
<1> QED
    BY <1>4, <1>5 DEF IInv, ResolvingInv, ArtifactInv

LEMMA EndKeeps ==
    ASSUME IInv, phase' \in {"rejected", "crashed"}, UNCHANGED <<log, scene, work, artifact>>
    PROVE  IInv'
<1>1. InputInv'
    BY DEF IInv, InputInv, work, Phases, Over
<1>2. ~Resolving'
    BY DEF Resolving
<1> QED
    BY <1>1, <1>2 DEF IInv, ResolvingInv, ArtifactInv

LEMMA StartKeeps ==
    ASSUME IInv, NEW request \in Requests, Start(request)
    PROVE  IInv'
<1>1. used' \in {<<>>, log}
    BY DEF Start
<1>2. IsCorrections(used') /\ \A i \in DOMAIN used' : used'[i].tracklets \subseteq scene.present
    BY NoLogIsALog DEF Start, Admissible
<1>3. links = {} /\ redundant = {} /\ proposals = {} /\ abstained = {}
    BY DEF Start, IInv, InputInv
<1>4. InputInv'
    BY <1>1, <1>2 DEF Start, IInv, InputInv, Phases
<1>5. Grouped(scene, used, groups, links)'
    BY <1>3, SingletonsAreGrouped DEF Start
<1>6. DecisionsInv'
    BY <1>3 DEF Start, DecisionsInv, From
<1>7. AutomaticInv'
    BY <1>3 DEF Start, AutomaticInv, From
<1>8. ArtifactInv'
    BY DEF Start, ArtifactInv
<1> QED
    BY <1>4, <1>5, <1>6, <1>7, <1>8 DEF IInv, ResolvingInv

\* The tracklets of a live must-link are two, and in the groups unless one of
\* them is not eligible.
LEMMA MustLinkIsAPair ==
    ASSUME InputInv, NEW i \in Live(used, "must_link")
    PROVE  used[i].tracklets \in Pairs(Tracklets) /\ used[i].tracklets # {}
<1>1. used[i].tracklets \in Pairs(Tracklets)
    BY UsedIsALog DEF Live, IsEntry
<1> QED
    BY <1>1, EmptyCounts DEF Pairs

LEMMA SkipRedundantKeeps ==
    ASSUME IInv, NEW i \in todo, SkipRedundant(i)
    PROVE  IInv'
<1>1. InputInv /\ Grouped(scene, used, groups, links) /\ DecisionsInv /\ AutomaticInv
    BY DEF IInv, ResolvingInv, Resolving, SkipRedundant
<1>2. InputInv'
    BY <1>1 DEF InputInv, SkipRedundant
<1>3. i \in Live(used, "must_link")
    BY <1>1 DEF DecisionsInv
<1>4. \E g \in groups : used[i].tracklets \subseteq g
    <2>1. PICK x \in used[i].tracklets : TRUE
        BY <1>1, <1>3, MustLinkIsAPair
    <2>2. GroupOf(x) \in groups
        BY <2>1, GroupOfIsItsGroup DEF SkipRedundant
    <2>3. ASSUME NEW y \in used[i].tracklets PROVE y \in GroupOf(x)
        <3>1. y \in GroupOf(y)
            BY GroupOfIsItsGroup DEF SkipRedundant
        <3> QED
            BY <2>1, <3>1 DEF SkipRedundant, SameIdentity
    <2> QED
        BY <2>2, <2>3
<1>5. DecisionsInv'
    <2>1. (Live(used, "must_link") \ todo') \ redundant' = (Live(used, "must_link") \ todo) \ redundant
        BY DEF SkipRedundant
    <2>2. \A j \in Live(used, "must_link") \ todo' : \E g \in groups : used[j].tracklets \subseteq g
        BY <1>1, <1>4 DEF SkipRedundant, DecisionsInv
    <2>3. /\ todo' \subseteq Live(used, "must_link")
          /\ redundant' \subseteq Live(used, "must_link") \ todo'
        BY <1>1, <1>3 DEF SkipRedundant, DecisionsInv
    <2>4. used' = used /\ links' = links /\ groups' = groups
        BY DEF SkipRedundant
    <2> QED
        BY <1>1, <2>1, <2>2, <2>3, <2>4 DEF DecisionsInv
<1>6. AutomaticInv'
    BY <1>1 DEF SkipRedundant, AutomaticInv
<1>7. Grouped(scene, used, groups, links)'
    BY <1>1 DEF SkipRedundant
<1>8. ArtifactInv'
    BY DEF IInv, SkipRedundant, ArtifactInv
<1> QED
    BY <1>2, <1>5, <1>6, <1>7, <1>8 DEF IInv, ResolvingInv

\* A pair that may live together and starts in order is a gap apart.
LEMMA LinkHasAGap ==
    ASSUME scene \in Scenes, NEW x \in scene.present, NEW y \in scene.present,
           StartsBefore(scene, x, y), ~Overlap(scene, x, y)
    PROVE  scene.start[y] - scene.end[x] > 0
<1>1. /\ scene.start[x] \in Nat /\ scene.start[y] \in Nat
      /\ scene.end[x] \in Nat /\ scene.end[y] \in Nat
      /\ scene.start[y] <= scene.end[y]
    BY SceneIsScene DEF IsScene
<1> QED
    BY <1>1 DEF StartsBefore, Overlap

LEMMA HumanLinkKeeps ==
    ASSUME IInv, NEW i \in todo, NEW x \in used[i].tracklets, NEW y \in used[i].tracklets,
           HumanLink(i, x, y)
    PROVE  IInv'
<1> DEFINE l == [earlier |-> x, later |-> y, source |-> "human", sequence |-> i, cost |-> 0]
           G == GroupOf(x)
           H == GroupOf(y)
<1>1. InputInv /\ Grouped(scene, used, groups, links) /\ DecisionsInv /\ AutomaticInv
    BY DEF IInv, ResolvingInv, Resolving, HumanLink
<1>2. InputInv'
    BY <1>1 DEF InputInv, HumanLink
<1>3. i \in Live(used, "must_link") /\ i # 0
    BY <1>1, UsedIsALog DEF DecisionsInv, Live
<1>4. /\ G \in groups /\ H \in groups /\ x \in G /\ y \in H /\ G # H
      /\ \A p \in G, q \in H : ~Violation(scene, used, p, q, TRUE)
    BY GroupOfIsItsGroup DEF HumanLink, SameIdentity, MayJoin
<1>5. x \in scene.present /\ y \in scene.present
    BY <1>1, <1>3 DEF InputInv, Live
<1>6. Gap(scene, l) > 0
    <2>1. ~Overlap(scene, x, y)
        BY <1>4 DEF Violation
    <2>2. scene.start[y] - scene.end[x] > 0
        BY <1>1, <1>5, <2>1, LinkHasAGap DEF InputInv, HumanLink
    <2> QED
        BY <2>2 DEF Gap
<1>7. /\ l.earlier = x /\ l.later = y /\ l.source = "human" /\ l.sequence = i
      /\ Ends(l) = {x, y}
    BY DEF Ends
<1>8. links' = links \union {l} /\ groups' = Union(groups, G, H)
    BY DEF HumanLink, Joined, Union
<1>9. /\ scene' = scene /\ used' = used /\ redundant' = redundant /\ todo' = todo \ {i}
      /\ proposals' = proposals /\ mode' = mode /\ phase' = phase /\ artifact' = artifact
      /\ phase = "human" /\ used[i].tracklets = {x, y}
    BY DEF HumanLink
<1> HIDE DEF l, G, H
<1>10. \A k \in links \union {l} : k.source = "human"
    <2>1. From(links, "automatic") = {}
        BY <1>1, <1>9 DEF AutomaticInv
    <2>2. \A k \in links : k.source \in {"human", "automatic"}
        BY <1>1 DEF Grouped, Joins
    <2> QED
        BY <1>7, <2>1, <2>2 DEF From
<1>11. Grouped(scene, used, Union(groups, G, H), links \union {l})
    BY <1>1, <1>3, <1>4, <1>6, <1>7, <1>10, JoinKeepsGroups
<1>12. DecisionsInv'
    <2>1. From(links', "human") = From(links, "human") \union {l}
        BY <1>7, <1>8 DEF From
    <2>2. \A k \in From(links, "human") : k.sequence \notin todo
        BY <1>1 DEF DecisionsInv
    <2>3. {k.sequence : k \in From(links', "human")} = (Live(used, "must_link") \ todo') \ redundant'
        <3>1. {k.sequence : k \in From(links', "human")}
                 = {k.sequence : k \in From(links, "human")} \union {i}
            BY <1>7, <2>1
        <3>2. i \notin redundant
            BY <1>1 DEF DecisionsInv
        <3> QED
            BY <1>1, <1>3, <1>9, <3>1, <3>2 DEF DecisionsInv
    <2>4. \A k \in From(links', "human") :
              /\ used[k.sequence].tracklets = Ends(k)
              /\ \A j \in From(links', "human") : j.sequence = k.sequence => j = k
        BY <1>1, <1>7, <1>9, <2>1, <2>2 DEF DecisionsInv
    <2>5. ASSUME NEW j \in Live(used, "must_link") \ todo'
          PROVE  \E g \in groups' : used[j].tracklets \subseteq g
        <3>0. G \union H \in groups'
            BY <1>8 DEF Union
        <3>1. CASE j = i
            <4>1. used[j].tracklets \subseteq G \union H
                BY <1>4, <1>9, <3>1
            <4> QED
                BY <3>0, <4>1
        <3>2. CASE j # i
            <4>1. PICK g \in groups : used[j].tracklets \subseteq g
                BY <1>1, <1>9, <3>2 DEF DecisionsInv
            <4>2. CASE g \in {G, H}
                BY <3>0, <4>1, <4>2
            <4>3. CASE g \notin {G, H}
                BY <1>8, <4>1, <4>3 DEF Union
            <4> QED
                BY <4>2, <4>3
        <3> QED
            BY <3>1, <3>2
    <2>6. /\ todo' \subseteq Live(used, "must_link")
          /\ redundant' \subseteq Live(used, "must_link") \ todo'
        BY <1>1, <1>9 DEF DecisionsInv
    <2> QED
        BY <1>9, <2>3, <2>4, <2>5, <2>6 DEF DecisionsInv
<1>13. AutomaticInv'
    <2>1. From(links', "automatic") = {}
        BY <1>8, <1>10 DEF From
    <2> QED
        BY <1>1, <1>9, <2>1 DEF AutomaticInv
<1>14. ArtifactInv'
    BY <1>9 DEF ArtifactInv
<1> QED
    BY <1>2, <1>8, <1>9, <1>11, <1>12, <1>13, <1>14 DEF IInv, ResolvingInv

LEMMA ProposeKeeps ==
    ASSUME IInv, Propose
    PROVE  IInv'
<1>1. InputInv /\ Grouped(scene, used, groups, links) /\ DecisionsInv /\ AutomaticInv
    BY DEF IInv, ResolvingInv, Resolving, Propose
<1>2. InputInv'
    BY <1>1 DEF InputInv, Propose, Phases
<1>3. proposals' \subseteq Gathered
    BY DEF Propose, Proposed
<1>4. ASSUME NEW c \in Gathered
      PROVE  /\ c.earlier \in EligibleTracklets(scene, used)
             /\ c.later \in EligibleTracklets(scene, used)
             /\ scene.start[c.later] > scene.end[c.earlier]
             /\ mode # "review_only"
    <2> DEFINE all == EligibleTracklets(scene, used)
    <2>1. PICK p \in {q \in all \X all : Candidate(q[1], q[2])} :
              c = [earlier |-> p[1], later |-> p[2], cost |-> Cost(p[1], p[2])]
        BY DEF Gathered
    <2>2. /\ p[1] \in all /\ p[2] \in all
          /\ scene.start[p[2]] > scene.end[p[1]] /\ mode # "review_only"
        BY DEF Candidate, InWindow
    <2>3. c.earlier = p[1] /\ c.later = p[2]
        BY <2>1
    <2> QED
        BY <2>2, <2>3
<1>5. AutomaticInv'
    BY <1>1, <1>3, <1>4 DEF AutomaticInv, Propose
<1>6. DecisionsInv' /\ Grouped(scene, used, groups, links)'
    BY <1>1 DEF Propose, DecisionsInv
<1>7. ArtifactInv'
    BY DEF ArtifactInv, Propose
<1> QED
    BY <1>2, <1>5, <1>6, <1>7 DEF IInv, ResolvingInv

LEMMA AbstainKeeps ==
    ASSUME IInv, NEW c \in proposals, AbstainFromProposal(c)
    PROVE  IInv'
<1>1. InputInv /\ Grouped(scene, used, groups, links) /\ DecisionsInv /\ AutomaticInv
    BY DEF IInv, ResolvingInv, Resolving, AbstainFromProposal
<1>2. InputInv'
    BY <1>1 DEF InputInv, AbstainFromProposal
<1>3. AutomaticInv'
    BY <1>1 DEF AutomaticInv, AbstainFromProposal
<1>4. DecisionsInv' /\ Grouped(scene, used, groups, links)'
    BY <1>1 DEF AbstainFromProposal, DecisionsInv
<1>5. ArtifactInv'
    BY DEF ArtifactInv, AbstainFromProposal
<1> QED
    BY <1>2, <1>3, <1>4, <1>5 DEF IInv, ResolvingInv

LEMMA AutomaticLinkKeeps ==
    ASSUME IInv, NEW c \in proposals, AutomaticLink(c)
    PROVE  IInv'
<1> DEFINE x == c.earlier
           y == c.later
           l == [earlier |-> x, later |-> y, source |-> "automatic", sequence |-> 0,
                 cost |-> c.cost]
           G == GroupOf(x)
           H == GroupOf(y)
<1>1. InputInv /\ Grouped(scene, used, groups, links) /\ DecisionsInv /\ AutomaticInv
    BY DEF IInv, ResolvingInv, Resolving, AutomaticLink
<1>2. InputInv'
    BY <1>1 DEF InputInv, AutomaticLink
<1>3. /\ x \in EligibleTracklets(scene, used) /\ y \in EligibleTracklets(scene, used)
      /\ scene.start[y] > scene.end[x]
    BY <1>1 DEF AutomaticInv
<1>4. /\ G \in groups /\ H \in groups /\ x \in G /\ y \in H /\ G # H
      /\ \A p \in G, q \in H : ~Violation(scene, used, p, q, FALSE)
    <2>1. x \in UNION groups /\ y \in UNION groups
        BY <1>1, <1>3 DEF Grouped, IsPartition
    <2> QED
        BY <2>1, GroupOfIsItsGroup DEF AutomaticLink, Contradicts, SameIdentity, MayJoin
<1>5. Gap(scene, l) > 0
    <2>1. scene.start[y] \in Nat /\ scene.end[x] \in Nat
        BY <1>1, <1>3, SceneIsScene DEF InputInv, IsScene, EligibleTracklets
    <2> QED
        BY <1>3, <2>1 DEF Gap
<1>6. l.earlier = x /\ l.later = y /\ l.source = "automatic" /\ l.sequence = 0
    OBVIOUS
<1>7. links' = links \union {l} /\ groups' = Union(groups, G, H)
    BY DEF AutomaticLink, Joined, Union
<1>8. /\ scene' = scene /\ used' = used /\ redundant' = redundant /\ todo' = todo
      /\ proposals' = proposals \ {c} /\ mode' = mode /\ phase' = phase /\ artifact' = artifact
      /\ phase = "automatic"
    BY DEF AutomaticLink
<1> HIDE DEF l, G, H, x, y
<1>9. Grouped(scene, used, Union(groups, G, H), links \union {l})
    BY <1>1, <1>4, <1>5, <1>6, JoinKeepsGroups
<1>10. DecisionsInv'
    <2>1. From(links', "human") = From(links, "human")
        BY <1>6, <1>7 DEF From
    <2>2. ASSUME NEW j \in Live(used, "must_link") \ todo
          PROVE  \E g \in groups' : used[j].tracklets \subseteq g
        <3>0. G \union H \in groups'
            BY <1>7 DEF Union
        <3>1. PICK g \in groups : used[j].tracklets \subseteq g
            BY <1>1 DEF DecisionsInv
        <3>2. CASE g \in {G, H}
            BY <3>0, <3>1, <3>2
        <3>3. CASE g \notin {G, H}
            BY <1>7, <3>1, <3>3 DEF Union
        <3> QED
            BY <3>2, <3>3
    <2> QED
        BY <1>1, <1>8, <2>1, <2>2 DEF DecisionsInv
<1>11. AutomaticInv'
    <2>1. mode # "review_only"
        BY <1>1 DEF AutomaticInv
    <2> QED
        BY <1>1, <1>8, <2>1 DEF AutomaticInv
<1>12. ArtifactInv'
    BY <1>8 DEF ArtifactInv
<1> QED
    BY <1>2, <1>7, <1>8, <1>9, <1>10, <1>11, <1>12 DEF IInv, ResolvingInv

LEMMA BuildKeeps ==
    ASSUME IInv, Build
    PROVE  IInv'
<1>1. /\ InputInv /\ Grouped(scene, used, groups, links) /\ DecisionsInv /\ AutomaticInv
      /\ todo = {}
    BY DEF IInv, ResolvingInv, Resolving, Build, AutomaticInv
<1>2. IsAccepted(scene, Artifact)
    BY <1>1, ArtifactIsAccepted
<1>3. artifact' = Artifact /\ phase' = "done" /\ UNCHANGED <<log, scene, work>>
    BY <1>2 DEF Build
<1>4. InputInv'
    BY <1>1, <1>3 DEF InputInv, work, Phases, Over
<1>5. AutomaticInv'
    BY <1>1, <1>3 DEF AutomaticInv, Build, work
<1>6. DecisionsInv' /\ Grouped(scene, used, groups, links)'
    BY <1>1, <1>3 DEF work, DecisionsInv
<1>7. Artifact' = Artifact
    BY <1>3 DEF work, Artifact, Identities, StatusOf, Assignment, GroupOf, Outcome
<1>8. ArtifactInv'
    BY <1>3, <1>7 DEF ArtifactInv
<1> QED
    BY <1>4, <1>5, <1>6, <1>8 DEF IInv, ResolvingInv

LEMMA StutterKeeps ==
    ASSUME IInv, UNCHANGED vars
    PROVE  IInv'
<1>1. UNCHANGED <<log, scene, phase, artifact, mode, given, used, todo, groups, links, redundant,
                  proposals, abstained>>
    BY DEF vars, work
<1>2. InputInv'
    BY <1>1 DEF IInv, InputInv
<1>3. ResolvingInv'
    BY <1>1 DEF IInv, ResolvingInv, Resolving, DecisionsInv, AutomaticInv
<1>4. Artifact' = Artifact
    BY <1>1 DEF Artifact, Identities, StatusOf, Assignment, GroupOf, Outcome
<1>5. ArtifactInv'
    BY <1>1, <1>4 DEF IInv, ArtifactInv
<1> QED
    BY <1>2, <1>3, <1>5 DEF IInv

LEMMA StepIsSound == IInv /\ [Next]_vars => IInv'
<1> SUFFICES ASSUME IInv, [Next]_vars PROVE IInv'
    OBVIOUS
<1>1. ASSUME NEW entry \in Drafts, Decide(entry) PROVE IInv'
    BY <1>1, DecideKeeps
<1>2. ASSUME NEW request \in Requests, Refuse(request) PROVE IInv'
    BY <1>2, EndKeeps DEF Refuse
<1>3. ASSUME NEW request \in Requests, Start(request) PROVE IInv'
    BY <1>3, StartKeeps
<1>4. ASSUME NEW i \in todo, CrashOnIneligible(i) PROVE IInv'
    BY <1>4, EndKeeps DEF CrashOnIneligible
<1>5. ASSUME NEW i \in todo, SkipRedundant(i) PROVE IInv'
    BY <1>5, SkipRedundantKeeps
<1>6. ASSUME NEW i \in todo, RejectImpossible(i) PROVE IInv'
    BY <1>6, EndKeeps DEF RejectImpossible
<1>7. ASSUME NEW i \in todo, NEW x \in used[i].tracklets, NEW y \in used[i].tracklets,
             HumanLink(i, x, y)
      PROVE  IInv'
    BY <1>7, HumanLinkKeeps
<1>8. ASSUME Propose PROVE IInv'
    BY <1>8, ProposeKeeps
<1>9. ASSUME NEW c \in proposals, AbstainFromProposal(c) PROVE IInv'
    BY <1>9, AbstainKeeps
<1>10. ASSUME NEW c \in proposals, AutomaticLink(c) PROVE IInv'
    BY <1>10, AutomaticLinkKeeps
<1>11. ASSUME Build PROVE IInv'
    BY <1>11, BuildKeeps
<1>12. ASSUME UNCHANGED vars PROVE IInv'
    BY <1>12, StutterKeeps
<1> QED
    BY <1>1, <1>2, <1>3, <1>4, <1>5, <1>6, <1>7, <1>8, <1>9, <1>10, <1>11, <1>12 DEF Next

LEMMA IInvAlways == Spec => []IInv
    BY InitIsSound, StepIsSound, PTL DEF Spec

(***************************************************************************)
(* The theorems                                                            *)
(***************************************************************************)

\* When a call is done, its artifact says what the groups say.
LEMMA DoneIsResolved ==
    ASSUME IInv, phase = "done"
    PROVE  /\ InputInv /\ Grouped(scene, used, groups, links) /\ DecisionsInv
           /\ todo = {} /\ AutomaticInv
           /\ artifact.links = links
           /\ \A t \in scene.present : artifact.assignment[t] = Assignment(t)
           /\ artifact = Artifact
<1>1. InputInv /\ Grouped(scene, used, groups, links) /\ DecisionsInv /\ AutomaticInv
    BY DEF IInv, ResolvingInv, Resolving
<1>2. todo = {}
    BY <1>1 DEF AutomaticInv
<1>3. artifact = Artifact
    BY DEF IInv, ArtifactInv
<1> QED
    BY <1>1, <1>2, <1>3, ArtifactFields

\* Two tracklets are one identity exactly when one group of several holds both.
LEMMA TogetherIsOneGroup ==
    ASSUME IInv, phase = "done", NEW x \in scene.present, NEW y \in scene.present
    PROVE  /\ Together(artifact, x, y) <=> \E g \in Several : x \in g /\ y \in g
           /\ Together(artifact, x, y) =>
                  /\ artifact.assignment[x].identity \in Several
                  /\ x \in artifact.assignment[x].identity
                  /\ y \in artifact.assignment[x].identity
<1>1. /\ artifact.assignment[x] = Assignment(x) /\ artifact.assignment[y] = Assignment(y)
      /\ Grouped(scene, used, groups, links)
    BY DoneIsResolved
<1>2. ASSUME Together(artifact, x, y)
      PROVE  /\ Assignment(x).identity \in Several
             /\ x \in Assignment(x).identity /\ y \in Assignment(x).identity
    <2>1. Assignment(x).identity # {} /\ Assignment(x).identity = Assignment(y).identity
        BY <1>1, <1>2 DEF Together
    <2>2. /\ Assignment(x).identity \in Several /\ x \in Assignment(x).identity
          /\ y \in Assignment(y).identity
        BY <1>1, <2>1, AssignmentIsItsGroup
    <2> QED
        BY <2>1, <2>2
<1>3. ASSUME NEW g \in Several, x \in g, y \in g
      PROVE  Together(artifact, x, y)
    <2>1. Assignment(x).identity = g /\ Assignment(y).identity = g
        BY <1>1, <1>3, AssignmentIsItsGroup
    <2> QED
        BY <1>1, <1>3, <2>1 DEF Together
<1> QED
    BY <1>1, <1>2, <1>3

\* However the links were chained, an identity holds no two tracklets that
\* overlap, that the evidence or a live decision separates, or of two classes,
\* and two teams only where the reviewer's own links join them.
LEMMA ApartFollows == IInv => SeparatedStayApart
<1> SUFFICES ASSUME IInv, phase = "done"
             PROVE  /\ TemporalViolations(scene, artifact) = {}
                    /\ ExplicitViolations(scene, artifact) = {}
                    /\ \A x, y \in scene.present :
                          /\ Together(artifact, x, y) =>
                                 {x, y} \notin Separated(scene, used) /\ ~Mismatch(scene, x, y)
                          /\ Mixed(artifact, x, y) => JoinedByHand(artifact, x, y)
    BY Zenon DEF SeparatedStayApart
<1>1. /\ InputInv /\ Grouped(scene, used, groups, links)
      /\ artifact.links = links
    BY DoneIsResolved
<1>2. scene.cannot \subseteq Pairs(scene.present)
    BY <1>1, SceneIsScene DEF InputInv, IsScene
<1>3. Separated(scene, used) \subseteq Pairs(scene.present)
    <2>1. ASSUME NEW p \in Decided(used, "cannot_link")
          PROVE  p \in Pairs(scene.present)
        <3>1. PICK i \in Live(used, "cannot_link") : p = used[i].tracklets
            BY DEF Decided
        <3>2. /\ i \in DOMAIN used /\ used[i].action = "cannot_link"
              /\ IsEntry(used[i], i)
            BY <1>1, UsedIsALog DEF Live
        <3>3. p \in Pairs(Tracklets) /\ p \subseteq scene.present
            BY <1>1, <3>1, <3>2 DEF IsEntry, InputInv
        <3> QED
            BY <3>3 DEF Pairs
    <2> QED
        BY <1>2, <2>1 DEF Separated
<1>4. ASSUME NEW x \in scene.present, NEW y \in scene.present, Together(artifact, x, y), x # y
      PROVE  /\ ~Overlap(scene, x, y)
             /\ {x, y} \notin Separated(scene, used)
             /\ ~Mismatch(scene, x, y)
             /\ Opposed(scene, x, y) =>
                    HeldBy(ByHand(links), artifact.assignment[x].identity, x, y)
    <2>1. /\ artifact.assignment[x].identity \in Several
          /\ x \in artifact.assignment[x].identity /\ y \in artifact.assignment[x].identity
        BY <1>4, TogetherIsOneGroup
    <2>2. MayLive(scene, used, links, artifact.assignment[x].identity)
        BY <1>1, <2>1 DEF Grouped, Several
    <2> QED
        BY <1>4, <2>1, <2>2 DEF MayLive
<1>5. ASSUME NEW p \in Pairs(scene.present)
      PROVE  \E x, y \in p : x # y /\ p = {x, y} /\ x \in scene.present /\ y \in scene.present
    <2>1. IsFiniteSet(scene.present)
        BY <1>1, SceneIsScene DEF InputInv, IsScene
    <2> QED
        BY <2>1, PairHasTwo
<1>6. TemporalViolations(scene, artifact) = {}
    BY <1>4, <1>5 DEF TemporalViolations
<1>7. ExplicitViolations(scene, artifact) = {}
    BY <1>2, <1>4, <1>5 DEF ExplicitViolations, Separated
<1>8. ASSUME NEW x \in scene.present, NEW y \in scene.present
      PROVE  /\ Together(artifact, x, y) =>
                    {x, y} \notin Separated(scene, used) /\ ~Mismatch(scene, x, y)
             /\ Mixed(artifact, x, y) => JoinedByHand(artifact, x, y)
    <2>1. CASE x # y
        BY <1>1, <1>4, <2>1 DEF Mixed, JoinedByHand, ByHand, Ends
    <2>2. CASE x = y
        <3>1. {x, y} \notin Separated(scene, used)
            BY <1>3, <1>5, <2>2
        <3>2. ~Mismatch(scene, x, y) /\ ~Opposed(scene, x, y)
            BY <2>2 DEF Mismatch, Opposed
        <3> QED
            BY <3>1, <3>2 DEF Mixed
    <2> QED
        BY <2>1, <2>2
<1> QED
    BY <1>6, <1>7, <1>8

\* The links of an identity without an automatic one are those of live must-links.
LEMMA HandLinksAreDecided ==
    ASSUME IInv, phase = "done", NEW g \in Several,
           From(Within(links, g), "automatic") = {}, NEW x \in g, NEW y \in g
    PROVE  HeldBy(Decided(used, "must_link"), g, x, y)
<1>1. Grouped(scene, used, groups, links) /\ DecisionsInv
    BY DoneIsResolved
<1>2. Connects(links, g)
    BY <1>1 DEF Grouped, Spans, Several
<1>3. HeldBy({Ends(l) : l \in Within(links, g)}, g, x, y)
    BY <1>2, ConnectedIsHeld
<1>4. ASSUME NEW l \in Within(links, g)
      PROVE  Ends(l) \in Decided(used, "must_link")
    <2>1. l \in From(links, "human")
        BY <1>1 DEF Within, From, Grouped, Joins
    <2>2. l.sequence \in Live(used, "must_link") /\ used[l.sequence].tracklets = Ends(l)
        BY <1>1, <2>1 DEF DecisionsInv
    <2> QED
        BY <2>2 DEF Decided
<1> QED
    BY <1>3, <1>4, HeldGrows

\* What a consumer sees by default is held together by live must-links.
LEMMA HumanFollows == IInv => ConfirmedIsHuman
<1> SUFFICES ASSUME IInv, phase = "done",
                    NEW x \in Observed(scene, artifact, FALSE, FALSE)
             PROVE  /\ x \in artifact.assignment[x].identity
                    /\ \A y \in artifact.assignment[x].identity :
                          HeldBy(Decided(log, "must_link"), artifact.assignment[x].identity, x, y)
    BY Zenon DEF ConfirmedIsHuman
<1> DEFINE g == artifact.assignment[x].identity
<1>1. /\ Grouped(scene, used, groups, links) /\ DecisionsInv /\ InputInv
      /\ x \in scene.present /\ artifact.assignment[x] = Assignment(x)
    BY DoneIsResolved DEF Observed
<1>2. Assignment(x).status = "confirmed"
    BY <1>1 DEF Observed
<1>3. g \in Several /\ x \in g /\ From(Within(links, g), "automatic") = {}
    BY <1>1, <1>2, AssignmentIsItsGroup
<1> HIDE DEF g
<1>4. ASSUME NEW y \in g PROVE HeldBy(Decided(log, "must_link"), g, x, y)
    <2>1. HeldBy(Decided(used, "must_link"), g, x, y)
        BY <1>3, HandLinksAreDecided
    <2>2. Decided(used, "must_link") \subseteq Decided(log, "must_link")
        BY <1>1 DEF InputInv, Decided, Live
    <2> QED
        BY <1>3, <2>1, <2>2, HeldGrows
<1> QED
    BY <1>3, <1>4 DEF g

\* A call that returns has carried out each live decision of its log.
LEMMA HonouredFollows == IInv => DecisionsAreHonoured
<1> SUFFICES ASSUME IInv, phase = "done"
             PROVE  /\ \A p \in Decided(used, "must_link") :
                           \A x, y \in p : Together(artifact, x, y)
                    /\ \A t \in HumanExcluded(used) :
                           /\ artifact.assignment[t].status = "excluded"
                           /\ t \in used[artifact.assignment[t].by].tracklets
                    /\ \A i \in Revoked(used) : artifact.applied[i].outcome = "revoked"
    BY Zenon DEF DecisionsAreHonoured
<1>1. /\ InputInv /\ Grouped(scene, used, groups, links) /\ DecisionsInv /\ todo = {}
      /\ \A t \in scene.present : artifact.assignment[t] = Assignment(t)
      /\ artifact = Artifact
    BY DoneIsResolved
<1>2. ASSUME NEW i \in Live(used, "must_link"),
             NEW x \in used[i].tracklets, NEW y \in used[i].tracklets
      PROVE  Together(artifact, x, y)
    <2>1. PICK g \in groups : used[i].tracklets \subseteq g
        BY <1>1 DEF DecisionsInv
    <2>2. used[i].tracklets \in Pairs(Tracklets)
        BY <1>1, MustLinkIsAPair
    <2>3. Cardinality(g) > 1
        <3>1. IsFiniteSet(g)
            BY <1>1 DEF Grouped, Spans
        <3>2. Cardinality(used[i].tracklets) = 2 /\ used[i].tracklets \in SUBSET g
            BY <2>1, <2>2 DEF Pairs
        <3>3. Cardinality(used[i].tracklets) <= Cardinality(g)
            BY <3>1, <3>2, FS_Subset
        <3>4. Cardinality(g) \in Nat
            BY <3>1, CountIsNat
        <3> QED
            BY <3>2, <3>3, <3>4
    <2>4. g \in Several /\ x \in g /\ y \in g
        BY <2>1, <2>3 DEF Several
    <2>5. x \in scene.present /\ y \in scene.present
        BY <1>1 DEF InputInv, Live
    <2> QED
        BY <2>4, <2>5, TogetherIsOneGroup
<1>3. ASSUME NEW t \in HumanExcluded(used)
      PROVE  /\ artifact.assignment[t].status = "excluded"
             /\ t \in used[artifact.assignment[t].by].tracklets
    <2>1. /\ ExcludedBy(used, t) \in Live(used, "exclude")
          /\ t \in used[ExcludedBy(used, t)].tracklets
        BY <1>1, ExclusionIsCited
    <2>2. t \in scene.present
        BY <1>1, <2>1 DEF InputInv, Live
    <2>3. Assignment(t).status = "excluded" /\ Assignment(t).by = ExcludedBy(used, t)
        BY DEF Assignment, Excluded
    <2> QED
        BY <1>1, <2>1, <2>2, <2>3
<1>4. ASSUME NEW i \in Revoked(used)
      PROVE  artifact.applied[i].outcome = "revoked"
    <2>1. PICK j \in Revokes(used) : i = used[j].revokes
        BY DEF Revoked
    <2>2. /\ j \in DOMAIN used /\ used[j].action = "revoke"
          /\ IsEntry(used[j], j)
        BY <1>1, <2>1, UsedIsALog DEF Revokes
    <2>3. i \in 1..(j - 1)
        BY <2>1, <2>2 DEF IsEntry
    <2>4. i \in DOMAIN used
        <3>1. used \in Seq(Entries)
            BY <1>1, UsedIsALog
        <3> QED
            BY <2>2, <2>3, <3>1
    <2>5. i \notin Revokes(used)
        BY <1>1 DEF InputInv, IsCorrections, RevocationsAreLegal
    <2>6. Outcome(i) = "revoked"
        <3>1. used[i].action # "revoke"
            BY <2>4, <2>5 DEF Revokes
        <3>2. i \notin redundant
            BY <1>1 DEF DecisionsInv, Live
        <3> QED
            BY <3>1, <3>2 DEF Outcome
    <2> QED
        BY <1>1, <2>4, <2>6, AppliedFields
<1>5. \A p \in Decided(used, "must_link") : \A x, y \in p : Together(artifact, x, y)
    BY <1>2 DEF Decided
<1> QED
    BY <1>3, <1>4, <1>5

\* Whatever the scene, the log and the mode, what resolve_identities builds is
\* accepted by the checks the artifact makes of itself.
THEOREM ArtifactsAccepted == Spec => []ArtifactsAreAccepted
<1>1. IInv => ArtifactsAreAccepted
    BY DEF IInv, ArtifactInv, ArtifactsAreAccepted
<1> QED
    BY <1>1, IInvAlways, PTL

\* No chain of links brings together what the evidence, time, the classes or
\* the reviewer keep apart (_Groups.conflict).
THEOREM SeparatedApart == Spec => []SeparatedStayApart
    BY ApartFollows, IInvAlways, PTL

\* What is observed by default is held together by the live must-links of the log.
THEOREM ConfirmedHuman == Spec => []ConfirmedIsHuman
    BY HumanFollows, IInvAlways, PTL

\* A call that returns has carried out each live decision of the log it was given.
THEOREM DecisionsHonoured == Spec => []DecisionsAreHonoured
    BY HonouredFollows, IInvAlways, PTL

(***************************************************************************)
(* What an evaluation counts                                               *)
(***************************************************************************)

CrossTeam(truth, pairs) ==
    {p \in pairs : Cardinality({truth[t]["team"] : t \in p} \ {None}) = 2}

RoleMixed(truth, pairs) == {p \in pairs : {truth[t]["role"] : t \in p} = {"player", "official"}}

Unsettled(truth, pairs) ==
    {p \in pairs : /\ "uncertain" \in {truth[t]["status"] : t \in p}
                   /\ Cardinality({truth[t]["player"] : t \in p} \ {None}) = 2}

MergedIn(a, truth, scope) ==
    {p \in Merged(a, truth) : p \intersect Labelled(truth, scope) # {}}

Considered(a, truth, scope) ==
    IF scope = None THEN Merged(a, truth) ELSE MergedIn(a, truth, scope)

Judged(a, truth, scope, kind) == {p \in Pairs(Labelled(truth, scope)) : Judge(a, truth, p) = kind}

LEMMA EvaluationFields ==
    ASSUME NEW s, NEW a, NEW truth, NEW scope
    PROVE  LET report == Evaluation(s, a, truth, scope)
           IN  /\ report.truePositive = Judged(a, truth, scope, "true_positive")
               /\ report.falsePositive = Judged(a, truth, scope, "false_positive")
               /\ report.falseNegative = Judged(a, truth, scope, "false_negative")
               /\ report.crossTeam = CrossTeam(truth, Considered(a, truth, scope))
               /\ report.contamination = RoleMixed(truth, MergedIn(a, truth, scope))
               /\ report.uncertain = Unsettled(truth, Considered(a, truth, scope))
               /\ report.unitsBefore = Cardinality(Labelled(truth, scope))
    BY DEF Evaluation, Judged, CrossTeam, RoleMixed, Unsettled, MergedIn, Considered

Named(a, truth, scope) == {t \in Labelled(truth, scope) : a.assignment[t].identity # {}}

MembersOf(a, truth, scope, identity) ==
    {t \in Labelled(truth, scope) : a.assignment[t].identity = identity}

UnitOf(a, t) == IF a.assignment[t].identity = {} THEN {t} ELSE a.assignment[t].identity

PlayerUnits(a, truth, scope) == {<<truth[t].player, UnitOf(a, t)>> : t \in Labelled(truth, scope)}

LEMMA ContaminatedField ==
    ASSUME NEW s, NEW a, NEW truth, NEW scope
    PROVE  Evaluation(s, a, truth, scope).contaminated
               = {i \in {a.assignment[t].identity : t \in Named(a, truth, scope)} :
                     Cardinality(PlayersOf(truth, MembersOf(a, truth, scope, i))) > 1}
    BY DEF Evaluation, Named, MembersOf

\* The units are counted once for each player.
LEMMA UnitsAfterField ==
    ASSUME NEW s, NEW a, NEW truth, NEW scope
    PROVE  Evaluation(s, a, truth, scope).unitsAfter = Cardinality(PlayerUnits(a, truth, scope))
<1> DEFINE labelled == Labelled(truth, scope)
           of(player) == {t \in labelled : truth[t].player = player}
           pairs(player) == {<<player, unit>> : unit \in Units(a, of(player))}
           counted == UNION {pairs(player) : player \in PlayersOf(truth, labelled)}
<1>1. Evaluation(s, a, truth, scope).unitsAfter = Cardinality(counted)
    BY DEF Evaluation
<1>2. \A S : Units(a, S) = {UnitOf(a, t) : t \in S}
    BY DEF Units, UnitOf
<1>3. ASSUME NEW z \in counted PROVE z \in PlayerUnits(a, truth, scope)
    <2>1. PICK player \in PlayersOf(truth, labelled) : z \in pairs(player)
        OBVIOUS
    <2>2. PICK unit \in Units(a, of(player)) : z = <<player, unit>>
        BY <2>1
    <2>3. PICK t \in of(player) : unit = UnitOf(a, t)
        BY <1>2, <2>2
    <2> QED
        BY <2>2, <2>3 DEF PlayerUnits
<1>4. ASSUME NEW z \in PlayerUnits(a, truth, scope) PROVE z \in counted
    <2>1. PICK t \in labelled : z = <<truth[t].player, UnitOf(a, t)>>
        BY DEF PlayerUnits
    <2>2. t \in of(truth[t].player) /\ truth[t].player \in PlayersOf(truth, labelled)
        BY DEF PlayersOf
    <2>3. UnitOf(a, t) \in Units(a, of(truth[t].player))
        BY <1>2, <2>2
    <2>4. z \in pairs(truth[t].player)
        BY <2>1, <2>3
    <2> HIDE DEF pairs
    <2> QED
        BY <2>2, <2>4
<1>5. counted = PlayerUnits(a, truth, scope)
    BY <1>3, <1>4
<1> QED
    BY <1>1, <1>5

\* Labels are judged two by two, in whatever order the pair is read.
LEMMA JudgeReadsThePair ==
    ASSUME NEW a, NEW truth, NEW x, NEW y, x # y
    PROVE  Judge(a, truth, {x, y}) =
               IF truth[x].player = truth[y].player
               THEN IF Together(a, x, y) THEN "true_positive" ELSE "false_negative"
               ELSE IF Together(a, x, y) THEN "false_positive" ELSE "true_negative"
<1> DEFINE p == CHOOSE t \in {x, y} : TRUE
           q == CHOOSE t \in {x, y} : t # p
<1>1. p \in {x, y} /\ q \in {x, y} /\ q # p
    OBVIOUS
<1>2. Together(a, x, y) = Together(a, y, x)
    BY DEF Together
<1>3. Judge(a, truth, {x, y}) =
          IF truth[p].player = truth[q].player
          THEN IF Together(a, p, q) THEN "true_positive" ELSE "false_negative"
          ELSE IF Together(a, p, q) THEN "false_positive" ELSE "true_negative"
    BY DEF Judge, PredictedSame
<1> HIDE DEF p, q
<1>4. CASE p = x /\ q = y
    BY <1>3, <1>4
<1>5. CASE p = y /\ q = x
    BY <1>2, <1>3, <1>5
<1> QED
    BY <1>1, <1>4, <1>5

\* No pair is judged in one way exactly when no two labels are.
LEMMA NoneJudged ==
    ASSUME NEW a, NEW truth, NEW scope, IsFiniteSet(Labelled(truth, scope)), NEW kind
    PROVE  Judged(a, truth, scope, kind) = {} <=>
               \A x, y \in Labelled(truth, scope) : x # y => Judge(a, truth, {x, y}) # kind
<1>1. ASSUME NEW p \in Pairs(Labelled(truth, scope))
      PROVE  \E x, y \in Labelled(truth, scope) : x # y /\ p = {x, y}
    BY PairHasTwo
<1>2. ASSUME NEW x \in Labelled(truth, scope), NEW y \in Labelled(truth, scope), x # y
      PROVE  {x, y} \in Pairs(Labelled(truth, scope))
    BY <1>2, TwoAreAPair
<1> QED
    BY <1>1, <1>2 DEF Judged

\* The players of finitely many labels are finitely many, and at most as many.
LEMMA PlayersAreFinite ==
    ASSUME NEW truth, NEW S, IsFiniteSet(S)
    PROVE  IsFiniteSet(PlayersOf(truth, S))
<1> DEFINE f == [t \in S |-> truth[t].player]
<1>1. f \in Surjection(S, PlayersOf(truth, S))
    BY DEF Surjection, PlayersOf
<1> QED
    BY <1>1, FS_Surjection, Zenon

\* The hypotheses under which an artifact is evaluated, and what they give.
LEMMA EvaluableFacts ==
    ASSUME IInv, phase = "done", NEW truth \in Truths, NEW scope, IsEvaluable(scene, truth, scope)
    PROVE  /\ DOMAIN truth \subseteq scene.present
           /\ Labelled(truth, scope) \subseteq Labelled(truth, None)
           /\ Labelled(truth, None) \subseteq scene.present
           /\ IsFiniteSet(Labelled(truth, scope))
<1>1. DOMAIN truth \subseteq scene.present
    BY DEF IsEvaluable
<1>2. /\ Labelled(truth, scope) \subseteq Labelled(truth, None)
      /\ Labelled(truth, None) \subseteq scene.present
    BY <1>1 DEF Labelled
<1>3. IsFiniteSet(scene.present)
    BY DoneIsResolved, SceneIsScene DEF InputInv, IsScene
<1>4. IsFiniteSet(Labelled(truth, scope))
    BY <1>2, <1>3, FS_Subset
<1> QED
    BY <1>1, <1>2, <1>4

\* Two tracklets are in one unit exactly when they are one identity.
LEMMA UnitIsIdentity ==
    ASSUME IInv, phase = "done", NEW x \in scene.present, NEW y \in scene.present, x # y
    PROVE  UnitOf(artifact, x) = UnitOf(artifact, y) <=> Together(artifact, x, y)
<1> DEFINE X == artifact.assignment[x].identity
           Y == artifact.assignment[y].identity
<1>1. X # {} => x \in X
    BY DoneIsResolved, AssignmentIsItsGroup
<1>2. Y # {} => y \in Y
    BY DoneIsResolved, AssignmentIsItsGroup
<1>3. /\ UnitOf(artifact, x) = IF X = {} THEN {x} ELSE X
      /\ UnitOf(artifact, y) = IF Y = {} THEN {y} ELSE Y
      /\ Together(artifact, x, y) <=> X # {} /\ X = Y
    BY DEF UnitOf, Together
<1> HIDE DEF X, Y
<1> QED
    BY <1>1, <1>2, <1>3

\* There are false merges exactly when an identity holds two players.
LEMMA FalseMergesAreContamination ==
    ASSUME IInv, phase = "done", NEW truth \in Truths, NEW scope, IsEvaluable(scene, truth, scope)
    PROVE  LET report == Evaluation(scene, artifact, truth, scope)
           IN  report.falsePositive = {} <=> report.contaminated = {}
<1> DEFINE L == Labelled(truth, scope)
           Of(i) == MembersOf(artifact, truth, scope, i)
           shared == {artifact.assignment[t].identity : t \in Named(artifact, truth, scope)}
           contaminated == {i \in shared : Cardinality(PlayersOf(truth, Of(i))) > 1}
           none == \A x, y \in L : x # y => Judge(artifact, truth, {x, y}) # "false_positive"
<1>1. IsFiniteSet(L)
    BY EvaluableFacts
<1>2. Evaluation(scene, artifact, truth, scope).falsePositive = {} <=> none
    <2>1. Evaluation(scene, artifact, truth, scope).falsePositive
              = Judged(artifact, truth, scope, "false_positive")
        BY EvaluationFields
    <2>2. Judged(artifact, truth, scope, "false_positive") = {} <=> none
        BY <1>1, NoneJudged
    <2> HIDE DEF none
    <2> QED
        BY <2>1, <2>2
<1>3. Evaluation(scene, artifact, truth, scope).contaminated = contaminated
    BY ContaminatedField
<1>4. ASSUME none, NEW i \in contaminated PROVE FALSE
    <2>1. i # {} /\ Cardinality(PlayersOf(truth, Of(i))) > 1
        BY <1>4 DEF Named
    <2>2. IsFiniteSet(PlayersOf(truth, Of(i)))
        <3>1. IsFiniteSet(Of(i))
            BY <1>1, FS_Subset, Of(i) \in SUBSET L DEF MembersOf
        <3> QED
            BY <3>1, PlayersAreFinite
    <2>3. PICK m \in PlayersOf(truth, Of(i)) : TRUE
        BY <2>1, EmptyCounts
    <2>4. PICK n \in PlayersOf(truth, Of(i)) : n # m
        BY <2>1, <2>2, <2>3, OneMemberCounts
    <2>5. PICK x \in Of(i) : truth[x].player = m
        BY <2>3 DEF PlayersOf
    <2>6. PICK y \in Of(i) : truth[y].player = n
        BY <2>4 DEF PlayersOf
    <2>7. x \in L /\ y \in L /\ x # y /\ Together(artifact, x, y)
        BY <2>1, <2>4, <2>5, <2>6 DEF MembersOf, Together
    <2>8. Judge(artifact, truth, {x, y}) = "false_positive"
        BY <2>4, <2>5, <2>6, <2>7, JudgeReadsThePair
    <2> QED
        BY <1>4, <2>7, <2>8
<1>5. ASSUME contaminated = {}, NEW x \in L, NEW y \in L, x # y,
             Judge(artifact, truth, {x, y}) = "false_positive"
      PROVE  FALSE
    <2>1. Together(artifact, x, y) /\ truth[x].player # truth[y].player
        BY <1>5, JudgeReadsThePair
    <2> DEFINE i == artifact.assignment[x].identity
    <2>2. i \in shared /\ x \in Of(i) /\ y \in Of(i)
        BY <2>1 DEF Together, Named, MembersOf
    <2>3. IsFiniteSet(PlayersOf(truth, Of(i)))
        <3>1. IsFiniteSet(Of(i))
            BY <1>1, FS_Subset, Of(i) \in SUBSET L DEF MembersOf
        <3> QED
            BY <3>1, PlayersAreFinite
    <2>4. truth[x].player \in PlayersOf(truth, Of(i)) /\ truth[y].player \in PlayersOf(truth, Of(i))
        BY <2>2 DEF PlayersOf
    <2>5. Cardinality(PlayersOf(truth, Of(i))) > 1
        BY <2>1, <2>3, <2>4, TwoMembersCount
    <2> QED
        BY <1>5, <2>2, <2>5
<1>6. none <=> contaminated = {}
    <2>1. none => contaminated = {}
        BY <1>4
    <2>2. contaminated = {} => none
        BY <1>5
    <2> QED
        BY <2>1, <2>2
<1> HIDE DEF none, contaminated
<1> QED
    BY <1>2, <1>3, <1>6

\* The units are at most the labels, and as many exactly when no two labels of
\* a player were joined.
LEMMA UnitsOfLabels ==
    ASSUME IInv, phase = "done", NEW truth \in Truths, NEW scope, IsEvaluable(scene, truth, scope)
    PROVE  LET report == Evaluation(scene, artifact, truth, scope)
           IN  /\ IsFiniteSet(PlayerUnits(artifact, truth, scope))
               /\ report.unitsAfter <= report.unitsBefore
               /\ report.truePositive = {} <=> report.unitsAfter = report.unitsBefore
<1> DEFINE L == Labelled(truth, scope)
           U == PlayerUnits(artifact, truth, scope)
           f == [t \in L |-> <<truth[t].player, UnitOf(artifact, t)>>]
           none == \A x, y \in L : x # y => Judge(artifact, truth, {x, y}) # "true_positive"
<1>1. IsFiniteSet(L) /\ L \subseteq scene.present
    BY EvaluableFacts
<1>2. f \in Surjection(L, U)
    BY DEF Surjection, PlayerUnits
<1>3. /\ IsFiniteSet(U)
      /\ Cardinality(U) <= Cardinality(L)
      /\ Cardinality(U) = Cardinality(L) <=> f \in Injection(L, U)
    <2> HIDE DEF L, U, f
    <2> QED
        BY <1>1, <1>2, FS_Surjection
<1>4. f \in Injection(L, U) <=> \A x, y \in L : f[x] = f[y] => x = y
    <2>1. f \in [L -> U]
        BY <1>2 DEF Surjection
    <2> HIDE DEF f, L, U
    <2> QED
        BY <2>1 DEF Injection, IsInjective
<1>5. ASSUME NEW x \in L, NEW y \in L, x # y
      PROVE  f[x] = f[y] <=> Judge(artifact, truth, {x, y}) = "true_positive"
    <2>1. f[x] = f[y] <=> /\ truth[x].player = truth[y].player
                          /\ UnitOf(artifact, x) = UnitOf(artifact, y)
        OBVIOUS
    <2>2. UnitOf(artifact, x) = UnitOf(artifact, y) <=> Together(artifact, x, y)
        BY <1>1, <1>5, UnitIsIdentity
    <2>3. Judge(artifact, truth, {x, y}) = "true_positive" <=>
              truth[x].player = truth[y].player /\ Together(artifact, x, y)
        BY <1>5, JudgeReadsThePair
    <2> HIDE DEF f
    <2> QED
        BY <2>1, <2>2, <2>3
<1> HIDE DEF f
<1>6. f \in Injection(L, U) <=> none
    BY <1>4, <1>5
<1>7. Evaluation(scene, artifact, truth, scope).truePositive = {} <=> none
    <2>1. Evaluation(scene, artifact, truth, scope).truePositive
              = Judged(artifact, truth, scope, "true_positive")
        BY EvaluationFields
    <2>2. Judged(artifact, truth, scope, "true_positive") = {} <=> none
        BY <1>1, NoneJudged
    <2> HIDE DEF none
    <2> QED
        BY <2>1, <2>2
<1>8. /\ Evaluation(scene, artifact, truth, scope).unitsAfter = Cardinality(U)
      /\ Evaluation(scene, artifact, truth, scope).unitsBefore = Cardinality(L)
    BY EvaluationFields, UnitsAfterField
<1> HIDE DEF none, L, U
<1> QED
    BY <1>3, <1>6, <1>7, <1>8 DEF U

\* Pairs are missed exactly when a player is left in two units.
LEMMA MissedPairsAreSplitPlayers ==
    ASSUME IInv, phase = "done", NEW truth \in Truths, NEW scope, IsEvaluable(scene, truth, scope)
    PROVE  LET report == Evaluation(scene, artifact, truth, scope)
           IN  report.falseNegative = {} <=>
                   report.unitsAfter = Cardinality(PlayersOf(truth, Labelled(truth, scope)))
<1> DEFINE L == Labelled(truth, scope)
           U == PlayerUnits(artifact, truth, scope)
           P == PlayersOf(truth, L)
           h == [z \in U |-> z[1]]
           none == \A x, y \in L : x # y => Judge(artifact, truth, {x, y}) # "false_negative"
<1>1. IsFiniteSet(L) /\ L \subseteq scene.present
    BY EvaluableFacts
<1>2. IsFiniteSet(U)
    BY UnitsOfLabels
<1>3. h \in Surjection(U, P)
    <2>1. \A z \in U : z[1] \in P
        BY DEF PlayerUnits, PlayersOf
    <2>2. ASSUME NEW m \in P PROVE \E z \in U : h[z] = m
        <3>1. PICK t \in L : m = truth[t].player
            BY DEF PlayersOf
        <3>2. <<truth[t].player, UnitOf(artifact, t)>> \in U
            BY DEF PlayerUnits
        <3> HIDE DEF L, U, P
        <3> QED
            BY <3>1, <3>2
    <2> HIDE DEF U, P
    <2> QED
        BY <2>1, <2>2 DEF Surjection
<1>4. Cardinality(P) = Cardinality(U) <=> h \in Injection(U, P)
    <2> HIDE DEF P, U, h
    <2> QED
        BY <1>2, <1>3, FS_Surjection
<1>5. h \in Injection(U, P) <=> \A z, w \in U : h[z] = h[w] => z = w
    <2>1. h \in [U -> P]
        BY <1>3 DEF Surjection
    <2> HIDE DEF P, U, h
    <2> QED
        BY <2>1 DEF Injection, IsInjective
<1>6. (\A z, w \in U : h[z] = h[w] => z = w) <=>
          \A x, y \in L : truth[x].player = truth[y].player =>
              UnitOf(artifact, x) = UnitOf(artifact, y)
    <2>1. ASSUME \A z, w \in U : h[z] = h[w] => z = w,
                 NEW x \in L, NEW y \in L, truth[x].player = truth[y].player
          PROVE  UnitOf(artifact, x) = UnitOf(artifact, y)
        <3> DEFINE z == <<truth[x].player, UnitOf(artifact, x)>>
                   w == <<truth[y].player, UnitOf(artifact, y)>>
        <3>1. z \in U /\ w \in U
            BY DEF PlayerUnits
        <3>2. h[z] = h[w]
            BY <2>1, <3>1
        <3>3. z = w
            BY <2>1, <3>1, <3>2
        <3> QED
            BY <3>3
    <2>2. ASSUME \A x, y \in L : truth[x].player = truth[y].player =>
                     UnitOf(artifact, x) = UnitOf(artifact, y),
                 NEW z \in U, NEW w \in U, h[z] = h[w]
          PROVE  z = w
        <3>1. PICK x \in L : z = <<truth[x].player, UnitOf(artifact, x)>>
            BY DEF PlayerUnits
        <3>2. PICK y \in L : w = <<truth[y].player, UnitOf(artifact, y)>>
            BY DEF PlayerUnits
        <3>3. truth[x].player = truth[y].player
            BY <2>2, <3>1, <3>2
        <3> QED
            BY <2>2, <3>1, <3>2, <3>3
    <2> HIDE DEF L, U, h
    <2> QED
        BY <2>1, <2>2
<1>7. ASSUME NEW x \in L, NEW y \in L, x # y
      PROVE  Judge(artifact, truth, {x, y}) = "false_negative" <=>
                 /\ truth[x].player = truth[y].player
                 /\ UnitOf(artifact, x) # UnitOf(artifact, y)
    <2>1. UnitOf(artifact, x) = UnitOf(artifact, y) <=> Together(artifact, x, y)
        BY <1>1, <1>7, UnitIsIdentity
    <2> QED
        BY <1>7, <2>1, JudgeReadsThePair
<1> HIDE DEF h
<1>8. h \in Injection(U, P) <=> none
    BY <1>5, <1>6, <1>7
<1>9. Evaluation(scene, artifact, truth, scope).falseNegative = {} <=> none
    <2>1. Evaluation(scene, artifact, truth, scope).falseNegative
              = Judged(artifact, truth, scope, "false_negative")
        BY EvaluationFields
    <2>2. Judged(artifact, truth, scope, "false_negative") = {} <=> none
        BY <1>1, NoneJudged
    <2> HIDE DEF none
    <2> QED
        BY <2>1, <2>2
<1>10. Evaluation(scene, artifact, truth, scope).unitsAfter = Cardinality(U)
    BY UnitsAfterField
<1> HIDE DEF none, P, U
<1> QED
    BY <1>4, <1>8, <1>9, <1>10 DEF P

\* A scope finds no error that the whole does not.
LEMMA ScopesFindNoMore ==
    ASSUME IInv, phase = "done", NEW truth \in Truths, NEW scope, IsEvaluable(scene, truth, scope),
           NEW errors \in {"falsePositive", "crossTeam", "contamination", "uncertain"}
    PROVE  Evaluation(scene, artifact, truth, scope)[errors]
               \subseteq Evaluation(scene, artifact, truth, None)[errors]
<1> DEFINE report == Evaluation(scene, artifact, truth, scope)
           whole == Evaluation(scene, artifact, truth, None)
<1>1. Labelled(truth, scope) \subseteq Labelled(truth, None)
    BY EvaluableFacts
<1>2. /\ MergedIn(artifact, truth, scope) \subseteq MergedIn(artifact, truth, None)
      /\ Considered(artifact, truth, scope) \subseteq Considered(artifact, truth, None)
    BY <1>1 DEF MergedIn, Considered
<1>3. report.falsePositive \subseteq whole.falsePositive
    <2>1. Pairs(Labelled(truth, scope)) \subseteq Pairs(Labelled(truth, None))
        BY <1>1 DEF Pairs
    <2>2. Judged(artifact, truth, scope, "false_positive")
              \subseteq Judged(artifact, truth, None, "false_positive")
        BY <2>1 DEF Judged
    <2> QED
        BY <2>2, EvaluationFields
<1>4. report.crossTeam \subseteq whole.crossTeam
    <2>1. CrossTeam(truth, Considered(artifact, truth, scope))
              \subseteq CrossTeam(truth, Considered(artifact, truth, None))
        BY <1>2 DEF CrossTeam
    <2> QED
        BY <2>1, EvaluationFields
<1>5. report.contamination \subseteq whole.contamination
    <2>1. RoleMixed(truth, MergedIn(artifact, truth, scope))
              \subseteq RoleMixed(truth, MergedIn(artifact, truth, None))
        BY <1>2 DEF RoleMixed
    <2> QED
        BY <2>1, EvaluationFields
<1>6. report.uncertain \subseteq whole.uncertain
    <2>1. Unsettled(truth, Considered(artifact, truth, scope))
              \subseteq Unsettled(truth, Considered(artifact, truth, None))
        BY <1>2 DEF Unsettled
    <2> QED
        BY <2>1, EvaluationFields
<1> HIDE DEF report, whole
<1>7. report[errors] \subseteq whole[errors]
    BY <1>3, <1>4, <1>5, <1>6
<1> QED
    BY <1>7 DEF report, whole

\* Who only joined what belongs together made no false merge: the players of an
\* identity cannot change along must-links that join labels of one player.
LEMMA TrueDecisionsMergeNothing ==
    ASSUME IInv, phase = "done", NEW truth \in Truths, NEW scope, IsEvaluable(scene, truth, scope),
           mode = "review_only", DecisionsAreTrue(truth)
    PROVE  Evaluation(scene, artifact, truth, scope).falsePositive = {}
<1> DEFINE L == Labelled(truth, scope)
<1>1. /\ IsFiniteSet(L) /\ L \subseteq Labelled(truth, None)
      /\ Labelled(truth, None) \subseteq scene.present
      /\ IsFiniteSet(scene.present)
    BY EvaluableFacts, DoneIsResolved, SceneIsScene DEF InputInv, IsScene
<1>2. ASSUME NEW x \in L, NEW y \in L, x # y,
             Judge(artifact, truth, {x, y}) = "false_positive"
      PROVE  FALSE
    <2>1. Together(artifact, x, y) /\ truth[x].player # truth[y].player
        BY <1>2, JudgeReadsThePair
    <2>2. PICK g \in Several : x \in g /\ y \in g
        BY <1>1, <2>1, TogetherIsOneGroup
    <2>3. From(Within(links, g), "automatic") = {}
        BY DoneIsResolved DEF AutomaticInv, From, Within
    <2>4. HeldBy(Decided(used, "must_link"), g, x, y)
        BY <2>2, <2>3, HandLinksAreDecided
    <2> DEFINE part == {t \in g : /\ t \in Labelled(truth, None)
                                  /\ truth[t].player = truth[x].player}
    <2>5. part \in SUBSET g /\ x \in part /\ y \notin part
        BY <1>1, <2>1, <2>2
    <2>6. PICK p \in Decided(used, "must_link") : p \subseteq g /\ p \intersect part \notin {{}, p}
        <3> HIDE DEF part
        <3> QED
            BY <2>4, <2>5 DEF HeldBy
    <2>7. p \subseteq Labelled(truth, None) /\ Cardinality(PlayersOf(truth, p)) = 1
        BY <2>6 DEF DecisionsAreTrue
    <2>8. PICK m : PlayersOf(truth, p) = {m}
        <3>1. IsFiniteSet(p)
            BY <1>1, <2>7, FS_Subset
        <3>2. IsFiniteSet(PlayersOf(truth, p))
            BY <3>1, PlayersAreFinite
        <3> QED
            BY <2>7, <3>2, FS_Singleton
    <2>9. \A t \in p : truth[t].player = m
        BY <2>8 DEF PlayersOf
    <2>10. CASE m = truth[x].player
        BY <2>6, <2>7, <2>9, <2>10
    <2>11. CASE m # truth[x].player
        BY <2>6, <2>9, <2>11
    <2> QED
        BY <2>10, <2>11
<1>3. Judged(artifact, truth, scope, "false_positive") = {}
    BY <1>1, <1>2, NoneJudged
<1> QED
    BY <1>3, EvaluationFields

LEMMA EvaluationFollows == IInv => EvaluationAgrees
<1> SUFFICES ASSUME IInv, phase = "done", NEW truth \in Truths, NEW scope \in Scopes,
                    IsEvaluable(scene, truth, scope)
             PROVE  LET report == Evaluation(scene, artifact, truth, scope)
                        whole == Evaluation(scene, artifact, truth, None)
                    IN  /\ report.falsePositive = {} <=> report.contaminated = {}
                        /\ report.falseNegative = {} <=>
                               report.unitsAfter
                                   = Cardinality(PlayersOf(truth, Labelled(truth, scope)))
                        /\ report.unitsAfter <= report.unitsBefore
                        /\ report.truePositive = {} <=> report.unitsAfter = report.unitsBefore
                        /\ \A errors \in {"falsePositive", "crossTeam", "contamination", "uncertain"} :
                               report[errors] \subseteq whole[errors]
                        /\ mode = "review_only" /\ DecisionsAreTrue(truth) =>
                               report.falsePositive = {}
    BY Zenon DEF EvaluationAgrees
<1>1. \A errors \in {"falsePositive", "crossTeam", "contamination", "uncertain"} :
          Evaluation(scene, artifact, truth, scope)[errors]
              \subseteq Evaluation(scene, artifact, truth, None)[errors]
    BY ScopesFindNoMore
<1> QED
    BY <1>1, FalseMergesAreContamination, MissedPairsAreSplitPlayers, UnitsOfLabels,
       TrueDecisionsMergeNothing, Zenon

\* Whatever the truth and the scope, the counts of an evaluation agree with one
\* another, and a reviewer who only joined what belongs together is charged with
\* no false merge (evaluate_identities).
THEOREM EvaluationsAgree == Spec => []EvaluationAgrees
    BY EvaluationFollows, IInvAlways, PTL
=============================================================================
