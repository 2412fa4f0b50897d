--------------------------- MODULE V1CompatProofs ---------------------------
(***************************************************************************)
(* Theorems about V1Statistics and V1Compat, for every video, host, store, *)
(* set of runs and workers, and for every threshold of AI1 and of the      *)
(* statistics.                                                             *)
(*                                                                         *)
(* The files of a working tree are not the run's own by themselves: a tree *)
(* keeps what earlier builds left in it.  A build's are, because each of   *)
(* its children has completed the files its successors read before it      *)
(* ended, and because no other process is in the tree of a build that is   *)
(* alone.  IInv says so of every point of such a build.                    *)
(*                                                                         *)
(* The statistics always write their files, because stitching the halves   *)
(* keeps a track wherever the filters leave one.  Let t be a track with    *)
(* enough rows.  If t is not stitched, its rows keep it.  Otherwise t has  *)
(* rank i in the second half.  If its rank in the first half is better,    *)
(* rank j < i, the identity t receives the rows of second[j], which are at *)
(* least as many as those t loses.  If it is not, first[i] has at least as *)
(* many rows in the first half as t, and receives those of t in the second.*)
(***************************************************************************)
EXTENDS V1Compat, FiniteSetTheorems, WellFoundedInduction, TLAPS

(***************************************************************************)
(* Cardinalities of the rows of a track                                    *)
(***************************************************************************)

\* The rows of a half are part of the rows.
LEMMA HalfFinite ==
    ASSUME NEW rows, IsFiniteSet(rows), NEW h
    PROVE  HalfRows(rows, h) \subseteq rows /\ IsFiniteSet(HalfRows(rows, h))
  BY FS_Subset DEF HalfRows

\* The number of rows of a track in a half is a natural number.
LEMMA SizeNat ==
    ASSUME NEW rows, IsFiniteSet(rows), NEW h, NEW t
    PROVE  /\ IsFiniteSet(Observations(HalfRows(rows, h), t))
           /\ Size(rows, h, t) \in Nat
  <1>1. Observations(HalfRows(rows, h), t) \subseteq HalfRows(rows, h)
    BY DEF Observations
  <1>2. IsFiniteSet(Observations(HalfRows(rows, h), t))
    BY <1>1, HalfFinite, FS_Subset
  <1>. QED  BY <1>2, FS_CardinalityType DEF Size

\* A set that holds the rows of s in the first half and those of t in the
\* second has at least as many rows as both together.
LEMMA Together ==
    ASSUME NEW rows, IsFiniteSet(rows), NEW s, NEW t, NEW both, both \subseteq rows,
           Observations(HalfRows(rows, 1), s) \subseteq both,
           Observations(HalfRows(rows, 2), t) \subseteq both
    PROVE  /\ Cardinality(both) \in Nat
           /\ Size(rows, 1, s) + Size(rows, 2, t) <= Cardinality(both)
  <1> DEFINE A == Observations(HalfRows(rows, 1), s)
             B == Observations(HalfRows(rows, 2), t)
  <1>1. IsFiniteSet(A) /\ IsFiniteSet(B)
    BY SizeNat
  <1>2. A \cap B = {}
    BY DEF Observations, HalfRows
  <1>3. Cardinality(A \cap B) = 0
    BY <1>2, FS_EmptySet
  <1>4. IsFiniteSet(A \cup B) /\ Cardinality(A \cup B) = Cardinality(A) + Cardinality(B)
    <2>1. Cardinality(A \cup B) = Cardinality(A) + Cardinality(B) - Cardinality(A \cap B)
      BY <1>1, FS_Union
    <2>2. Cardinality(A) \in Nat /\ Cardinality(B) \in Nat
      BY <1>1, FS_CardinalityType
    <2>3. IsFiniteSet(A \cup B)
      BY <1>1, FS_Union
    <2>4. Cardinality(A \cup B) = Cardinality(A) + Cardinality(B)
      <3>. HIDE DEF A, B
      <3>. QED  BY <1>3, <2>1, <2>2
    <2>. QED  BY <2>3, <2>4
  <1>5. IsFiniteSet(both) /\ Cardinality(both) \in Nat
    BY FS_Subset, FS_CardinalityType
  <1>6. A \cup B \subseteq both
    OBVIOUS
  <1>7. Cardinality(A \cup B) <= Cardinality(both)
    BY <1>5, <1>6, FS_Subset
  <1>. QED  BY <1>4, <1>5, <1>7 DEF Size

\* Every row is in one half.
LEMMA OneHalf ==
    ASSUME NEW rows, NEW b \in rows
    PROVE  Half(rows, b) \in {1, 2} /\ b \in HalfRows(rows, Half(rows, b))
  BY DEF Half, HalfRows

\* The rows of a track are those of its two halves.
LEMMA TrackSize ==
    ASSUME NEW rows, IsFiniteSet(rows), NEW t
    PROVE  /\ Cardinality(Observations(rows, t)) \in Nat
           /\ Cardinality(Observations(rows, t)) = Size(rows, 1, t) + Size(rows, 2, t)
  <1> DEFINE A == Observations(HalfRows(rows, 1), t)
             B == Observations(HalfRows(rows, 2), t)
  <1>1. IsFiniteSet(A) /\ IsFiniteSet(B)
    BY SizeNat
  <1>2. A \cap B = {}
    BY DEF Observations, HalfRows
  <1>3. Observations(rows, t) = A \cup B
    BY OneHalf DEF Observations, HalfRows
  <1>4. Cardinality(A \cap B) = 0
    BY <1>2, FS_EmptySet
  <1>5. Cardinality(A) \in Nat /\ Cardinality(B) \in Nat
    BY <1>1, FS_CardinalityType
  <1>6. Cardinality(A \cup B) = Cardinality(A) + Cardinality(B) - Cardinality(A \cap B)
    BY <1>1, FS_Union
  <1>. QED  BY <1>3, <1>4, <1>5, <1>6 DEF Size

(***************************************************************************)
(* Rankings                                                                *)
(***************************************************************************)

\* A half has finitely many tracks.
LEMMA TracksFinite ==
    ASSUME NEW rows, IsFiniteSet(rows), NEW h
    PROVE  /\ IsFiniteSet(TracksOf(HalfRows(rows, h)))
           /\ Cardinality(TracksOf(HalfRows(rows, h))) \in Nat
  <1> DEFINE R == HalfRows(rows, h)
             f == [b \in R |-> b.track]
  <1>1. IsFiniteSet(R)
    BY HalfFinite
  <1>2. f \in Surjection(R, TracksOf(R))
    BY DEF Surjection, TracksOf
  <1>3. IsFiniteSet(TracksOf(R))
    BY <1>1, <1>2, FS_Surjection
  <1>. QED  BY <1>3, FS_CardinalityType

\* A ranking lists every track of a half once, never before a larger one.
LEMMA RankingIsInjective ==
    ASSUME NEW rows, IsFiniteSet(rows), NEW h, NEW order \in Rankings(rows, h)
    PROVE  LET tracks == TracksOf(HalfRows(rows, h))
               n == Cardinality(tracks)
           IN  /\ n \in Nat
               /\ order \in [1 .. n -> tracks]
               /\ \A t \in tracks : \E i \in 1 .. n : order[i] = t
               /\ \A i, j \in 1 .. n : order[i] = order[j] => i = j
               /\ \A i, j \in 1 .. n :
                     i <= j => Size(rows, h, order[i]) >= Size(rows, h, order[j])
  <1> DEFINE tracks == TracksOf(HalfRows(rows, h))
             n == Cardinality(tracks)
  <1>1. n \in Nat /\ IsFiniteSet(tracks)
    BY TracksFinite
  <1>2. /\ order \in [1 .. n -> tracks]
        /\ \A t \in tracks : \E i \in 1 .. n : order[i] = t
        /\ \A i, j \in 1 .. n :
              i <= j => Size(rows, h, order[i]) >= Size(rows, h, order[j])
    BY DEF Rankings
  <1>3. order \in Surjection(1 .. n, tracks)
    BY <1>2 DEF Surjection
  <1>4. IsFiniteSet(1 .. n) /\ Cardinality(1 .. n) = n
    BY <1>1, FS_Interval
  <1>5. order \in Injection(1 .. n, tracks)
    BY <1>3, <1>4, FS_SurjSameCardinalityImpliesInj
  <1>6. \A i, j \in 1 .. n : order[i] = order[j] => i = j
    BY <1>5 DEF Injection, IsInjective
  <1>. QED  BY <1>1, <1>2, <1>6

(***************************************************************************)
(* Stitching                                                               *)
(***************************************************************************)

\* The number of stitched tracks is no larger than the tracks of either half.
LEMMA StitchCountBounds ==
    ASSUME NEW rows, IsFiniteSet(rows)
    PROVE  /\ StitchCount(rows) \in Nat
           /\ StitchCount(rows) <= Cardinality(TracksOf(HalfRows(rows, 1)))
           /\ StitchCount(rows) <= Cardinality(TracksOf(HalfRows(rows, 2)))
  BY TracksFinite, StatisticsAssumption DEF StitchCount

\* Rows of the first half keep their track.
LEMMA FirstHalfKeeps ==
    ASSUME NEW rows, NEW first, NEW second, NEW t
    PROVE  Observations(HalfRows(rows, 1), t) \subseteq Stitched(rows, first, second, t)
  BY DEF Stitched, Identity, Observations, HalfRows

\* Rows of the second half of a track that is not stitched keep it.
LEMMA UnstitchedKeeps ==
    ASSUME NEW rows, NEW first, NEW second, NEW t,
           \A i \in 1 .. StitchCount(rows) : second[i] # t
    PROVE  Observations(HalfRows(rows, 2), t) \subseteq Stitched(rows, first, second, t)
  BY DEF Stitched, Identity, Observations, HalfRows

\* Those of the track of rank i receive the identity of rank i.
LEMMA StitchedReceives ==
    ASSUME NEW rows, IsFiniteSet(rows), NEW first, NEW second \in Rankings(rows, 2),
           NEW i \in 1 .. StitchCount(rows)
    PROVE  Observations(HalfRows(rows, 2), second[i])
               \subseteq Stitched(rows, first, second, first[i])
  <1> DEFINE K == 1 .. StitchCount(rows)
  <1> SUFFICES ASSUME NEW b \in Observations(HalfRows(rows, 2), second[i])
               PROVE  b \in Stitched(rows, first, second, first[i])
    OBVIOUS
  <1>1. b \in rows /\ Half(rows, b) = 2 /\ b.track = second[i]
    BY DEF Observations, HalfRows
  <1>2. \A j, k \in K : second[j] = second[k] => j = k
    <2>1. K \subseteq 1 .. Cardinality(TracksOf(HalfRows(rows, 2)))
      BY StitchCountBounds, TracksFinite
    <2>. QED  BY <2>1, RankingIsInjective
  <1>3. (CHOOSE j \in K : second[j] = b.track) = i
    BY <1>1, <1>2
  <1>4. Identity(rows, first, second, b) = first[i]
    BY <1>1, <1>3 DEF Identity
  <1>. QED  BY <1>1, <1>4 DEF Stitched

\* A track with enough rows leaves an identity with enough rows.
LEMMA SomeIdentityKeeps ==
    ASSUME NEW rows, IsFiniteSet(rows),
           NEW first \in Rankings(rows, 1), NEW second \in Rankings(rows, 2),
           NEW t, Cardinality(Observations(rows, t)) >= MinRows
    PROVE  \E id : Cardinality(Stitched(rows, first, second, id)) >= MinRows
  <1> DEFINE K == 1 .. StitchCount(rows)
             S(id) == Stitched(rows, first, second, id)
             n1 == Cardinality(TracksOf(HalfRows(rows, 1)))
             n2 == Cardinality(TracksOf(HalfRows(rows, 2)))
  <1>0. MinRows \in Nat
    BY AI1Assumption
  <1>1. \A id : S(id) \subseteq rows
    BY DEF Stitched
  <1>2. /\ Size(rows, 1, t) + Size(rows, 2, t) >= MinRows
        /\ Size(rows, 1, t) \in Nat /\ Size(rows, 2, t) \in Nat
    BY TrackSize, SizeNat
  <1>3. K \subseteq 1 .. n1 /\ K \subseteq 1 .. n2 /\ n1 \in Nat /\ n2 \in Nat
    BY StitchCountBounds, TracksFinite
  <1>4. CASE \A i \in K : second[i] # t
    <2>1. Size(rows, 1, t) + Size(rows, 2, t) <= Cardinality(S(t)) /\ Cardinality(S(t)) \in Nat
      BY <1>1, <1>4, FirstHalfKeeps, UnstitchedKeeps, Together
    <2>. QED  BY <1>0, <1>2, <2>1
  <1>5. CASE \E i \in K : second[i] = t
    <2>1. PICK i \in K : second[i] = t
      BY <1>5
    <2>2. CASE \E j \in K : j < i /\ first[j] = t
      <3>1. PICK j \in K : j < i /\ first[j] = t
        BY <2>2
      <3>2. Size(rows, 2, second[j]) >= Size(rows, 2, t) /\ Size(rows, 2, second[j]) \in Nat
        <4>1. i \in 1 .. n2 /\ j \in 1 .. n2 /\ j <= i
          BY <1>3, <2>1, <3>1
        <4>2. Size(rows, 2, second[j]) >= Size(rows, 2, second[i])
          BY <4>1, RankingIsInjective
        <4>. QED  BY <2>1, <4>2, SizeNat
      <3>3. Observations(HalfRows(rows, 2), second[j]) \subseteq S(t)
        BY <3>1, StitchedReceives
      <3>4. /\ Size(rows, 1, t) + Size(rows, 2, second[j]) <= Cardinality(S(t))
            /\ Cardinality(S(t)) \in Nat
        BY <1>1, <3>3, FirstHalfKeeps, Together
      <3>. QED  BY <1>0, <1>2, <3>2, <3>4
    <2>3. CASE ~ \E j \in K : j < i /\ first[j] = t
      <3>1. Size(rows, 1, first[i]) >= Size(rows, 1, t) /\ Size(rows, 1, first[i]) \in Nat
        <4>1. CASE t \in TracksOf(HalfRows(rows, 1))
          <5>1. PICK j \in 1 .. n1 : first[j] = t
            BY <4>1, RankingIsInjective
          <5>2. i <= j
            BY <1>3, <2>3, <5>1, StitchCountBounds
          <5>3. Size(rows, 1, first[i]) >= Size(rows, 1, first[j])
            <6>1. i \in 1 .. n1
              BY <1>3, <2>1
            <6>. QED  BY <5>1, <5>2, <6>1, RankingIsInjective
          <5>. QED  BY <5>1, <5>3, SizeNat
        <4>2. CASE t \notin TracksOf(HalfRows(rows, 1))
          <5>1. Observations(HalfRows(rows, 1), t) = {}
            BY <4>2 DEF Observations, TracksOf
          <5>2. Size(rows, 1, t) = 0
            BY <5>1, FS_EmptySet DEF Size
          <5>. QED  BY <5>2, SizeNat
        <4>. QED  BY <4>1, <4>2
      <3>2. Observations(HalfRows(rows, 2), t) \subseteq S(first[i])
        BY <2>1, StitchedReceives
      <3>3. /\ Size(rows, 1, first[i]) + Size(rows, 2, t) <= Cardinality(S(first[i]))
            /\ Cardinality(S(first[i])) \in Nat
        BY <1>1, <3>2, FirstHalfKeeps, Together
      <3>. QED  BY <1>0, <1>2, <3>1, <3>3
    <2>. QED  BY <2>2, <2>3
  <1>. QED  BY <1>4, <1>5

\* 02_stats.py keeps a player whenever tracking found a track long enough,
\* whatever the halves, their sizes and the order of the ties (pandas sorts
\* equal counts as it likes): the statistics a build starts always write.
THEOREM StitchingKeeps ==
    ASSUME NEW rows, IsFiniteSet(rows)
    PROVE  StitchingKeepsTracks(rows)
  <1> SUFFICES ASSUME ~EmptyAfterFilters(rows),
                      NEW first \in Rankings(rows, 1), NEW second \in Rankings(rows, 2)
               PROVE  Players(rows, first, second) # {}
    BY DEF StitchingKeepsTracks
  <1>1. PICK t \in TracksOf(rows) : ~(Cardinality(Observations(rows, t)) < MinRows)
    BY DEF EmptyAfterFilters
  <1>2. Cardinality(Observations(rows, t)) >= MinRows
    BY <1>1, TrackSize, AI1Assumption
  <1>3. PICK id : Cardinality(Stitched(rows, first, second, id)) >= MinRows
    BY <1>2, SomeIdentityKeeps
  <1>4. id \in TracksOf(rows)
    <2>1. PICK b \in rows : Identity(rows, first, second, b) = id
      <3>1. Stitched(rows, first, second, id) # {}
        BY <1>3, FS_EmptySet, AI1Assumption
      <3>. QED  BY <3>1 DEF Stitched
    <2>2. CASE id = b.track
      BY <2>2 DEF TracksOf
    <2>3. CASE id # b.track
      <3>1. PICK i \in 1 .. StitchCount(rows) : id = first[i]
        BY <2>1, <2>3 DEF Identity
      <3>2. i \in 1 .. Cardinality(TracksOf(HalfRows(rows, 1)))
        BY StitchCountBounds, TracksFinite
      <3>3. first \in [1 .. Cardinality(TracksOf(HalfRows(rows, 1))) -> TracksOf(HalfRows(rows, 1))]
        BY RankingIsInjective
      <3>4. id \in TracksOf(HalfRows(rows, 1))
        BY <3>1, <3>2, <3>3
      <3>. QED  BY <3>4 DEF TracksOf, HalfRows
    <2>. QED  BY <2>2, <2>3
  <1>. QED  BY <1>3, <1>4 DEF Players

(***************************************************************************)
(* What the files of tracking count                                        *)
(***************************************************************************)

LEMMA LeastElement ==
    ASSUME NEW S \in SUBSET Nat, S # {}
    PROVE  \E s \in S : \A t \in S : s <= t
  <1>1. PICK s \in S : \A t \in S : ~ (<<t, s>> \in OpToRel(<, Nat))
    BY NatLessThanWellFounded, WFMin
  <1>2. ASSUME NEW t \in S
        PROVE  s <= t
    <2>1. t \in Nat /\ s \in Nat
      OBVIOUS
    <2>2. t < s => <<t, s>> \in OpToRel(<, Nat)
      BY <2>1, Zenon DEF OpToRel
    <2>3. ~ (t < s)
      BY <1>1, <2>2, Zenon
    <2>. QED  BY <2>1, <2>3
  <1>. QED  BY <1>2

\* The library's induction takes the property as an operator, which none of the
\* provers instantiates; here it is a set.
LEMMA InductionOnFinite ==
    ASSUME NEW U, IsFiniteSet(U), NEW Good,
           \A S \in SUBSET U : (\A x \in S : S \ {x} \in Good) => S \in Good
    PROVE  SUBSET U \subseteq Good
  <1> DEFINE Bad == (SUBSET U) \ Good
             Sizes == {Cardinality(S) : S \in Bad}
  <1> SUFFICES ASSUME Bad # {} PROVE FALSE
    OBVIOUS
  <1>1. \A S \in SUBSET U : IsFiniteSet(S) /\ Cardinality(S) \in Nat
    BY FS_Subset, FS_CardinalityType
  <1>2. Sizes \in SUBSET Nat /\ Sizes # {}
    BY <1>1
  <1> HIDE DEF Sizes
  <1>3. PICK n \in Sizes : \A k \in Sizes : n <= k
    BY <1>2, LeastElement
  <1>4. PICK S \in Bad : n = Cardinality(S)
    BY DEF Sizes
  <1>5. ASSUME NEW x \in S
        PROVE  S \ {x} \in Good
    <2>1. Cardinality(S \ {x}) = Cardinality(S) - 1 /\ Cardinality(S) \in Nat
      BY <1>1, FS_RemoveElement
    <2>2. S \ {x} \in Bad => Cardinality(S \ {x}) \in Sizes
      BY DEF Sizes
    <2>. QED  BY <1>3, <1>4, <2>1, <2>2
  <1>. QED  BY <1>4, <1>5

Picked(s) == CHOOSE x \in s : TRUE

Value(f, g, s) == IF s = {} THEN 0 ELSE f[Picked(s)] + g[s \ {Picked(s)}]

\* The sum of f over a set, as the community module computes it.
Total(f, S) == (CHOOSE g : g = [s \in SUBSET S |-> Value(f, g, s)])[S]

\* The sum of what each place holds of a finite set counts the set.
LEMMA SumOfShares ==
    ASSUME NEW T, IsFiniteSet(T), NEW S, IsFiniteSet(S), NEW place, NEW f,
           \A t \in T : place[t] \in S,
           \A k \in S : f[k] = Cardinality({t \in T : place[t] = k})
    PROVE  Total(f, S) = Cardinality(T)
  <1> DEFINE Sums(g) == g = [s \in SUBSET S |-> Value(f, g, s)]
             total == CHOOSE g : Sums(g)
             Share(s) == {t \in T : place[t] \in s}
             h == [s \in SUBSET S |-> Cardinality(Share(s))]
             Good == {s \in SUBSET S : total[s] = Cardinality(Share(s))}
  <1>1. Total(f, S) = total[S]
    BY DEF Total
  <1>2. \A s \in SUBSET S : s # {} => Picked(s) \in s
    BY Zenon DEF Picked
  <1>3. ASSUME NEW s \in SUBSET S, s # {}
        PROVE  Cardinality(Share(s)) = f[Picked(s)] + Cardinality(Share(s \ {Picked(s)}))
    <2> DEFINE A == {t \in T : place[t] = Picked(s)}
               B == Share(s \ {Picked(s)})
    <2>1. Picked(s) \in s /\ f[Picked(s)] = Cardinality(A)
      BY <1>2, <1>3
    <2>2. Share(s) = A \union B /\ A \intersect B = {}
      BY <2>1
    <2>3. IsFiniteSet(A) /\ IsFiniteSet(B)
      BY FS_Subset
    <2>4. Cardinality(A \intersect B) = 0
      BY <2>2, FS_EmptySet
    <2>5. Cardinality(A) \in Nat /\ Cardinality(B) \in Nat
      BY <2>3, FS_CardinalityType
    <2>6. Cardinality(A \union B) = Cardinality(A) + Cardinality(B) - Cardinality(A \intersect B)
      BY <2>3, FS_Union
    <2> HIDE DEF A, B, Share
    <2>. QED  BY <2>1, <2>2, <2>4, <2>5, <2>6 DEF B
  <1>4. Cardinality(Share({})) = 0
    <2>1. Share({}) = {}
      OBVIOUS
    <2>. QED  BY <2>1, FS_EmptySet
  <1>5. Sums(h)
    <2>1. \A s \in SUBSET S : Cardinality(Share(s)) = Value(f, h, s)
      BY <1>3, <1>4 DEF Value
    <2>2. h = [s \in SUBSET S |-> Value(f, h, s)]
      <3> HIDE DEF Share, Value
      <3>. QED  BY <2>1
    <2>. QED  BY <2>2
  <1>6. Sums(total)
    <2> HIDE DEF h, Sums
    <2>. QED  BY <1>5, Zenon
  <1>7. ASSUME NEW s \in SUBSET S, \A x \in s : s \ {x} \in Good
        PROVE  s \in Good
    <2>1. total[s] = Value(f, total, s)
      <3> HIDE DEF total
      <3>. QED  BY <1>6
    <2>2. s # {} => total[s \ {Picked(s)}] = Cardinality(Share(s \ {Picked(s)}))
      <3> HIDE DEF total, Share
      <3>. QED  BY <1>2, <1>7
    <2> HIDE DEF total, Share
    <2>. QED  BY <1>3, <1>4, <2>1, <2>2 DEF Value
  <1>8. SUBSET S \subseteq Good
    <2> HIDE DEF Good
    <2>. QED  BY <1>7, InductionOnFinite
  <1>9. S \in Good /\ Share(S) = T
    BY <1>8
  <1>. QED
    <2> HIDE DEF total, Share
    <2>. QED  BY <1>1, <1>9

LEMMA SomeFinite ==
    ASSUME NEW v \in Videos
    PROVE  /\ IsFiniteSet(v.boxes) /\ IsFiniteSet(Tracked(v)) /\ IsFiniteSet(RawTracks(v))
           /\ IsFiniteSet(TracksOf(Tracked(v))) /\ Cardinality(TracksOf(Tracked(v))) \in Nat
  <1>1. IsFiniteSet(v.boxes)
    BY VideosAssumption
  <1>2. IsFiniteSet(Tracked(v))
    BY <1>1, FS_Subset DEF Tracked
  <1>3. RawTracks(v) \in SUBSET Tracked(v)
    BY DEF RawTracks
  <1>4. IsFiniteSet(RawTracks(v))
    BY <1>2, <1>3, FS_Subset
  <1> DEFINE R == Tracked(v)
             f == [b \in R |-> b.track]
  <1>5. f \in Surjection(R, TracksOf(R))
    BY DEF Surjection, TracksOf
  <1>6. IsFiniteSet(TracksOf(R))
    BY <1>2, <1>5, FS_Surjection
  <1>. QED  BY <1>1, <1>2, <1>4, <1>6, FS_CardinalityType

\* Where the filters leave a track, the statistics keep a player.
LEMMA KeepsSome ==
    ASSUME NEW v \in Videos, v \notin NothingLeft
    PROVE  v \notin MayKeepNone
  <1>1. StitchingKeepsTracks(RawTracks(v)) /\ ~EmptyAfterFilters(RawTracks(v))
    BY SomeFinite, StitchingKeeps DEF NothingLeft
  <1>2. ASSUME NEW players \in Outcomes(RawTracks(v))
        PROVE  DOMAIN players # {}
    <2>1. PICK first \in Rankings(RawTracks(v), 1), second \in Rankings(RawTracks(v), 2) :
              players = Statistics(RawTracks(v), first, second)
      BY DEF Outcomes
    <2>2. DOMAIN players = Players(RawTracks(v), first, second)
      BY <2>1 DEF Statistics
    <2>. QED  BY <1>1, <2>1, <2>2 DEF StitchingKeepsTracks
  <1>. QED  BY <1>2 DEF MayKeepNone

\* Every track is insufficient exactly when the filters leave none.
LEMMA AllInsufficient ==
    ASSUME NEW v \in Videos
    PROVE  v \in NothingLeft <=> Diagnostics(v).insufficient = Diagnostics(v).tracklets
  <1> DEFINE rows == Tracked(v)
             raw == RawTracks(v)
             Few(some, t) == Cardinality(Observations(some, t)) < MinRows
  <1>1. /\ Diagnostics(v).insufficient = Cardinality(Insufficient(rows))
        /\ Diagnostics(v).tracklets = Cardinality(TracksOf(rows))
    BY DEF Diagnostics
  <1>2. Insufficient(rows) \in SUBSET TracksOf(rows)
    BY DEF Insufficient
  <1>3. Cardinality(Insufficient(rows)) = Cardinality(TracksOf(rows))
            <=> Insufficient(rows) = TracksOf(rows)
    BY <1>2, SomeFinite, FS_Subset
  <1>4. \A t : IsFiniteSet(Observations(rows, t)) /\ Cardinality(Observations(rows, t)) \in Nat
    <2> TAKE t
    <2>1. Observations(rows, t) \in SUBSET rows
      BY DEF Observations
    <2>. QED  BY <2>1, SomeFinite, FS_Subset, FS_CardinalityType
  <1>5. ASSUME NEW t \in TracksOf(rows), ~Few(rows, t)
        PROVE  t \in TracksOf(raw) /\ ~Few(raw, t)
    <2>1. Cardinality(Observations(rows, t)) >= MinObservations
      BY <1>4, <1>5, AI1Assumption
    <2>2. Observations(raw, t) = Observations(rows, t)
      BY <2>1 DEF Observations, RawTracks
    <2>3. PICK b \in rows : b.track = t
      BY DEF TracksOf
    <2>4. b \in raw
      BY <2>1, <2>3 DEF RawTracks
    <2>. QED  BY <1>5, <2>2, <2>3, <2>4 DEF TracksOf
  <1>6. ASSUME NEW t \in TracksOf(raw), ~Few(raw, t)
        PROVE  t \in TracksOf(rows) /\ ~Few(rows, t)
    <2>1. PICK b \in raw : b.track = t
      BY DEF TracksOf
    <2>2. b \in rows /\ Cardinality(Observations(rows, t)) >= MinObservations
      BY <2>1 DEF RawTracks
    <2>3. Observations(raw, t) = Observations(rows, t)
      BY <2>2 DEF Observations, RawTracks
    <2>. QED  BY <1>6, <2>1, <2>2, <2>3 DEF TracksOf
  <1>7. v \in NothingLeft <=> \A t \in TracksOf(raw) : Few(raw, t)
    BY DEF NothingLeft, EmptyAfterFilters
  <1>8. Insufficient(rows) = TracksOf(rows) <=> \A t \in TracksOf(rows) : Few(rows, t)
    BY DEF Insufficient
  <1>. QED  BY <1>1, <1>3, <1>5, <1>6, <1>7, <1>8

\* A product keeps an order, and a unit of difference is a factor of it.
LEMMA Products ==
    ASSUME NEW a \in Int, NEW b \in Int, NEW l \in Nat
    PROVE  /\ a * l \in Int /\ b * l \in Int
           /\ a <= b => a * l <= b * l
           /\ a < b => a * l + l <= b * l
  <1>1. ASSUME NEW n \in Nat
        PROVE  n * l \in Nat
    OBVIOUS
  <1>2. a <= b => (b - a) * l \in Nat /\ (b - a) * l = b * l - a * l
    BY <1>1
  <1>3. a < b => (b - a - 1) * l \in Nat /\ (b - a - 1) * l = b * l - a * l - l
    BY <1>1
  <1>. QED  BY <1>2, <1>3

\* A number is in one interval of a division.
LEMMA Division ==
    ASSUME NEW n \in Int, NEW l \in Nat \ {0}, NEW q \in Int
    PROVE  /\ n \div l \in Int
           /\ q = n \div l <=> q * l <= n /\ n < (q + 1) * l
  <1>1. /\ n \div l \in Int
        /\ (n \div l) * l <= n /\ n < (n \div l) * l + l
    OBVIOUS
  <1>2. (q + 1) * l = q * l + l /\ q * l \in Int /\ (n \div l) * l \in Int
    BY <1>1
  <1>3. q < n \div l => q * l + l <= (n \div l) * l
    BY <1>1, Products
  <1>4. n \div l < q => (n \div l) * l + l <= q * l
    BY <1>1, Products
  <1>. QED  BY <1>1, <1>2, <1>3, <1>4

\* The detector's boxes are of frames of the video.
LEMMA FramesOfVideo ==
    ASSUME NEW v \in Videos, Detectable(v), NEW b \in v.boxes
    PROVE  b.frame \in 0 .. v.total - 1
  <1>1. v.total \in Nat /\ v.stride \in Nat \ {0}
    BY VideosAssumption
  <1>2. PICK i \in 1 .. (v.total \div v.stride) : b.frame = i * v.stride - 1
    BY DEF Detectable, SampledFrames
  <1>3. v.total \div v.stride \in Int /\ (v.total \div v.stride) * v.stride <= v.total
    BY <1>1, Division
  <1>4. i * v.stride \in Int /\ i * v.stride <= (v.total \div v.stride) * v.stride
    BY <1>1, <1>3, Products
  <1>5. v.stride <= i * v.stride
    <2>1. 1 * v.stride = v.stride
      BY <1>1
    <2>2. 1 * v.stride <= i * v.stride
      BY <1>1, <1>3, Products
    <2>. QED  BY <2>1, <2>2
  <1>6. (v.total \div v.stride) * v.stride \in Int
    BY <1>1, <1>3, Products
  <1>. QED  BY <1>1, <1>2, <1>3, <1>4, <1>5, <1>6

\* A frame of a video is in one bin of it.
LEMMA OneBin ==
    ASSUME NEW v \in Videos, NEW n \in 0 .. v.total - 1
    PROVE  /\ n \div BinLength \in Bins(v)
           /\ \A bin \in Bins(v) :
                 bin = n \div BinLength <=> bin * BinLength <= n /\ n < BinEnd(v, bin)
  <1> DEFINE L == BinLength
             end == v.total + L - 1
             q == n \div L
             d == end \div L
  <1>1. v.total \in Nat /\ L \in Nat \ {0} /\ n \in Nat /\ n < v.total /\ end \in Nat
    BY VideosAssumption, AI1Assumption
  <1>2. Bins(v) = 0 .. d - 1
    BY DEF Bins
  <1>3. \A bin : BinEnd(v, bin) = IF (bin + 1) * L <= v.total THEN (bin + 1) * L ELSE v.total
    BY DEF BinEnd
  <1> HIDE DEF L
  <1>4. q \in Int /\ q * L \in Int /\ q * L <= n /\ n < (q + 1) * L
    BY <1>1, Division, Products
  <1>5. d \in Int /\ d * L \in Int /\ d * L <= end /\ end < (d + 1) * L
    BY <1>1, Division, Products
  <1>10. ASSUME NEW bin \in Int
         PROVE  bin = q <=> bin * L <= n /\ n < (bin + 1) * L
    <2>1. n \in Int
      BY <1>1
    <2>. QED  BY ONLY <1>1, <2>1, Division
  <1> HIDE DEF q, d
  <1>6. (q + 1) * L = q * L + L /\ (d + 1) * L = d * L + L /\ q + 1 \in Int /\ (q + 1) * L \in Int
    BY <1>1, <1>4, <1>5
  <1>7. 0 <= q
    <2>1. q < 0 => q * L + L <= 0 * L
      BY <1>1, <1>4, Products
    <2>. QED  BY <1>1, <1>4, <1>6, <2>1
  <1>8. q < d
    <2>1. d <= q => d * L <= q * L
      BY <1>1, <1>4, <1>5, Products
    <2>. QED  BY <1>1, <1>4, <1>5, <1>6, <2>1
  <1>9. ASSUME NEW bin \in Int
        PROVE  bin = q <=> bin * L <= n /\ n < BinEnd(v, bin)
    <2>1. bin = q <=> bin * L <= n /\ n < (bin + 1) * L
      BY <1>10
    <2>2. (bin + 1) * L \in Int
      BY <1>1
    <2>. QED  BY <1>1, <1>3, <2>1, <2>2
  <1>. QED  BY <1>2, <1>4, <1>5, <1>7, <1>8, <1>9 DEF q, L

\* A track begins and ends at frames of the video.
LEMMA TrackSpan ==
    ASSUME NEW v \in Videos, Detectable(v), NEW t \in TracksOf(Tracked(v))
    PROVE  /\ FirstFrame(Tracked(v), t) \in 0 .. v.total - 1
           /\ LastFrame(Tracked(v), t) \in 0 .. v.total - 1
  <1> DEFINE O == Observations(Tracked(v), t)
             N == {b.frame : b \in O}
  <1>1. O \subseteq v.boxes /\ O # {}
    BY DEF Observations, Tracked, TracksOf
  <1>2. N \subseteq 0 .. v.total - 1 /\ N # {} /\ v.total \in Nat
    BY <1>1, FramesOfVideo, VideosAssumption
  <1>3. \E n \in N : \A b \in O : n <= b.frame
    <2>1. PICK n \in N : \A m \in N : n <= m
      <3> HIDE DEF N
      <3>1. N \in SUBSET Nat
        BY <1>2
      <3>. QED  BY <1>2, <3>1, LeastElement
    <2>. QED  BY <2>1
  <1>4. \E n \in N : \A b \in O : b.frame <= n
    <2> DEFINE M == {v.total - n : n \in N}
    <2>1. M \in SUBSET Nat /\ M # {}
      <3> HIDE DEF N
      <3>1. \A n \in N : v.total - n \in Nat
        BY <1>2
      <3>. QED  BY <1>2, <3>1
    <2>2. PICK m \in M : \A k \in M : m <= k
      <3> HIDE DEF M
      <3>. QED  BY <2>1, LeastElement
    <2>3. PICK n \in N : m = v.total - n
      BY <2>2
    <2>4. ASSUME NEW b \in O
          PROVE  b.frame <= n
      <3>1. b.frame \in N /\ v.total - b.frame \in M
        OBVIOUS
      <3> HIDE DEF M, N
      <3>2. v.total - n <= v.total - b.frame
        BY <2>2, <2>3, <3>1
      <3>3. n \in 0 .. v.total - 1 /\ b.frame \in 0 .. v.total - 1
        BY <1>2, <3>1, Zenon
      <3>. QED  BY <1>2, <3>2, <3>3
    <2>. QED  BY <2>4
  <1>5. FirstFrame(Tracked(v), t) \in N
    BY <1>3 DEF FirstFrame
  <1>6. LastFrame(Tracked(v), t) \in N
    BY <1>4 DEF LastFrame
  <1>. QED  BY <1>2, <1>5, <1>6

\* Every track starts in one bin, and ends in one.
LEMMA EveryTrackCounted ==
    ASSUME NEW v \in Videos, Detectable(v)
    PROVE  LET d == Diagnostics(v) IN
           /\ MapThenSumSet(LAMBDA k : d.started[k], Bins(v)) = d.tracklets
           /\ MapThenSumSet(LAMBDA k : d.ended[k], Bins(v)) = d.tracklets
  <1> DEFINE T == TracksOf(Tracked(v))
             d == Diagnostics(v)
             first == [t \in T |-> FirstFrame(Tracked(v), t) \div BinLength]
             last == [t \in T |-> LastFrame(Tracked(v), t) \div BinLength]
  <1>1. d.tracklets = Cardinality(T)
    BY DEF Diagnostics
  <1>2. \A k \in Bins(v) : d.started[k] = Cardinality(StartedIn(v, k))
    BY DEF Diagnostics
  <1>3. \A k \in Bins(v) : d.ended[k] = Cardinality(EndedIn(v, k))
    BY DEF Diagnostics
  <1> HIDE DEF d
  <1>4. IsFiniteSet(Bins(v)) /\ IsFiniteSet(T)
    <2>1. (v.total + BinLength - 1) \div BinLength - 1 \in Int
      BY VideosAssumption, AI1Assumption, Division
    <2>. QED  BY <2>1, FS_Interval, SomeFinite DEF Bins
  <1>5. \A t \in T : first[t] \in Bins(v) /\ last[t] \in Bins(v)
    BY TrackSpan, OneBin
  <1>6. \A k \in Bins(v) : StartedIn(v, k) = {t \in T : first[t] = k}
    BY TrackSpan, OneBin DEF StartedIn
  <1>7. \A k \in Bins(v) : EndedIn(v, k) = {t \in T : last[t] = k}
    BY TrackSpan, OneBin DEF EndedIn
  <1> HIDE DEF T, first, last
  <1>8. MapThenSumSet(LAMBDA k : d.started[k], Bins(v)) = Cardinality(T)
    <2>1. MapThenSumSet(LAMBDA k : d.started[k], Bins(v)) = Total(d.started, Bins(v))
      BY Zenon DEF MapThenSumSet, MapThenFoldSet, Total, Value, Picked
    <2>. QED  BY <2>1, <1>2, <1>4, <1>5, <1>6, SumOfShares
  <1>9. MapThenSumSet(LAMBDA k : d.ended[k], Bins(v)) = Cardinality(T)
    <2>1. MapThenSumSet(LAMBDA k : d.ended[k], Bins(v)) = Total(d.ended, Bins(v))
      BY Zenon DEF MapThenSumSet, MapThenFoldSet, Total, Value, Picked
    <2>. QED  BY <2>1, <1>3, <1>4, <1>5, <1>7, SumOfShares
  <1>. QED  BY <1>1, <1>8, <1>9 DEF d

\* What tracking, its diagnostics and the statistics count of a video the
\* detector takes agrees.
LEMMA Agree ==
    ASSUME NEW v \in Videos, Detectable(v)
    PROVE  v \in Agreeing
  BY EveryTrackCounted, AllInsufficient, KeepsSome DEF Agreeing

(***************************************************************************)
(* The inductive invariant                                                 *)
(***************************************************************************)

Held == load.runs \union {"none", "partial"}

Children == [stage : Stages, step : Nat, data : load.runs \union {NoRun},
             state : {"none", "running", "exited", "failed"}]

Watching == {"poll", "check", "terminate"}
Collecting == {"summary", "collect", "bytes"}

TypeOK ==
    /\ load \in Loads
    /\ input \in [load.runs -> load.videos]
    /\ queued \subseteq load.runs
    /\ job \in [Workers -> load.runs \union {NoRun}]
    /\ pc \in [Workers -> {"idle", "ready"} \union Watching \union Collecting]
    /\ child \in [Workers -> Children]
    /\ parts \in [Workers -> SUBSET load.runs]
    /\ tree \in [Trees -> [Files -> Held]]
    /\ orphans \subseteq [run : load.runs, child : Children]
    /\ alone \in [Workers -> BOOLEAN]

\* A build is of a worker that is there, and watches a child or has none.
Placed(w) ==
    /\ pc[w] = "idle" <=> job[w] = NoRun
    /\ job[w] # NoRun => w \in load.workers
    /\ pc[w] \in Watching <=> child[w].state # "none"

\* No build goes past the detection of a video the detector refuses.
Screened(w) ==
    /\ child[w].state = "exited" => child[w].data # NoRun
    /\ \/ /\ child[w].state # "none"
          /\ child[w].stage # Detection \/ child[w].data # NoRun
       \/ pc[w] \in Collecting
       => Detectable(input[job[w]])

Local(w) == Placed(w) /\ Screened(w)

\* A build that is alone has its tree to itself ...
Alone ==
    \A w \in Workers : alone[w] /\ job[w] # NoRun =>
        /\ \A o \in orphans : TreeOf(o.run) # TreeOf(job[w])
        /\ \A x \in Workers \ {w} : job[x] # NoRun => TreeOf(job[x]) # TreeOf(job[w])

\* The files of the stages before a stage, and those it has completed in n steps.
Made(stage, n) ==
    {f \in Files : \E s \in Stages : \E i \in 1..Len(Outputs(s)) :
        f = Outputs(s)[i] /\ (s < stage \/ (s = stage /\ 2 * i <= n))}

Owns(w, files) == \A f \in files : tree[TreeOf(job[w])][f] = job[w]

\* ... and the files it has made so far are there, its own and complete.
Working(w) ==
    LET c == child[w] IN
    /\ c.state # "none" =>
          /\ c.data \in {NoRun, job[w]}
          /\ c.data = NoRun => c.step = 0
          /\ c.state = "exited" => c.step = Steps(c.stage)
          /\ c.stage \in {Stats, Fatigue} => ~Empty(job[w])
          /\ Owns(w, Made(c.stage, c.step))
    /\ pc[w] \in Collecting => Owns(w, Made(Stats, 0))
    /\ pc[w] = "collect" /\ ~Empty(job[w]) => Owns(w, Files)
    /\ pc[w] = "bytes" => parts[w] = {job[w]}

Returned(b) ==
    /\ b.run \in load.runs /\ Detectable(input[b.run])
    /\ b.alone => b.parts = {b.run}

IInv ==
    /\ TypeOK
    /\ \A w \in Workers : Local(w)
    /\ Alone
    /\ \A w \in Workers : alone[w] /\ job[w] # NoRun => Working(w)
    /\ \A b \in results : Returned(b)

(***************************************************************************)
(* The files of the stages                                                 *)
(***************************************************************************)

\* The stages, their files and how many steps they take.
LEMMA OutputsAre ==
    /\ Stages = {1, 2, 3, 4}
    /\ Detection = 1 /\ Tracking = 2 /\ Stats = 3 /\ Fatigue = 4
    /\ Outputs(1) = <<"detections", "metadata", "detectionSummary">>
    /\ Outputs(2) = <<"tracklets", "rawTracks", "fragmentation", "trackingSummary">>
    /\ Outputs(3) = <<"playerStats", "playerSummary">>
    /\ Outputs(4) = <<"riskScores">>
    /\ Len(Outputs(1)) = 3 /\ Len(Outputs(2)) = 4 /\ Len(Outputs(3)) = 2 /\ Len(Outputs(4)) = 1
    /\ Steps(1) = 6 /\ Steps(2) = 8 /\ Steps(3) = 4 /\ Steps(4) = 2
  <1>1. /\ Stages = {1, 2, 3, 4}
        /\ Detection = 1 /\ Tracking = 2 /\ Stats = 3 /\ Fatigue = 4
    BY DEF Stages, Detection, Tracking, Stats, Fatigue
  <1>2. /\ Outputs(1) = <<"detections", "metadata", "detectionSummary">>
        /\ Outputs(2) = <<"tracklets", "rawTracks", "fragmentation", "trackingSummary">>
        /\ Outputs(3) = <<"playerStats", "playerSummary">>
        /\ Outputs(4) = <<"riskScores">>
    BY <1>1 DEF Outputs
  <1>3. Len(Outputs(1)) = 3 /\ Len(Outputs(2)) = 4 /\ Len(Outputs(3)) = 2 /\ Len(Outputs(4)) = 1
    BY <1>2
  <1>4. Steps(1) = 6 /\ Steps(2) = 8 /\ Steps(3) = 4 /\ Steps(4) = 2
    <2>1. Steps(1) = 2 * 3
      BY <1>3, Zenon DEF Steps
    <2>2. Steps(2) = 2 * 4
      BY <1>3, Zenon DEF Steps
    <2>3. Steps(3) = 2 * 2
      BY <1>3, Zenon DEF Steps
    <2>4. Steps(4) = 2 * 1
      BY <1>3, Zenon DEF Steps
    <2>. QED  BY <2>1, <2>2, <2>3, <2>4
  <1>. QED  BY <1>1, <1>2, <1>3, <1>4

\* The files of all the stages.
LEMMA FilesAre ==
    Files = {"detections", "metadata", "detectionSummary", "tracklets", "rawTracks", "fragmentation",
             "trackingSummary", "playerStats", "playerSummary", "riskScores"}
  <1>1. /\ DOMAIN Outputs(1) = {1, 2, 3} /\ DOMAIN Outputs(2) = {1, 2, 3, 4}
        /\ DOMAIN Outputs(3) = {1, 2} /\ DOMAIN Outputs(4) = {1}
    BY OutputsAre
  <1>2. Files = {Outputs(1)[i] : i \in {1, 2, 3}} \union {Outputs(2)[i] : i \in {1, 2, 3, 4}}
                    \union {Outputs(3)[i] : i \in {1, 2}} \union {Outputs(4)[i] : i \in {1}}
    <2>1. Stages = {1, 2, 3, 4}
      BY OutputsAre
    <2>. QED  BY ONLY <1>1, <2>1 DEF Files
  <1>3. /\ Outputs(1)[1] = "detections" /\ Outputs(1)[2] = "metadata" /\ Outputs(1)[3] = "detectionSummary"
        /\ Outputs(2)[1] = "tracklets" /\ Outputs(2)[2] = "rawTracks"
        /\ Outputs(2)[3] = "fragmentation" /\ Outputs(2)[4] = "trackingSummary"
        /\ Outputs(3)[1] = "playerStats" /\ Outputs(3)[2] = "playerSummary"
        /\ Outputs(4)[1] = "riskScores"
    BY OutputsAre
  <1>. QED  BY ONLY <1>2, <1>3

\* Each file has one place in the order the children write.
LEMMA OnePlace ==
    ASSUME NEW s \in Stages, NEW i \in 1..Len(Outputs(s))
    PROVE  /\ Outputs(s)[i] \in Files
           /\ \A q \in Stages : \A j \in 1..Len(Outputs(q)) :
                 Outputs(s)[i] = Outputs(q)[j] => s = q /\ i = j
  <1>1. Outputs(s)[i] \in Files
    BY OutputsAre DEF Files
  <1>2. ASSUME NEW q \in Stages, NEW j \in 1..Len(Outputs(q)), Outputs(s)[i] = Outputs(q)[j]
        PROVE  s = q /\ i = j
    <2>1. s \in {1, 2, 3, 4} /\ q \in {1, 2, 3, 4}
      BY OutputsAre
    <2>2. \/ s = 1 /\ i \in {1, 2, 3}
          \/ s = 3 /\ i \in {1, 2}
          \/ s = 2 /\ i \in {1, 2, 3, 4}
          \/ s = 4 /\ i = 1
      <3> DEFINE n == Len(Outputs(s))
      <3>1. i \in 1..n
        OBVIOUS
      <3>2. /\ s = 3 => n = 2
            /\ s = 1 => n = 3
            /\ s = 2 => n = 4
            /\ s = 4 => n = 1
        BY OutputsAre
      <3> HIDE DEF n
      <3>6. n = 3 => i \in {1, 2, 3}
        BY <3>1
      <3>3. n = 2 => i \in {1, 2}
        BY <3>1
      <3>4. n = 4 => i \in {1, 2, 3, 4}
        BY <3>1
      <3>5. n = 1 => i = 1
        BY <3>1
      <3>. QED  BY <2>1, <3>2, <3>3, <3>4, <3>5, <3>6
    <2>3. \/ q = 1 /\ j \in {1, 2, 3}
          \/ q = 3 /\ j \in {1, 2}
          \/ q = 2 /\ j \in {1, 2, 3, 4}
          \/ q = 4 /\ j = 1
      <3> DEFINE n == Len(Outputs(q))
      <3>1. j \in 1..n
        OBVIOUS
      <3>2. /\ q = 3 => n = 2
            /\ q = 1 => n = 3
            /\ q = 2 => n = 4
            /\ q = 4 => n = 1
        BY OutputsAre
      <3> HIDE DEF n
      <3>6. n = 3 => j \in {1, 2, 3}
        BY <3>1
      <3>3. n = 2 => j \in {1, 2}
        BY <3>1
      <3>4. n = 4 => j \in {1, 2, 3, 4}
        BY <3>1
      <3>5. n = 1 => j = 1
        BY <3>1
      <3>. QED  BY <2>1, <3>2, <3>3, <3>4, <3>5, <3>6
    <2>4. /\ Outputs(1)[1] = "detections" /\ Outputs(1)[2] = "metadata" /\ Outputs(1)[3] = "detectionSummary"
          /\ Outputs(2)[1] = "tracklets" /\ Outputs(2)[2] = "rawTracks"
          /\ Outputs(2)[3] = "fragmentation" /\ Outputs(2)[4] = "trackingSummary"
          /\ Outputs(3)[1] = "playerStats" /\ Outputs(3)[2] = "playerSummary"
          /\ Outputs(4)[1] = "riskScores"
      BY OutputsAre
    <2>. QED  BY ONLY <1>2, <2>2, <2>3, <2>4
  <1>. QED  BY <1>1, <1>2

\* A stage finds the files of the stages before it.
LEMMA MadeBefore ==
    /\ Made(1, 0) = {}
    /\ {"detections", "detectionSummary"} \subseteq Made(2, 0)
    /\ {"detections", "detectionSummary", "tracklets", "rawTracks", "fragmentation",
        "trackingSummary"} \subseteq Made(3, 0)
    /\ {"playerStats", "playerSummary"} \subseteq Made(4, 0)
    /\ \A s \in Stages : Inputs(s) \subseteq Made(s, 0)
  <1>1. Made(1, 0) = {}
    BY OutputsAre DEF Made
  <1>2. \A q, s \in Stages : \A i \in 1..Len(Outputs(q)) : q < s => Outputs(q)[i] \in Made(s, 0)
    BY OnePlace DEF Made
  <1>3. /\ Outputs(1)[1] = "detections" /\ Outputs(1)[2] = "metadata" /\ Outputs(1)[3] = "detectionSummary"
        /\ Outputs(2)[1] = "tracklets" /\ Outputs(2)[2] = "rawTracks"
        /\ Outputs(2)[3] = "fragmentation" /\ Outputs(2)[4] = "trackingSummary"
        /\ Outputs(3)[1] = "playerStats" /\ Outputs(3)[2] = "playerSummary"
    BY OutputsAre
  <1>4. {"detections", "detectionSummary"} \subseteq Made(2, 0)
    BY <1>2, <1>3, OutputsAre
  <1>5. {"detections", "detectionSummary", "tracklets", "rawTracks", "fragmentation",
         "trackingSummary"} \subseteq Made(3, 0)
    BY <1>2, <1>3, OutputsAre
  <1>6. {"playerStats", "playerSummary"} \subseteq Made(4, 0)
    BY <1>2, <1>3, OutputsAre
  <1>7. \A s \in Stages : Inputs(s) \subseteq Made(s, 0)
    BY <1>4, <1>5, <1>6, OutputsAre DEF Inputs
  <1>. QED  BY <1>1, <1>4, <1>5, <1>6, <1>7

\* A stage that ends has made what the next starts from.
LEMMA MadeAfter ==
    ASSUME NEW s \in Stages
    PROVE  /\ s \in {1, 2, 3} => Made(s + 1, 0) \subseteq Made(s, Steps(s))
           /\ s = 4 => Files \subseteq Made(s, Steps(s))
           /\ \A n \in Nat : Made(s, 0) \subseteq Made(s, n)
  <1>1. \A i \in 1..Len(Outputs(s)) : 2 * i <= Steps(s)
    BY OutputsAre DEF Steps
  <1>2. s \in {1, 2, 3} => Made(s + 1, 0) \subseteq Made(s, Steps(s))
    <2>1. \A q \in Stages : q < s + 1 => q < s \/ q = s
      BY OutputsAre
    <2>2. \A q \in Stages : \A i \in 1..Len(Outputs(q)) : ~ (2 * i <= 0)
      BY OutputsAre
    <2>. QED  BY <1>1, <2>1, <2>2 DEF Made
  <1>3. s = 4 => Files \subseteq Made(s, Steps(s))
    <2>1. \A q \in Stages : q < 4 \/ q = 4
      BY OutputsAre
    <2>2. \A q \in Stages : DOMAIN Outputs(q) = 1..Len(Outputs(q))
      BY OutputsAre
    <2>3. \A f \in Files : \E q \in Stages : \E i \in 1..Len(Outputs(q)) : f = Outputs(q)[i]
      BY <2>2 DEF Files
    <2>. QED  BY <1>1, <2>1, <2>3 DEF Made
  <1>4. \A n \in Nat : Made(s, 0) \subseteq Made(s, n)
    BY OutputsAre DEF Made
  <1>. QED  BY <1>2, <1>3, <1>4

\* Writing a file of a stage leaves those made before it.
LEMMA MadeWhileWriting ==
    ASSUME NEW s \in Stages, NEW n \in Nat, n < Steps(s)
    PROVE  LET f == Outputs(s)[n \div 2 + 1] IN
           /\ f \in Files /\ f \notin Made(s, n)
           /\ n % 2 = 0 => Made(s, n + 1) \subseteq Made(s, n)
           /\ Made(s, 2 * (n \div 2 + 1)) \subseteq Made(s, n) \union {f}
  <1> DEFINE k == n \div 2 + 1
  <1>1. Len(Outputs(s)) \in Nat /\ n < 2 * Len(Outputs(s))
    BY OutputsAre DEF Steps
  <1>2. k \in 1..Len(Outputs(s)) /\ n < 2 * k /\ (n % 2 = 0 => n + 1 < 2 * k) /\ 2 * k <= n + 2
    BY <1>1
  <1>3. /\ Outputs(s)[k] \in Files
        /\ \A q \in Stages : \A j \in 1..Len(Outputs(q)) :
              Outputs(s)[k] = Outputs(q)[j] => s = q /\ k = j
    BY <1>2, OnePlace
  <1> HIDE DEF k
  <1>4. Outputs(s)[k] \notin Made(s, n)
    <2>1. ~ (s < s) /\ k \in Int /\ n \in Int /\ ~ (2 * k <= n)
      BY <1>2, OutputsAre
    <2>. QED  BY <1>3, <2>1 DEF Made
  <1>5. n % 2 = 0 => Made(s, n + 1) \subseteq Made(s, n)
    BY <1>2 DEF Made
  <1>6. Made(s, 2 * k) \subseteq Made(s, n) \union {Outputs(s)[k]}
    <2>1. \A i \in 1..Len(Outputs(s)) : 2 * i <= 2 * k => i = k \/ 2 * i <= n
      BY <1>1, <1>2
    <2>. QED  BY <2>1 DEF Made
  <1>. QED  BY <1>3, <1>4, <1>5, <1>6 DEF k

(***************************************************************************)
(* The children                                                            *)
(***************************************************************************)

\* What the assumptions say of the load that is run.
LEMMA LoadFacts ==
    ASSUME TypeOK
    PROVE  /\ load.store \in {"local", "cloud"}
           /\ load.runs \subseteq Runs /\ load.workers \subseteq Workers
           /\ load.store = "cloud" => \A w, x \in load.workers : w = x
           /\ NoRun \notin load.runs
           /\ "partial" \notin Runs /\ "none" \notin Runs /\ "host" \notin Runs
           /\ \A r \in load.runs : input[r] \in Videos /\ TreeOf(r) \in Trees
           /\ load.store = "local" => \A r : TreeOf(r) = r
  <1>1. /\ load.store \in {"local", "cloud"}
        /\ load.runs \subseteq Runs /\ load.workers \subseteq Workers
        /\ load.videos \subseteq Videos
        /\ load.store = "cloud" => \A w, x \in load.workers : w = x
    BY CompatAssumption DEF TypeOK
  <1>2. \A r \in load.runs : input[r] \in Videos
    BY <1>1 DEF TypeOK
  <1>. QED  BY <1>1, <1>2, CompatAssumption DEF TreeOf, Trees

\* A child that reads its inputs.
LEMMA Reads ==
    ASSUME TypeOK, NEW r \in load.runs, NEW c \in Children, c.state = "running",
           NEW next, ReadInputs(c, r, next)
    PROVE  /\ c.data = NoRun /\ tree' = tree
           /\ next \in Children /\ next.stage = c.stage
           /\ \/ next.state = "failed" /\ next.data = NoRun /\ next.step = c.step
              \/ /\ next.state = "running" /\ next.data \in load.runs
                 /\ next.data = DataOf(c, r)
                 /\ c.stage = Detection => Detectable(input[r])
                 /\ \/ next.step = c.step
                    \/ c.stage = Stats /\ input[next.data] \in MayKeepNone
  <1>1. c.data = NoRun /\ tree' = tree
    BY DEF ReadInputs
  <1>2. CASE next = [c EXCEPT !.state = "failed"]
    BY <1>1, <1>2 DEF Children
  <1>3. CASE next # [c EXCEPT !.state = "failed"]
    <2> DEFINE d == DataOf(c, r)
               t == TreeOf(r)
    <2>1. /\ \A f \in Inputs(c.stage) : Readable(t, f)
          /\ ~Refused(c, d)
          /\ \/ next = [c EXCEPT !.data = d]
             \/ WritesNothing(c, d) /\ next = [c EXCEPT !.data = d, !.step = Steps(c.stage)]
      BY <1>3 DEF ReadInputs
    <2>2. c.stage \in Stages /\ c.stage \in {1, 2, 3, 4} /\ c.step \in Nat
      BY OutputsAre DEF Children
    <2>3. /\ c.stage = 1 => d = r
          /\ c.stage = 2 => "detections" \in Inputs(c.stage) /\ d = tree[t]["detections"]
          /\ c.stage = 3 => "rawTracks" \in Inputs(c.stage) /\ d = tree[t]["rawTracks"]
          /\ c.stage = 4 => "playerSummary" \in Inputs(c.stage) /\ d = tree[t]["playerSummary"]
      BY OutputsAre DEF DataOf, Inputs
    <2>4. t \in Trees /\ \A f \in Files : tree[t][f] \in Held
      BY LoadFacts DEF TypeOK
    <2>5. d = r \/ \E f \in Files : d = tree[t][f] /\ d \in Runs
      BY <2>1, <2>2, <2>3, FilesAre DEF Readable
    <2>6. d \in load.runs
      BY <2>4, <2>5, LoadFacts DEF Held
    <2>8. c.stage = Detection => Detectable(input[r])
      <3>1. c.stage = Detection => d = r /\ input[d] \notin DetectionRaises
        BY <2>1, <2>3, OutputsAre DEF Refused
      <3>. QED  BY <3>1, LoadFacts DEF DetectionRaises
    <2>9. /\ next \in Children /\ next.stage = c.stage
          /\ next.state = "running" /\ next.data = d
          /\ next.step = c.step \/ (c.stage = Stats /\ input[d] \in MayKeepNone)
      <3> HIDE DEF d
      <3>1. Steps(c.stage) \in Nat
        BY <2>2, OutputsAre
      <3>2. CASE next = [c EXCEPT !.data = d]
        BY <2>6, <3>2 DEF Children
      <3>3. CASE WritesNothing(c, d) /\ next = [c EXCEPT !.data = d, !.step = Steps(c.stage)]
        <4>1. c.stage = Stats /\ input[d] \in MayKeepNone
          BY <3>3 DEF WritesNothing
        <4>. QED  BY <2>6, <3>1, <3>3, <4>1 DEF Children
      <3>. QED  BY <2>1, <3>2, <3>3
    <2>. QED  BY <1>1, <2>6, <2>8, <2>9
  <1>. QED  BY <1>2, <1>3

\* A child that writes.
LEMMA Writes ==
    ASSUME TypeOK, NEW r \in load.runs, NEW c \in Children, c.state = "running",
           NEW next, WriteFile(c, r, next)
    PROVE  LET f == Outputs(c.stage)[c.step \div 2 + 1]
               opens == c.step % 2 = 0 /\ f \in Parquet
               step == IF opens THEN c.step + 1 ELSE 2 * (c.step \div 2 + 1)
           IN  /\ c.data \in load.runs /\ c.step < Steps(c.stage) /\ f \in Files
               /\ step \in Nat /\ next = [c EXCEPT !.step = step]
               /\ tree' = [tree EXCEPT ![TreeOf(r)][f] = IF opens THEN "partial" ELSE c.data]
  <1> DEFINE f == Outputs(c.stage)[c.step \div 2 + 1]
  <1>1. c.data # NoRun /\ c.step < Steps(c.stage)
    BY DEF WriteFile
  <1>2. c.data \in load.runs /\ c.stage \in Stages /\ c.step \in Nat
    BY <1>1 DEF Children
  <1>3. f \in Files
    BY <1>1, <1>2, MadeWhileWriting
  <1> HIDE DEF f
  <1>4. c.step + 1 \in Nat /\ 2 * (c.step \div 2 + 1) \in Nat
    BY <1>2
  <1>5. /\ tree' = [tree EXCEPT ![TreeOf(r)][f] = IF c.step % 2 = 0 /\ f \in Parquet
                                                   THEN "partial" ELSE c.data]
        /\ next = [c EXCEPT !.step = IF c.step % 2 = 0 /\ f \in Parquet
                                     THEN c.step + 1 ELSE 2 * (c.step \div 2 + 1)]
    BY Zenon DEF WriteFile, f
  <1>. QED  BY <1>1, <1>2, <1>3, <1>4, <1>5 DEF f

\* What a step of a child of r keeps, whoever waits for it.
LEMMA Moves ==
    ASSUME TypeOK, NEW r \in load.runs, NEW c \in Children,
           NEW next, ChildMoves(c, r, next)
    PROVE  /\ c.state = "running" /\ next \in Children
           /\ next.state # "none" /\ next.stage = c.stage
           /\ next.state = "exited" => next.data # NoRun
           /\ c.stage = Detection /\ c.data = NoRun /\ next.data # NoRun => Detectable(input[r])
           /\ tree' \in [Trees -> [Files -> Held]]
           /\ \A t \in Trees : t # TreeOf(r) => tree'[t] = tree[t]
  <1>1. c.state = "running"
    BY DEF ChildMoves
  <1>2. CASE ReadInputs(c, r, next)
    <2>1. /\ tree' = tree /\ c.data = NoRun /\ next \in Children /\ next.stage = c.stage
          /\ \/ next.state = "failed" /\ next.data = NoRun
             \/ /\ next.state = "running"
                /\ c.stage = Detection => Detectable(input[r])
      BY <1>1, <1>2, Reads
    <2>. QED  BY <1>1, <2>1 DEF TypeOK
  <1>3. CASE WriteFile(c, r, next)
    <2>1. PICK f \in Files, v \in Held, n \in Nat :
              /\ c.data \in load.runs /\ v \in {"partial", c.data}
              /\ next = [c EXCEPT !.step = n]
              /\ tree' = [tree EXCEPT ![TreeOf(r)][f] = v]
      <3> DEFINE f == Outputs(c.stage)[c.step \div 2 + 1]
                 opens == c.step % 2 = 0 /\ f \in Parquet
                 step == IF opens THEN c.step + 1 ELSE 2 * (c.step \div 2 + 1)
                 v == IF opens THEN "partial" ELSE c.data
      <3>1. /\ c.data \in load.runs /\ f \in Files /\ step \in Nat
            /\ next = [c EXCEPT !.step = step]
            /\ tree' = [tree EXCEPT ![TreeOf(r)][f] = v]
        BY <1>1, <1>3, Writes, Zenon
      <3>2. v \in {"partial", c.data} /\ v \in Held
        BY <3>1 DEF Held
      <3> HIDE DEF f, step, v
      <3>. QED  BY <3>1, <3>2
    <2>2. next \in Children /\ next.state = c.state /\ next.stage = c.stage /\ next.data = c.data
      BY <2>1 DEF Children
    <2>3. TreeOf(r) \in Trees /\ v \in Held
      BY <2>1, LoadFacts DEF Held
    <2>4. tree' \in [Trees -> [Files -> Held]]
      BY <2>1, <2>3 DEF TypeOK
    <2>5. \A t \in Trees : t # TreeOf(r) => tree'[t] = tree[t]
      BY <2>1 DEF TypeOK
    <2>. QED  BY <1>1, <2>1, <2>2, <2>4, <2>5, LoadFacts
  <1>4. CASE Exit(c, next)
    <2>1. /\ tree' = tree
          /\ \/ c.data # NoRun /\ next = [c EXCEPT !.state = "exited"]
             \/ next = [c EXCEPT !.state = "failed"]
      BY <1>4 DEF Exit
    <2>2. next \in Children /\ next.stage = c.stage /\ next.data = c.data
          /\ next.state \in {"exited", "failed"} /\ (next.state = "exited" => c.data # NoRun)
      BY <2>1 DEF Children
    <2>. QED  BY <1>1, <2>1, <2>2 DEF TypeOK
  <1>. QED  BY <1>2, <1>3, <1>4 DEF ChildMoves

\* The files of a child that is alone are its own.
LEMMA MovesAlone ==
    ASSUME IInv, NEW w \in Workers, alone[w], job[w] # NoRun,
           NEW next, ChildMoves(child[w], job[w], next),
           UNCHANGED <<environment, job, pc, parts>>,
           child' = [child EXCEPT ![w] = next]
    PROVE  Working(w)'
  <1> DEFINE c == child[w]
             r == job[w]
             t == TreeOf(r)
  <1>1. /\ r \in load.runs /\ c \in Children /\ TypeOK /\ Placed(w)
        /\ t \in Trees /\ TreeOf(r)' = t
    BY LoadFacts DEF IInv, TypeOK, Local, environment, TreeOf
  <1>2. /\ c.state = "running"
        /\ c.stage \in Stages /\ c.step \in Nat
    BY <1>1 DEF ChildMoves, Children
  <1>3. pc[w] \in Watching /\ pc[w] \notin Collecting /\ pc[w] # "collect" /\ pc[w] # "bytes"
    BY <1>1, <1>2 DEF Placed, Watching, Collecting
  <1>4. /\ c.data \in {NoRun, r}
        /\ c.data = NoRun => c.step = 0
        /\ c.stage \in {Stats, Fatigue} => ~Empty(r)
        /\ \A f \in Made(c.stage, c.step) : tree[t][f] = r
    BY <1>2 DEF IInv, Working, Owns
  <1>5. child'[w] = next /\ job'[w] = r /\ pc'[w] = pc[w]
    BY <1>1 DEF TypeOK
  <1>6. Empty(r)' = Empty(r)
    BY DEF Empty, environment, NothingLeft
  <1>7. SUFFICES /\ next.stage = c.stage
                 /\ next.data \in {NoRun, r}
                 /\ next.data = NoRun => next.step = 0
                 /\ next.state = "exited" => next.step = Steps(next.stage)
                 /\ \A f \in Made(c.stage, next.step) : tree'[t][f] = r
    <2>. QED  BY <1>1, <1>3, <1>4, <1>5, <1>6, <1>7, Zenon DEF Working, Owns
  <1> HIDE DEF c, r, t
  <1>8. CASE ReadInputs(c, r, next)
    <2>1. tree' = tree /\ c.data = NoRun /\ c.step = 0
      BY <1>1, <1>2, <1>4, <1>8, Reads
    <2>2. /\ next.stage = c.stage
          /\ \/ next.state = "failed" /\ next.data = NoRun /\ next.step = c.step
             \/ /\ next.state = "running" /\ next.data = DataOf(c, r)
                /\ \/ next.step = c.step
                   \/ c.stage = Stats /\ input[next.data] \in MayKeepNone
      BY <1>1, <1>2, <1>8, Reads
    <2>3. CASE next.state = "failed"
      BY <1>4, <2>1, <2>2, <2>3
    <2>4. CASE next.state = "running"
      <3> DEFINE d == DataOf(c, r)
      <3>1. d = r
        <4>1. /\ c.stage = 1 => d = r
              /\ c.stage = 2 => d = tree[t]["detections"]
              /\ c.stage = 3 => d = tree[t]["rawTracks"]
              /\ c.stage = 4 => d = tree[t]["playerSummary"]
          BY OutputsAre DEF DataOf, t
        <4>2. \A f \in Made(c.stage, 0) : tree[t][f] = r
          BY <1>4, <2>1
        <4>. QED  BY <1>2, <4>1, <4>2, MadeBefore, OutputsAre
      <3>2. c.stage = Stats => input[r] \notin MayKeepNone
        BY <1>1, <1>4, KeepsSome, LoadFacts DEF Empty
      <3>3. r # NoRun
        BY <1>1, LoadFacts
      <3> HIDE DEF d
      <3>4. next.data = r /\ next.step = c.step
        BY <2>2, <2>4, <3>1, <3>2 DEF d
      <3>. QED  BY <1>4, <2>1, <2>2, <2>4, <3>3, <3>4
    <2>. QED  BY <2>2, <2>3, <2>4
  <1>9. CASE WriteFile(c, r, next)
    <2> DEFINE f == Outputs(c.stage)[c.step \div 2 + 1]
               opens == c.step % 2 = 0 /\ f \in Parquet
               step == IF opens THEN c.step + 1 ELSE 2 * (c.step \div 2 + 1)
    <2>1. /\ c.data \in load.runs /\ c.step < Steps(c.stage) /\ f \in Files
          /\ step \in Nat /\ next = [c EXCEPT !.step = step]
          /\ tree' = [tree EXCEPT ![t][f] = IF opens THEN "partial" ELSE c.data]
      BY <1>1, <1>2, <1>9, Writes, Zenon DEF t
    <2>2. /\ f \notin Made(c.stage, c.step)
          /\ c.step % 2 = 0 => Made(c.stage, c.step + 1) \subseteq Made(c.stage, c.step)
          /\ Made(c.stage, 2 * (c.step \div 2 + 1)) \subseteq Made(c.stage, c.step) \union {f}
      BY <1>2, <2>1, MadeWhileWriting
    <2> HIDE DEF f
    <2>3. c.data = r /\ c.data # NoRun
      BY <1>1, <1>4, <2>1, LoadFacts
    <2>4. next.stage = c.stage /\ next.data = r /\ next.state = "running" /\ next.step = step
      BY <1>1, <1>2, <2>1, <2>3 DEF Children
    <2>5. \A g \in Files :
             tree'[t][g] = IF g = f THEN (IF opens THEN "partial" ELSE r) ELSE tree[t][g]
      BY <1>1, <2>1, <2>3 DEF TypeOK
    <2>6. Made(c.stage, step) \subseteq Files
      BY DEF Made
    <2>7. \A g \in Made(c.stage, step) : tree'[t][g] = r
      <3>1. CASE opens
        <4>1. Made(c.stage, step) \subseteq Made(c.stage, c.step)
          BY <2>2, <3>1
        <4>. QED  BY <1>4, <2>2, <2>5, <2>6, <4>1
      <3>2. CASE ~opens
        <4>1. Made(c.stage, step) \subseteq Made(c.stage, c.step) \union {f}
          BY <2>2, <3>2
        <4>. QED  BY <1>4, <2>5, <2>6, <3>2, <4>1
      <3>. QED  BY <3>1, <3>2
    <2>. QED  BY <2>3, <2>4, <2>7
  <1>10. CASE Exit(c, next)
    <2>1. /\ tree' = tree
          /\ \/ c.step = Steps(c.stage) /\ next = [c EXCEPT !.state = "exited"]
             \/ next = [c EXCEPT !.state = "failed"]
      BY <1>10 DEF Exit
    <2>2. next.stage = c.stage /\ next.data = c.data /\ next.step = c.step
          /\ (next.state = "exited" => c.step = Steps(c.stage))
      BY <1>1, <2>1 DEF Children
    <2>. QED  BY <1>4, <2>1, <2>2
  <1>. QED  BY <1>8, <1>9, <1>10 DEF ChildMoves, c, r

(***************************************************************************)
(* Steps of one worker                                                     *)
(***************************************************************************)

\* No step changes the load, the host or the videos, nor what is read of them.
LEMMA EnvironmentKept ==
    ASSUME UNCHANGED environment
    PROVE  /\ load' = load /\ input' = input /\ host' = host
           /\ \A r : TreeOf(r)' = TreeOf(r) /\ Empty(r)' = Empty(r)
           /\ Held' = Held /\ Children' = Children
  BY DEF environment, TreeOf, Empty, NothingLeft, Held, Children

\* What is true of a worker stays, when the step is another's.
LEMMA Others ==
    ASSUME NEW x, UNCHANGED environment,
           job'[x] = job[x], pc'[x] = pc[x], child'[x] = child[x], parts'[x] = parts[x]
    PROVE  /\ Local(x) => Local(x)'
           /\ Working(x) /\ (\A f \in Files : tree'[TreeOf(job[x])][f] = tree[TreeOf(job[x])][f])
                 => Working(x)'
  <1>1. Local(x) => Local(x)'
    <2>1. Placed(x) => Placed(x)'
      BY EnvironmentKept DEF Placed
    <2>2. Screened(x) => Screened(x)'
      BY EnvironmentKept DEF Screened
    <2>. QED  BY <2>1, <2>2 DEF Local
  <1>2. ASSUME Working(x),
               \A f \in Files : tree'[TreeOf(job[x])][f] = tree[TreeOf(job[x])][f]
        PROVE  Working(x)'
    <2>1. ASSUME NEW files, files \subseteq Files, Owns(x, files)
          PROVE  Owns(x, files)'
      BY <1>2, <2>1, EnvironmentKept DEF Owns
    <2>2. \A s, n : Made(s, n) \subseteq Files
      BY DEF Made
    <2>. QED  BY <1>2, <2>1, <2>2, EnvironmentKept, Zenon DEF Working
  <1>. QED  BY <1>1, <1>2

\* A result that is right stays right.
LEMMA ResultsKept ==
    ASSUME IInv, UNCHANGED environment, NEW b \in results
    PROVE  Returned(b)'
  BY EnvironmentKept DEF IInv, Returned

\* A step of w, of its child included, when it is right for w.
LEMMA OneWorker ==
    ASSUME IInv, NEW w \in Workers, UNCHANGED environment,
           \A x \in Workers \ {w} : /\ job'[x] = job[x] /\ pc'[x] = pc[x]
                                    /\ child'[x] = child[x] /\ parts'[x] = parts[x],
           \/ tree' = tree
           \/ job[w] # NoRun /\ \A t \in Trees : t # TreeOf(job[w]) => tree'[t] = tree[t],
           TypeOK', Alone', Local(w)',
           alone'[w] /\ job'[w] # NoRun => Working(w)',
           \A x \in Workers \ {w} : alone'[x] => alone[x],
           \A b \in results' : b \in results \/ Returned(b)'
    PROVE  IInv'
  <1>1. \A x \in Workers : Local(x)'
    BY Others DEF IInv
  <1>2. ASSUME NEW x \in Workers, alone'[x], job'[x] # NoRun
        PROVE  Working(x)'
    <2>1. CASE x = w
      BY <1>2, <2>1
    <2>2. CASE x # w
      <3>1. job[x] = job'[x] /\ alone[x] /\ Working(x)
        BY <1>2, <2>2 DEF IInv
      <3>2. job[w] # NoRun => TreeOf(job[x]) # TreeOf(job[w])
        BY <1>2, <2>2, <3>1 DEF IInv, Alone
      <3>3. TreeOf(job[x]) \in Trees
        BY <1>2, <3>1, LoadFacts DEF IInv, TypeOK
      <3>4. \A f \in Files : tree'[TreeOf(job[x])][f] = tree[TreeOf(job[x])][f]
        BY <3>2, <3>3
      <3>. QED  BY <2>2, <3>1, <3>4, Others
    <2>. QED  BY <2>1, <2>2
  <1>3. \A b \in results' : Returned(b)'
    BY ResultsKept
  <1>. QED  BY <1>1, <1>2, <1>3 DEF IInv

\* A step that changes nothing but the build of w, which it may end.
LEMMA QuietStep ==
    ASSUME IInv, NEW w \in Workers,
           UNCHANGED <<environment, queued, tree, orphans, results, alone>>,
           NEW j \in {job[w], NoRun}, job' = [job EXCEPT ![w] = j],
           NEW p \in {"idle", "ready"} \union Watching \union Collecting,
           pc' = [pc EXCEPT ![w] = p],
           NEW c \in Children, child' = [child EXCEPT ![w] = c],
           NEW q \in SUBSET load.runs, parts' = [parts EXCEPT ![w] = q],
           Local(w)', alone[w] /\ j # NoRun => Working(w)'
    PROVE  IInv'
  <1>1. TypeOK
    BY DEF IInv
  <1>2. TypeOK'
    <2>1. /\ load' \in Loads /\ input' \in [load.runs -> load.videos]
          /\ queued' \subseteq load.runs /\ tree' \in [Trees -> [Files -> Held]]
          /\ orphans' \subseteq [run : load.runs, child : Children] /\ alone' \in [Workers -> BOOLEAN]
      BY <1>1, EnvironmentKept DEF TypeOK
    <2>2. job' \in [Workers -> load.runs \union {NoRun}]
      BY <1>1 DEF TypeOK
    <2>3. pc' \in [Workers -> {"idle", "ready"} \union Watching \union Collecting]
      BY <1>1 DEF TypeOK
    <2>4. child' \in [Workers -> Children]
      BY <1>1 DEF TypeOK
    <2>5. parts' \in [Workers -> SUBSET load.runs]
      BY <1>1 DEF TypeOK
    <2>. QED  BY <2>1, <2>2, <2>3, <2>4, <2>5, EnvironmentKept DEF TypeOK
  <1>3. /\ job'[w] = j
        /\ \A x \in Workers \ {w} : /\ job'[x] = job[x] /\ pc'[x] = pc[x]
                                    /\ child'[x] = child[x] /\ parts'[x] = parts[x]
    BY <1>1 DEF TypeOK
  <1>4. Alone'
    BY <1>3, EnvironmentKept DEF IInv, Alone
  <1>. QED  BY <1>2, <1>3, <1>4, OneWorker

\* A worker that leaves.
LEMMA Leaving ==
    ASSUME TypeOK, NEW w \in Workers, Leave(w), UNCHANGED environment
    PROVE  /\ job' = [job EXCEPT ![w] = NoRun] /\ pc' = [pc EXCEPT ![w] = "idle"]
           /\ child' = [child EXCEPT ![w] = NoChild] /\ parts' = [parts EXCEPT ![w] = {}]
           /\ NoChild \in Children /\ Local(w)' /\ job'[w] = NoRun
  <1>1. /\ job' = [job EXCEPT ![w] = NoRun] /\ pc' = [pc EXCEPT ![w] = "idle"]
        /\ child' = [child EXCEPT ![w] = NoChild] /\ parts' = [parts EXCEPT ![w] = {}]
    BY DEF Leave
  <1>2. job'[w] = NoRun /\ pc'[w] = "idle" /\ child'[w] = NoChild /\ parts'[w] = {}
    BY <1>1 DEF TypeOK
  <1>3. NoChild \in Children /\ NoChild.state = "none" /\ NoChild.data = NoRun
    BY OutputsAre DEF NoChild, Children
  <1>4. Local(w)'
    BY <1>2, <1>3 DEF Local, Placed, Screened, Watching, Collecting
  <1>. QED  BY <1>1, <1>2, <1>3, <1>4

\* The types of what a leaving worker writes.
LEMMA LeftTypeOK ==
    ASSUME TypeOK, NEW w \in Workers, Leave(w), UNCHANGED environment
    PROVE  /\ load' \in Loads /\ input' \in [load'.runs -> load'.videos]
           /\ job' \in [Workers -> load.runs \union {NoRun}]
           /\ pc' \in [Workers -> {"idle", "ready"} \union Watching \union Collecting]
           /\ child' \in [Workers -> Children] /\ parts' \in [Workers -> SUBSET load.runs]
  BY Leaving, EnvironmentKept DEF TypeOK

\* A build that ends and leaves its tree.
LEMMA LeaveOthers ==
    ASSUME IInv, NEW w \in Workers, Leave(w),
           UNCHANGED <<environment, queued, tree, orphans, alone>>,
           \A b \in results' : b \in results \/ Returned(b)'
    PROVE  IInv'
  <1>1. TypeOK
    BY DEF IInv
  <1>2. /\ job' = [job EXCEPT ![w] = NoRun] /\ pc' = [pc EXCEPT ![w] = "idle"]
        /\ child' = [child EXCEPT ![w] = NoChild] /\ parts' = [parts EXCEPT ![w] = {}]
        /\ NoChild \in Children /\ Local(w)' /\ job'[w] = NoRun
    BY <1>1, Leaving
  <1>3. TypeOK'
    BY <1>1, <1>2, LeftTypeOK, EnvironmentKept DEF TypeOK
  <1>5. \A x \in Workers \ {w} : /\ job'[x] = job[x] /\ pc'[x] = pc[x]
                                 /\ child'[x] = child[x] /\ parts'[x] = parts[x]
    BY <1>1, <1>2 DEF TypeOK
  <1>6. Alone'
    BY <1>2, <1>5, EnvironmentKept DEF IInv, Alone
  <1>. QED  BY <1>2, <1>3, <1>5, <1>6, OneWorker

\* A build that ends without a result.
LEMMA LeaveStep ==
    ASSUME IInv, NEW w \in Workers, Leave(w),
           UNCHANGED <<environment, queued, tree, orphans, results, alone>>
    PROVE  IInv'
  BY LeaveOthers

\* A value may be written over itself.
LEMMA Same ==
    ASSUME TypeOK, NEW w \in Workers
    PROVE  /\ job = [job EXCEPT ![w] = job[w]] /\ pc = [pc EXCEPT ![w] = pc[w]]
           /\ child = [child EXCEPT ![w] = child[w]] /\ parts = [parts EXCEPT ![w] = parts[w]]
           /\ job[w] \in load.runs \union {NoRun} /\ child[w] \in Children
           /\ parts[w] \in SUBSET load.runs
  BY DEF TypeOK

\* A worker that starts a child.
LEMMA StartStep ==
    ASSUME IInv, NEW w \in Workers, NEW stage \in Stages, StartChild(w, stage),
           UNCHANGED <<environment, queued, tree, orphans, results, alone>>,
           job[w] # NoRun, stage # Detection => Detectable(input[job[w]]),
           alone[w] => /\ Owns(w, Made(stage, 0))
                       /\ stage \in {Stats, Fatigue} => ~Empty(job[w])
    PROVE  IInv'
  <1> DEFINE c == NewChild(stage)
  <1>1. TypeOK /\ Local(w)
    BY DEF IInv
  <1>2. /\ c \in Children /\ c.state = "running" /\ c.data = NoRun /\ c.step = 0
        /\ c.stage = stage
    BY OutputsAre DEF NewChild, NoChild, Children
  <1> HIDE DEF c
  <1>3. /\ job' = job /\ parts' = parts /\ pc' = [pc EXCEPT ![w] = "poll"]
        /\ child' = [child EXCEPT ![w] = c]
    BY DEF StartChild, GoTo, c
  <1>4. /\ job'[w] = job[w] /\ parts'[w] = parts[w] /\ pc'[w] = "poll" /\ child'[w] = c
    BY <1>1, <1>3 DEF TypeOK
  <1>5. Local(w)'
    <2>1. Placed(w)'
      BY <1>1, <1>2, <1>4, EnvironmentKept DEF Local, Placed, Watching
    <2>2. Screened(w)'
      BY <1>2, <1>4, EnvironmentKept DEF Screened, Collecting
    <2>. QED  BY <2>1, <2>2 DEF Local
  <1>6. ASSUME alone[w]
        PROVE  Working(w)'
    <2>1. Owns(w, Made(stage, 0))'
      <3>1. Made(stage, 0)' = Made(stage, 0)
        BY DEF Made
      <3>. QED  BY <1>4, <1>6, <3>1, EnvironmentKept DEF Owns
    <2>2. stage \in {Stats, Fatigue} => ~Empty(job[w])'
      BY <1>4, <1>6, EnvironmentKept
    <2>3. ~Empty(job[w])' => ~Empty(job[w])
      BY <1>4, EnvironmentKept
    <2>. QED  BY <1>2, <1>4, <1>6, <2>1, <2>2, EnvironmentKept DEF Working, Collecting
  <1>7. "poll" \in {"idle", "ready"} \union Watching \union Collecting
    BY DEF Watching
  <1>. QED  BY <1>1, <1>2, <1>3, <1>5, <1>6, <1>7, Same, QuietStep

\* A worker that goes on to another point, its child and data unchanged.
LEMMA GoStep ==
    ASSUME IInv, NEW w \in Workers, NEW p \in Watching, pc[w] \in Watching, GoTo(w, p),
           UNCHANGED <<environment, queued, tree, orphans, results, alone>>,
           UNCHANGED <<job, child, parts>>
    PROVE  IInv'
  <1>1. TypeOK /\ Local(w)
    BY DEF IInv
  <1>2. pc' = [pc EXCEPT ![w] = p] /\ pc'[w] = p
    BY <1>1 DEF GoTo, TypeOK
  <1>3. Local(w)'
    <2>1. Placed(w)'
      BY <1>1, <1>2, EnvironmentKept DEF Local, Placed, Watching
    <2>2. Screened(w)'
      BY <1>1, <1>2, EnvironmentKept DEF Local, Screened, Watching, Collecting
    <2>. QED  BY <2>1, <2>2 DEF Local
  <1>4. ASSUME alone[w], job[w] # NoRun
        PROVE  Working(w)'
    <2>1. Working(w)
      BY <1>4 DEF IInv
    <2>2. ASSUME NEW files, Owns(w, files)
          PROVE  Owns(w, files)'
      BY <2>2, EnvironmentKept DEF Owns
    <2>3. p \notin Collecting /\ p # "collect" /\ p # "bytes"
      BY DEF Watching, Collecting
    <2>. QED  BY <1>2, <2>1, <2>2, <2>3, EnvironmentKept, Zenon DEF Working
  <1>. QED  BY <1>1, <1>2, <1>3, <1>4, Same, QuietStep

\* A build starts its detection.
LEMMA PrepareStep ==
    ASSUME IInv, NEW w \in Workers, Prepare(w)
    PROVE  IInv'
  <1>1. /\ StartChild(w, Detection) /\ pc[w] = "ready"
        /\ UNCHANGED <<environment, queued, tree, orphans, results, alone>>
    BY DEF Prepare, eventVars
  <1>2. job[w] # NoRun
    BY <1>1 DEF IInv, Local, Placed
  <1>3. Detection \in Stages /\ Detection \notin {Stats, Fatigue} /\ Made(Detection, 0) = {}
    BY MadeBefore, OutputsAre
  <1>4. Owns(w, Made(Detection, 0))
    BY <1>3 DEF Owns
  <1>. QED  BY <1>1, <1>2, <1>3, <1>4, StartStep

\* A poll: the child runs, is followed by the next, was the last, or has failed.
LEMMA PollStep ==
    ASSUME IInv, NEW w \in Workers, Poll(w)
    PROVE  IInv'
  <1> DEFINE c == child[w]
  <1>1. /\ pc[w] = "poll" /\ pc[w] \in Watching
        /\ UNCHANGED <<environment, queued, tree, orphans, results, alone>>
    BY DEF Poll, eventVars, Watching
  <1>2. TypeOK /\ Local(w) /\ c \in Children /\ c.stage \in Stages
    BY DEF IInv, TypeOK, Children
  <1>3. job[w] # NoRun
    BY <1>1, <1>2 DEF Local, Placed
  <1>4. c.state = "exited" => c.data # NoRun /\ Detectable(input[job[w]])
    BY <1>2 DEF Local, Screened
  <1>5. ASSUME alone[w], c.state = "exited"
        PROVE  /\ Owns(w, Made(c.stage, Steps(c.stage)))
               /\ c.stage \in {Stats, Fatigue} => ~Empty(job[w])
    BY <1>3, <1>5 DEF IInv, Working
  <1>6. CASE c.state = "running" /\ GoTo(w, "check") /\ UNCHANGED <<job, child, parts>>
    BY <1>1, <1>6, GoStep DEF Watching
  <1>7. CASE /\ c.state = "exited" /\ c.stage \in {Detection, Stats}
             /\ StartChild(w, c.stage + 1)
    <2>1. /\ c.stage + 1 \in Stages /\ c.stage \in {1, 2, 3}
          /\ c.stage + 1 \in {Stats, Fatigue} => c.stage \in {Stats, Fatigue}
      BY <1>7, OutputsAre
    <2>2. alone[w] => Owns(w, Made(c.stage + 1, 0))
      BY <1>2, <1>5, <1>7, <2>1, MadeAfter DEF Owns
    <2>. QED  BY <1>1, <1>3, <1>4, <1>5, <1>7, <2>1, <2>2, StartStep
  <1>8. CASE /\ c.state = "exited" /\ c.stage \in {Tracking, Fatigue}
             /\ GoTo(w, IF c.stage = Tracking THEN "summary" ELSE "collect")
             /\ child' = [child EXCEPT ![w] = NoChild]
             /\ UNCHANGED <<job, parts>>
    <2> DEFINE p == IF c.stage = Tracking THEN "summary" ELSE "collect"
    <2>1. p \in Collecting /\ p # "bytes" /\ p # "idle" /\ p \notin Watching
      BY DEF Collecting, Watching
    <2>2. /\ pc' = [pc EXCEPT ![w] = p] /\ pc'[w] = p
          /\ child'[w] = NoChild
      BY <1>2, <1>8 DEF GoTo, TypeOK
    <2>3. NoChild \in Children /\ NoChild.state = "none" /\ NoChild.data = NoRun
      BY OutputsAre DEF NoChild, Children
    <2>4. Local(w)'
      <3>1. Placed(w)'
        BY <1>1, <1>2, <1>8, <2>1, <2>2, <2>3, EnvironmentKept DEF Local, Placed
      <3>2. Screened(w)'
        BY <1>1, <1>4, <1>8, <2>2, <2>3, EnvironmentKept DEF Screened
      <3>. QED  BY <3>1, <3>2 DEF Local
    <2>5. ASSUME alone[w]
          PROVE  Working(w)'
      <3>1. Owns(w, Made(Stats, 0))
        <4>1. CASE c.stage = Tracking
          <5>1. Made(Stats, 0) \subseteq Made(c.stage, Steps(c.stage))
            BY <1>2, <4>1, MadeAfter, OutputsAre
          <5>. QED  BY <1>5, <1>8, <2>5, <5>1 DEF Owns
        <4>2. CASE c.stage = Fatigue
          <5>1. Made(Stats, 0) \subseteq Files /\ Files \subseteq Made(c.stage, Steps(c.stage))
            BY <1>2, <4>2, MadeAfter, OutputsAre DEF Made
          <5>. QED  BY <1>5, <1>8, <2>5, <5>1 DEF Owns
        <4>. QED  BY <1>8, <4>1, <4>2
      <3>2. p = "collect" => Owns(w, Files)
        <4>1. p = "collect" => c.stage = Fatigue
          BY <1>8
        <4>2. c.stage = Fatigue => Files \subseteq Made(c.stage, Steps(c.stage))
          BY <1>2, MadeAfter, OutputsAre
        <4>. QED  BY <1>5, <1>8, <2>5, <4>1, <4>2 DEF Owns
      <3>3. ASSUME NEW files, Owns(w, files)
            PROVE  Owns(w, files)'
        BY <1>1, <1>8, <3>3, EnvironmentKept DEF Owns
      <3> HIDE DEF p
      <3>. QED  BY <1>1, <2>1, <2>2, <2>3, <3>1, <3>2, <3>3, EnvironmentKept, Zenon DEF Working
    <2> HIDE DEF p
    <2>. QED  BY <1>1, <1>2, <1>8, <2>1, <2>2, <2>3, <2>4, <2>5, Same, QuietStep
  <1>9. CASE c.state = "failed" /\ Leave(w)
    BY <1>1, <1>9, LeaveStep
  <1>. QED  BY <1>6, <1>7, <1>8, <1>9 DEF Poll

\* Tracking's summary is the run's own, so that it tells the truth about the run.
LEMMA ReadSummaryStep ==
    ASSUME IInv, NEW w \in Workers, ReadSummary(w)
    PROVE  IInv'
  <1>1. /\ pc[w] = "summary" /\ pc[w] \in Collecting /\ pc[w] \notin Watching
        /\ UNCHANGED <<environment, queued, tree, orphans, results, alone>>
    BY DEF ReadSummary, eventVars, Watching, Collecting
  <1>2. TypeOK /\ Local(w)
    BY DEF IInv
  <1>3. job[w] # NoRun /\ Detectable(input[job[w]])
    BY <1>1, <1>2 DEF Local, Placed, Screened
  <1>4. alone[w] => Owns(w, Made(Stats, 0)) /\ SummaryOf(w) = job[w]
    <2>1. alone[w] => Owns(w, Made(Stats, 0))
      BY <1>1, <1>3 DEF IInv, Working
    <2>. QED  BY <2>1, MadeBefore, OutputsAre DEF Owns, SummaryOf
  <1>5. CASE ~Empty(SummaryOf(w)) /\ StartChild(w, Stats)
    BY <1>1, <1>3, <1>4, <1>5, OutputsAre, StartStep
  <1>6. CASE /\ Empty(SummaryOf(w)) /\ GoTo(w, "collect") /\ UNCHANGED <<job, child, parts>>
    <2>1. pc' = [pc EXCEPT ![w] = "collect"] /\ pc'[w] = "collect"
      BY <1>2, <1>6 DEF GoTo, TypeOK
    <2>2. "collect" \in Collecting /\ "collect" \notin Watching
      BY DEF Collecting, Watching
    <2>3. Local(w)'
      <3>1. Placed(w)'
        BY <1>1, <1>2, <1>6, <2>1, <2>2, EnvironmentKept DEF Local, Placed
      <3>2. Screened(w)'
        BY <1>1, <1>2, <1>3, <1>6, <2>1, <2>2, EnvironmentKept DEF Local, Screened
      <3>. QED  BY <3>1, <3>2 DEF Local
    <2>4. ASSUME alone[w]
          PROVE  Working(w)'
      <3>1. child[w].state = "none" /\ Empty(job[w])
        BY <1>1, <1>2, <1>4, <1>6, <2>4 DEF Local, Placed
      <3>2. Owns(w, Made(Stats, 0))'
        BY <1>1, <1>4, <1>6, <2>4, EnvironmentKept DEF Owns, Made
      <3>. QED  BY <1>1, <1>6, <2>1, <3>1, <3>2, EnvironmentKept DEF Working
    <2>. QED  BY <1>1, <1>2, <1>6, <2>1, <2>2, <2>3, <2>4, Same, QuietStep
  <1>7. CASE Leave(w)
    BY <1>1, <1>7, LeaveStep
  <1>. QED  BY <1>5, <1>6, <1>7 DEF ReadSummary

\* What is collected is the run's own.
LEMMA CollectedIsOwn ==
    ASSUME IInv, NEW w \in Workers, pc[w] = "collect",
           \A f \in Collected(w) : Readable(TreeOf(job[w]), f)
    PROVE  LET found == {tree[TreeOf(job[w])][f] : f \in Collected(w)} IN
           /\ found \in SUBSET load.runs
           /\ alone[w] => found = {job[w]}
  <1> DEFINE t == TreeOf(job[w])
             found == {tree[t][f] : f \in Collected(w)}
  <1>1. TypeOK /\ Local(w)
    BY DEF IInv
  <1>2. job[w] # NoRun /\ job[w] \in load.runs /\ t \in Trees
    BY <1>1, LoadFacts DEF Local, Placed, TypeOK
  <1>3. Collected(w) \subseteq Files /\ "detectionSummary" \in Collected(w)
    BY FilesAre DEF Collected
  <1>4. \A f \in Collected(w) : tree[t][f] \in Runs /\ tree[t][f] \in Held
    BY <1>1, <1>2, <1>3 DEF Readable, TypeOK
  <1>5. \A f \in Collected(w) : tree[t][f] \in load.runs
    BY <1>1, <1>4, LoadFacts DEF Held
  <1>7. ASSUME alone[w]
        PROVE  \A f \in Collected(w) : tree[t][f] = job[w]
    <2>1. Working(w)
      BY <1>2, <1>7 DEF IInv
    <2>2. Owns(w, Made(Stats, 0)) /\ (~Empty(job[w]) => Owns(w, Files))
      BY <2>1 DEF Working, Collecting
    <2>3. CASE Empty(job[w])
      <3>1. SummaryOf(w) = job[w]
        BY <2>2, MadeBefore, OutputsAre DEF Owns, SummaryOf
      <3>2. SummaryOf(w) \in Runs /\ Empty(SummaryOf(w))
        BY <1>1, <1>2, <2>3, <3>1, LoadFacts
      <3>3. Collected(w) = {"detectionSummary", "trackingSummary", "fragmentation"}
        BY <3>2 DEF Collected
      <3>. QED  BY <2>2, <3>3, MadeBefore, OutputsAre DEF Owns
    <2>4. CASE ~Empty(job[w])
      BY <1>3, <2>2, <2>4 DEF Owns
    <2>. QED  BY <2>3, <2>4
  <1> HIDE DEF t
  <1>8. found \in SUBSET load.runs
    BY <1>5
  <1>. QED  BY <1>3, <1>7, <1>8 DEF t

\* The JSON files are collected, or the build fails.
LEMMA CollectStep ==
    ASSUME IInv, NEW w \in Workers, Collect(w)
    PROVE  IInv'
  <1>1. /\ pc[w] = "collect" /\ pc[w] \in Collecting /\ pc[w] \notin Watching
        /\ UNCHANGED <<environment, queued, tree, orphans, results, alone>>
    BY DEF Collect, eventVars, Watching, Collecting
  <1>2. TypeOK /\ Local(w)
    BY DEF IInv
  <1> DEFINE found == {tree[TreeOf(job[w])][f] : f \in Collected(w)}
  <1>3. CASE \A f \in Collected(w) : Readable(TreeOf(job[w]), f)
    <2>1. /\ pc' = [pc EXCEPT ![w] = "bytes"] /\ parts' = [parts EXCEPT ![w] = found]
          /\ job' = job /\ child' = child
      BY <1>3 DEF Collect, GoTo
    <2>2. /\ found \in SUBSET load.runs
          /\ alone[w] => found = {job[w]}
      BY <1>1, <1>3, CollectedIsOwn
    <2> HIDE DEF found
    <2>3. pc'[w] = "bytes" /\ parts'[w] = found
      BY <1>2, <2>1 DEF TypeOK
    <2>4. "bytes" \in Collecting /\ "bytes" \notin Watching
      BY DEF Collecting, Watching
    <2>5. Local(w)'
      <3>1. Placed(w)'
        BY <1>1, <1>2, <2>1, <2>3, <2>4, EnvironmentKept DEF Local, Placed
      <3>2. Screened(w)'
        BY <1>1, <1>2, <2>1, <2>3, <2>4, EnvironmentKept DEF Local, Screened
      <3>. QED  BY <3>1, <3>2 DEF Local
    <2>6. ASSUME alone[w], job[w] # NoRun
          PROVE  Working(w)'
      <3>1. child[w].state = "none"
        BY <1>1, <1>2 DEF Local, Placed
      <3>2. Owns(w, Made(Stats, 0))
        BY <1>1, <2>6 DEF IInv, Working
      <3>3. Owns(w, Made(Stats, 0))'
        BY <1>1, <2>1, <3>2, EnvironmentKept DEF Owns, Made
      <3>. QED  BY <2>1, <2>2, <2>3, <2>6, <3>1, <3>3 DEF Working
    <2>. QED  BY <1>1, <1>2, <2>1, <2>2, <2>4, <2>5, <2>6, Same, QuietStep
  <1>4. CASE ~ \A f \in Collected(w) : Readable(TreeOf(job[w]), f)
    <2>1. Leave(w)
      BY <1>4 DEF Collect
    <2>. QED  BY <1>1, <2>1, LeaveStep
  <1>. QED  BY <1>3, <1>4

\* A build returns.
LEMMA ReadBytesStep ==
    ASSUME IInv, NEW w \in Workers, ReadBytes(w)
    PROVE  IInv'
  <1> DEFINE t == TreeOf(job[w])
             bytes == {tree[t][f] : f \in {"detections", "tracklets"}}
             b == [run |-> job[w], alone |-> alone[w], parts |-> parts[w] \union bytes]
  <1>1. /\ pc[w] = "bytes" /\ pc[w] \in Collecting
        /\ UNCHANGED <<environment, queued, tree, orphans, alone>>
        /\ Leave(w)
        /\ results' = results \union {x \in {b} : "none" \notin bytes}
    BY DEF ReadBytes, eventVars, Collecting
  <1>2. TypeOK /\ Local(w)
    BY DEF IInv
  <1>3. job[w] # NoRun /\ job[w] \in load.runs /\ t \in Trees /\ Detectable(input[job[w]])
    BY <1>1, <1>2, LoadFacts DEF Local, Placed, Screened, TypeOK
  <1>4. /\ {"detections", "tracklets"} \subseteq Files
        /\ {"detections", "tracklets"} \subseteq Made(Stats, 0)
    BY FilesAre, MadeBefore, OutputsAre
  <1>6. alone[w] => bytes = {job[w]} /\ parts[w] = {job[w]}
    <2>1. alone[w] => Owns(w, Made(Stats, 0)) /\ parts[w] = {job[w]}
      BY <1>1, <1>3 DEF IInv, Working
    <2>2. alone[w] => \A f \in {"detections", "tracklets"} : tree[t][f] = job[w]
      BY <1>4, <2>1 DEF Owns
    <2>. QED  BY <2>1, <2>2
  <1> HIDE DEF t, bytes
  <1>7. ASSUME NEW x \in results', x \notin results
        PROVE  Returned(x)'
    <2>1. x.run = job[w] /\ x.alone = alone[w] /\ x.parts = parts[w] \union bytes
      BY <1>1, <1>7
    <2>2. x.alone => x.parts = {x.run}
      BY <1>6, <2>1
    <2>. QED  BY <1>1, <1>3, <2>1, <2>2, EnvironmentKept DEF Returned
  <1>. QED  BY <1>1, <1>7, LeaveOthers

\* Between two polls.
LEMMA CheckStep ==
    ASSUME IInv, NEW w \in Workers, Check(w) \/ TimeOut(w)
    PROVE  IInv'
  <1>1. /\ pc[w] = "check" /\ pc[w] \in Watching
        /\ UNCHANGED <<environment, queued, tree, orphans, results, alone>>
        /\ UNCHANGED <<job, child, parts>>
    BY DEF Check, TimeOut, eventVars, Watching
  <1>2. PICK p \in Watching : GoTo(w, p)
    BY DEF Check, TimeOut, Watching
  <1>. QED  BY <1>1, <1>2, GoStep

\* A build that is refused, or stopped.
LEMMA EndStep ==
    ASSUME IInv, NEW w \in Workers, Refuse(w) \/ Terminate(w)
    PROVE  IInv'
  <1>1. Leave(w) /\ UNCHANGED <<environment, queued, tree, orphans, results, alone>>
    BY DEF Refuse, Terminate, eventVars
  <1>. QED  BY <1>1, LeaveStep

\* What is left behind is a child of the run.
LEMMA LeftOrphans ==
    ASSUME IInv, NEW w \in Workers, job[w] # NoRun
    PROVE  /\ LeftBy(w) \subseteq [run : load.runs, child : Children]
           /\ \A o \in LeftBy(w) : o.run = job[w]
  <1>1. job[w] \in load.runs /\ child[w] \in Children
    BY DEF IInv, TypeOK
  <1>. QED  BY <1>1 DEF LeftBy

\* A worker that stops waiting for its child, or dies.
LEMMA AbandonStep ==
    ASSUME IInv, NEW w \in Workers, QueryRaises(w) \/ Crash(w)
    PROVE  IInv'
  <1>1. TypeOK /\ Local(w) /\ Alone
    BY DEF IInv
  <1>2. /\ pc[w] # "idle" /\ Leave(w)
        /\ UNCHANGED <<environment, results, alone>>
    BY DEF QueryRaises, Crash
  <1>3. job[w] # NoRun /\ job[w] \in load.runs /\ TreeOf(job[w]) \in Trees
    BY <1>1, <1>2, LoadFacts DEF Local, Placed, TypeOK
  <1>4. /\ job' = [job EXCEPT ![w] = NoRun] /\ Local(w)' /\ job'[w] = NoRun
        /\ \A x \in Workers \ {w} : /\ job'[x] = job[x] /\ pc'[x] = pc[x]
                                    /\ child'[x] = child[x] /\ parts'[x] = parts[x]
    <2>1. /\ job' = [job EXCEPT ![w] = NoRun] /\ pc' = [pc EXCEPT ![w] = "idle"]
          /\ child' = [child EXCEPT ![w] = NoChild] /\ parts' = [parts EXCEPT ![w] = {}]
          /\ Local(w)' /\ job'[w] = NoRun
      BY <1>1, <1>2, Leaving
    <2>. QED  BY <1>1, <2>1 DEF TypeOK
  <1>5. queued' \in {queued, queued \union {job[w]}}
    BY DEF QueryRaises, Crash
  <1>6. orphans' = {} \/ orphans' = orphans \union LeftBy(w)
    BY DEF QueryRaises, Crash
  <1>7. \/ tree' = tree
        \/ load.store = "cloud" /\ tree' = [tree EXCEPT !["host"] = EmptyTree]
    BY DEF QueryRaises, Crash
  <1>8. /\ orphans' \subseteq [run : load.runs, child : Children]
        /\ \A o \in orphans' : o \in orphans \/ o.run = job[w]
    BY <1>1, <1>3, <1>6, LeftOrphans DEF TypeOK
  <1>9. /\ tree' \in [Trees -> [Files -> Held]]
        /\ \A t \in Trees : t # TreeOf(job[w]) => tree'[t] = tree[t]
    <2>1. EmptyTree \in [Files -> Held]
      BY DEF EmptyTree, Held
    <2>2. load.store = "cloud" => TreeOf(job[w]) = "host"
      BY DEF TreeOf
    <2>. QED  BY <1>1, <1>7, <2>1, <2>2 DEF TypeOK
  <1>10. TypeOK'
    <2>1. /\ load' \in Loads /\ input' \in [load'.runs -> load'.videos]
          /\ job' \in [Workers -> load.runs \union {NoRun}]
          /\ pc' \in [Workers -> {"idle", "ready"} \union Watching \union Collecting]
          /\ child' \in [Workers -> Children] /\ parts' \in [Workers -> SUBSET load.runs]
      BY <1>1, <1>2, LeftTypeOK
    <2>2. queued' \subseteq load.runs
      BY <1>1, <1>3, <1>5 DEF TypeOK
    <2>. QED  BY <1>1, <1>2, <1>8, <1>9, <2>1, <2>2, EnvironmentKept DEF TypeOK
  <1>11. Alone'
    <2>1. ASSUME NEW x \in Workers, alone'[x], job'[x] # NoRun
          PROVE  /\ x # w /\ job'[x] = job[x] /\ alone[x]
                 /\ \A o \in orphans' : TreeOf(o.run) # TreeOf(job[x])
                 /\ \A y \in Workers \ {x} : job'[y] # NoRun => TreeOf(job'[y]) # TreeOf(job[x])
      <3>1. x # w /\ job'[x] = job[x] /\ alone[x]
        BY <1>2, <1>4, <2>1
      <3>2. TreeOf(job[w]) # TreeOf(job[x])
        BY <1>1, <1>3, <2>1, <3>1 DEF Alone
      <3>3. \A o \in orphans' : TreeOf(o.run) # TreeOf(job[x])
        BY <1>1, <1>8, <2>1, <3>1, <3>2 DEF Alone
      <3>. QED  BY <1>1, <1>4, <2>1, <3>1, <3>3 DEF Alone
    <2>. QED  BY <1>2, <2>1, EnvironmentKept DEF Alone
  <1>. QED  BY <1>2, <1>3, <1>4, <1>9, <1>10, <1>11, OneWorker

\* A worker that takes a run.
LEMMA ClaimStep ==
    ASSUME IInv, NEW w \in Workers, NEW r \in queued, Claim(w, r)
    PROVE  IInv'
  <1>1. TypeOK /\ Local(w) /\ Alone /\ r \in load.runs
    BY DEF IInv, TypeOK
  <1>2. /\ pc[w] = "idle" /\ w \in load.workers
        /\ queued' = queued \ {r}
        /\ job' = [job EXCEPT ![w] = r] /\ pc' = [pc EXCEPT ![w] = "ready"]
        /\ child' = child /\ parts' = parts
        /\ UNCHANGED <<environment, tree, orphans, results>>
    BY DEF Claim, GoTo
  <1>3. /\ job'[w] = r /\ pc'[w] = "ready" /\ job[w] = NoRun /\ r # NoRun
        /\ \A x \in Workers \ {w} : /\ job'[x] = job[x] /\ pc'[x] = pc[x]
                                    /\ child'[x] = child[x] /\ parts'[x] = parts[x]
    BY <1>1, <1>2, LoadFacts DEF TypeOK, Local, Placed
  <1>10. /\ alone' \in [Workers -> BOOLEAN]
         /\ alone'[w] = ~Occupied(w, r)
         /\ \A x \in Workers \ {w} : alone'[x] =>
               alone[x] /\ (job[x] # NoRun => TreeOf(job[x]) # TreeOf(r))
    <2>1. alone' = [x \in Workers |->
                      IF x = w THEN ~Occupied(w, r)
                      ELSE alone[x] /\ ~(job[x] # NoRun /\ TreeOf(job[x]) = TreeOf(r))]
      BY DEF Claim
    <2>2. Occupied(w, r) \in BOOLEAN
      BY DEF Occupied
    <2>3. \A x \in Workers : alone[x] \in BOOLEAN
      BY <1>1 DEF TypeOK
    <2>. QED  BY <2>1, <2>2, <2>3, Zenon
  <1>4. child[w].state = "none" /\ "ready" \notin Watching \union Collecting
    BY <1>1, <1>2 DEF Local, Placed, Watching, Collecting
  <1>5. TypeOK'
    <2>1. job' \in [Workers -> load.runs \union {NoRun}]
      BY <1>1, <1>2 DEF TypeOK
    <2>2. pc' \in [Workers -> {"idle", "ready"} \union Watching \union Collecting]
      BY <1>1, <1>2 DEF TypeOK
    <2>. QED  BY <1>1, <1>2, <1>10, <2>1, <2>2, EnvironmentKept DEF TypeOK
  <1>7. Local(w)'
    <2>1. child'[w] = child[w] /\ child[w].state = "none"
      BY <1>2, <1>4
    <2>2. Placed(w)'
      BY <1>2, <1>3, <1>4, <2>1, EnvironmentKept DEF Placed
    <2>3. Screened(w)'
      BY <1>3, <1>4, <2>1, EnvironmentKept DEF Screened
    <2>. QED  BY <2>2, <2>3 DEF Local
  <1>8. Working(w)'
    BY <1>2, <1>3, <1>4 DEF Working, Watching, Collecting
  <1>9. Alone'
    <2>1. ASSUME NEW x \in Workers \ {w}, alone'[x], job'[x] # NoRun
          PROVE  /\ job'[x] = job[x]
                 /\ \A o \in orphans : TreeOf(o.run) # TreeOf(job[x])
                 /\ \A y \in Workers \ {x} : job'[y] # NoRun => TreeOf(job'[y]) # TreeOf(job[x])
      BY <1>1, <1>3, <1>10, <2>1 DEF Alone
    <2>2. ASSUME alone'[w]
          PROVE  /\ \A o \in orphans : TreeOf(o.run) # TreeOf(r)
                 /\ \A y \in Workers \ {w} : job'[y] # NoRun => TreeOf(job'[y]) # TreeOf(r)
      BY <1>3, <1>10, <2>2 DEF Occupied
    <2>. QED  BY <1>2, <1>3, <2>1, <2>2, EnvironmentKept DEF Alone
  <1>. QED  BY <1>2, <1>3, <1>5, <1>7, <1>8, <1>9, <1>10, OneWorker

(***************************************************************************)
(* Steps of the children, and of the environment                           *)
(***************************************************************************)

\* A child that its worker waits for.
LEMMA ChildStepStep ==
    ASSUME IInv, NEW w \in Workers, ChildStep(w)
    PROVE  IInv'
  <1> DEFINE c == child[w]
             r == job[w]
  <1>1. PICK next : ChildMoves(c, r, next) /\ child' = [child EXCEPT ![w] = next]
    BY Zenon DEF ChildStep
  <1>2. UNCHANGED <<environment, queued, job, pc, parts, orphans, results, alone>>
    BY DEF ChildStep, eventVars
  <1>3. TypeOK /\ Local(w) /\ Alone /\ c \in Children
    BY DEF IInv, TypeOK
  <1>4. c.state = "running"
    BY <1>1 DEF ChildMoves
  <1>5. r # NoRun /\ r \in load.runs /\ pc[w] \in Watching /\ pc[w] \notin Collecting
    BY <1>3, <1>4 DEF Local, Placed, TypeOK, Watching, Collecting
  <1>6. /\ next \in Children /\ next.state # "none" /\ next.stage = c.stage
        /\ next.state = "exited" => next.data # NoRun
        /\ c.stage = Detection /\ c.data = NoRun /\ next.data # NoRun => Detectable(input[r])
        /\ tree' \in [Trees -> [Files -> Held]]
        /\ \A t \in Trees : t # TreeOf(r) => tree'[t] = tree[t]
    BY <1>1, <1>3, <1>5, Moves
  <1>7. child'[w] = next /\ \A x \in Workers \ {w} : child'[x] = child[x]
    BY <1>1, <1>3 DEF TypeOK
  <1>8. TypeOK'
    <2>1. child' \in [Workers -> Children]
      BY <1>1, <1>3, <1>6 DEF TypeOK
    <2>. QED  BY <1>2, <1>3, <1>6, <2>1, EnvironmentKept DEF TypeOK
  <1>10. Alone'
    BY <1>2, <1>3, EnvironmentKept DEF Alone
  <1>11. Local(w)'
    <2>1. Placed(w)'
      BY <1>2, <1>3, <1>5, <1>6, <1>7, EnvironmentKept DEF Local, Placed
    <2>2. c.stage # Detection \/ c.data # NoRun => Detectable(input[r])
      BY <1>3, <1>4 DEF Local, Screened
    <2>3. Screened(w)'
      BY <1>2, <1>5, <1>6, <1>7, <2>2, EnvironmentKept DEF Screened
    <2>. QED  BY <2>1, <2>3 DEF Local
  <1>12. alone[w] => Working(w)'
    BY <1>1, <1>2, <1>5, MovesAlone
  <1>. QED  BY <1>2, <1>5, <1>6, <1>7, <1>8, <1>10, <1>11, <1>12, OneWorker

\* A child that no worker waits for.
LEMMA OrphanStepStep ==
    ASSUME IInv, NEW o \in orphans, OrphanStep(o)
    PROVE  IInv'
  <1>1. PICK next : /\ ChildMoves(o.child, o.run, next)
                    /\ orphans' = (orphans \ {o}) \union
                           {p \in {[o EXCEPT !.child = next]} : next.state = "running"}
    BY Zenon DEF OrphanStep
  <1>2. UNCHANGED <<environment, queued, job, pc, child, parts, results, alone>>
    BY DEF OrphanStep, buildVars, eventVars
  <1>3. TypeOK /\ Alone
    BY DEF IInv
  <1>4. /\ o.run \in load.runs /\ o.child \in Children
        /\ o = [run |-> o.run, child |-> o.child]
    BY <1>3 DEF TypeOK
  <1>5. /\ next \in Children
        /\ tree' \in [Trees -> [Files -> Held]]
        /\ \A t \in Trees : t # TreeOf(o.run) => tree'[t] = tree[t]
    BY <1>1, <1>3, <1>4, Moves
  <1>6. \A p \in orphans' : p \in orphans \/ p = [run |-> o.run, child |-> next]
    BY <1>1, <1>4
  <1>7. orphans' \subseteq [run : load.runs, child : Children]
    BY <1>3, <1>4, <1>5, <1>6 DEF TypeOK
  <1>8. TypeOK'
    BY <1>2, <1>3, <1>5, <1>7, EnvironmentKept DEF TypeOK
  <1>9. \A x \in Workers : Local(x)'
    BY <1>2, Others DEF IInv
  <1>10. \A b \in results' : Returned(b)'
    BY <1>2, ResultsKept
  <1>11. Alone'
    <2>1. \A p \in orphans' : \E q \in orphans : p.run = q.run
      BY <1>4, <1>6
    <2>. QED  BY <1>2, <1>3, <2>1, EnvironmentKept DEF Alone
  <1>12. ASSUME NEW x \in Workers, alone[x], job[x] # NoRun
         PROVE  Working(x)'
    <2>1. Working(x) /\ TreeOf(o.run) # TreeOf(job[x])
      BY <1>3, <1>12 DEF IInv, Alone
    <2>2. TreeOf(job[x]) \in Trees
      BY <1>3, <1>12, LoadFacts DEF TypeOK
    <2>3. tree'[TreeOf(job[x])] = tree[TreeOf(job[x])]
      BY <1>5, <2>1, <2>2
    <2>. QED  BY <1>2, <2>1, <2>3, Others
  <1>. QED  BY <1>2, <1>8, <1>9, <1>10, <1>11, <1>12 DEF IInv

\* A cancellation requested, a claim requeued, or nothing at all.
LEMMA OtherStep ==
    ASSUME IInv,
           UNCHANGED <<environment, buildVars, tree, orphans, results, alone>>,
           queued' \subseteq load.runs
    PROVE  IInv'
  <1>1. TypeOK /\ Alone
    BY DEF IInv
  <1>2. UNCHANGED <<job, pc, child, parts>>
    BY DEF buildVars
  <1>3. TypeOK'
    BY <1>1, <1>2, EnvironmentKept DEF TypeOK
  <1>5. Alone'
    BY <1>1, <1>2, EnvironmentKept DEF Alone
  <1>6. \A x \in Workers : Local(x)'
    BY <1>2, Others DEF IInv
  <1>7. ASSUME NEW x \in Workers, alone'[x], job'[x] # NoRun
        PROVE  Working(x)'
    <2>1. Working(x)
      BY <1>2, <1>7 DEF IInv
    <2>. QED  BY <1>2, <2>1, Others
  <1>8. \A b \in results' : Returned(b)'
    BY ResultsKept
  <1>. QED  BY <1>3, <1>5, <1>6, <1>7, <1>8 DEF IInv

\* The steps of the environment are such steps.
LEMMA EnvironmentStep ==
    ASSUME IInv, (\E r \in Runs : RequestCancel(r) \/ Requeue(r)) \/ UNCHANGED vars
    PROVE  IInv'
  <1>1. TypeOK
    BY DEF IInv
  <1>2. CASE UNCHANGED vars
    BY <1>1, <1>2, OtherStep DEF vars, eventVars, TypeOK
  <1>3. ASSUME NEW r \in Runs, RequestCancel(r)
        PROVE  IInv'
    BY <1>1, <1>3, OtherStep DEF RequestCancel, TypeOK
  <1>4. ASSUME NEW r \in Runs, Requeue(r)
        PROVE  IInv'
    <2>1. /\ UNCHANGED <<environment, buildVars, tree, orphans, results, alone>>
          /\ queued' = queued \union {r}
          /\ \E w \in Workers : job[w] = r
      BY <1>4 DEF Requeue
    <2>2. r \in load.runs
      BY <1>1, <2>1, CompatAssumption DEF TypeOK
    <2>. QED  BY <1>1, <2>1, <2>2, OtherStep DEF TypeOK
  <1>. QED  BY <1>2, <1>3, <1>4

(***************************************************************************)
(* The invariant holds                                                     *)
(***************************************************************************)

\* Nothing is built yet.
LEMMA Initially ==
    ASSUME Init
    PROVE  IInv
  <1>1. NoChild \in Children /\ NoChild.state = "none" /\ NoChild.data = NoRun
    BY OutputsAre DEF NoChild, Children
  <1>2. TypeOK
    <2>1. tree \in [Trees -> [Files -> Held]]
      BY DEF Init, EmptyTree, Held
    <2>. QED  BY <1>1, <2>1 DEF Init, TypeOK
  <1>3. NoRun \notin load.runs
    BY <1>2, LoadFacts
  <1>4. ASSUME NEW w \in Workers
        PROVE  Local(w)
    BY <1>1, <1>3 DEF Init, Local, Placed, Screened, Watching, Collecting
  <1>6. Alone
    BY <1>3 DEF Init, Alone
  <1>. QED  BY <1>2, <1>4, <1>6 DEF IInv, Init

\* Every step keeps the invariant.
LEMMA Inductive ==
    ASSUME IInv, [Next]_vars
    PROVE  IInv'
  <1>1. ASSUME NEW w \in Workers, Build(w)
        PROVE  IInv'
    BY <1>1, ClaimStep, EndStep, PrepareStep, PollStep, CheckStep, AbandonStep,
       ReadSummaryStep, CollectStep, ReadBytesStep DEF Build
  <1>. QED  BY <1>1, ChildStepStep, CheckStep, AbandonStep, OrphanStepStep, EnvironmentStep
            DEF Next

\* So it holds throughout.
LEMMA Invariant == Spec => []IInv
  <1>1. Init => IInv
    BY Initially
  <1>2. IInv /\ [Next]_vars => IInv'
    BY Inductive
  <1>. QED  BY <1>1, <1>2, PTL DEF Spec

\* A build returns its own files: every file returned by a build beside which no
\* other process worked in its tree is complete and of its run's video, whatever
\* earlier builds, complete or not, left there (the v1_compat artifact builder and
\* its child processes).
THEOREM ResultsOwn == Spec => []ResultsAreOwn
  <1>1. IInv => ResultsAreOwn
    BY DEF IInv, Returned, ResultsAreOwn
  <1>. QED  BY <1>1, Invariant, PTL

\* The diagnostics, tracking's summary and the statistics of every build that
\* returned count the same tracks, for every video the detector takes, every
\* order of the ties and every length of a bin.
THEOREM ReportsAgree == Spec => []ReportAgrees
  <1>1. ASSUME IInv, NEW b \in results
        PROVE  input[b.run] \in Agreeing
    <2>1. b.run \in load.runs /\ Detectable(input[b.run])
      BY <1>1 DEF IInv, Returned
    <2>2. input[b.run] \in Videos
      BY <1>1, <2>1, LoadFacts DEF IInv
    <2>. QED  BY <2>1, <2>2, Agree
  <1>2. IInv => ReportAgrees
    BY <1>1 DEF ReportAgrees
  <1>. QED  BY <1>2, Invariant, PTL

=============================================================================
