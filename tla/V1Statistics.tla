---------------------------- MODULE V1Statistics ----------------------------
(***************************************************************************)
(* The preserved V1 statistics and fatigue steps (pipeline/02_stats.py and *)
(* 03_fatigue.py), as functions of the rows of raw_tracks.parquet: the     *)
(* match is cut at half of its last time, the most active tracks of the    *)
(* second half take the identities of those of the first, short tracks are *)
(* dropped, and blocks of play are compared between the halves.            *)
(*                                                                         *)
(* A row carries a speed instead of positions: smoothing and pixels are    *)
(* abstracted to the distance of a step, zero where the gap is too long.   *)
(***************************************************************************)
EXTENDS AI1, FiniteSetsExt

CONSTANTS
    Top,            \* tracks stitched over half time (22)
    BlockLength,    \* length of a block (15 minutes)
    MaxGap,         \* longest gap a step may cover
    SprintSpeed,    \* speed from which a step belongs to a sprint
    MinSprint       \* shortest sprint

ASSUME StatisticsAssumption ==
    /\ Top \in Nat \ {0}
    /\ BlockLength \in Nat \ {0}

(***************************************************************************)
(* Halves and stitching                                                    *)
(***************************************************************************)

MatchEnd(rows) == Max({b.frame : b \in rows})

Half(rows, b) == IF 2 * b.frame >= MatchEnd(rows) THEN 2 ELSE 1

HalfRows(rows, h) == {b \in rows : Half(rows, b) = h}

\* Rows of track t in half h.
Size(rows, h, t) == Cardinality(Observations(HalfRows(rows, h), t))

\* The orders value_counts may sort the tracks of a half in: by size, ties in
\* any order.
Rankings(rows, h) ==
    LET tracks == TracksOf(HalfRows(rows, h))
        n == Cardinality(tracks)
    IN  {order \in [1 .. n -> tracks] :
            /\ \A t \in tracks : \E i \in 1 .. n : order[i] = t
            /\ \A i, j \in 1 .. n :
                  i <= j => Size(rows, h, order[i]) >= Size(rows, h, order[j])}

\* The three-way minimum of 22 and the numbers of tracks of the halves.
StitchCount(rows) ==
    LET n1 == Cardinality(TracksOf(HalfRows(rows, 1)))
        n2 == Cardinality(TracksOf(HalfRows(rows, 2)))
        least == IF n1 <= n2 THEN n1 ELSE n2
    IN  IF least <= Top THEN least ELSE Top

\* Mutant: the second half is ranked from its least active track.
MutantIdentity(rows, first, second, b) ==
    IF /\ Half(rows, b) = 2
       /\ \E i \in 1 .. StitchCount(rows) : second[i] = b.track
    THEN first[StitchCount(rows) + 1 -
               CHOOSE i \in 1 .. StitchCount(rows) : second[i] = b.track]
    ELSE b.track

\* The identity of row b after stitching with the rankings first and second.
Identity(rows, first, second, b) ==
    IF /\ Half(rows, b) = 2
       /\ \E i \in 1 .. StitchCount(rows) : second[i] = b.track
    THEN first[CHOOSE i \in 1 .. StitchCount(rows) : second[i] = b.track]
    ELSE b.track

Stitched(rows, first, second, id) ==
    {b \in rows : Identity(rows, first, second, b) = id}

\* The identities with enough rows.
Players(rows, first, second) ==
    {id \in TracksOf(rows) : Cardinality(Stitched(rows, first, second, id)) >= MinRows}

(***************************************************************************)
(* Distances, sprints and blocks of one player's rows                      *)
(***************************************************************************)

Times(rows) == {b.frame : b \in rows}

SpeedAt(rows, n) == Max({b.speed : b \in {c \in rows : c.frame = n}})

\* compute_kinematics: the step that ends at n, unless the gap is too long.
StepTo(rows, n) ==
    LET before == {m \in Times(rows) : m < n}
        gap == n - Max(before)
    IN  IF before # {} /\ gap <= MaxGap THEN SpeedAt(rows, n) * gap ELSE 0

Distance(rows, times) == MapThenSumSet(LAMBDA n : StepTo(rows, n), times)

Fast(rows, n) == SpeedAt(rows, n) >= SprintSpeed

\* count_sprints over the given times: maximal fast stretches, measured to the
\* first slow time after them, that last long enough.
Sprints(rows, times) ==
    LET starts == {n \in times : /\ Fast(rows, n)
                                 /\ LET before == {m \in times : m < n}
                                    IN  before # {} => ~Fast(rows, Max(before))}
        EndOf(n) == LET slow == {m \in times : m > n /\ ~Fast(rows, m)}
                    IN  IF slow # {} THEN Min(slow) ELSE Max(times)
    IN  Cardinality({n \in starts : EndOf(n) - n >= MinSprint})

Block(n) == n \div BlockLength

BlockTimes(rows, block) == {n \in Times(rows) : Block(n) = block}

BlocksOf(rows) == {Block(n) : n \in Times(rows)}

\* player_stats.parquet: a block counts for the half of its first row.
BlocksIn(match, rows, h) ==
    {k \in BlocksOf(rows) :
        h = IF 2 * Min(BlockTimes(rows, k)) >= MatchEnd(match) THEN 2 ELSE 1}

(***************************************************************************)
(* player_summary.json and risk_scores.json                                *)
(***************************************************************************)

\* Whether 03_fatigue judges a player: seen in both halves and in a twentieth
\* of the blocks.
Scorable(match, kept, rows) ==
    /\ HalfRows(match, 1) \intersect rows # {}
    /\ HalfRows(match, 2) \intersect rows # {}
    /\ 20 * Cardinality(BlocksOf(rows)) >= Max(BlocksOf(kept)) + 1

HalfDistance(match, rows, h) ==
    MapThenSumSet(LAMBDA k : Distance(rows, BlockTimes(rows, k)), BlocksIn(match, rows, h))

HalfSprints(match, rows, h) ==
    MapThenSumSet(LAMBDA k : Sprints(rows, BlockTimes(rows, k)), BlocksIn(match, rows, h))

\* sprint_drop_score and dist_drop_score, of 25: the whole range is a drop of
\* 100 % of the sprints and of 60 % of the distance.
DropScore(h1, h2, percent) ==
    LET score == ((h1 - h2) * 2500) \div (percent * h1)
    IN  IF h1 <= 0 \/ h1 <= h2 THEN 0 ELSE IF score <= 25 THEN score ELSE 25

\* The part of a player's advisory that compares the halves.
Advisory(match, kept, rows) ==
    IF Scorable(match, kept, rows)
    THEN [flag     |-> "scored",
          sprint   |-> DropScore(HalfSprints(match, rows, 1), HalfSprints(match, rows, 2), 100),
          distance |-> DropScore(HalfDistance(match, rows, 1), HalfDistance(match, rows, 2), 60)]
    ELSE [flag |-> "insufficient", sprint |-> 0, distance |-> 0]

\* What 02_stats and 03_fatigue write for one order of the rankings.
Statistics(rows, first, second) ==
    LET players == Players(rows, first, second)
        kept == UNION {Stitched(rows, first, second, id) : id \in players}
    IN  [id \in players |-> Advisory(rows, kept, Stitched(rows, first, second, id))]

\* The outcomes of 02_stats: a summary per order of the ties.
Outcomes(rows) ==
    {Statistics(rows, first, second) :
        first \in Rankings(rows, 1), second \in Rankings(rows, 2)}

(***************************************************************************)
(* Lemmas                                                                  *)
(***************************************************************************)

\* Stitching keeps the tracks: if one track has enough rows before it, one
\* identity has enough rows after it, whatever the halves and the ties are.  So
\* 02_stats never leaves without writing once tracking found a track to keep.
StitchingKeepsTracks(rows) ==
    ~EmptyAfterFilters(rows) =>
        \A first \in Rankings(rows, 1), second \in Rankings(rows, 2) :
            Players(rows, first, second) # {}

=============================================================================
