----------------------------- MODULE MCV1Compat -----------------------------
(***************************************************************************)
(* Instances of V1Compat for TLC: six sampled frames, the first three of   *)
(* which are the first half, and tracks that are kept with four rows.      *)
(***************************************************************************)
EXTENDS V1Compat

Rows(track, frames, speed) == {[track |-> track, frame |-> n, speed |-> speed] : n \in frames}

Video(boxes) == [total |-> 12, stride |-> 2, boxes |-> boxes]

\* Two players for the whole match.
FullMatch == Video(Rows(1, {1, 3, 5, 7, 9, 11}, 1) \union Rows(2, {1, 3, 5, 7, 9, 11}, 2))

\* Tracks that swap ranks at half time.
Crossed == Video(Rows(1, {5, 7, 9, 11}, 1) \union Rows(2, {1, 3, 5}, 2) \union Rows(3, {9, 11}, 1))

\* One track that only just passes, whole.
Marginal == Video(Rows(1, {1, 3, 7, 9}, 1) \union Rows(2, {1, 7}, 2))

\* Short tracks, and a box no track took.
Sparse == Video(Rows(1, {1, 3, 5}, 1) \union Rows(2, {7}, 1) \union Rows(0, {9}, 1))

\* A tracker that gives two boxes of a frame to one track.
Doubled == Video(Rows(1, {1, 3}, 1) \union Rows(1, {3}, 2))

MCVideos == {FullMatch, Crossed, Marginal, Sparse, Doubled}

Able == [platform |-> TRUE, packages |-> TRUE, numbers |-> TRUE, tools |-> TRUE,
         weights |-> TRUE, requested |-> "auto", mps |-> FALSE, cuda |-> FALSE]

MCHosts == {Able, [Able EXCEPT !.requested = "mps"], [Able EXCEPT !.weights = FALSE]}

MCRuns == {"r1", "r2"}

MCWorkers == {"w1", "w2"}

\* Every video alone; workers that meet on a run of the local store; runs that
\* meet on the worker of a cloud host.
MCLoads ==
    {[store |-> "local", runs |-> {"r1"}, workers |-> {"w1"}, videos |-> MCVideos],
     [store |-> "local", runs |-> {"r1"}, workers |-> MCWorkers, videos |-> {Marginal}],
     [store |-> "cloud", runs |-> MCRuns, workers |-> {"w1"}, videos |-> {Marginal, Sparse}]}

MCShortTimes == {3, 5}

=============================================================================
