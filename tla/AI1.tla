-------------------------------- MODULE AI1 --------------------------------
(***************************************************************************)
(* The AI1 stages of execution/ai1 and the two children that run them:     *)
(* detection keeps the boxes of the sampled frames of a video, tracking    *)
(* groups them into tracklets, hands those with enough observations to the *)
(* preserved V1 statistics and describes the fragmentation.                *)
(*                                                                         *)
(* A video is a record [total, stride, boxes]: the frames of the source,   *)
(* the sampling stride, and the boxes the detector sees, each with the     *)
(* track the external ByteTrack gives it (0: none, or a box that is empty  *)
(* once clamped to the image).  Time is counted in source frames.          *)
(***************************************************************************)
EXTENDS Integers, FiniteSets

CONSTANTS
    MinObservations,    \* observations of a tracklet the statistics are given (10)
    MinRows,            \* observations of a track that is kept (50)
    ShortTimes,         \* SHORT_THRESHOLDS_SECONDS
    BinLength           \* length of a bin of the fragmentation trend (300 s)

ASSUME AI1Assumption ==
    /\ MinObservations \in Nat \ {0}
    /\ MinRows \in Nat \ {0}
    /\ MinObservations <= MinRows
    /\ BinLength \in Nat \ {0}

(***************************************************************************)
(* Detection                                                               *)
(***************************************************************************)

\* The detector analyses the last source frame of each stride.
SampledFrames(video) ==
    {i * video.stride - 1 : i \in 1 .. (video.total \div video.stride)}

\* The detector raises for a video without frames, the artifact for a box
\* outside the sampled frames.
Detectable(video) ==
    /\ video.total > 0
    /\ \A b \in video.boxes : b.frame \in SampledFrames(video)

(***************************************************************************)
(* Tracking                                                                *)
(***************************************************************************)

Tracked(video) == {b \in video.boxes : b.track # 0}

TracksOf(rows) == {b.track : b \in rows}

Observations(rows, t) == {b \in rows : b.track = t}

\* Tracklet accepts one observation of a track per frame.
Trackable(video) ==
    \A b, c \in Tracked(video) : b.track = c.track /\ b.frame = c.frame => b = c

\* raw_tracks.parquet: the rows of the tracklets that are long enough.
RawTracks(video) ==
    {b \in Tracked(video) :
        Cardinality(Observations(Tracked(video), b.track)) >= MinObservations}

\* Mutant: the filter of the statistics taken one observation too low.
MutantEmptyAfterFilters(rows) ==
    \A t \in TracksOf(rows) : Cardinality(Observations(rows, t)) < MinRows - 1

\* tracking_summary.json, empty_after_v1_filters: no track is long enough.
EmptyAfterFilters(rows) ==
    \A t \in TracksOf(rows) : Cardinality(Observations(rows, t)) < MinRows

(***************************************************************************)
(* Fragmentation diagnostics                                               *)
(***************************************************************************)

FirstFrame(rows, t) ==
    CHOOSE n \in {b.frame : b \in Observations(rows, t)} :
        \A b \in Observations(rows, t) : n <= b.frame

LastFrame(rows, t) ==
    CHOOSE n \in {b.frame : b \in Observations(rows, t)} :
        \A b \in Observations(rows, t) : b.frame <= n

Duration(rows, t) == LastFrame(rows, t) - FirstFrame(rows, t)

Insufficient(rows) ==
    {t \in TracksOf(rows) : Cardinality(Observations(rows, t)) < MinRows}

ShortTracks(rows, limit) == {t \in TracksOf(rows) : Duration(rows, t) < limit}

\* The number of bins of a video, at least one.
Bins(video) == 0 .. (video.total + BinLength - 1) \div BinLength - 1

BinEnd(video, bin) ==
    LET end == (bin + 1) * BinLength
    IN  IF end <= video.total THEN end ELSE video.total

StartedIn(video, bin) ==
    {t \in TracksOf(Tracked(video)) :
        LET n == FirstFrame(Tracked(video), t)
        IN  bin * BinLength <= n /\ n < BinEnd(video, bin)}

EndedIn(video, bin) ==
    {t \in TracksOf(Tracked(video)) :
        LET n == LastFrame(Tracked(video), t)
        IN  bin * BinLength <= n /\ n < BinEnd(video, bin)}

\* Tracks observed at once, for every frame with an observation.
Active(rows) ==
    [n \in {b.frame : b \in rows} |-> Cardinality({b.track : b \in {c \in rows : c.frame = n}})]

\* fragmentation_diagnostics.json.
Diagnostics(video) ==
    LET rows == Tracked(video) IN
    [detections   |-> Cardinality(video.boxes),
     tracklets    |-> Cardinality(TracksOf(rows)),
     assigned     |-> Cardinality(rows),
     insufficient |-> Cardinality(Insufficient(rows)),
     short        |-> [s \in ShortTimes |-> Cardinality(ShortTracks(rows, s))],
     started      |-> [bin \in Bins(video) |-> Cardinality(StartedIn(video, bin))],
     ended        |-> [bin \in Bins(video) |-> Cardinality(EndedIn(video, bin))],
     active       |-> Active(rows)]

=============================================================================
