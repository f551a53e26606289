--------------------------- MODULE MCCameraDevice ---------------------------
(***************************************************************************)
(* Small instances of CameraDevice: stream 0 is a preview (unlimited) and  *)
(* stream 1 a snapshot (counted); the pools are model values.              *)
(***************************************************************************)
EXTENDS CameraDeviceOwnership, TLC

CONSTANTS p1, p2, p3, s1, s2

OneStream == {0}
TwoStreams == {0, 1}

PreviewPool1 == [s \in OneStream |-> {p1}]
PreviewPool2 == [s \in OneStream |-> {p1, p2}]
PreviewPool3 == [s \in OneStream |-> {p1, p2, p3}]
BothPools == [s \in TwoStreams |-> IF s = 0 THEN {p1, p2} ELSE {s1, s2}]
\* A preview pool that a held buffer empties
ScarcePools == [s \in TwoStreams |-> IF s = 0 THEN {p1} ELSE {s1, s2}]

PreviewOnly == [s \in OneStream |-> Unlimited]
SnapshotOnly == [s \in OneStream |-> 0]
PreviewAndSnapshot == [s \in TwoStreams |-> IF s = 0 THEN Unlimited ELSE 0]

NoSkip == [s \in Streams |-> 1]
\* HFR: the preview is requested in every second frame only
SkipPreview == [s \in Streams |-> IF s = 0 THEN 2 ELSE 1]

Symmetry == Permutations({p1, p2, p3}) \cup Permutations({s1, s2})
=============================================================================
