----------------------------- MODULE MCDecision -----------------------------
(***************************************************************************)
(* What main() decides on a frame, for TLC: a behaviour is one decision on *)
(* the depths in its boxes, with depths on both sides of every threshold,  *)
(* or the inference of all laps.  MAX_DEPTH and the thresholds (4095 mm,   *)
(* 25 cm and 2 cm in the code) are scaled down, in the same order, to keep *)
(* freqMap small.                                                          *)
(***************************************************************************)
EXTENDS DepthDecision, Inference

CONSTANTS BoxSize, MaxBoxes

\* no measurement, stop, no command, bypass, forward, and one depth that
\* freqMap has no element for
AllDepths == {0, 9, 19, 25, 49, 50}

\* A box too small to be looked at, or BoxSize pixels
SomeBox == {<<>>} \cup [1 .. BoxSize -> Depths]
SomeBoxes == UNION {[1 .. n -> SomeBox] : n \in 1 .. MaxBoxes}

VARIABLE part   \* the part of this behaviour, "depth" or "inference"

MCInit ==
    \/ part = "depth" /\ Init /\ InferenceInit /\ engine = "snpe"
    \/ part = "inference" /\ InferenceInit /\ Init /\ boxes = << <<>> >> /\ first = TRUE

MCNext ==
    \/ part = "depth" /\ Next /\ UNCHANGED <<part, inferenceVars>>
    \/ part = "inference" /\ InferenceNext /\ UNCHANGED <<part, vars>>

MCSpec ==
    /\ MCInit /\ [][MCNext]_<<part, vars, inferenceVars>>
    /\ part = "inference" => InferenceFairness
=============================================================================
