--------------------------- MODULE DepthDecision ---------------------------
(***************************************************************************)
(* From the depth frame and the bounding boxes to the bot's command:       *)
(* getDistance finds the most frequent depth of every box in one pass over *)
(* its pixels, getDepth takes the smallest of them, and main() compares it *)
(* with two thresholds.                                                    *)
(*                                                                         *)
(* A box is the sequence of the depths of its pixels in scan order; a box  *)
(* less than 20 pixels high or wide is the empty sequence, as none of its  *)
(* pixels is looked at.                                                    *)
(***************************************************************************)
EXTENDS Integers, Sequences, FiniteSets

CONSTANTS
    Depths,     \* the depths a pixel may have
    Boxes,      \* the lists of boxes getBbox may return, none of them empty
    MaxDepth,   \* MAX_DEPTH
    Far, Near   \* DIST_TH_FAR, DIST_TH_NEAR

ASSUME DepthAssumption ==
    /\ MaxDepth \in Nat \ {0} /\ Far \in Nat /\ Near \in Nat /\ Near <= Far
    /\ Depths \subseteq Nat
    /\ Boxes \subseteq Seq(Seq(Depths)) \ {<<>>}

VARIABLES
    boxes,    \* BBoxes
    first,    \* TRUE in the first lap of main's loop
    at,       \* what is executed: the scan of a box, the end of it, main's test
    box,      \* the index of the box being scanned
    pixel,    \* pixels of it that were counted
    freqMap,  \* freqMap[d]: how many of them have depth d
    max,      \* getDistance's max
    minDepth, \* getDepth's min_depth
    command   \* what main sends to the bot

vars == <<boxes, first, at, box, pixel, freqMap, max, minDepth, command>>

NoCounts == [d \in 0 .. MaxDepth - 1 |-> 0]

Init ==
    /\ boxes \in Boxes /\ first \in BOOLEAN
    /\ at = "scan" /\ box = 1 /\ pixel = 0
    /\ freqMap = NoCounts /\ max = 0
    /\ minDepth = MaxDepth /\ command = "none"

Depth(i) == boxes[box][i]

\* One pixel is counted; its depth is the new max if it is more frequent now.
CountPixel ==
    /\ at = "scan" /\ pixel < Len(boxes[box])
    /\ LET d == Depth(pixel + 1) IN
        /\ d < MaxDepth
        /\ freqMap' = [freqMap EXCEPT ![d] = @ + 1]
        /\ max' = IF freqMap'[d] > freqMap'[max] THEN d ELSE max
    /\ pixel' = pixel + 1
    /\ UNCHANGED <<boxes, first, at, box, minDepth, command>>

\* freqMap has no element for depths from MAX_DEPTH on: the write is outside.
CountOutside ==
    /\ at = "scan" /\ pixel < Len(boxes[box]) /\ Depth(pixel + 1) >= MaxDepth
    /\ at' = "outOfBounds"
    /\ UNCHANGED <<boxes, first, box, pixel, freqMap, max, minDepth, command>>

\* What getDistance returns for the box that was scanned
Distance == IF boxes[box] = <<>> THEN MaxDepth ELSE max

\* Mutant: the last measured box is taken, not the nearest.
NearerLast(d) == d # 0

\* The test in getDepth: 0 is "no measurement"
Nearer(d) == d < minDepth /\ d # 0

\* Mutant: the counts of a box are left to the next one.
EndBoxKeepsCounts ==
    /\ at = "scan" /\ pixel = Len(boxes[box])
    /\ minDepth' = IF Nearer(Distance) THEN Distance ELSE minDepth
    /\ pixel' = 0
    /\ IF box < Len(boxes) THEN box' = box + 1 /\ UNCHANGED at
                           ELSE at' = "decide" /\ UNCHANGED box
    /\ UNCHANGED <<boxes, first, freqMap, max, command>>

\* getDistance returns; getDepth goes on to the next box or returns.
EndBox ==
    /\ at = "scan" /\ pixel = Len(boxes[box])
    /\ minDepth' = IF Nearer(Distance) THEN Distance ELSE minDepth
    /\ pixel' = 0 /\ freqMap' = NoCounts /\ max' = 0
    /\ IF box < Len(boxes) THEN box' = box + 1 /\ UNCHANGED at
                           ELSE at' = "decide" /\ UNCHANGED box
    /\ UNCHANGED <<boxes, first, command>>

\* main's decision for a distance in centimetres
CommandFor(dist) ==
    IF first \/ dist = 0 THEN "stop"
    ELSE IF dist > Far THEN "forward"
    ELSE IF dist > Near THEN "bypass" ELSE "none"

Decide ==
    /\ at = "decide"
    /\ command' = CommandFor(minDepth \div 10)
    /\ at' = "done"
    /\ UNCHANGED <<boxes, first, box, pixel, freqMap, max, minDepth>>

Over == at \in {"done", "outOfBounds"} /\ UNCHANGED vars

Next == CountPixel \/ CountOutside \/ EndBox \/ Decide \/ Over

Spec == Init /\ [][Next]_vars
-----------------------------------------------------------------------------
(* Reference definitions and properties.                                   *)

\* How often d is among the first n depths of s
Occurrences(s, d, n) == Cardinality({i \in 1 .. n : s[i] = d})

\* The type of every variable, and the indices that are used.
TypeOK ==
    /\ boxes \in Seq(Seq(Depths)) /\ first \in BOOLEAN
    /\ at \in {"scan", "decide", "done", "outOfBounds"}
    /\ box \in 1 .. Len(boxes)
    /\ pixel \in 0 .. Len(boxes[box])
    /\ freqMap \in [0 .. MaxDepth - 1 -> Nat]
    /\ max \in 0 .. MaxDepth - 1
    /\ minDepth \in 1 .. MaxDepth
    /\ command \in {"none", "stop", "forward", "bypass"}

\* d is a most frequent depth of the scanned box s.
Mode(s, d) == \A e \in Depths : Occurrences(s, e, Len(s)) <= Occurrences(s, d, Len(s))

\* getDepth returns MAX_DEPTH or the most frequent depth of one of the boxes,
\* and no box is certainly nearer: one whose only most frequent depth is
\* smaller, and not 0.
NearestBox ==
    at = "done" =>
        /\ minDepth = MaxDepth \/ \E i \in DOMAIN boxes : Mode(boxes[i], minDepth)
        /\ \A i \in DOMAIN boxes, d \in Depths :
              boxes[i] # <<>> /\ d # 0 /\ (\A e \in Depths : Mode(boxes[i], e) <=> e = d)
                => minDepth <= d

\* With a box whose most frequent depth is certainly a near one, within the far
\* threshold, the bot is never sent forward.
NeverForwardIntoNear ==
    command = "forward" =>
        \A i \in DOMAIN boxes, d \in Depths :
            boxes[i] # <<>> /\ d # 0 /\ d \div 10 <= Far
              => ~ \A e \in Depths : Mode(boxes[i], e) <=> e = d
=============================================================================
