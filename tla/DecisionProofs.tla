--------------------------- MODULE DecisionProofs ---------------------------
(***************************************************************************)
(* Proofs about DepthDecision and Inference for any boxes and any sizes of *)
(* frames, answers and chunks.                                             *)
(***************************************************************************)
EXTENDS DepthDecision, Inference, FiniteSetTheorems, SequenceTheorems, TLAPS

-----------------------------------------------------------------------------
(* The depth of the boxes.                                                 *)

\* The box that is scanned, and those that were scanned to their end
Scanned == boxes[box]
Measured(i) == i < box \/ at \in {"decide", "done"}

\* s has one most frequent depth only, and it is d.
OnlyMode(s, d) == \A e \in Depths : Mode(s, e) <=> e = d

\* freqMap counts the pixels that were scanned, all of which it has elements for,
\* and max is a most frequent depth of them.
CountInv ==
    /\ \A i \in 1 .. pixel : Scanned[i] < MaxDepth
    /\ \A d \in 0 .. MaxDepth - 1 : freqMap[d] = Occurrences(Scanned, d, pixel)
    /\ \A d \in 0 .. MaxDepth - 1 : freqMap[d] <= freqMap[max]

\* minDepth is the smallest of the depths of the boxes that were measured.
MinInv ==
    /\ minDepth = MaxDepth \/ \E i \in DOMAIN boxes : Measured(i) /\ Mode(boxes[i], minDepth)
    /\ \A i \in DOMAIN boxes, d \in Depths :
          Measured(i) /\ boxes[i] # <<>> /\ d # 0 /\ OnlyMode(boxes[i], d) => minDepth <= d

\* The command follows the decision.
CommandInv ==
    /\ command # "none" => at = "done"
    /\ command = "forward" => minDepth \div 10 > Far

DepthInv == TypeOK /\ CountInv /\ MinInv /\ CommandInv

-----------------------------------------------------------------------------
(* The bytes between main() and the server's child.                        *)

InferenceSpec == InferenceInit /\ [][InferenceNext]_inferenceVars

Units == {"seg", "mark"} \X Nat

InferTypes ==
    /\ engine \in {"snpe", "dlr"} /\ sees \in {"object", "nothing"}
    /\ client \in {"start", "lap", "send", "recv", "predict", "segment", "done", "exited",
                   "crashed"}
    /\ server \in {"none", "recv", "infer", "send", "closed", "dead"}
    /\ reply \in {"none", "seg", "mark"} /\ short \in BOOLEAN
    /\ lap \in 0 .. Laps /\ frames \in Nat /\ total \in Nat /\ srvTotal \in Nat
    /\ up \in Seq(Nat) /\ inp \in Seq(Nat) /\ down \in Seq(Units) /\ opBuf \in Seq(Units)
    /\ engine = "dlr" /\ client = "start" => lap = 0

OfThisLap(units) == units \in Seq({lap})

\* Nobody answers: main() sends nothing that arrives and receives nothing.
NoChild ==
    /\ server = "none" /\ client # "recv"
    /\ up = <<>> /\ down = <<>> /\ opBuf = <<>> /\ inp = <<>> /\ frames = 0 /\ srvTotal = 0

\* The child has answered as many frames as there were laps and waits, or ended.
ChildWaits ==
    /\ frames = lap /\ srvTotal = 0 /\ inp = <<>> /\ up = <<>>
    /\ server = IF lap = Laps THEN "closed" ELSE "recv"

\* The frame of this lap is sent: what the child has of it and what is under way
\* is what was sent.
Sending ==
    /\ client = "send" /\ server = "recv" /\ frames + 1 = lap
    /\ down = <<>> /\ opBuf = <<>>
    /\ OfThisLap(up) /\ OfThisLap(inp)
    /\ srvTotal = Len(inp) /\ Len(inp) + Len(up) = total
    /\ total < FrameSize /\ total % Chunk = 0

\* It was sent, and the child has it or will.
Waiting ==
    /\ client = "recv" /\ frames + 1 = lap /\ total = 0 /\ down = <<>> /\ opBuf = <<>>
    /\ \/ /\ server = "recv" /\ OfThisLap(up) /\ OfThisLap(inp)
          /\ srvTotal = Len(inp) /\ Len(inp) + Len(up) = FrameSize /\ Len(inp) < FrameSize
       \/ server \in {"infer", "dead"} /\ up = <<>> /\ srvTotal = 0 /\ InpIsFrame

\* What is under way of the answer is of this lap and of one kind.
AnswerUnits ==
    /\ reply \in {"seg", "mark"} /\ (reply = "mark" => sees = "nothing")
    /\ down \in Seq({<<reply, lap>>}) /\ opBuf \in Seq({"seg", "mark"} \X {lap})
    /\ Len(opBuf) = total

\* The child sends the answer: what main() has of it and what is under way is
\* what was sent.
Answering ==
    /\ client = "recv" /\ server = "send" /\ frames + 1 = lap /\ up = <<>> /\ InpIsFrame
    /\ AnswerUnits /\ total + Len(down) = srvTotal
    /\ srvTotal < AnswerSize /\ srvTotal % Chunk = 0 /\ (reply = "mark" => srvTotal = 0)

\* The answer was sent, and main() takes the rest of it.
AnswerSent ==
    /\ client = "recv" /\ ChildWaits /\ AnswerUnits
    /\ total + Len(down) = (IF reply = "mark" THEN MarkSize ELSE AnswerSize)

\* main() is between two laps.
BetweenLaps ==
    /\ client \in {"lap", "done"} /\ ChildWaits /\ down = <<>>
    /\ Len(opBuf) <= AnswerSize /\ opBuf \in Seq({"seg", "mark"} \X {lap})

ChildServes == engine = "dlr" /\ (BetweenLaps \/ Sending \/ Waiting \/ Answering \/ AnswerSent)

\* main() still talks to its child, or never had one.
Attended == NoChild \/ ChildServes

\* Either side has a part of the frame or of the answer of this lap, or all of
\* it: what the child has counted, it has.
Whole ==
    /\ Len(opBuf) <= AnswerSize /\ opBuf \in Seq({"seg", "mark"} \X {lap})
    /\ OfThisLap(up) /\ OfThisLap(inp) /\ Len(inp) + Len(up) <= FrameSize
    /\ server = "recv" => srvTotal = Len(inp)
    /\ server \in {"infer", "send"} => InpIsFrame

\* main() has left in the middle of its connection, and the child goes on.
Abandoned == engine = "dlr" /\ client = "exited" /\ Whole

StreamInv == ~short => Attended \/ Abandoned

InferInv == InferTypes /\ StreamInv /\ ForwardIsKnown

-----------------------------------------------------------------------------
(* How often a depth occurs.                                               *)

\* The number of occurrences is a number, and 0 before the first pixel.
LEMMA OccurrencesType ==
    ASSUME NEW s, NEW d, NEW n \in Nat
    PROVE  /\ Occurrences(s, d, n) \in Nat /\ Occurrences(s, d, 0) = 0
           /\ IsFiniteSet({i \in 1 .. n : s[i] = d})
<1>1. IsFiniteSet(1 .. n)
  BY FS_Interval
<1>2. IsFiniteSet({i \in 1 .. n : s[i] = d})
  BY <1>1, FS_Subset
<1>3. {i \in 1 .. 0 : s[i] = d} = {}
  OBVIOUS
<1> QED
  BY <1>2, <1>3, FS_CardinalityType, FS_EmptySet DEF Occurrences

\* One more pixel is one more occurrence of its depth.
LEMMA OccurrencesNext ==
    ASSUME NEW s, NEW d, NEW n \in Nat
    PROVE  Occurrences(s, d, n + 1) = IF s[n + 1] = d THEN Occurrences(s, d, n) + 1
                                                     ELSE Occurrences(s, d, n)
<1> DEFINE A == {i \in 1 .. n : s[i] = d}
           B == {i \in 1 .. n + 1 : s[i] = d}
<1>1. IsFiniteSet(A)
  BY OccurrencesType
<1>2. n + 1 \notin A
  OBVIOUS
<1>3. CASE s[n + 1] = d
  <2>1. B = A \cup {n + 1}
    BY <1>3
  <2>2. Cardinality(B) = Cardinality(A) + 1
    BY <1>1, <1>2, <2>1, FS_AddElement
  <2> QED
    BY <1>3, <2>2 DEF Occurrences
<1>4. CASE s[n + 1] # d
  <2>1. B = A
    BY <1>4
  <2> QED
    BY <1>4, <2>1 DEF Occurrences
<1> QED
  BY <1>3, <1>4

\* A depth that some pixel has occurs, and one that no pixel has does not.
LEMMA OccurrencesZero ==
    ASSUME NEW s, NEW d, NEW n \in Nat
    PROVE  Occurrences(s, d, n) = 0 <=> \A i \in 1 .. n : s[i] # d
<1> DEFINE A == {i \in 1 .. n : s[i] = d}
<1>1. IsFiniteSet(A)
  BY OccurrencesType
<1>2. Cardinality(A) = 0 <=> A = {}
  BY <1>1, FS_EmptySet
<1>3. A = {} <=> \A i \in 1 .. n : s[i] # d
  OBVIOUS
<1> QED
  BY <1>2, <1>3 DEF Occurrences

\* What getDistance found is a most frequent depth of the box, and one of its pixels.
LEMMA DistanceIsMode ==
    ASSUME TypeOK, CountInv, pixel = Len(Scanned), Scanned # <<>>
    PROVE  Mode(Scanned, max) /\ max \in Depths
<1> DEFINE n == Len(Scanned)
<1>1. Scanned \in Seq(Depths) /\ n \in Nat /\ n # 0
  BY DEF TypeOK, Scanned
<1>2. \A i \in 1 .. n : Scanned[i] \in Depths /\ Scanned[i] \in 0 .. MaxDepth - 1
  <2> SUFFICES ASSUME NEW i \in 1 .. n
               PROVE  Scanned[i] \in Depths /\ Scanned[i] \in 0 .. MaxDepth - 1
    OBVIOUS
  <2>1. Scanned[i] \in Depths
    BY <1>1, ElementOfSeq
  <2>2. Scanned[i] < MaxDepth
    BY DEF CountInv
  <2>3. Depths \subseteq Nat /\ MaxDepth \in Nat
    BY DepthAssumption
  <2>4. Scanned[i] \in Nat
    BY <2>1, <2>3
  <2>5. Scanned[i] \in 0 .. MaxDepth - 1
    BY <2>2, <2>3, <2>4
  <2> QED
    BY <2>1, <2>5
<1>3. max \in 0 .. MaxDepth - 1
  BY DEF TypeOK
<1>4. ASSUME NEW e \in Depths
      PROVE  Occurrences(Scanned, e, n) <= Occurrences(Scanned, max, n)
  <2>1. CASE e \in 0 .. MaxDepth - 1
    BY <1>3, <2>1 DEF CountInv
  <2>2. CASE e \notin 0 .. MaxDepth - 1
    <3>1. Occurrences(Scanned, e, n) = 0
      BY <1>1, <1>2, <2>2, OccurrencesZero
    <3>2. Occurrences(Scanned, max, n) \in Nat
      BY <1>1, OccurrencesType
    <3> QED
      BY <3>1, <3>2
  <2> QED
    BY <2>1, <2>2
<1>5. \E i \in 1 .. n : Scanned[i] = max
  <2>1. Scanned[1] \in Depths /\ 1 \in 1 .. n
    BY <1>1, <1>2
  <2>2. Occurrences(Scanned, Scanned[1], n) # 0
    BY <1>1, <2>1, OccurrencesZero
  <2>3. Occurrences(Scanned, Scanned[1], n) \in Nat /\ Occurrences(Scanned, max, n) \in Nat
    BY <1>1, OccurrencesType
  <2>4. Occurrences(Scanned, max, n) # 0
    BY <1>4, <2>1, <2>2, <2>3
  <2> QED
    BY <1>1, <2>4, OccurrencesZero
<1> QED
  BY <1>2, <1>4, <1>5 DEF Mode

-----------------------------------------------------------------------------
(* The invariant of the decision.                                          *)

\* The first box has no pixel scanned and no box is measured.
LEMMA DepthInit == Init => DepthInv
<1> SUFFICES ASSUME Init PROVE DepthInv
  OBVIOUS
<1> USE DepthAssumption
<1>1. boxes \in Seq(Seq(Depths)) /\ boxes # <<>> /\ Len(boxes) \in Nat \ {0}
  BY DEF Init
<1>2. 1 \in 1 .. Len(boxes) /\ Len(boxes[1]) \in Nat
  BY <1>1
<1>3. TypeOK
  BY <1>1, <1>2 DEF Init, TypeOK, NoCounts
<1>4. CountInv
  <2>1. \A d \in 0 .. MaxDepth - 1 : freqMap[d] = 0 /\ Occurrences(Scanned, d, 0) = 0
    BY OccurrencesType DEF Init, NoCounts
  <2> QED
    BY <1>3, <2>1 DEF Init, CountInv, TypeOK
<1>5. MinInv /\ CommandInv
  <2>1. \A i \in DOMAIN boxes : ~Measured(i)
    BY <1>1 DEF Init, Measured
  <2> QED
    BY <2>1 DEF Init, MinInv, CommandInv
<1> QED
  BY <1>3, <1>4, <1>5 DEF DepthInv

\* A pixel is counted: its depth is the new max only if it is more frequent than
\* the one before.
LEMMA DepthPixel == DepthInv /\ CountPixel => DepthInv'
<1> SUFFICES ASSUME DepthInv, CountPixel PROVE DepthInv'
  OBVIOUS
<1> USE DepthAssumption
<1> DEFINE s == Scanned
<1>1. PICK d : d = Scanned[pixel + 1]
  OBVIOUS
<1>2. /\ at = "scan" /\ pixel < Len(Scanned) /\ d < MaxDepth
      /\ freqMap' = [freqMap EXCEPT ![d] = @ + 1]
      /\ max' = (IF freqMap'[d] > freqMap'[max] THEN d ELSE max)
      /\ pixel' = pixel + 1
      /\ UNCHANGED <<boxes, first, at, box, minDepth, command>>
  BY <1>1 DEF CountPixel, Depth, Scanned
<1>3. /\ Scanned \in Seq(Depths) /\ pixel \in Nat /\ d \in Depths
      /\ freqMap \in [0 .. MaxDepth - 1 -> Nat] /\ max \in 0 .. MaxDepth - 1
  BY SMTT(30), <1>1, <1>2 DEF DepthInv, TypeOK, Scanned
<1>4. d \in 0 .. MaxDepth - 1
  BY <1>2, <1>3
<1>5. /\ freqMap' \in [0 .. MaxDepth - 1 -> Nat] /\ freqMap'[d] = freqMap[d] + 1
      /\ \A e \in 0 .. MaxDepth - 1 : e # d => freqMap'[e] = freqMap[e]
  BY <1>2, <1>3, <1>4
<1>6. TypeOK'
  BY SMTT(30), <1>2, <1>3, <1>4, <1>5 DEF DepthInv, TypeOK, Scanned
<1>7. Scanned' = Scanned
  BY <1>2 DEF Scanned
<1>8. CountInv'
  <2>1. \A i \in 1 .. pixel' : Scanned[i] < MaxDepth
    BY <1>1, <1>2, <1>3 DEF DepthInv, CountInv
  <2>2. ASSUME NEW e \in 0 .. MaxDepth - 1
        PROVE  freqMap'[e] = Occurrences(Scanned, e, pixel + 1)
    <3>1. freqMap[e] = Occurrences(Scanned, e, pixel)
      BY DEF DepthInv, CountInv
    <3>2. Occurrences(Scanned, e, pixel + 1)
            = IF Scanned[pixel + 1] = e THEN Occurrences(Scanned, e, pixel) + 1
                                        ELSE Occurrences(Scanned, e, pixel)
      BY <1>3, OccurrencesNext
    <3> QED
      BY <1>1, <1>5, <3>1, <3>2
  <2>3. \A e \in 0 .. MaxDepth - 1 : freqMap'[e] <= freqMap'[max']
    <3>1. \A e \in 0 .. MaxDepth - 1 : freqMap[e] <= freqMap[max] /\ freqMap[e] \in Nat
      BY <1>3 DEF DepthInv, CountInv
    <3> QED
      BY <1>2, <1>3, <1>4, <1>5, <3>1
  <2> QED
    BY <1>2, <1>7, <2>1, <2>2, <2>3 DEF CountInv
<1>9. MinInv'
  <2>1. \A i : Measured(i)' <=> Measured(i)
    BY <1>2 DEF Measured
  <2> QED
    BY <1>2, <2>1 DEF DepthInv, MinInv
<1>10. CommandInv'
  BY <1>2 DEF DepthInv, CommandInv
<1> QED
  BY <1>6, <1>8, <1>9, <1>10 DEF DepthInv

\* A box ends: it is measured by its most frequent depth.
LEMMA DepthBox == DepthInv /\ EndBox => DepthInv'
<1> SUFFICES ASSUME DepthInv, EndBox PROVE DepthInv'
  OBVIOUS
<1> USE DepthAssumption
<1>1. /\ at = "scan" /\ pixel = Len(Scanned)
      /\ minDepth' = (IF Nearer(Distance) THEN Distance ELSE minDepth)
      /\ pixel' = 0 /\ freqMap' = NoCounts /\ max' = 0
      /\ \/ box < Len(boxes) /\ box' = box + 1 /\ at' = at
         \/ box >= Len(boxes) /\ at' = "decide" /\ box' = box
      /\ UNCHANGED <<boxes, first, command>>
  BY DEF EndBox, Scanned, DepthInv, TypeOK
<1>2. /\ boxes \in Seq(Seq(Depths)) /\ box \in 1 .. Len(boxes) /\ Len(boxes) \in Nat
      /\ DOMAIN boxes = 1 .. Len(boxes) /\ Scanned = boxes[box]
      /\ minDepth \in 1 .. MaxDepth /\ max \in 0 .. MaxDepth - 1
  BY DEF DepthInv, TypeOK, Scanned
<1>3. box' \in 1 .. Len(boxes)
  BY <1>1, <1>2
<1>4. Scanned # <<>> => Mode(Scanned, max) /\ max \in Depths
  BY <1>1, DistanceIsMode DEF DepthInv
<1>5. \/ minDepth' = minDepth /\ (Scanned # <<>> => minDepth <= max \/ max = 0)
      \/ Scanned # <<>> /\ minDepth' = max /\ max < minDepth /\ max # 0
  BY <1>1, <1>2 DEF Nearer, Distance
<1>6. TypeOK'
  <2>1. NoCounts \in [0 .. MaxDepth - 1 -> Nat] /\ 0 \in 0 .. MaxDepth - 1
    BY DEF NoCounts
  <2>2. minDepth' \in 1 .. MaxDepth
    BY <1>2, <1>5
  <2>3. Len(boxes[box']) \in Nat
    BY <1>2, <1>3
  <2> QED
    BY SMTT(30), <1>1, <1>3, <2>1, <2>2, <2>3 DEF DepthInv, TypeOK
<1>7. CountInv'
  <2>1. \A d \in 0 .. MaxDepth - 1 : freqMap'[d] = 0 /\ Occurrences(Scanned', d, 0) = 0
    BY <1>1, OccurrencesType DEF NoCounts
  <2> QED
    BY <1>1, <2>1 DEF CountInv
<1>8. \A i \in DOMAIN boxes : Measured(i)' <=> Measured(i) \/ i = box
  BY <1>1, <1>2 DEF Measured
<1>9. MinInv'
  <2>1. minDepth' = MaxDepth \/ \E i \in DOMAIN boxes : Measured(i)' /\ Mode(boxes[i], minDepth')
    <3>1. CASE minDepth' = minDepth
      BY <1>8, <3>1 DEF DepthInv, MinInv
    <3>2. CASE Scanned # <<>> /\ minDepth' = max
      BY <1>2, <1>4, <1>8, <3>2
    <3> QED
      BY <1>5, <3>1, <3>2
  <2>2. ASSUME NEW i \in DOMAIN boxes, NEW d \in Depths,
               Measured(i)', boxes[i] # <<>>, d # 0, OnlyMode(boxes[i], d)
        PROVE  minDepth' <= d
    <3>1. minDepth' <= minDepth /\ minDepth' \in Nat /\ minDepth \in Nat /\ d \in Nat
      BY <1>2, <1>5
    <3>2. CASE Measured(i)
      <4>1. minDepth <= d
        BY <2>2, <3>2 DEF DepthInv, MinInv
      <4> QED
        BY <3>1, <4>1
    <3>3. CASE i = box
      <4>1. Mode(boxes[i], max) /\ max \in Depths /\ Scanned # <<>>
        BY <1>2, <1>4, <2>2, <3>3
      <4>2. max = d
        BY <2>2, <4>1 DEF OnlyMode
      <4> QED
        BY <1>2, <1>5, <2>2, <4>1, <4>2
    <3> QED
      BY <1>8, <2>2, <3>2, <3>3
  <2> QED
    BY <1>1, <2>1, <2>2 DEF MinInv, OnlyMode, Mode
<1>10. CommandInv'
  BY <1>1 DEF DepthInv, CommandInv
<1> QED
  BY <1>6, <1>7, <1>9, <1>10 DEF DepthInv

\* Every step keeps the invariant of the decision.
LEMMA DepthStep == DepthInv /\ [Next]_vars => DepthInv'
<1> SUFFICES ASSUME DepthInv, [Next]_vars PROVE DepthInv'
  OBVIOUS
<1>1. CASE CountOutside
  <2>1. /\ at = "scan" /\ at' = "outOfBounds"
        /\ UNCHANGED <<boxes, first, box, pixel, freqMap, max, minDepth, command>>
    BY <1>1 DEF CountOutside
  <2>2. TypeOK' /\ CommandInv'
    BY <2>1 DEF DepthInv, TypeOK, CommandInv
  <2>3. CountInv'
    BY <2>1 DEF DepthInv, CountInv, Scanned
  <2>4. \A i : Measured(i)' <=> Measured(i)
    BY <2>1 DEF Measured
  <2>5. MinInv'
    BY <2>1, <2>4 DEF DepthInv, MinInv
  <2> QED
    BY <2>2, <2>3, <2>5 DEF DepthInv
<1>2. CASE Decide
  <2>1. /\ at = "decide" /\ at' = "done" /\ command' = CommandFor(minDepth \div 10)
        /\ UNCHANGED <<boxes, first, box, pixel, freqMap, max, minDepth>>
    BY <1>2 DEF Decide
  <2>2. /\ command' \in {"none", "stop", "forward", "bypass"}
        /\ command' = "forward" => minDepth \div 10 > Far
    BY <2>1 DEF CommandFor
  <2>3. TypeOK' /\ CommandInv'
    BY <2>1, <2>2 DEF DepthInv, TypeOK, CommandInv
  <2>4. CountInv'
    BY <2>1 DEF DepthInv, CountInv, Scanned
  <2>5. \A i : Measured(i)' <=> Measured(i)
    BY <2>1 DEF Measured
  <2>6. MinInv'
    BY <2>1, <2>5 DEF DepthInv, MinInv
  <2> QED
    BY <2>3, <2>4, <2>6 DEF DepthInv
<1>3. CASE UNCHANGED vars
  <2>1. UNCHANGED <<boxes, first, at, box, pixel, freqMap, max, minDepth, command>>
    BY <1>3 DEF vars
  <2>2. \A i : Measured(i)' <=> Measured(i)
    BY <2>1 DEF Measured
  <2>3. TypeOK' /\ CommandInv'
    BY <2>1 DEF DepthInv, TypeOK, CommandInv
  <2>4. CountInv'
    BY <2>1 DEF DepthInv, CountInv, Scanned
  <2>5. MinInv'
    BY <2>1, <2>2 DEF DepthInv, MinInv
  <2> QED
    BY <2>3, <2>4, <2>5 DEF DepthInv
<1> QED
  BY <1>1, <1>2, <1>3, DepthPixel, DepthBox DEF Next, Over

\* The inductive invariant of the decision.
THEOREM DepthInvariant == Spec => []DepthInv
BY DepthInit, DepthStep, PTL DEF Spec

\* getDepth returns the most frequent depth of a box, or MAX_DEPTH, and no box is
\* certainly nearer.
THEOREM NearestBoxIsTaken == Spec => []NearestBox
<1>1. DepthInv => NearestBox
  <2> SUFFICES ASSUME DepthInv, at = "done" PROVE NearestBox
    BY DEF NearestBox
  <2>1. \A i : Measured(i)
    BY DEF Measured
  <2> QED
    BY <2>1 DEF DepthInv, MinInv, OnlyMode, NearestBox
<1> QED
  BY <1>1, DepthInvariant, PTL

\* The bot is never sent forward when a box is certainly near.
THEOREM NeverForward == Spec => []NeverForwardIntoNear
<1>1. DepthInv => NeverForwardIntoNear
  <2> SUFFICES ASSUME DepthInv, command = "forward", NEW i \in DOMAIN boxes, NEW d \in Depths,
                      boxes[i] # <<>>, d # 0, d \div 10 <= Far, OnlyMode(boxes[i], d)
               PROVE  FALSE
    BY DEF NeverForwardIntoNear, OnlyMode
  <2>1. at = "done" /\ minDepth \div 10 > Far
    BY DEF DepthInv, CommandInv
  <2>2. minDepth <= d
    BY <2>1 DEF DepthInv, MinInv, Measured
  <2>3. minDepth \in Nat /\ d \in Nat /\ Far \in Nat
    BY DepthAssumption DEF DepthInv, TypeOK
  <2> QED
    BY <2>1, <2>2, <2>3
<1> QED
  BY <1>1, DepthInvariant, PTL

-----------------------------------------------------------------------------
(* Chunks and streams.                                                     *)

\* A multiple of c below another one is below it by c at least.
LEMMA ChunkFits ==
    ASSUME NEW c \in Nat \ {0}, NEW a \in Nat, NEW b \in Nat,
           (a % c) = 0, (b % c) = 0, a < b
    PROVE  a + c <= b /\ ((a + c) % c) = 0
<1>1. a = c * (a \div c) /\ a \div c \in Int
  OBVIOUS
<1>2. b = c * (b \div c) /\ b \div c \in Int
  OBVIOUS
<1> DEFINE p == a \div c
           q == b \div c
<1> HIDE DEF p, q
<1>3. a = c * p /\ b = c * q /\ p \in Int /\ q \in Int
  BY <1>1, <1>2 DEF p, q
<1>4. p < q
  <2> SUFFICES ASSUME q <= p PROVE FALSE
    BY <1>3
  <2>1. c * q <= c * p
    BY <1>3
  <2> QED
    BY <1>3, <2>1
<1>5. c * (p + 1) = c * p + c /\ c * (p + 1) <= c * q
  <2>1. p + 1 <= q
    BY <1>3, <1>4
  <2>2. c * (p + 1) <= c * q
    BY <1>3, <2>1
  <2>3. c * (p + 1) = c * p + c
    BY <1>3
  <2> QED
    BY <2>2, <2>3
<1>6. (c * (p + 1)) % c = 0
  <2>1. p + 1 \in Int
    BY <1>3
  <2> QED
    BY <2>1
<1> QED
  BY <1>3, <1>5, <1>6

\* A frame and an answer are not shorter than a chunk, nor than the mark.
LEMMA Sizes ==
    /\ Chunk \in Nat \ {0} /\ FrameSize \in Nat \ {0} /\ AnswerSize \in Nat \ {0}
    /\ MarkSize \in Nat \ {0} /\ Laps \in Nat \ {0}
    /\ (FrameSize % Chunk) = 0 /\ (AnswerSize % Chunk) = 0 /\ (0 % Chunk) = 0
    /\ Chunk <= FrameSize /\ Chunk <= AnswerSize /\ MarkSize <= AnswerSize
<1>1. /\ Chunk \in Nat \ {0} /\ FrameSize \in Nat \ {0} /\ AnswerSize \in Nat \ {0}
      /\ MarkSize \in Nat \ {0} /\ Laps \in Nat \ {0}
      /\ (FrameSize % Chunk) = 0 /\ (AnswerSize % Chunk) = 0 /\ MarkSize <= Chunk
  BY InferenceAssumption
<1>2. (0 % Chunk) = 0
  BY <1>1
<1>3. 0 + Chunk <= FrameSize /\ 0 + Chunk <= AnswerSize
  BY <1>1, <1>2, ChunkFits
<1> QED
  BY <1>1, <1>2, <1>3

\* What follows a stream is appended to it.
LEMMA Joined ==
    ASSUME NEW S, NEW s \in Seq(S), NEW t \in Seq(S)
    PROVE  s \o t \in Seq(S) /\ Len(s \o t) = Len(s) + Len(t)
BY ConcatProperties

\* A call takes the first n units of a stream and leaves the others.
LEMMA TakenOff ==
    ASSUME NEW S, NEW s \in Seq(S), NEW n \in Nat, n <= Len(s)
    PROVE  /\ SubSeq(s, 1, n) \in Seq(S) /\ Len(SubSeq(s, 1, n)) = n
           /\ SubSeq(s, n + 1, Len(s)) \in Seq(S) /\ Len(SubSeq(s, n + 1, Len(s))) = Len(s) - n
<1>1. Len(s) \in Nat /\ DOMAIN s = 1 .. Len(s) /\ \A i \in 1 .. Len(s) : s[i] \in S
  OBVIOUS
<1>2. SubSeq(s, 1, n) \in Seq(S) /\ Len(SubSeq(s, 1, n)) = n
  <2>1. \A i \in 1 .. n : s[i] \in S
    BY <1>1
  <2>2. /\ SubSeq(s, 1, n) \in Seq(S)
        /\ Len(SubSeq(s, 1, n)) = IF 1 <= n THEN n - 1 + 1 ELSE 0
    BY <2>1, SubSeqProperties
  <2> QED
    BY <2>2
<1>3. SubSeq(s, n + 1, Len(s)) \in Seq(S) /\ Len(SubSeq(s, n + 1, Len(s))) = Len(s) - n
  <2>1. \A i \in n + 1 .. Len(s) : s[i] \in S
    BY <1>1
  <2>2. n + 1 \in Int /\ Len(s) \in Int
    BY <1>1
  <2>3. /\ SubSeq(s, n + 1, Len(s)) \in Seq(S)
        /\ Len(SubSeq(s, n + 1, Len(s))) = IF n + 1 <= Len(s) THEN Len(s) - (n + 1) + 1 ELSE 0
    BY <2>1, <2>2, SubSeqProperties
  <2>4. Len(SubSeq(s, n + 1, Len(s))) = Len(s) - n
    <3>1. PICK l \in Nat : l = Len(s)
      BY <1>1
    <3>2. (IF n + 1 <= l THEN l - (n + 1) + 1 ELSE 0) = l - n
      BY <3>1
    <3>3. Len(SubSeq(s, n + 1, l)) = IF n + 1 <= l THEN l - (n + 1) + 1 ELSE 0
      BY <2>3, <3>1
    <3> QED
      BY <3>1, <3>2, <3>3
  <2> QED
    BY <2>3, <2>4
<1> QED
  BY <1>2, <1>3

\* The first unit that is taken off is the first of the stream.
LEMMA FirstTaken ==
    ASSUME NEW S, NEW s \in Seq(S), NEW n \in Nat \ {0}, n <= Len(s)
    PROVE  SubSeq(s, 1, n)[1] = s[1]
<1>1. Len(s) \in Nat /\ \A i \in 1 .. n : s[i] \in S
  OBVIOUS
<1>2. \A i \in 1 .. n - 1 + 1 : SubSeq(s, 1, n)[i] = s[1 + i - 1]
  BY <1>1, SubSeqProperties
<1> QED
  BY <1>2

\* Units that one call sends
LEMMA Sent ==
    ASSUME NEW S, NEW n \in Nat, NEW f \in [1 .. n -> S]
    PROVE  f \in Seq(S) /\ Len(f) = n /\ DOMAIN f = 1 .. n
<1>1. f \in Seq(S)
  OBVIOUS
<1>2. DOMAIN f = 1 .. n
  OBVIOUS
<1> QED
  BY <1>1, <1>2

-----------------------------------------------------------------------------
(* The types of the inference.                                             *)

\* main() alone: nothing is under way because of it.
LocalStep ==
    \/ \E i \in {1, 2} : LoadModel(i)
    \/ ServerStart \/ GetFd \/ NextLap \/ LastLap \/ PredictSnpe \/ SocketFails \/ ClientLeaves
    \/ UNCHANGED inferenceVars

\* A unit of an answer is its kind and its frame.
LEMMA UnitFields ==
    ASSUME NEW kind \in {"seg", "mark"}, NEW k \in Nat
    PROVE  <<kind, k>> \in Units /\ <<kind, k>>[1] = kind /\ <<kind, k>>[2] = k
BY DEF Units

\* The steps of main() alone keep the types.
LEMMA TypesLocal == InferTypes /\ LocalStep => InferTypes'
<1> SUFFICES ASSUME InferTypes, LocalStep PROVE InferTypes'
  OBVIOUS
<1> USE Sizes DEF InferTypes, snpeVars, serverVars, childVars, socketVars
<1>1. ASSUME NEW i \in {1, 2}, LoadModel(i) PROVE InferTypes'
  <2>1. lap' \in {0, 1} /\ client' \in {"start", "lap"} /\ engine = "snpe"
    BY <1>1 DEF LoadModel
  <2> QED
    BY <1>1, <2>1 DEF LoadModel
<1>2. CASE ServerStart
  BY <1>2 DEF ServerStart
<1>3. CASE GetFd
  BY <1>3 DEF GetFd
<1>4. CASE NextLap
  <2>1. /\ lap' \in 0 .. Laps /\ client' \in {"predict", "send"} /\ total' = 0 /\ opBuf' = <<>>
        /\ sees' \in {"object", "nothing"}
        /\ UNCHANGED <<engine, server, frames, srvTotal, inp, reply, up, down, short>>
    BY <1>4 DEF NextLap
  <2>2. opBuf' \in Seq(Units)
    BY <2>1, EmptySeq
  <2> QED
    BY <2>1, <2>2
<1>5. CASE LastLap
  BY <1>5 DEF LastLap
<1>6. CASE PredictSnpe
  BY <1>6 DEF PredictSnpe, SnpeCrash, SnpeFails, Classify, Segment, Judge
<1>7. CASE SocketFails
  BY <1>7 DEF SocketFails
<1>8. CASE UNCHANGED inferenceVars
  BY <1>8 DEF inferenceVars
<1>9. CASE ClientLeaves
  BY <1>9 DEF ClientLeaves
<1> QED
  BY <1>1, <1>2, <1>3, <1>4, <1>5, <1>6, <1>7, <1>8, <1>9 DEF LocalStep

\* main() sends units of its frame, or what is behind its buffer.
LEMMA TypesSend ==
    ASSUME InferTypes, NEW n \in 1 .. Chunk, SendFrame(n)
    PROVE  InferTypes'
<1> USE Sizes DEF InferTypes
<1> DEFINE f == [i \in 1 .. n |-> IF total + i <= FrameSize THEN lap ELSE 0]
<1>1. n \in Nat /\ f \in [1 .. n -> Nat]
  OBVIOUS
<1>2. f \in Seq(Nat)
  BY <1>1, Sent
<1> HIDE DEF f
<1>3. up \o f \in Seq(Nat)
  BY <1>2, Joined
<1>4. /\ up' = up \o f /\ client' \in {"send", "recv"} /\ total' \in Nat /\ short' \in BOOLEAN
      /\ UNCHANGED <<engine, lap, sees, server, frames, srvTotal, inp, reply, opBuf, down>>
  BY <1>1 DEF SendFrame, serverVars, childVars, f
<1> QED
  BY <1>3, <1>4

\* main() receives units of an answer.
LEMMA TypesRecvAnswer ==
    ASSUME InferTypes, NEW n \in 1 .. Chunk, RecvAnswer(n)
    PROVE  InferTypes'
<1> USE Sizes DEF InferTypes
<1> DEFINE units == SubSeq(down, 1, n)
<1>1. n \in Nat /\ n <= Len(down)
  BY DEF RecvAnswer
<1>2. units \in Seq(Units) /\ SubSeq(down, n + 1, Len(down)) \in Seq(Units)
  BY <1>1, TakenOff
<1>3. opBuf \o units \in Seq(Units)
  BY <1>2, Joined
<1>4. /\ opBuf' = opBuf \o units /\ down' = SubSeq(down, n + 1, Len(down))
      /\ client' \in {"lap", "recv"} /\ total' \in Nat
      /\ UNCHANGED <<engine, lap, sees, server, frames, srvTotal, inp, reply, up, short>>
  BY <1>1 DEF RecvAnswer, serverVars, childVars, Judge
<1> QED
  BY <1>2, <1>3, <1>4

\* The child receives units of a frame.
LEMMA TypesServerRecv ==
    ASSUME InferTypes, NEW n \in 1 .. Chunk, ServerRecv(n)
    PROVE  InferTypes'
<1> USE Sizes DEF InferTypes
<1>1. n \in Nat /\ n <= Len(up)
  BY DEF ServerRecv
<1>2. SubSeq(up, 1, n) \in Seq(Nat) /\ SubSeq(up, n + 1, Len(up)) \in Seq(Nat)
  BY <1>1, TakenOff
<1>3. inp \o SubSeq(up, 1, n) \in Seq(Nat)
  BY <1>2, Joined
<1>4. /\ inp' = inp \o SubSeq(up, 1, n) /\ up' = SubSeq(up, n + 1, Len(up))
      /\ server' \in {"infer", "recv"} /\ srvTotal' \in Nat
      /\ UNCHANGED <<engine, client, lap, sees, frames, reply, total, opBuf, down, short>>
  BY <1>1 DEF ServerRecv
<1> QED
  BY <1>2, <1>3, <1>4

\* The child sends units of an answer.
LEMMA TypesServerSend ==
    ASSUME InferTypes, NEW n \in 1 .. Chunk, ServerSend(n)
    PROVE  InferTypes'
<1> USE Sizes DEF InferTypes
<1>1. PICK kind \in {"seg", "mark"} : down' = down \o [i \in 1 .. n |-> <<kind, frames + 1>>]
  BY DEF ServerSend
<1> DEFINE f == [i \in 1 .. n |-> <<kind, frames + 1>>]
<1>2. <<kind, frames + 1>> \in Units /\ n \in Nat
  BY UnitFields
<1>3. f \in [1 .. n -> Units]
  BY <1>2
<1>4. f \in Seq(Units)
  BY <1>2, <1>3, Sent
<1> HIDE DEF f
<1>5. down' \in Seq(Units)
  BY <1>1, <1>4, Joined DEF f
<1>6. /\ server' \in {"closed", "recv", "send"}
      /\ inp' = inp \/ inp' = <<>>
      /\ UNCHANGED <<engine, client, lap, sees, reply, total, opBuf, up>>
  <2>1. UNCHANGED <<engine, client, lap, sees, reply, total, opBuf, up>>
    BY DEF ServerSend
  <2>2. server = "send" /\ (Answered \/ UNCHANGED <<inp, server>>)
    BY DEF ServerSend
  <2> QED
    BY <2>1, <2>2 DEF Answered
<1>7. srvTotal' \in Nat /\ frames' \in Nat /\ short' \in BOOLEAN
  <2>1. short' \in BOOLEAN
    BY <1>2 DEF ServerSend
  <2>2. Answered \/ (srvTotal' = srvTotal + n /\ frames' = frames)
    BY DEF ServerSend
  <2> QED
    BY <1>2, <2>1, <2>2 DEF Answered
<1>8. inp' \in Seq(Nat)
  BY <1>6, EmptySeq
<1> QED
  BY <1>5, <1>6, <1>7, <1>8

\* Every step keeps the types.
LEMMA TypesStep == InferTypes /\ [InferenceNext]_inferenceVars => InferTypes'
<1> SUFFICES ASSUME InferTypes, [InferenceNext]_inferenceVars PROVE InferTypes'
  OBVIOUS
<1>1. CASE LocalStep
  BY <1>1, TypesLocal
<1>4. CASE ChildFails
  BY <1>4 DEF ChildFails, InferTypes, snpeVars, childVars, socketVars
<1>2. CASE Infer
  BY <1>2 DEF Infer, InferTypes, snpeVars, socketVars
<1>3. CASE InferThrows
  BY <1>3 DEF InferThrows, InferTypes, snpeVars, socketVars
<1> QED
  BY <1>1, <1>2, <1>3, <1>4, TypesSend, TypesRecvAnswer, TypesServerRecv, TypesServerSend
     DEF InferenceNext, MainNext, ServerNext, PredictDlr, LocalStep

-----------------------------------------------------------------------------
(* The stream.                                                             *)

\* Units that all are of one lap make the frame when there are as many.
LEMMA IsFrame ==
    ASSUME NEW k, NEW units \in Seq({k}), Len(units) = FrameSize
    PROVE  units = [i \in 1 .. FrameSize |-> k]
<1>1. DOMAIN units = 1 .. FrameSize /\ \A i \in 1 .. FrameSize : units[i] = k
  BY Sizes
<1>2. units = [i \in 1 .. FrameSize |-> units[i]]
  BY <1>1
<1> QED
  BY <1>1, <1>2

\* While main() talks to its child both have what belongs to this lap.
LEMMA WholeWhileServed == ASSUME InferTypes, ChildServes PROVE Whole
<1> USE Sizes
<1>1. InpIsFrame => inp \in Seq({lap}) /\ Len(inp) = FrameSize
  BY DEF InpIsFrame, InferTypes
<1>2. up = <<>> => up \in Seq({lap}) /\ Len(up) = 0
  BY EmptySeq
<1>3. inp = <<>> => inp \in Seq({lap}) /\ Len(inp) = 0
  BY EmptySeq
<1>4. opBuf = <<>> => opBuf \in Seq({"seg", "mark"} \X {lap}) /\ Len(opBuf) <= AnswerSize
  BY EmptySeq
<1>5. CASE BetweenLaps
  BY <1>2, <1>3, <1>5 DEF BetweenLaps, ChildWaits, Whole, OfThisLap
<1>6. CASE Sending
  BY <1>4, <1>6 DEF Sending, Whole, OfThisLap, InferTypes
<1>7. CASE Waiting
  BY <1>1, <1>2, <1>4, <1>7 DEF Waiting, Whole, OfThisLap
<1>8. CASE Answering
  BY <1>1, <1>2, <1>8 DEF Answering, AnswerUnits, Whole, OfThisLap, InferTypes
<1>9. CASE AnswerSent
  <2>1. PICK d \in Nat, t \in Nat : d = Len(down) /\ t = total
    BY DEF InferTypes
  <2>2. t + d <= AnswerSize /\ Len(opBuf) = t
    BY <1>9, <2>1 DEF AnswerSent, AnswerUnits
  <2>3. Len(opBuf) <= AnswerSize
    BY <2>1, <2>2
  <2>4. /\ opBuf \in Seq({"seg", "mark"} \X {lap}) /\ srvTotal = 0 /\ inp = <<>> /\ up = <<>>
        /\ server \in {"closed", "recv"}
    BY <1>9 DEF AnswerSent, AnswerUnits, ChildWaits
  <2> QED
    BY <1>2, <1>3, <2>3, <2>4 DEF Whole, OfThisLap
<1> QED
  BY <1>5, <1>6, <1>7, <1>8, <1>9 DEF ChildServes

\* A step of main() alone begins or ends a lap, or has no child to talk to, or is
\* its last.
LEMMA StreamLocal == InferTypes /\ Attended /\ LocalStep => Attended' \/ Abandoned'
<1> SUFFICES ASSUME InferTypes, Attended, LocalStep
             PROVE  NoChild' \/ ChildServes' \/ Abandoned'
  BY DEF Attended
<1> USE Sizes
<1>b. NoChild \/ ChildServes
  BY DEF Attended
<1>1. CASE UNCHANGED inferenceVars \/ ServerStart
  <2>1. /\ UNCHANGED <<engine, client, lap, sees, server, frames, srvTotal, inp, reply>>
        /\ UNCHANGED <<total, opBuf, up, down>>
    BY <1>1 DEF inferenceVars, ServerStart, serverVars, childVars, socketVars
  <2>2. NoChild => NoChild'
    BY <2>1 DEF NoChild
  <2>3. /\ BetweenLaps => BetweenLaps'
        /\ Sending => Sending'
        /\ Waiting => Waiting'
    BY <2>1 DEF BetweenLaps, ChildWaits, Sending, Waiting, OfThisLap, InpIsFrame
  <2>4. /\ Answering => Answering'
        /\ AnswerSent => AnswerSent'
    BY <2>1 DEF Answering, AnswerSent, AnswerUnits, ChildWaits, InpIsFrame
  <2> QED
    BY <1>b, <2>1, <2>2, <2>3, <2>4 DEF ChildServes
<1>2. ASSUME NEW i \in {1, 2}, LoadModel(i) PROVE NoChild'
  BY <1>b, <1>2
     DEF LoadModel, NoChild, ChildServes, BetweenLaps, Sending, Waiting, Answering, AnswerSent,
         serverVars, childVars, socketVars
<1>3. CASE GetFd
  <2>1. NoChild /\ engine = "dlr" /\ lap = 0
    BY <1>b, <1>3 DEF GetFd, InferTypes, ChildServes, BetweenLaps, Sending, Waiting, Answering,
                      AnswerSent
  <2>2. /\ server' \in {"recv", "none"} /\ client' = "lap"
        /\ UNCHANGED <<engine, lap, frames, srvTotal, inp, up, down, opBuf>>
    BY <1>3 DEF GetFd, childVars, socketVars
  <2> QED
    BY <2>1, <2>2 DEF NoChild, ChildServes, BetweenLaps, ChildWaits
<1>4. CASE NextLap
  <2>1. /\ lap < Laps /\ lap' = lap + 1 /\ total' = 0 /\ opBuf' = <<>> /\ client = "lap"
        /\ client' = (IF engine = "snpe" THEN "predict" ELSE "send")
        /\ UNCHANGED <<engine, server, frames, srvTotal, inp, up, down>>
    BY <1>4 DEF NextLap, serverVars, childVars
  <2>2. CASE NoChild
    BY <2>1, <2>2 DEF NoChild
  <2>3. CASE ChildServes
    <3>1. BetweenLaps /\ engine = "dlr"
      BY <2>1, <2>3 DEF ChildServes, Sending, Waiting, Answering, AnswerSent
    <3>2. lap \in Nat /\ lap # Laps
      BY <2>1 DEF InferTypes
    <3>3. Sending'
      BY <2>1, <3>1, <3>2 DEF BetweenLaps, ChildWaits, Sending, OfThisLap
    <3> QED
      BY <2>1, <3>1, <3>3 DEF ChildServes
  <2> QED
    BY <1>b, <2>2, <2>3
<1>5. CASE LastLap
  <2>1. /\ client = "lap" /\ client' = "done"
        /\ UNCHANGED <<engine, lap, server, frames, srvTotal, inp, up, down, opBuf>>
    BY <1>5 DEF LastLap, serverVars, childVars, socketVars
  <2>2. CASE NoChild
    BY <2>1, <2>2 DEF NoChild
  <2>3. CASE ChildServes
    BY <2>1, <2>3
       DEF ChildServes, BetweenLaps, ChildWaits, Sending, Waiting, Answering, AnswerSent
  <2> QED
    BY <1>b, <2>2, <2>3
<1>6. CASE PredictSnpe
  <2>1. /\ client \in {"predict", "segment"} /\ client' \in {"crashed", "lap", "segment"}
        /\ UNCHANGED <<server, frames, srvTotal, inp, up, down, opBuf>>
    BY <1>6 DEF PredictSnpe, SnpeCrash, SnpeFails, Classify, Segment, Judge, serverVars,
                childVars, socketVars
  <2>2. NoChild
    BY <1>b, <2>1 DEF ChildServes, BetweenLaps, Sending, Waiting, Answering, AnswerSent
  <2> QED
    BY <2>1, <2>2 DEF NoChild
<1>7. CASE SocketFails
  <2>1. /\ server \in {"none", "closed", "dead"} /\ client' = "exited"
        /\ client = "send" \/ (client = "recv" /\ up # <<>>)
        /\ UNCHANGED <<server, frames, srvTotal, inp, up, down, opBuf>>
    BY <1>7 DEF SocketFails, Unconnected, serverVars, childVars, socketVars
  <2>2. NoChild
    BY <1>b, <2>1
       DEF ChildServes, BetweenLaps, ChildWaits, Sending, Waiting, Answering, AnswerSent
  <2> QED
    BY <2>1, <2>2 DEF NoChild
<1>8. CASE ClientLeaves
  <2>1. /\ client' = "exited"
        /\ UNCHANGED <<engine, lap, server, frames, srvTotal, inp, up, down, opBuf>>
    BY <1>8 DEF ClientLeaves, serverVars, childVars, socketVars
  <2>2. CASE NoChild
    BY <2>1, <2>2 DEF NoChild
  <2>3. CASE ChildServes
    <3>1. engine = "dlr" /\ Whole
      BY <2>3, WholeWhileServed DEF ChildServes
    <3>2. Whole'
      BY <2>1, <3>1 DEF Whole, OfThisLap, InpIsFrame
    <3> QED
      BY <2>1, <3>1, <3>2 DEF Abandoned
  <2> QED
    BY <1>b, <2>2, <2>3
<1> QED
  BY <1>1, <1>2, <1>3, <1>4, <1>5, <1>6, <1>7, <1>8 DEF LocalStep

\* main() sends a chunk: the frame stays whole, as its size is a multiple of it.
LEMMA StreamSend ==
    ASSUME InferTypes, Attended, NEW n \in 1 .. Chunk, SendFrame(n), ~short'
    PROVE  ChildServes'
<1> USE Sizes
<1>1. ~short /\ n = Chunk
  <2>1. short' = (short \/ n < Chunk)
    BY DEF SendFrame
  <2>2. ~short /\ ~(n < Chunk)
    BY <2>1
  <2> QED
    BY <2>2
<1>2. Sending /\ engine = "dlr"
  BY <1>1 DEF Attended, SendFrame, Unconnected, NoChild, ChildServes, BetweenLaps, Waiting,
              Answering, AnswerSent
<1>3. total \in Nat /\ total + Chunk <= FrameSize /\ ((total + Chunk) % Chunk) = 0
  BY <1>2, ChunkFits DEF Sending, InferTypes
<1> DEFINE f == [i \in 1 .. n |-> lap]
<1>4. n \in Nat /\ f \in [1 .. n -> {lap}]
  OBVIOUS
<1>5. f \in Seq({lap}) /\ Len(f) = Chunk
  <2>1. f \in Seq({lap}) /\ Len(f) = n
    BY <1>4, Sent
  <2> QED
    BY <1>1, <2>1
<1>6. up' = up \o f
  <2>1. \A i \in 1 .. n : total + i <= FrameSize
    BY <1>1, <1>3
  <2>2. [i \in 1 .. n |-> IF total + i <= FrameSize THEN lap ELSE 0] = f
    BY <2>1
  <2> QED
    BY <2>2 DEF SendFrame
<1> HIDE DEF f
<1>7. Len(up') = Len(up) + Chunk /\ up' \in Seq({lap})
  <2>1. up \in Seq({lap})
    BY <1>2 DEF Sending, OfThisLap
  <2> QED
    BY <1>5, <1>6, <2>1, Joined
<1>8. UNCHANGED <<engine, lap, sees, server, frames, srvTotal, inp, reply, opBuf, down>>
  BY DEF SendFrame, serverVars, childVars
<1>9. Len(inp) \in Nat /\ Len(up) \in Nat
  BY DEF InferTypes
<1>10. CASE total + n >= FrameSize
  <2>1. client' = "recv" /\ total' = 0
    BY <1>10 DEF SendFrame
  <2>2. total + Chunk = FrameSize
    BY <1>1, <1>3, <1>10
  <2>3. Waiting'
    BY <1>2, <1>3, <1>7, <1>8, <1>9, <2>1, <2>2 DEF Sending, Waiting, OfThisLap
  <2> QED
    BY <1>2, <1>8, <2>3 DEF ChildServes
<1>11. CASE ~(total + n >= FrameSize)
  <2>1. client' = client /\ total' = total + Chunk
    BY <1>1, <1>11 DEF SendFrame
  <2>2. Sending'
    BY SMTT(30), <1>1, <1>2, <1>3, <1>7, <1>8, <1>9, <1>11, <2>1 DEF Sending, OfThisLap
  <2> QED
    BY <1>2, <1>8, <2>2 DEF ChildServes
<1> QED
  BY <1>10, <1>11

\* The child receives units of the frame: it has counted to its end when the
\* frame was sent and nothing more is under way.
LEMMA StreamServerRecv ==
    ASSUME InferTypes, Attended, NEW n \in 1 .. Chunk, ServerRecv(n), ~short'
    PROVE  ChildServes'
<1> USE Sizes
<1>1. /\ ~short /\ n \in Nat /\ n >= 1 /\ n <= Len(up) /\ server = "recv"
      /\ inp' = inp \o SubSeq(up, 1, n) /\ up' = SubSeq(up, n + 1, Len(up))
      /\ UNCHANGED <<engine, client, lap, sees, frames, reply, total, opBuf, down>>
  BY DEF ServerRecv
<1>2. PICK a \in Nat, b \in Nat, t \in Nat : a = Len(inp) /\ b = Len(up) /\ t = total
  BY DEF InferTypes
<1>3. engine = "dlr" /\ (Sending \/ Waiting)
  <2>1. up # <<>>
    BY <1>1
  <2> QED
    BY <1>1, <2>1
       DEF Attended, NoChild, ChildServes, BetweenLaps, ChildWaits, Answering, AnswerSent
<1>4. /\ up \in Seq({lap}) /\ inp \in Seq({lap}) /\ srvTotal = a
      /\ Sending => a + b = t /\ t < FrameSize
      /\ ~Sending => a + b = FrameSize
  <2>1. CASE Sending
    BY <1>2, <2>1 DEF Sending, OfThisLap
  <2>2. CASE Waiting /\ ~Sending
    BY <1>1, <1>2, <2>2 DEF Waiting, OfThisLap
  <2> QED
    BY <1>3, <2>1, <2>2
<1>5. /\ up' \in Seq({lap}) /\ inp' \in Seq({lap}) /\ Len(up') = b - n /\ Len(inp') = a + n
  <2>1. /\ SubSeq(up, 1, n) \in Seq({lap}) /\ Len(SubSeq(up, 1, n)) = n
        /\ SubSeq(up, n + 1, Len(up)) \in Seq({lap})
        /\ Len(SubSeq(up, n + 1, Len(up))) = Len(up) - n
    BY SMTT(30), <1>1, <1>4, TakenOff
  <2>2. /\ inp \o SubSeq(up, 1, n) \in Seq({lap})
        /\ Len(inp \o SubSeq(up, 1, n)) = Len(inp) + Len(SubSeq(up, 1, n))
    BY <1>4, <2>1, Joined
  <2> QED
    BY <1>1, <1>2, <2>1, <2>2
<1>6. CASE srvTotal + n >= FrameSize
  <2>1. server' = "infer" /\ srvTotal' = 0
    BY <1>6 DEF ServerRecv
  <2>2. ~Sending /\ b = n /\ a + n = FrameSize
    <3>1. FrameSize \in Nat /\ n \in Nat /\ n <= b /\ a + n >= FrameSize
      BY <1>1, <1>2, <1>4, <1>6
    <3>2. ~Sending
      BY <1>2, <1>4, <3>1
    <3>3. a + b = FrameSize
      BY <1>4, <3>2
    <3> QED
      BY <1>2, <3>1, <3>2, <3>3
  <2>3. up' = <<>>
    <3>1. Len(up') = 0
      BY <1>5, <2>2
    <3> QED
      BY <1>5, <3>1
  <2>4. inp' = [i \in 1 .. FrameSize |-> lap]
    BY <1>5, <2>2, IsFrame
  <2>5. InpIsFrame'
    BY <1>1, <2>4 DEF InpIsFrame
  <2>6. Waiting'
    BY <1>1, <1>3, <2>1, <2>2, <2>3, <2>5 DEF Waiting
  <2> QED
    BY <1>1, <1>3, <2>6 DEF ChildServes
<1>7. CASE ~(srvTotal + n >= FrameSize)
  <2>1. server' = server /\ srvTotal' = a + n
    BY <1>4, <1>7 DEF ServerRecv
  <2>2. Len(inp') + Len(up') = a + b /\ srvTotal' = Len(inp') /\ Len(inp') < FrameSize
    <3>1. FrameSize \in Nat /\ n \in Nat /\ ~(a + n >= FrameSize)
      BY <1>1, <1>4, <1>7
    <3>2. a + n < FrameSize /\ (a + n) + (b - n) = a + b
      BY <1>2, <3>1
    <3> QED
      BY <1>5, <2>1, <3>2
  <2>3. OfThisLap(up)' /\ OfThisLap(inp)'
    BY <1>1, <1>5 DEF OfThisLap
  <2>4. Sending => Sending'
    BY <1>1, <1>2, <2>1, <2>2, <2>3 DEF Sending
  <2>5. Waiting => Waiting'
    BY <1>1, <1>2, <2>1, <2>2, <2>3 DEF Waiting
  <2> QED
    BY <1>1, <1>3, <2>4, <2>5 DEF ChildServes
<1> QED
  BY <1>6, <1>7

\* The child sends an answer, which is of this lap, as it has the frame of it.
LEMMA StreamServerSend ==
    ASSUME InferTypes, Attended, NEW n \in 1 .. Chunk, ServerSend(n), ~short'
    PROVE  ChildServes'
<1> USE Sizes
<1>1. server = "send" /\ UNCHANGED <<engine, client, lap, sees, reply, total, opBuf, up>>
  BY DEF ServerSend
<1>2. ~short
  <2>1. short' = short \/ short' = (short \/ n < Chunk)
    BY DEF ServerSend
  <2> QED
    BY <2>1 DEF InferTypes
<1>3. Answering /\ engine = "dlr"
  BY <1>1, <1>2
     DEF Attended, NoChild, ChildServes, BetweenLaps, ChildWaits, Sending, Waiting, AnswerSent
<1>4. PICK d \in Nat, t \in Nat, c \in Nat : d = Len(down) /\ t = total /\ c = srvTotal
  BY DEF InferTypes
<1>5. /\ client = "recv" /\ frames + 1 = lap /\ up = <<>> /\ InpIsFrame /\ reply \in {"seg", "mark"}
      /\ down \in Seq({<<reply, lap>>}) /\ t + d = c /\ c < AnswerSize /\ (c % Chunk) = 0
      /\ reply = "mark" => c = 0
  BY <1>3, <1>4 DEF Answering, AnswerUnits
<1> DEFINE g == [i \in 1 .. n |-> <<reply, frames + 1>>]
<1>6. down' = down \o g
  BY <1>5 DEF ServerSend
<1>7. n \in Nat /\ g \in Seq({<<reply, lap>>}) /\ Len(g) = n
  <2>1. n \in Nat /\ g \in [1 .. n -> {<<reply, lap>>}]
    BY <1>5
  <2> QED
    BY <2>1, Sent
<1> HIDE DEF g
<1>8. down' \in Seq({<<reply, lap>>}) /\ Len(down') = d + n
  BY <1>4, <1>5, <1>6, <1>7, Joined
<1>9. AnswerUnits'
  <2>1. down' \in Seq({<<reply', lap'>>})
    BY <1>1, <1>8
  <2> QED
    BY <1>1, <1>3, <2>1 DEF Answering, AnswerUnits
<1>10. ASSUME Answered, t + d + n = (IF reply = "mark" THEN MarkSize ELSE AnswerSize)
       PROVE  AnswerSent'
  <2>1. frames' = lap /\ srvTotal' = 0 /\ inp' = <<>>
        /\ server' = (IF lap = Laps THEN "closed" ELSE "recv")
    BY <1>5, <1>10 DEF Answered, IsLastFrame
  <2>2. ChildWaits'
    BY <1>1, <1>5, <2>1 DEF ChildWaits
  <2>3. total' + Len(down') = (IF reply' = "mark" THEN MarkSize ELSE AnswerSize)
    <3>1. t + (d + n) = t + d + n
      BY <1>4, <1>7
    <3> QED
      BY <1>1, <1>4, <1>8, <1>10, <3>1
  <2> QED
    BY <1>1, <1>5, <1>9, <2>2, <2>3 DEF AnswerSent
<1>11. CASE reply = "mark"
  <2>1. n = MarkSize /\ Answered
    BY <1>11 DEF ServerSend
  <2>2. t + d + n = MarkSize
    BY <1>4, <1>5, <1>7, <1>11, <2>1
  <2> QED
    BY <1>1, <1>3, <1>10, <1>11, <2>1, <2>2 DEF ChildServes
<1>12. CASE reply # "mark"
  <2>1. n = Chunk
    <3>1. short' = (short \/ n < Chunk)
      BY <1>12 DEF ServerSend
    <3>2. ~(n < Chunk)
      BY <3>1
    <3> QED
      BY <3>2
  <2>2. c + Chunk <= AnswerSize /\ ((c + Chunk) % Chunk) = 0
    BY <1>4, <1>5, ChunkFits
  <2>3. CASE srvTotal + n >= AnswerSize
    <3>1. Answered
      BY <1>12, <2>3 DEF ServerSend
    <3>2. t + d + n = AnswerSize
      <4>1. t + d = c
        BY <1>5
      <4>2. c + Chunk <= AnswerSize /\ c + Chunk >= AnswerSize
        BY <1>4, <2>1, <2>2, <2>3
      <4>3. AnswerSize \in Nat /\ Chunk \in Nat
        OBVIOUS
      <4> QED
        BY <1>4, <2>1, <4>1, <4>2, <4>3
    <3> QED
      BY <1>1, <1>3, <1>10, <1>12, <3>1, <3>2 DEF ChildServes
  <2>4. CASE ~(srvTotal + n >= AnswerSize)
    <3>1. srvTotal' = c + Chunk /\ UNCHANGED <<frames, inp, server>>
      BY <1>4, <1>12, <2>1, <2>4 DEF ServerSend
    <3>2. total' + Len(down') = srvTotal' /\ srvTotal' < AnswerSize
      <4>1. t + (d + n) = c + Chunk
        <5>1. t + d = c /\ n = Chunk /\ Chunk \in Nat
          BY <1>5, <2>1
        <5> QED
          BY <1>4, <5>1
      <4>2. c + Chunk < AnswerSize
        BY <1>4, <2>1, <2>4
      <4> QED
        BY <1>1, <1>4, <1>8, <3>1, <4>1, <4>2
    <3>3. InpIsFrame'
      BY <1>1, <1>5, <3>1 DEF InpIsFrame
    <3>4. Answering'
      BY <1>1, <1>5, <1>9, <1>12, <2>2, <3>1, <3>2, <3>3 DEF Answering
    <3> QED
      BY <1>1, <1>3, <3>4 DEF ChildServes
  <2> QED
    BY <2>3, <2>4
<1> QED
  BY <1>11, <1>12

\* main() receives some of the answer of its lap: while the child still sends it
\* cannot be complete, and when it is complete nothing more is under way.
LEMMA StreamRecvAnswer ==
    ASSUME InferTypes, Attended, NEW n \in 1 .. Chunk, RecvAnswer(n), ~short'
    PROVE  ChildServes' /\ (client' = "lap" /\ verdict' = "forward" => sees = "nothing")
<1> USE Sizes
<1> DEFINE units == SubSeq(down, 1, n)
<1>1. /\ ~short /\ n \in Nat \ {0} /\ n <= Len(down) /\ client = "recv"
      /\ opBuf' = opBuf \o units /\ down' = SubSeq(down, n + 1, Len(down))
      /\ UNCHANGED <<engine, lap, sees, server, frames, srvTotal, inp, reply, up>>
  BY DEF RecvAnswer, serverVars, childVars
<1>2. \/ IsMark(units) /\ Judge("forward") /\ total' = total
      \/ /\ ~IsMark(units) /\ total' = total + n
         /\ IF total + n >= AnswerSize THEN Judge("look") ELSE UNCHANGED <<client, verdict>>
  BY DEF RecvAnswer
<1>3. PICK d \in Nat, t \in Nat, c \in Nat : d = Len(down) /\ t = total /\ c = srvTotal
  BY DEF InferTypes
<1>4. engine = "dlr" /\ (Answering \/ AnswerSent)
  <2>1. down # <<>>
    BY <1>1
  <2> QED
    BY <1>1, <2>1 DEF Attended, NoChild, ChildServes, BetweenLaps, Sending, Waiting
<1>5. /\ reply \in {"seg", "mark"} /\ (reply = "mark" => sees = "nothing")
      /\ down \in Seq({<<reply, lap>>}) /\ opBuf \in Seq({"seg", "mark"} \X {lap})
      /\ Len(opBuf) = t
  BY <1>3, <1>4 DEF Answering, AnswerSent, AnswerUnits
<1>6. /\ units \in Seq({<<reply, lap>>}) /\ Len(units) = n
      /\ down' \in Seq({<<reply, lap>>}) /\ Len(down') = d - n
      /\ units[1] = <<reply, lap>>
  <2>1. n \in Nat /\ n <= Len(down) /\ down \in Seq({<<reply, lap>>})
    BY <1>1, <1>5
  <2>2. /\ units \in Seq({<<reply, lap>>}) /\ Len(units) = n
        /\ SubSeq(down, n + 1, Len(down)) \in Seq({<<reply, lap>>})
        /\ Len(SubSeq(down, n + 1, Len(down))) = Len(down) - n
    BY <2>1, TakenOff
  <2>3. units[1] = <<reply, lap>>
    BY <1>1, <2>2
  <2> QED
    BY <1>1, <1>3, <2>2, <2>3
<1> HIDE DEF units
<1>7. opBuf' \in Seq({"seg", "mark"} \X {lap}) /\ Len(opBuf') = t + n
  <2>1. units \in Seq({"seg", "mark"} \X {lap})
    <3>1. <<reply, lap>> \in {"seg", "mark"} \X {lap}
      BY <1>5
    <3>2. Len(units) \in Nat /\ units \in [1 .. Len(units) -> {"seg", "mark"} \X {lap}]
      BY <1>6, <3>1
    <3> QED
      BY <3>2
  <2> QED
    BY <1>1, <1>5, <1>6, <2>1, Joined
<1>8. IsMark(units) => reply = "mark" /\ t = 0 /\ MarkSize <= n
  <2> SUFFICES ASSUME IsMark(units) PROVE reply = "mark" /\ t = 0 /\ MarkSize <= n
    OBVIOUS
  <2>1. t = 0 /\ \A i \in 1 .. MarkSize : i <= n /\ units[i][1] = "mark"
    BY <1>3, <1>6 DEF IsMark, Mark
  <2>2. 1 \in 1 .. MarkSize /\ MarkSize \in 1 .. MarkSize
    OBVIOUS
  <2>3. units[1][1] = "mark" /\ MarkSize <= n
    BY <2>1, <2>2
  <2>4. units[1][1] = reply
    BY <1>6
  <2> QED
    BY <2>1, <2>3, <2>4
<1>9. client' = "lap" /\ verdict' = "forward" => sees = "nothing"
  BY <1>1, <1>2, <1>5, <1>8 DEF Judge
<1>10. AnswerUnits' <=> Len(opBuf') = total'
  <2>1. down' \in Seq({<<reply', lap'>>}) /\ opBuf' \in Seq({"seg", "mark"} \X {lap'})
    BY <1>1, <1>6, <1>7
  <2> QED
    BY <1>1, <1>5, <2>1 DEF AnswerUnits
<1>11. CASE Answering
  <2>1. /\ server = "send" /\ frames + 1 = lap /\ up = <<>> /\ InpIsFrame
        /\ t + d = c /\ c < AnswerSize /\ (c % Chunk) = 0 /\ (reply = "mark" => c = 0)
    BY <1>3, <1>11 DEF Answering
  <2>2. n <= d /\ t + n < AnswerSize /\ reply # "mark"
    BY <1>1, <1>3, <2>1
  <2>3. total' = t + n /\ UNCHANGED <<client, verdict>>
    <3>1. ~(total + n >= AnswerSize) /\ ~IsMark(units)
      BY <1>1, <1>3, <1>8, <2>2
    <3> QED
      BY <1>2, <1>3, <3>1
  <2>4. total' + Len(down') = srvTotal'
    <3>1. (t + n) + (d - n) = c
      <4>1. t + d = c /\ n \in Nat
        BY <1>1, <2>1
      <4> QED
        BY <1>3, <4>1
    <3> QED
      BY <1>1, <1>3, <1>6, <2>3, <3>1
  <2>5. InpIsFrame'
    BY <1>1, <2>1 DEF InpIsFrame
  <2>6. AnswerUnits'
    BY <1>7, <1>10, <2>3
  <2>7. Answering'
    BY <1>1, <1>3, <2>1, <2>3, <2>4, <2>5, <2>6 DEF Answering
  <2> QED
    BY <1>1, <1>4, <1>9, <2>7 DEF ChildServes
<1>12. CASE AnswerSent
  <2>1. ChildWaits /\ t + d = (IF reply = "mark" THEN MarkSize ELSE AnswerSize)
    BY <1>3, <1>12 DEF AnswerSent
  <2>2. ChildWaits'
    BY <1>1, <2>1 DEF ChildWaits
  <2>3. n <= d /\ t + d <= AnswerSize /\ t + n <= AnswerSize
    BY <1>1, <1>3, <2>1
  <2>4. ASSUME d = n, client' = "lap" PROVE BetweenLaps'
    <3>1. Len(down') = 0
      BY <1>3, <1>6, <2>4
    <3>2. down' = <<>>
      BY <1>6, <3>1
    <3>3. Len(opBuf') <= AnswerSize
      BY <1>7, <2>3
    <3> QED
      BY <1>1, <1>7, <2>2, <2>4, <3>2, <3>3 DEF BetweenLaps
  <2>5. CASE IsMark(units)
    <3>1. d = n
      BY <1>1, <1>3, <1>8, <2>1, <2>3, <2>5
    <3> QED
      BY <1>1, <1>2, <1>4, <1>9, <2>4, <2>5, <3>1 DEF Judge, ChildServes
  <2>6. CASE ~IsMark(units) /\ total + n >= AnswerSize
    <3>1. d = n
      BY <1>1, <1>3, <2>3, <2>6
    <3> QED
      BY <1>1, <1>2, <1>4, <1>9, <2>4, <2>6, <3>1 DEF Judge, ChildServes
  <2>7. CASE ~IsMark(units) /\ ~(total + n >= AnswerSize)
    <3>1. total' = t + n /\ client' = client
      BY <1>2, <1>3, <2>7
    <3>2. total' + Len(down') = (IF reply' = "mark" THEN MarkSize ELSE AnswerSize)
      <4>1. (t + n) + (d - n) = t + d
        BY <1>1, <1>3
      <4> QED
        BY <1>1, <1>6, <2>1, <3>1, <4>1
    <3>3. AnswerUnits'
      BY <1>7, <1>10, <3>1
    <3>4. AnswerSent'
      BY <1>1, <2>2, <3>1, <3>2, <3>3 DEF AnswerSent
    <3> QED
      BY <1>1, <1>4, <1>9, <3>4 DEF ChildServes
  <2> QED
    BY <2>5, <2>6, <2>7
<1> QED
  BY <1>4, <1>11, <1>12

\* The child infers from the frame of this lap.
LEMMA StreamInfer ==
    ASSUME InferTypes, Attended, Infer \/ InferThrows, ~short'
    PROVE  ChildServes'
<1> USE Sizes
<1>1. /\ ~short /\ server = "infer"
      /\ UNCHANGED <<engine, client, lap, sees, frames, srvTotal, inp, total, opBuf, up, down>>
  BY DEF Infer, InferThrows, snpeVars, socketVars
<1>2. engine = "dlr" /\ Waiting
  BY <1>1
     DEF Attended, NoChild, ChildServes, BetweenLaps, ChildWaits, Sending, Answering, AnswerSent
<1>3. /\ client = "recv" /\ frames + 1 = lap /\ total = 0 /\ down = <<>> /\ opBuf = <<>>
      /\ up = <<>> /\ srvTotal = 0 /\ InpIsFrame
  BY <1>1, <1>2 DEF Waiting
<1>4. InpIsFrame'
  BY <1>1, <1>3 DEF InpIsFrame
<1>5. CASE InferThrows
  <2>1. Waiting'
    BY <1>1, <1>3, <1>4, <1>5 DEF InferThrows, Waiting
  <2> QED
    BY <1>1, <1>2, <2>1 DEF ChildServes
<1>6. CASE Infer
  <2>1. server' = "send" /\ reply' = (IF sees = "object" THEN "seg" ELSE "mark")
    BY <1>3, <1>6 DEF Infer
  <2>2. reply' \in {"seg", "mark"} /\ (reply' = "mark" => sees' = "nothing")
    BY <1>1, <2>1 DEF InferTypes
  <2>3. AnswerUnits'
    <3>1. Len(opBuf') = total'
      BY <1>1, <1>3
    <3>2. down' \in Seq({<<reply', lap'>>}) /\ opBuf' \in Seq({"seg", "mark"} \X {lap'})
      BY <1>1, <1>3, EmptySeq
    <3> QED
      BY <2>2, <3>1, <3>2 DEF AnswerUnits
  <2>4. total' + Len(down') = srvTotal' /\ srvTotal' < AnswerSize
    BY <1>1, <1>3
  <2>5. Answering'
    BY <1>1, <1>3, <1>4, <2>1, <2>3, <2>4 DEF Answering
  <2> QED
    BY <1>1, <1>2, <2>5 DEF ChildServes
<1> QED
  BY <1>5, <1>6

\* When main() has left the child receives what is left of the frame, infers
\* from it and answers, or ends.
LEMMA StreamAbandoned ==
    ASSUME InferTypes, Abandoned, [InferenceNext]_inferenceVars
    PROVE  Abandoned'
<1> USE Sizes
<1>1. engine = "dlr" /\ client = "exited" /\ Whole
  BY DEF Abandoned
<1>3. CASE UNCHANGED <<engine, client, lap, opBuf, up, inp, server, srvTotal>>
  BY <1>1, <1>3 DEF Abandoned, Whole, OfThisLap, InpIsFrame
<1>4. CASE Infer \/ InferThrows \/ ChildFails
  <2>1. /\ UNCHANGED <<engine, client, lap, opBuf, up, inp, srvTotal>>
        /\ server' = "dead" \/ (server' = "send" /\ server = "infer")
    BY <1>4 DEF Infer, InferThrows, ChildFails, childVars, socketVars
  <2> QED
    BY <1>1, <2>1 DEF Abandoned, Whole, OfThisLap, InpIsFrame
<1>5. ASSUME NEW n \in 1 .. Chunk, ServerRecv(n) PROVE Abandoned'
  <2>1. /\ n \in Nat /\ n <= Len(up) /\ srvTotal = Len(inp)
        /\ inp' = inp \o SubSeq(up, 1, n) /\ up' = SubSeq(up, n + 1, Len(up))
        /\ UNCHANGED <<engine, client, lap, opBuf>>
        /\ IF srvTotal + n >= FrameSize THEN server' = "infer"
                                        ELSE server' = "recv" /\ srvTotal' = srvTotal + n
    BY <1>1, <1>5 DEF ServerRecv, Whole
  <2>2. PICK a \in Nat, b \in Nat : a = Len(inp) /\ b = Len(up)
    BY DEF InferTypes
  <2>3. up \in Seq({lap}) /\ inp \in Seq({lap}) /\ a + b <= FrameSize
    BY <1>1, <2>2 DEF Whole, OfThisLap
  <2>4. /\ SubSeq(up, 1, n) \in Seq({lap}) /\ Len(SubSeq(up, 1, n)) = n
        /\ up' \in Seq({lap}) /\ Len(up') = b - n
    BY SMTT(30), <2>1, <2>2, <2>3, TakenOff
  <2>5. inp' \in Seq({lap}) /\ Len(inp') = a + n
    BY <2>1, <2>2, <2>3, <2>4, Joined
  <2>6. Len(inp') + Len(up') <= FrameSize
    BY <2>2, <2>3, <2>4, <2>5
  <2>7. server' = "infer" => InpIsFrame'
    <3>1. server' = "infer" => Len(inp') = FrameSize
      <4>1. server' = "infer" => a + n >= FrameSize
        BY <2>1, <2>2
      <4>2. n <= b /\ a + b <= FrameSize
        BY <2>1, <2>2, <2>3
      <4>3. a + n <= FrameSize
        BY <2>1, <4>2
      <4> QED
        BY <2>1, <2>5, <4>1, <4>3
    <3>2. server' = "infer" => inp' = [i \in 1 .. FrameSize |-> lap]
      BY <2>5, <3>1, IsFrame
    <3> QED
      BY <2>1, <3>2 DEF InpIsFrame
  <2>8. server' = "recv" => srvTotal' = Len(inp')
    BY <2>1, <2>2, <2>5
  <2> QED
    BY <1>1, <2>1, <2>4, <2>5, <2>6, <2>7, <2>8 DEF Abandoned, Whole, OfThisLap
<1>6. ASSUME NEW n \in 1 .. Chunk, ServerSend(n) PROVE Abandoned'
  <2>1. server = "send" /\ UNCHANGED <<engine, client, lap, opBuf, up>>
    BY <1>6 DEF ServerSend
  <2>2. CASE UNCHANGED <<inp, server>>
    BY <1>1, <2>1, <2>2 DEF Abandoned, Whole, OfThisLap, InpIsFrame
  <2>3. CASE Answered
    <3>1. inp' = <<>> /\ srvTotal' = 0 /\ server' \in {"closed", "recv"}
      BY <2>3 DEF Answered
    <3>2. inp' \in Seq({lap}) /\ Len(inp') = 0 /\ Len(up) <= FrameSize
      <4>1. inp' \in Seq({lap}) /\ Len(inp') = 0
        BY <3>1, EmptySeq
      <4>2. Len(inp) \in Nat /\ Len(up) \in Nat
        BY DEF InferTypes
      <4> QED
        BY <1>1, <4>1, <4>2 DEF Whole
    <3>3. Len(inp') + Len(up') <= FrameSize
      BY <2>1, <3>2 DEF InferTypes
    <3> QED
      BY <1>1, <2>1, <3>1, <3>2, <3>3 DEF Abandoned, Whole, OfThisLap
  <2> QED
    BY <1>6, <2>2, <2>3 DEF ServerSend
<1>7. ~MainNext /\ ~ClientLeaves
  BY <1>1
     DEF MainNext, LoadModel, GetFd, NextLap, LastLap, PredictSnpe, SnpeCrash, SnpeFails, Classify,
         Segment, PredictDlr, SocketFails, SendFrame, RecvAnswer, ClientLeaves
<1>8. CASE ServerStart \/ UNCHANGED inferenceVars
  BY <1>3, <1>8 DEF ServerStart, inferenceVars, serverVars, childVars, socketVars
<1> QED
  BY <1>4, <1>5, <1>6, <1>7, <1>8 DEF InferenceNext, ServerNext

\* The child fails only when main() has left.
LEMMA FailsAbandoned == ASSUME Attended, ChildFails PROVE FALSE
BY DEF Attended, ChildFails, Left, NoChild, ChildServes, BetweenLaps, Sending, Waiting, Answering,
       AnswerSent

\* A send that was cut short is not forgotten.
LEMMA ShortStays == InferTypes /\ short /\ [InferenceNext]_inferenceVars => short'
<1> SUFFICES ASSUME short, [InferenceNext]_inferenceVars PROVE short'
  OBVIOUS
<1>1. ASSUME NEW n \in 1 .. Chunk,
             SendFrame(n) \/ RecvAnswer(n) \/ ServerRecv(n) \/ ServerSend(n)
      PROVE  short'
  BY <1>1 DEF SendFrame, RecvAnswer, ServerRecv, ServerSend
<1>2. CASE LocalStep \/ Infer \/ InferThrows \/ ChildFails
  BY <1>2 DEF LocalStep, LoadModel, ServerStart, GetFd, NextLap, LastLap, PredictSnpe, SnpeCrash,
              SnpeFails, Classify, Segment, SocketFails, ClientLeaves, inferenceVars, socketVars,
              Infer, InferThrows, ChildFails
<1> QED
  BY <1>1, <1>2 DEF InferenceNext, MainNext, ServerNext, PredictDlr, LocalStep

\* Every step keeps both ends of the stream together.
LEMMA StreamStep == InferTypes /\ StreamInv /\ [InferenceNext]_inferenceVars => StreamInv'
<1> SUFFICES ASSUME InferTypes, StreamInv, [InferenceNext]_inferenceVars, ~short'
             PROVE  Attended' \/ Abandoned'
  BY DEF StreamInv
<1>1. Attended \/ Abandoned
  BY ShortStays DEF StreamInv
<1>2. CASE Abandoned
  BY <1>2, StreamAbandoned
<1>3. CASE Attended
  <2>1. CASE LocalStep
    BY <1>3, <2>1, StreamLocal
  <2>2. CASE Infer \/ InferThrows
    BY <1>3, <2>2, StreamInfer DEF Attended
  <2>3. ASSUME NEW n \in 1 .. Chunk,
               SendFrame(n) \/ RecvAnswer(n) \/ ServerRecv(n) \/ ServerSend(n)
        PROVE  ChildServes'
    BY <1>3, <2>3, StreamSend, StreamRecvAnswer, StreamServerRecv, StreamServerSend
  <2>4. ~ChildFails
    BY <1>3, FailsAbandoned
  <2> QED
    BY <2>1, <2>2, <2>3, <2>4
       DEF InferenceNext, MainNext, ServerNext, PredictDlr, LocalStep, Attended
<1> QED
  BY <1>1, <1>2, <1>3

-----------------------------------------------------------------------------
(* What main() takes for "no object".                                      *)

\* Every step that makes main() go on to the next lap knows why it goes forward.
LEMMA ForwardStep ==
    InferTypes /\ StreamInv /\ ForwardIsKnown /\ [InferenceNext]_inferenceVars => ForwardIsKnown'
<1> SUFFICES ASSUME InferTypes, StreamInv, ForwardIsKnown, [InferenceNext]_inferenceVars,
                    client' = "lap", verdict' = "forward", lap' > 0, ~short'
             PROVE  sees' = "nothing" \/ failed'
  BY DEF ForwardIsKnown
<1>1. CASE client = "lap" /\ UNCHANGED <<verdict, lap, sees, failed>>
  BY <1>1, ShortStays DEF ForwardIsKnown
<1>2. ASSUME NEW n \in 1 .. Chunk,
             SendFrame(n) \/ RecvAnswer(n) \/ ServerRecv(n) \/ ServerSend(n)
      PROVE  sees' = "nothing" \/ failed'
  <2>1. CASE SendFrame(n)
    BY <2>1 DEF SendFrame
  <2>2. CASE ServerRecv(n)
    <3>1. UNCHANGED <<client, verdict, lap, sees, failed>>
      BY <2>2 DEF ServerRecv, snpeVars
    <3> QED
      BY <1>1, <3>1
  <2>3. CASE ServerSend(n)
    <3>1. UNCHANGED <<client, verdict, lap, sees, failed>>
      BY <2>3 DEF ServerSend, snpeVars
    <3> QED
      BY <1>1, <3>1
  <2>4. CASE RecvAnswer(n)
    <3>1. ~short /\ Attended
      BY <2>4 DEF RecvAnswer, StreamInv, Abandoned
    <3>2. sees = "nothing" /\ sees' = sees
      BY <2>4, <3>1, StreamRecvAnswer DEF RecvAnswer
    <3> QED
      BY <3>2
  <2> QED
    BY <1>2, <2>1, <2>2, <2>3, <2>4
<1>3. CASE Infer \/ InferThrows \/ ChildFails \/ UNCHANGED inferenceVars \/ ServerStart
  <2>1. UNCHANGED <<client, verdict, lap, sees, failed>>
    BY <1>3 DEF Infer, InferThrows, ChildFails, inferenceVars, ServerStart, snpeVars
  <2> QED
    BY <1>1, <2>1
<1>4. ASSUME NEW i \in {1, 2}, LoadModel(i) PROVE FALSE
  BY <1>4 DEF LoadModel
<1>5. CASE GetFd
  BY <1>5 DEF GetFd, InferTypes
<1>6. CASE NextLap \/ LastLap \/ SocketFails \/ ClientLeaves
  BY <1>6 DEF NextLap, LastLap, SocketFails, ClientLeaves
<1>7. CASE PredictSnpe
  BY <1>7 DEF PredictSnpe, SnpeCrash, SnpeFails, Classify, Segment, Judge
<1> QED
  BY <1>2, <1>3, <1>4, <1>5, <1>6, <1>7 DEF InferenceNext, MainNext, ServerNext, PredictDlr

\* main() starts and the server does, and nothing is under way.
LEMMA InferInit == InferenceInit => InferInv
<1> SUFFICES ASSUME InferenceInit PROVE InferInv
  OBVIOUS
<1>1. InferTypes
  <2>1. up \in Seq(Nat) /\ inp \in Seq(Nat) /\ down \in Seq(Units) /\ opBuf \in Seq(Units)
    BY EmptySeq DEF InferenceInit
  <2>2. lap \in 0 .. Laps /\ frames \in Nat /\ total \in Nat /\ srvTotal \in Nat
    BY Sizes DEF InferenceInit
  <2> QED
    BY <2>1, <2>2 DEF InferenceInit, InferTypes
<1>2. StreamInv
  BY DEF InferenceInit, StreamInv, Attended, NoChild
<1>3. ForwardIsKnown
  BY DEF InferenceInit, ForwardIsKnown
<1> QED
  BY <1>1, <1>2, <1>3 DEF InferInv

\* The inductive invariant of the inference.
THEOREM InferenceInvariant == InferenceSpec => []InferInv
<1>1. InferInv /\ [InferenceNext]_inferenceVars => InferInv'
  BY TypesStep, StreamStep, ForwardStep DEF InferInv
<1> QED
  BY InferInit, <1>1, PTL DEF InferenceSpec

\* Client and server agree where every frame and answer ends, unless a send was
\* cut short.
THEOREM FramesStayAligned == InferenceSpec => []FramesAligned
<1>1. InferInv => FramesAligned
  <2> SUFFICES ASSUME InferInv, ~short
               PROVE  /\ server \in {"infer", "send"} /\ inp # <<>> => InpIsFrame
                      /\ Len(opBuf) <= AnswerSize /\ Len(inp) <= FrameSize
                      /\ \A i \in DOMAIN opBuf : opBuf[i][2] = lap
    BY DEF FramesAligned
  <2> USE Sizes
  <2>1. NoChild \/ Whole
    BY WholeWhileServed DEF InferInv, StreamInv, Attended, Abandoned
  <2>2. server \in {"infer", "send"} => InpIsFrame
    BY <2>1 DEF NoChild, Whole
  <2>3. Len(opBuf) <= AnswerSize
    BY <2>1 DEF NoChild, Whole
  <2>4. Len(inp) <= FrameSize
    BY <2>1 DEF NoChild, Whole, InferInv, InferTypes
  <2>5. opBuf \in Seq({"seg", "mark"} \X {lap})
    BY <2>1, EmptySeq DEF NoChild, Whole
  <2>6. \A i \in DOMAIN opBuf : opBuf[i][2] = lap
    BY <2>5
  <2> QED
    BY <2>2, <2>3, <2>4, <2>6
<1> QED
  BY <1>1, InferenceInvariant, PTL

\* main() sends the bot forward without a look at the depth image only if there
\* is no object, a model could not be executed, or a send was cut short.
THEOREM ForwardsAreKnown == InferenceSpec => []ForwardIsKnown
<1>1. InferInv => ForwardIsKnown
  BY DEF InferInv
<1> QED
  BY <1>1, InferenceInvariant, PTL

=============================================================================
