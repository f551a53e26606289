-------------------------- MODULE FrameLoopProofs --------------------------
(***************************************************************************)
(* Proofs about FrameLoop for every number of laps.  main, the preview's   *)
(* thread and the TOF camera's thread share their counters and pointers    *)
(* without a lock, so what keeps them apart is how far each order has been *)
(* served: ImageInv and DepthInv say it for every position of main.        *)
(***************************************************************************)
EXTENDS FrameLoopHandOver, TLAPS

-----------------------------------------------------------------------------
(* The inductive invariant.                                                *)

\* How far the preview's thread is with the one frame that main ordered.
ImageOnItsWay ==
    \/ Live("preview") = {} /\ orders["preview"] = 1 /\ thread["preview"] = "idle"
    \/ OneFrame("preview", "raw") /\ orders["preview"] = 1 /\ thread["preview"] = "fill"
    \/ OneFrame("preview", "full") /\ orders["preview"] = 1 /\ thread["preview"] = "load"
    \/ /\ OneFrame("preview", "full") /\ orders["preview"] = 1 /\ thread["preview"] = "store"
       /\ subtrahend["preview"] = 1
    \/ OneFrame("preview", "full") /\ orders["preview"] = 0 /\ thread["preview"] = "signal"
    \/ There("preview")

ImageInv ==
    /\ pc \in {"lock", "orderImage", "infer", "copyDepth", "getBbox", "decide", "quit"}
           => Nothing("preview")
    /\ pc \in {"loadTof", "storeTof", "beginWait", "wait"} => ImageOnItsWay
    /\ pc \in {"copyImage", "freeImage"} => There("preview")
    /\ signalled => pc = "wait" /\ There("preview")

\* How far the TOF camera's thread is: it counts first and copies after.
DepthOnItsWay ==
    \/ Live("tof") = {} /\ orders["tof"] = 1 /\ thread["tof"] \in {"idle", "load"}
    \/ /\ Live("tof") = {} /\ orders["tof"] = 1 /\ thread["tof"] = "store"
       /\ subtrahend["tof"] = 1
    \/ Live("tof") = {} /\ orders["tof"] = 0 /\ thread["tof"] = "allocate"
    \/ OneFrame("tof", "raw") /\ orders["tof"] = 0 /\ thread["tof"] = "fill"
    \/ There("tof")

\* In time, nothing the TOF camera's thread does meets main's use of its frame.
DepthInv ==
    tofTimely =>
        /\ pc \in {"lock", "orderImage", "loadTof", "storeTof", "quit"} => Nothing("tof")
        /\ pc = "storeTof" => addend = 0
        /\ pc \in {"beginWait", "wait"} => DepthOnItsWay
        /\ pc \in {"copyImage", "freeImage", "infer", "copyDepth", "getBbox", "decide"}
               => There("tof")
        /\ pc \in {"copyDepth", "getBbox", "decide"} => depthImage = data["tof"]
        /\ fault = "none"

\* A thread only takes from a count it saw above zero: no count goes negative.
CountsOK ==
    /\ thread["preview"] = "fill" => orders["preview"] > 0
    /\ \A c \in Cameras : /\ thread[c] = "load" => orders[c] > 0
                          /\ thread[c] = "store" => subtrahend[c] > 0

TypeInv == TypeOK /\ CountsOK

LoopInv == TypeInv /\ ImageInv /\ DepthInv

-----------------------------------------------------------------------------
(* Types.                                                                  *)

\* A frame is a positive number, so no frame is taken for a null or a wild
\* pointer.
LEMMA FramesArePositive == Frames \subseteq Nat /\ Null \notin Frames /\ Wild \notin Frames
<1>1. Laps * Laps \in Nat
  BY LoopAssumption
<1> QED
  BY <1>1 DEF Frames, Null, Wild

\* Freeing a pointer leaves every frame but the one it names as it was.
LEMMA FreedType ==
    ASSUME TypeOK, NEW c \in Cameras, NEW p \in Frames \cup {Null, Wild}
    PROVE  /\ Freed(c, p) \in [Cameras -> [Frames -> {"unused", "raw", "full", "freed"}]]
           /\ \A d \in Cameras : d # c => Freed(c, p)[d] = heap[d]
           /\ FreeFault(c, p) \in {"none", "doubleFree"}
           /\ ReadFault(c, p) \in {"none", "readUninitialised", "readDangling"}
BY DEF TypeOK, Freed, FreeFault, ReadFault

LEMMA TypeInit == Init => TypeInv
<1> SUFFICES ASSUME Init PROVE TypeInv
  OBVIOUS
<1>1. lap \in 0 .. Laps
  BY LoopAssumption DEF Init
<1>2. orders \in [Cameras -> Nat] /\ addend \in Nat /\ subtrahend \in [Cameras -> Nat]
  BY DEF Init
<1>3. data \in [Cameras -> Frames \cup {Null, Wild}]
  BY DEF Init
<1>4. /\ thread \in [Cameras -> {"idle", "allocate", "fill", "load", "store", "signal"}]
      /\ heap \in [Cameras -> [Frames -> {"unused", "raw", "full", "freed"}]]
  BY DEF Init
<1>5. CountsOK
  BY DEF Init, CountsOK, Cameras
<1>6. lock \in BOOLEAN /\ signalled \in BOOLEAN /\ lostSignal \in BOOLEAN
  BY DEF Init
<1> QED
  BY <1>1, <1>2, <1>3, <1>4, <1>5, <1>6 DEF Init, TypeInv, TypeOK

\* Every step of main keeps the types; it never takes from a count.
LEMMA MainType == TypeInv /\ Main /\ UNCHANGED tofTimely => TypeInv'
<1> SUFFICES ASSUME TypeInv, Main, UNCHANGED tofTimely PROVE TypeInv'
  OBVIOUS
<1> USE DEF TypeInv, TypeOK, CountsOK
<1>1. \A c \in Cameras : data[c] \in Frames \cup {Null, Wild}
  OBVIOUS
<1>2. "preview" \in Cameras /\ "tof" \in Cameras
  BY DEF Cameras
<1>3. ASSUME NEW cmd \in {"none", "stop", "forward", "bypass"}, EndLap(cmd)
      PROVE  TypeInv'
  BY <1>1, <1>2, <1>3, FreedType DEF EndLap
<1>4. CASE LockLap
  <2>1. lap' \in 0 .. Laps
    BY <1>4, LoopAssumption DEF LockLap
  <2> QED
    BY <1>4, <2>1 DEF LockLap
<1>5. CASE OrderImage
  BY <1>2, <1>5 DEF OrderImage
<1>6. CASE OrderTofLoad
  BY <1>6, <1>2 DEF OrderTofLoad
<1>7. CASE OrderTofStore
  BY <1>2, <1>7 DEF OrderTofStore
<1>8. CASE BeginWait
  BY <1>8 DEF BeginWait
<1>9. CASE Wake
  BY <1>9 DEF Wake
<1>10. CASE CopyImage
  BY <1>10, <1>1, <1>2, FreedType DEF CopyImage
<1>11. CASE FreeImage
  BY <1>11, <1>1, <1>2, FreedType DEF FreeImage
<1>12. CASE NoObject
  BY <1>12, <1>3 DEF NoObject
<1>13. CASE LoadDepth
  BY <1>13, <1>1, <1>2 DEF LoadDepth
<1>14. CASE NoDepth
  BY <1>14 DEF NoDepth
<1>15. CASE CopyDepth
  BY <1>15, <1>1, <1>2, FreedType DEF CopyDepth
<1>16. CASE NoBbox
  BY <1>16, <1>3 DEF NoBbox
<1>17. CASE GetDepth
  BY <1>17, <1>2, FreedType DEF GetDepth
<1>18. CASE Decide
  BY <1>18, <1>3 DEF Decide
<1> QED
  BY <1>4, <1>5, <1>6, <1>7, <1>8, <1>9, <1>10, <1>11, <1>12, <1>13, <1>14, <1>15,
     <1>16, <1>17, <1>18 DEF Main

\* Storing a frame keeps the types.
LEMMA AllocateType ==
    ASSUME TypeOK, NEW c \in Cameras, Allocate(c)
    PROVE  /\ heap' \in [Cameras -> [Frames -> {"unused", "raw", "full", "freed"}]]
           /\ data' \in [Cameras -> Frames \cup {Null, Wild}]
BY DEF TypeOK, Allocate

LEMMA FillType ==
    ASSUME TypeOK, NEW c \in Cameras, Fill(c), fault = "none"
    PROVE  /\ heap' \in [Cameras -> [Frames -> {"unused", "raw", "full", "freed"}]]
           /\ fault' \in {"none", "writeDangling"}
BY DEF TypeOK, Fill, Contents

\* Every step of the cameras' threads keeps the types.
LEMMA CameraType ==
    TypeInv /\ fault = "none" /\ (PreviewThread \/ TofThread) /\ UNCHANGED tofTimely
        => TypeInv'
<1> SUFFICES ASSUME TypeInv, fault = "none", PreviewThread \/ TofThread, UNCHANGED tofTimely
             PROVE  TypeInv'
  OBVIOUS
<1> USE DEF TypeInv, TypeOK, CountsOK, loopVars
<1>1. "preview" \in Cameras /\ "tof" \in Cameras
  BY DEF Cameras
<1>2. CASE ImageWanted
  BY <1>1, <1>2, AllocateType DEF ImageWanted
<1>3. CASE ImageFill
  BY <1>1, <1>3, FillType DEF ImageFill
<1>4. CASE ImageCountLoad
  BY <1>1, <1>4 DEF ImageCountLoad
<1>5. CASE ImageCountStore
  BY <1>1, <1>5 DEF ImageCountStore
<1>6. CASE ImageSignal
  BY <1>1, <1>6 DEF ImageSignal
<1>7. CASE TofWanted
  BY <1>1, <1>7 DEF TofWanted
<1>8. CASE TofCountLoad
  BY <1>1, <1>8 DEF TofCountLoad
<1>9. CASE TofCountStore
  BY <1>1, <1>9 DEF TofCountStore
<1>10. CASE TofAllocate
  BY <1>1, <1>10, AllocateType DEF TofAllocate
<1>11. CASE TofFill
  BY <1>1, <1>11, FillType DEF TofFill
<1> QED
  BY <1>2, <1>3, <1>4, <1>5, <1>6, <1>7, <1>8, <1>9, <1>10, <1>11
  DEF PreviewThread, TofThread

-----------------------------------------------------------------------------
(* What the steps do to the frames of a camera.                            *)

\* A step leaves camera c alone.
Same(c) ==
    /\ data'[c] = data[c] /\ heap'[c] = heap[c] /\ orders'[c] = orders[c]
    /\ thread'[c] = thread[c] /\ subtrahend'[c] = subtrahend[c]

\* Then it is where it was with its order.
LEMMA SameStages ==
    ASSUME NEW c \in Cameras, Same(c)
    PROVE  /\ Live(c)' = Live(c)
           /\ Nothing(c) => Nothing(c)'
           /\ There(c) => There(c)'
           /\ \A state : OneFrame(c, state) => OneFrame(c, state)'
BY DEF Same, Live, Nothing, There, OneFrame

\* A camera that had no frame has the one it has just stored.
LEMMA AllocateOne ==
    ASSUME TypeOK, NEW c \in Cameras, Allocate(c), Live(c) = {}
    PROVE  OneFrame(c, "raw")'
<1>1. PICK i \in Frames : /\ heap' = [heap EXCEPT ![c][i] = "raw"]
                          /\ data' = [data EXCEPT ![c] = i]
  BY DEF Allocate
<1>2. data'[c] = i /\ heap'[c][i] = "raw"
  BY <1>1 DEF TypeOK
<1>3. \A j \in Frames : j # i => heap'[c][j] = heap[c][j]
  BY <1>1 DEF TypeOK
<1>4. \A j \in Frames : heap[c][j] \notin {"raw", "full"}
  BY DEF Live
<1> QED
  BY <1>2, <1>3, <1>4 DEF OneFrame, Live

\* The frame a camera has stored is full once it was copied, without a fault.
LEMMA FillOne ==
    ASSUME TypeOK, NEW c \in Cameras, Fill(c), UNCHANGED data, OneFrame(c, "raw")
    PROVE  OneFrame(c, "full")' /\ fault' = fault
<1>1. Contents(c, data[c]) = "raw"
  BY FramesArePositive DEF Contents, OneFrame
<1>2. heap' = [heap EXCEPT ![c][data[c]] = "full"] /\ fault' = fault
  BY <1>1 DEF Fill
<1>3. heap'[c][data[c]] = "full"
  BY <1>2 DEF TypeOK, OneFrame
<1>4. \A j \in Frames : j # data[c] => heap'[c][j] = heap[c][j]
  BY <1>2 DEF TypeOK, OneFrame
<1> QED
  BY <1>2, <1>3, <1>4 DEF OneFrame, Live

\* Freeing the one frame of a camera leaves none, without a fault.
LEMMA FreeOne ==
    ASSUME TypeOK, NEW c \in Cameras, OneFrame(c, "full"), heap' = Freed(c, data[c])
    PROVE  Live(c)' = {} /\ FreeFault(c, data[c]) = "none"
<1>1. heap' = [heap EXCEPT ![c][data[c]] = "freed"]
  BY DEF Freed, OneFrame
<1>2. heap'[c][data[c]] = "freed"
  BY <1>1 DEF TypeOK, OneFrame
<1>3. \A j \in Frames : j # data[c] => heap'[c][j] = heap[c][j]
  BY <1>1 DEF TypeOK, OneFrame
<1>4. Live(c)' = {}
  BY <1>2, <1>3 DEF OneFrame, Live
<1>5. Contents(c, data[c]) = "full"
  BY FramesArePositive DEF Contents, OneFrame
<1> QED
  BY <1>4, <1>5 DEF FreeFault

\* A full frame is read without a fault.
LEMMA ReadOne ==
    ASSUME NEW c \in Cameras, OneFrame(c, "full")
    PROVE  Contents(c, data[c]) = "full" /\ ReadFault(c, data[c]) = "none"
BY FramesArePositive DEF Contents, ReadFault, OneFrame

\* What one camera's thread stores is no frame of the other camera.
LEMMA OtherCamera ==
    ASSUME TypeOK, NEW c \in Cameras, NEW d \in Cameras, c # d
    PROVE  /\ Allocate(c) => heap'[d] = heap[d] /\ data'[d] = data[d]
           /\ Fill(c) => heap'[d] = heap[d]
BY DEF TypeOK, Allocate, Fill

-----------------------------------------------------------------------------
(* The preview's frame.                                                    *)

\* No step of main meets the preview's frame before it is there.
LEMMA MainImage == TypeInv /\ ImageInv /\ Main => ImageInv'
<1> SUFFICES ASSUME TypeInv, ImageInv, Main PROVE ImageInv'
  OBVIOUS
<1>1. TypeOK /\ "preview" \in Cameras /\ "tof" \in Cameras
  BY DEF TypeInv, Cameras
<1>2. data["preview"] \in Frames \cup {Null, Wild} /\ data["tof"] \in Frames \cup {Null, Wild}
  BY <1>1 DEF TypeOK
<1>3. ASSUME NEW cmd, EndLap(cmd), pc \in {"infer", "getBbox", "decide"}
      PROVE  ImageInv'
  <2>1. Same("preview")
    BY <1>1, <1>2, <1>3, FreedType DEF EndLap, Same
  <2> QED
    BY <1>1, <1>3, <2>1, SameStages DEF EndLap, ImageInv
<1>4. CASE LockLap
  <2>1. Same("preview")
    BY <1>4 DEF LockLap, Same
  <2> QED
    BY <1>1, <1>4, <2>1, SameStages DEF LockLap, ImageInv
<1>5. CASE OrderImage
  BY <1>1, <1>5 DEF OrderImage, ImageInv, ImageOnItsWay, Nothing, Live, TypeOK
<1>6. CASE OrderTofLoad
  <2>1. Same("preview")
    BY <1>6 DEF OrderTofLoad, Same
  <2> QED
    BY <1>1, <1>6, <2>1, SameStages DEF OrderTofLoad, ImageInv, ImageOnItsWay, Same
<1>7. CASE OrderTofStore
  <2>1. Same("preview")
    BY <1>1, <1>7 DEF OrderTofStore, Same, TypeOK
  <2> QED
    BY <1>1, <1>7, <2>1, SameStages DEF OrderTofStore, ImageInv, ImageOnItsWay, Same
<1>8. CASE BeginWait
  <2>1. Same("preview")
    BY <1>8 DEF BeginWait, Same
  <2> QED
    BY <1>1, <1>8, <2>1, SameStages DEF BeginWait, ImageInv, ImageOnItsWay, Same
<1>9. CASE Wake
  <2>1. Same("preview")
    BY <1>9 DEF Wake, Same
  <2> QED
    BY <1>1, <1>9, <2>1, SameStages DEF Wake, ImageInv
<1>10. CASE CopyImage
  <2>1. Same("preview")
    BY <1>10 DEF CopyImage, Same
  <2> QED
    BY <1>1, <1>10, <2>1, SameStages DEF CopyImage, ImageInv
<1>11. CASE FreeImage
  <2>1. There("preview")
    BY <1>11 DEF FreeImage, ImageInv
  <2>2. Live("preview")' = {}
    BY <1>1, <1>11, <2>1, FreeOne DEF FreeImage, There
  <2> QED
    BY <1>11, <2>1, <2>2 DEF FreeImage, ImageInv, There, Nothing
<1>12. CASE NoObject
  BY <1>3, <1>12 DEF NoObject
<1>13. CASE LoadDepth
  <2>1. Same("preview")
    BY <1>13 DEF LoadDepth, Same
  <2> QED
    BY <1>1, <1>13, <2>1, SameStages DEF LoadDepth, ImageInv
<1>14. CASE NoDepth
  <2>1. Same("preview")
    BY <1>14 DEF NoDepth, Same
  <2> QED
    BY <1>1, <1>14, <2>1, SameStages DEF NoDepth, ImageInv
<1>15. CASE CopyDepth
  <2>1. Same("preview")
    BY <1>15 DEF CopyDepth, Same
  <2> QED
    BY <1>1, <1>15, <2>1, SameStages DEF CopyDepth, ImageInv
<1>16. CASE NoBbox
  BY <1>3, <1>16 DEF NoBbox
<1>17. CASE GetDepth
  <2>1. Same("preview")
    BY <1>17 DEF GetDepth, Same
  <2> QED
    BY <1>1, <1>17, <2>1, SameStages DEF GetDepth, ImageInv
<1>18. CASE Decide
  BY <1>3, <1>18 DEF Decide
<1> QED
  BY <1>4, <1>5, <1>6, <1>7, <1>8, <1>9, <1>10, <1>11, <1>12, <1>13, <1>14, <1>15,
     <1>16, <1>17, <1>18 DEF Main

\* The preview's thread serves an order only while main is on its way to cond_f.
LEMMA PreviewImage == TypeInv /\ ImageInv /\ PreviewThread => ImageInv'
<1> SUFFICES ASSUME TypeInv, ImageInv, PreviewThread PROVE ImageInv'
  OBVIOUS
<1>1. TypeOK /\ "preview" \in Cameras
  BY DEF TypeInv, Cameras
<1>2. /\ orders \in [Cameras -> Nat] /\ subtrahend \in [Cameras -> Nat]
      /\ thread \in [Cameras -> {"idle", "allocate", "fill", "load", "store", "signal"}]
  BY <1>1 DEF TypeOK
<1>3. ASSUME pc' = pc, signalled' = signalled, ImageOnItsWay, ~There("preview"), ImageOnItsWay'
      PROVE  ImageInv'
  BY <1>3 DEF ImageInv, ImageOnItsWay, Nothing, There, OneFrame
<1>4. CASE ImageWanted
  <2>1. Live("preview") = {} /\ orders["preview"] = 1
    BY <1>1, <1>4 DEF ImageWanted, ImageInv, ImageOnItsWay, Nothing, There, TypeOK
  <2>2. OneFrame("preview", "raw")'
    BY <1>1, <1>4, <2>1, AllocateOne DEF ImageWanted
  <2>3. ImageOnItsWay /\ ~There("preview") /\ ImageOnItsWay'
    BY <1>1, <1>2, <1>4, <2>1, <2>2 DEF ImageWanted, ImageOnItsWay, There
  <2> QED
    BY <1>3, <1>4, <2>3 DEF ImageWanted, loopVars
<1>5. CASE ImageFill
  <2>1. ImageOnItsWay /\ OneFrame("preview", "raw") /\ orders["preview"] = 1
    BY <1>1, <1>5 DEF ImageFill, ImageInv, ImageOnItsWay, Nothing, There, TypeOK
  <2>2. OneFrame("preview", "full")'
    BY <1>1, <1>5, <2>1, FillOne DEF ImageFill
  <2>3. ~There("preview") /\ ImageOnItsWay'
    BY <1>1, <1>2, <1>5, <2>1, <2>2 DEF ImageFill, ImageOnItsWay, There
  <2> QED
    BY <1>3, <1>5, <2>1, <2>3 DEF ImageFill, loopVars
<1>6. CASE ImageCountLoad
  <2>1. ImageOnItsWay /\ OneFrame("preview", "full") /\ orders["preview"] = 1
    BY <1>1, <1>6 DEF ImageCountLoad, ImageInv, ImageOnItsWay, Nothing, There, TypeOK
  <2>2. OneFrame("preview", "full")'
    BY <1>6, <2>1 DEF ImageCountLoad, OneFrame, Live
  <2>3. ~There("preview") /\ ImageOnItsWay'
    BY <1>1, <1>2, <1>6, <2>1, <2>2 DEF ImageCountLoad, ImageOnItsWay, There
  <2> QED
    BY <1>3, <1>6, <2>1, <2>3 DEF ImageCountLoad, loopVars
<1>7. CASE ImageCountStore
  <2>1. ImageOnItsWay /\ OneFrame("preview", "full") /\ subtrahend["preview"] = 1
    BY <1>1, <1>7 DEF ImageCountStore, ImageInv, ImageOnItsWay, Nothing, There, TypeOK
  <2>2. OneFrame("preview", "full")'
    BY <1>7, <2>1 DEF ImageCountStore, OneFrame, Live
  <2>3. ~There("preview") /\ ImageOnItsWay'
    BY <1>1, <1>2, <1>7, <2>1, <2>2 DEF ImageCountStore, ImageOnItsWay, There
  <2> QED
    BY <1>3, <1>7, <2>1, <2>3 DEF ImageCountStore, loopVars
<1>8. CASE ImageSignal
  <2>1. /\ pc \in {"loadTof", "storeTof", "beginWait", "wait"}
        /\ OneFrame("preview", "full") /\ orders["preview"] = 0
    BY <1>1, <1>8 DEF ImageSignal, ImageInv, ImageOnItsWay, Nothing, There, TypeOK
  <2>2. There("preview")'
    BY <1>1, <1>2, <1>8, <2>1 DEF ImageSignal, There, OneFrame, Live
  <2> QED
    BY <1>8, <2>1, <2>2 DEF ImageSignal, ImageInv, ImageOnItsWay, loopVars
<1> QED
  BY <1>4, <1>5, <1>6, <1>7, <1>8 DEF PreviewThread

\* The TOF camera's thread leaves the preview's frame alone.
LEMMA TofImage == TypeInv /\ ImageInv /\ TofThread => ImageInv'
<1> SUFFICES ASSUME TypeInv, ImageInv, TofThread PROVE ImageInv'
  OBVIOUS
<1>1. TypeOK /\ "preview" \in Cameras /\ "tof" \in Cameras
  BY DEF TypeInv, Cameras
<1>2. Same("preview")
  BY <1>1, OtherCamera
  DEF TofThread, TofWanted, TofCountLoad, TofCountStore, TofAllocate, TofFill, Same, TypeOK
<1>3. pc' = pc /\ signalled' = signalled
  BY DEF TofThread, TofWanted, TofCountLoad, TofCountStore, TofAllocate, TofFill, loopVars
<1> QED
  BY <1>1, <1>2, <1>3, SameStages DEF ImageInv, ImageOnItsWay, Same

-----------------------------------------------------------------------------
(* The TOF camera's frame.                                                 *)

\* If the frame of a lap is there in time, no step of main misses it.
LEMMA MainDepth == TypeInv /\ ImageInv /\ DepthInv /\ Main /\ UNCHANGED tofTimely => DepthInv'
<1> SUFFICES ASSUME TypeInv, ImageInv, DepthInv, Main, tofTimely, tofTimely' PROVE DepthInv'
  BY DEF DepthInv
<1>1. TypeOK /\ "preview" \in Cameras /\ "tof" \in Cameras
  BY DEF TypeInv, Cameras
<1>2. ASSUME NEW cmd, EndLap(cmd), pc \in {"infer", "getBbox", "decide"}
      PROVE  DepthInv'
  <2>1. There("tof")
    BY <1>2 DEF DepthInv
  <2>2. Live("tof")' = {} /\ fault' = "none"
    BY <1>1, <1>2, <2>1, FreeOne DEF EndLap, There
  <2> QED
    BY <1>2, <2>1, <2>2 DEF EndLap, DepthInv, There, Nothing
<1>3. CASE LockLap
  <2>1. Same("tof")
    BY <1>3 DEF LockLap, Same
  <2> QED
    BY <1>1, <1>3, <2>1, SameStages DEF LockLap, DepthInv
<1>4. CASE OrderImage
  <2>1. Same("tof")
    BY <1>1, <1>4 DEF OrderImage, Same, TypeOK
  <2> QED
    BY <1>1, <1>4, <2>1, SameStages DEF OrderImage, DepthInv
<1>5. CASE OrderTofLoad
  <2>1. Same("tof")
    BY <1>5 DEF OrderTofLoad, Same
  <2> QED
    BY <1>1, <1>5, <2>1, SameStages DEF OrderTofLoad, DepthInv, Nothing
<1>6. CASE OrderTofStore
  <2>1. Nothing("tof") /\ addend = 0
    BY <1>6 DEF OrderTofStore, DepthInv
  <2>2. Live("tof")' = {} /\ orders'["tof"] = 1 /\ thread'["tof"] = "idle"
    BY <1>1, <1>6, <2>1 DEF OrderTofStore, Nothing, Live, TypeOK
  <2> QED
    BY <1>6, <2>2 DEF OrderTofStore, DepthInv, DepthOnItsWay
<1>7. CASE BeginWait
  <2>1. Same("tof")
    BY <1>7 DEF BeginWait, Same
  <2> QED
    BY <1>1, <1>7, <2>1, SameStages DEF BeginWait, DepthInv, DepthOnItsWay, Same
<1>8. CASE Wake
  <2>1. Same("tof")
    BY <1>8 DEF Wake, Same
  <2>2. There("tof")
    BY <1>8 DEF Wake, TofServed, DepthInv, DepthOnItsWay
  <2> QED
    BY <1>1, <1>8, <2>1, <2>2, SameStages DEF Wake, DepthInv
<1>9. CASE CopyImage
  <2>1. Same("tof")
    BY <1>9 DEF CopyImage, Same
  <2>2. fault' = "none"
    BY <1>1, <1>9, ReadOne DEF CopyImage, ImageInv, There
  <2> QED
    BY <1>1, <1>9, <2>1, <2>2, SameStages DEF CopyImage, DepthInv
<1>10. CASE FreeImage
  <2>1. There("preview")
    BY <1>10 DEF FreeImage, ImageInv
  <2>2. fault' = "none"
    BY <1>1, <1>10, <2>1, FreeOne DEF FreeImage, There
  <2>3. data["preview"] \in Frames
    BY <2>1 DEF There, OneFrame
  <2>4. Freed("preview", data["preview"])["tof"] = heap["tof"]
    BY <1>1, <2>3, FreedType
  <2>5. Same("tof")
    BY <1>10, <2>4 DEF FreeImage, Same
  <2> QED
    BY <1>1, <1>10, <2>2, <2>5, SameStages DEF FreeImage, DepthInv
<1>11. CASE NoObject
  BY <1>2, <1>11 DEF NoObject
<1>12. CASE LoadDepth
  <2>1. Same("tof")
    BY <1>12 DEF LoadDepth, Same
  <2> QED
    BY <1>1, <1>12, <2>1, SameStages DEF LoadDepth, DepthInv
<1>13. CASE NoDepth
  BY <1>13, FramesArePositive DEF NoDepth, DepthInv, There, OneFrame
<1>14. CASE CopyDepth
  <2>1. Same("tof")
    BY <1>14 DEF CopyDepth, Same
  <2>2. fault' = "none"
    BY <1>1, <1>14, ReadOne DEF CopyDepth, DepthInv, There
  <2> QED
    BY <1>1, <1>14, <2>1, <2>2, SameStages DEF CopyDepth, DepthInv
<1>15. CASE NoBbox
  BY <1>2, <1>15 DEF NoBbox
<1>16. CASE GetDepth
  <2>1. Same("tof")
    BY <1>16 DEF GetDepth, Same
  <2>2. fault' = "none"
    BY <1>1, <1>16, ReadOne DEF GetDepth, DepthInv, There
  <2> QED
    BY <1>1, <1>16, <2>1, <2>2, SameStages DEF GetDepth, DepthInv
<1>17. CASE Decide
  BY <1>2, <1>17 DEF Decide
<1> QED
  BY <1>3, <1>4, <1>5, <1>6, <1>7, <1>8, <1>9, <1>10, <1>11, <1>12, <1>13, <1>14,
     <1>15, <1>16, <1>17 DEF Main

\* The preview's thread leaves the TOF camera's frame alone and meets no fault.
LEMMA PreviewDepth ==
    TypeInv /\ ImageInv /\ DepthInv /\ PreviewThread /\ UNCHANGED tofTimely => DepthInv'
<1> SUFFICES ASSUME TypeInv, ImageInv, DepthInv, PreviewThread, tofTimely, tofTimely'
             PROVE  DepthInv'
  BY DEF DepthInv
<1>1. TypeOK /\ "preview" \in Cameras /\ "tof" \in Cameras
  BY DEF TypeInv, Cameras
<1>2. Same("tof")
  BY <1>1, OtherCamera
  DEF PreviewThread, ImageWanted, ImageFill, ImageCountLoad, ImageCountStore, ImageSignal,
      Same, TypeOK
<1>3. pc' = pc /\ addend' = addend /\ depthImage' = depthImage
  BY DEF PreviewThread, ImageWanted, ImageFill, ImageCountLoad, ImageCountStore, ImageSignal,
         loopVars
<1>4. fault' = fault
  <2>1. CASE ImageFill
    <3>1. OneFrame("preview", "raw")
      BY <1>1, <2>1 DEF ImageFill, ImageInv, ImageOnItsWay, Nothing, There, TypeOK
    <3> QED
      BY <1>1, <2>1, <3>1, FillOne DEF ImageFill
  <2>2. CASE ~ImageFill
    BY <2>2 DEF PreviewThread, ImageWanted, ImageCountLoad, ImageCountStore, ImageSignal
  <2> QED
    BY <2>1, <2>2
<1> QED
  BY <1>1, <1>2, <1>3, <1>4, SameStages DEF DepthInv, DepthOnItsWay, Same

\* In time, the TOF camera's thread runs only while main waits for the frames.
LEMMA TofDepth ==
    TypeInv /\ DepthInv /\ TofThread /\ UNCHANGED tofTimely => DepthInv'
<1> SUFFICES ASSUME TypeInv, DepthInv, TofThread, tofTimely, tofTimely'
             PROVE  DepthInv'
  BY DEF DepthInv
<1>1. TypeOK /\ "preview" \in Cameras /\ "tof" \in Cameras
  BY DEF TypeInv, Cameras
<1>2. /\ orders \in [Cameras -> Nat] /\ subtrahend \in [Cameras -> Nat]
      /\ thread \in [Cameras -> {"idle", "allocate", "fill", "load", "store", "signal"}]
  BY <1>1 DEF TypeOK
<1>3. pc' = pc
  BY DEF TofThread, TofWanted, TofCountLoad, TofCountStore, TofAllocate, TofFill, loopVars
<1>4. ASSUME ~There("tof"), ~Nothing("tof"), fault' = "none", DepthOnItsWay'
      PROVE  DepthInv'
  BY <1>3, <1>4 DEF DepthInv
<1>5. CASE TofWanted
  <2>1. Live("tof") = {} /\ orders["tof"] = 1
    BY <1>1, <1>5 DEF TofWanted, DepthInv, DepthOnItsWay, Nothing, There, TypeOK
  <2>2. DepthOnItsWay'
    BY <1>1, <1>2, <1>5, <2>1 DEF TofWanted, DepthOnItsWay, Live
  <2> QED
    BY <1>4, <1>5, <2>1, <2>2 DEF TofWanted, There, Nothing, DepthInv
<1>6. CASE TofCountLoad
  <2>1. Live("tof") = {} /\ orders["tof"] = 1
    BY <1>1, <1>6 DEF TofCountLoad, DepthInv, DepthOnItsWay, Nothing, There, TypeOK
  <2>2. DepthOnItsWay'
    BY <1>1, <1>2, <1>6, <2>1 DEF TofCountLoad, DepthOnItsWay, Live
  <2> QED
    BY <1>4, <1>6, <2>1, <2>2 DEF TofCountLoad, There, Nothing, DepthInv
<1>7. CASE TofCountStore
  <2>1. Live("tof") = {} /\ subtrahend["tof"] = 1
    BY <1>1, <1>7 DEF TofCountStore, DepthInv, DepthOnItsWay, Nothing, There, TypeOK
  <2>2. DepthOnItsWay'
    BY <1>1, <1>2, <1>7, <2>1 DEF TofCountStore, DepthOnItsWay, Live
  <2> QED
    BY <1>4, <1>7, <2>1, <2>2 DEF TofCountStore, There, Nothing, DepthInv
<1>8. CASE TofAllocate
  <2>1. Live("tof") = {} /\ orders["tof"] = 0
    BY <1>1, <1>8 DEF TofAllocate, DepthInv, DepthOnItsWay, Nothing, There, TypeOK
  <2>2. OneFrame("tof", "raw")'
    BY <1>1, <1>8, <2>1, AllocateOne DEF TofAllocate
  <2>3. DepthOnItsWay'
    BY <1>1, <1>2, <1>8, <2>1, <2>2 DEF TofAllocate, DepthOnItsWay
  <2> QED
    BY <1>4, <1>8, <2>1, <2>3 DEF TofAllocate, There, Nothing, DepthInv
<1>9. CASE TofFill
  <2>1. OneFrame("tof", "raw") /\ orders["tof"] = 0
    BY <1>1, <1>9 DEF TofFill, DepthInv, DepthOnItsWay, Nothing, There, TypeOK
  <2>2. OneFrame("tof", "full")' /\ fault' = fault
    BY <1>1, <1>9, <2>1, FillOne DEF TofFill
  <2>3. DepthOnItsWay'
    BY <1>1, <1>2, <1>9, <2>1, <2>2 DEF TofFill, DepthOnItsWay, There
  <2> QED
    BY <1>4, <1>9, <2>1, <2>2, <2>3 DEF TofFill, There, Nothing, DepthInv
<1> QED
  BY <1>5, <1>6, <1>7, <1>8, <1>9 DEF TofThread

-----------------------------------------------------------------------------
(* The theorems.                                                           *)

LEMMA LoopInit == Init => LoopInv
<1> SUFFICES ASSUME Init PROVE LoopInv
  OBVIOUS
<1>1. "preview" \in Cameras /\ "tof" \in Cameras
  BY DEF Cameras
<1>2. Nothing("preview") /\ Nothing("tof")
  BY <1>1 DEF Init, Nothing, Live
<1> QED
  BY <1>2, TypeInit DEF Init, LoopInv, ImageInv, DepthInv

LEMMA LoopStep == LoopInv /\ [Next]_vars => LoopInv'
<1> SUFFICES ASSUME LoopInv, [Next]_vars PROVE LoopInv'
  OBVIOUS
<1> USE DEF LoopInv
<1>1. CASE fault = "none" /\ Main /\ UNCHANGED tofTimely
  BY <1>1, MainType, MainImage, MainDepth
<1>2. CASE fault = "none" /\ PreviewThread /\ UNCHANGED tofTimely
  BY <1>2, CameraType, PreviewImage, PreviewDepth
<1>3. CASE fault = "none" /\ TofThread /\ UNCHANGED tofTimely
  BY <1>3, CameraType, TofImage, TofDepth
<1>4. CASE UNCHANGED vars
  <2>1. TypeInv'
    BY <1>4 DEF vars, loopVars, TypeInv, TypeOK, CountsOK
  <2>2. Same("preview") /\ Same("tof") /\ "preview" \in Cameras /\ "tof" \in Cameras
    BY <1>4 DEF vars, Same, Cameras
  <2>3. ImageInv'
    BY <1>4, <2>2, SameStages DEF vars, loopVars, ImageInv, ImageOnItsWay, Same
  <2>4. DepthInv'
    BY <1>4, <2>2, SameStages DEF vars, loopVars, DepthInv, DepthOnItsWay, Same
  <2> QED
    BY <2>1, <2>3, <2>4
<1> QED
  BY <1>1, <1>2, <1>3, <1>4 DEF Next, Over

\* The invariant the theorems below rest on holds in every state of the loop.
THEOREM LoopInvariant == SafetySpec => []LoopInv
BY LoopInit, LoopStep, PTL DEF SafetySpec

\* Every variable of the loop keeps its type: however the += of main and the --
\* of the TOF camera's thread meet, no count of ordered frames goes negative.
THEOREM LoopTypes == SafetySpec => []TypeOK
<1>1. LoopInv => TypeOK
  BY DEF LoopInv, TypeInv
<1> QED
  BY <1>1, LoopInvariant, PTL

\* Whenever main copies and frees image_data it names the frame main ordered,
\* copied in full and not freed before, whatever the TOF camera does.
THEOREM ImageIsReady == SafetySpec => []ImageReady
<1>1. LoopInv => ImageReady
  BY ReadOne DEF LoopInv, ImageInv, There, ImageReady, Cameras
<1> QED
  BY <1>1, LoopInvariant, PTL

\* No lap leaves a preview frame or half an order behind: image_data is freed
\* exactly once in every lap.
THEOREM NoImageIsLeftOver == SafetySpec => []NoImageLeftOver
<1>1. LoopInv => NoImageLeftOver
  BY DEF LoopInv, ImageInv, Nothing, NoImageLeftOver
<1> QED
  BY <1>1, LoopInvariant, PTL

\* If the TOF frames come in time, none is left over by any of the five ways a
\* lap may end.
THEOREM NoDepthIsLeftOver == SafetySpec => []NoDepthLeftOver
<1>1. LoopInv => NoDepthLeftOver
  BY DEF LoopInv, DepthInv, Nothing, TofServed, NoDepthLeftOver
<1> QED
  BY <1>1, LoopInvariant, PTL

\* If the TOF frames come in time, no frame of either camera is read, written
\* or freed when it is not there.
THEOREM NoFaultInTime == SafetySpec => []NoFault
<1>1. LoopInv => NoFault
  BY DEF LoopInv, DepthInv, NoFault
<1> QED
  BY <1>1, LoopInvariant, PTL

-----------------------------------------------------------------------------
(* FrameLoop implements FrameHandOver.                                     *)

\* A frame that is there is allocated, so it is not nothing.
LEMMA ThereIsSomething == \A c : There(c) => ~Nothing(c)
BY DEF There, OneFrame, Nothing

\* How far a camera is tells the stage of its frame.
LEMMA StageOf ==
    ASSUME NEW c
    PROVE  /\ There(c) => Stage(c) = "stored"
           /\ Nothing(c) /\ Unasked(c) => Stage(c) = "idle"
           /\ Nothing(c) /\ ~Unasked(c) => Stage(c) = "released"
           /\ ~There(c) /\ ~Nothing(c) => Stage(c) = "ordered"
<1>1. CASE There(c)
  <2>1. ~Nothing(c)
    BY <1>1, ThereIsSomething
  <2> QED BY <1>1, <2>1 DEF Stage
<1>2. CASE ~There(c)
  BY <1>2 DEF Stage
<1> QED BY <1>1, <1>2

\* Main is between its order of the preview's frame and its wake-up.
Waiting == pc \in {"loadTof", "storeTof", "beginWait", "wait"}

\* Where main is tells the stage of the preview's frame, but for the time the
\* thread may serve the order.
ImageStages ==
    /\ pc = "orderImage" => Stage("preview") = "idle"
    /\ Waiting => Stage("preview") = IF There("preview") THEN "stored" ELSE "ordered"
    /\ pc \in {"copyImage", "freeImage"} => Stage("preview") = "stored"
    /\ pc \in {"lock", "infer", "copyDepth", "getBbox", "decide", "quit"}
           => Stage("preview") = "released"

\* So it does for the TOF camera's frame, if it comes in time.
DepthStages ==
    tofTimely =>
        /\ pc \in {"orderImage", "loadTof", "storeTof"} => Stage("tof") = "idle"
        /\ pc \in {"beginWait", "wait"}
               => Stage("tof") = IF There("tof") THEN "stored" ELSE "ordered"
        /\ pc \in {"copyImage", "freeImage", "infer", "copyDepth", "getBbox", "decide"}
               => Stage("tof") = "stored"
        /\ pc \in {"lock", "quit"} => Stage("tof") = "released"

\* The stages follow from the inductive invariant.
LEMMA ImageStagesHold == LoopInv => ImageStages
<1> SUFFICES ASSUME LoopInv PROVE ImageStages
  OBVIOUS
<1> USE DEF LoopInv
<1>1. pc = "orderImage" => Stage("preview") = "idle"
  BY StageOf DEF ImageInv, Unasked
<1>2. Waiting => Stage("preview") = IF There("preview") THEN "stored" ELSE "ordered"
  <2>1. Waiting => ~Nothing("preview")
    BY DEF Waiting, ImageInv, ImageOnItsWay, Nothing, There, OneFrame
  <2> QED BY <2>1, StageOf
<1>3. pc \in {"copyImage", "freeImage"} => Stage("preview") = "stored"
  BY StageOf DEF ImageInv
<1>4. pc \in {"lock", "infer", "copyDepth", "getBbox", "decide", "quit"}
          => Stage("preview") = "released"
  BY StageOf DEF ImageInv, Unasked
<1> QED BY <1>1, <1>2, <1>3, <1>4 DEF ImageStages

\* The same for the TOF camera, if its frames come in time.
LEMMA DepthStagesHold == LoopInv => DepthStages
<1> SUFFICES ASSUME LoopInv, tofTimely PROVE DepthStages
  BY DEF DepthStages
<1> USE DEF LoopInv
<1>1. pc \in {"orderImage", "loadTof", "storeTof"} => Stage("tof") = "idle"
  BY StageOf DEF DepthInv, Unasked
<1>2. pc \in {"beginWait", "wait"}
          => Stage("tof") = IF There("tof") THEN "stored" ELSE "ordered"
  <2>1. pc \in {"beginWait", "wait"} => ~Nothing("tof")
    BY DEF DepthInv, DepthOnItsWay, Nothing, There, OneFrame
  <2> QED BY <2>1, StageOf
<1>3. pc \in {"copyImage", "freeImage", "infer", "copyDepth", "getBbox", "decide"}
          => Stage("tof") = "stored"
  BY StageOf DEF DepthInv
<1>4. pc \in {"lock", "quit"} => Stage("tof") = "released"
  BY StageOf DEF DepthInv, Unasked
<1> QED BY <1>1, <1>2, <1>3, <1>4 DEF DepthStages

\* The preview is watched, and the TOF camera only if its frames come in time.
LEMMA WatchedCameras ==
    /\ "preview" \in Watched
    /\ tofTimely => "tof" \in Watched
    /\ \A c \in Watched : c = "preview" \/ (c = "tof" /\ tofTimely)
BY DEF Watched, Cameras

\* A camera that a step leaves alone has its frame before and after, or never.
LEMMA SameThere ==
    ASSUME NEW c \in Cameras, Same(c)
    PROVE  There(c)' <=> There(c)
BY DEF Same, Live, There, OneFrame

\* The step of the abstract specification in which the frame of one camera
\* advances, and that of no other does.
LEMMA AdvanceStep ==
    ASSUME NEW c \in Watched, NEW from, NEW to, Stage(c) = from, Stage(c)' = to,
           \A d \in Watched : d # c => Stage(d)' = Stage(d),
           UNCHANGED <<lap, tofTimely>>
    PROVE  HandOver!Advance(c, from, to)
<1>1. Watched' = Watched
  BY DEF Watched
<1>2. [d \in Watched |-> Stage(d)]' = [[d \in Watched |-> Stage(d)] EXCEPT ![c] = to]
  BY <1>1
<1> QED BY <1>1, <1>2 DEF HandOver!Advance

\* A step in which no frame advances is none of the abstract specification.
LEMMA FramesStutter ==
    ASSUME \A c \in Watched : Stage(c)' = Stage(c), UNCHANGED <<lap, tofTimely>>
    PROVE  UNCHANGED HandOver!vars
BY DEF HandOver!vars, Watched

\* What main does to the frames of a lap, it may do.
LEMMA MainHandsOver ==
    ASSUME LoopInv, LoopInv', ImageStages, ImageStages', DepthStages, DepthStages',
           Main, UNCHANGED tofTimely
    PROVE  [HandOver!Next]_(HandOver!vars)
<1>1. TypeOK /\ "preview" \in Cameras /\ "tof" \in Cameras
  BY DEF LoopInv, TypeInv, Cameras
<1> USE WatchedCameras
<1>2. ASSUME \A c \in Watched : Stage(c)' = Stage(c), lap' = lap
      PROVE  [HandOver!Next]_(HandOver!vars)
  BY <1>2, FramesStutter
<1>3. ASSUME NEW c \in Watched, HandOver!Order(c) \/ HandOver!Store(c) \/ HandOver!Release(c)
      PROVE  [HandOver!Next]_(HandOver!vars)
  BY <1>3 DEF HandOver!Next
<1>4. ASSUME pc' = "lock", lap' = lap, pc \in {"infer", "getBbox", "decide"}
      PROVE  [HandOver!Next]_(HandOver!vars)
  <2>1. Stage("preview") = "released" /\ Stage("preview")' = "released"
    BY <1>4 DEF ImageStages
  <2>2. CASE tofTimely
    <3>1. Stage("tof") = "stored" /\ Stage("tof")' = "released"
      BY <1>4, <2>2 DEF DepthStages
    <3>2. HandOver!Advance("tof", "stored", "released")
      BY <1>4, <2>1, <2>2, <3>1, AdvanceStep
    <3> QED BY <1>3, <2>1, <2>2, <3>1, <3>2 DEF HandOver!Release
  <2>3. CASE ~tofTimely
    BY <1>2, <1>4, <2>1, <2>3
  <2> QED BY <2>2, <2>3
<1>5. CASE LockLap
  <2>1. CASE lap < Laps
    <3>1. lap' = lap + 1 /\ pc = "lock" /\ pc' = "orderImage"
      BY <1>5, <2>1 DEF LockLap
    <3>2. \A c \in Watched : Stage(c) = "released" /\ Stage(c)' = "idle"
      BY <3>1 DEF ImageStages, DepthStages
    <3>3. Watched' = Watched
      BY DEF Watched
    <3>4. HandOver!BeginLap
      BY <2>1, <3>1, <3>2, <3>3 DEF HandOver!BeginLap
    <3> QED BY <3>4 DEF HandOver!Next
  <2>2. CASE ~(lap < Laps)
    <3>1. lap' = lap /\ pc = "lock" /\ pc' = "quit"
      BY <1>5, <2>2 DEF LockLap
    <3> QED BY <1>2, <3>1 DEF ImageStages, DepthStages
  <2> QED BY <2>1, <2>2
<1>6. CASE OrderImage
  <2>1. pc = "orderImage" /\ pc' = "loadTof" /\ lap' = lap /\ orders'["preview"] = 1
    BY <1>1, <1>6 DEF OrderImage, TypeOK
  <2>2. ~There("preview")'
    BY <2>1 DEF There
  <2>3. Stage("preview") = "idle" /\ Stage("preview")' = "ordered"
    BY <2>1, <2>2 DEF ImageStages, Waiting
  <2>4. tofTimely => Stage("tof")' = Stage("tof")
    BY <2>1 DEF DepthStages
  <2>5. HandOver!Order("preview")
    BY <2>1, <2>3, <2>4, AdvanceStep DEF HandOver!Order
  <2> QED BY <1>3, <2>5
<1>7. CASE OrderTofLoad
  <2>1. Same("preview") /\ lap' = lap /\ pc = "loadTof" /\ pc' = "storeTof"
    BY <1>7 DEF OrderTofLoad, Same
  <2>2. There("preview")' <=> There("preview")
    BY <1>1, <2>1, SameThere
  <2> QED BY <1>2, <2>1, <2>2 DEF ImageStages, DepthStages, Waiting
<1>8. CASE OrderTofStore
  <2>1. Same("preview") /\ lap' = lap /\ pc = "storeTof" /\ pc' = "beginWait"
    BY <1>1, <1>8 DEF OrderTofStore, Same, TypeOK
  <2>2. There("preview")' <=> There("preview")
    BY <1>1, <2>1, SameThere
  <2>3. Stage("preview")' = Stage("preview")
    BY <2>1, <2>2 DEF ImageStages, Waiting
  <2>4. CASE tofTimely
    <3>1. addend = 0
      BY <2>1, <2>4 DEF LoopInv, DepthInv
    <3>2. orders'["tof"] = 1
      BY <1>1, <1>8, <3>1 DEF OrderTofStore, TypeOK
    <3>3. ~There("tof")'
      BY <3>2 DEF There
    <3>4. Stage("tof") = "idle" /\ Stage("tof")' = "ordered"
      BY <2>1, <2>4, <3>3 DEF DepthStages
    <3>5. HandOver!Order("tof")
      BY <2>1, <2>3, <2>4, <3>4, AdvanceStep DEF HandOver!Order
    <3> QED BY <1>3, <2>4, <3>5
  <2>5. CASE ~tofTimely
    BY <1>2, <2>1, <2>3, <2>5
  <2> QED BY <2>4, <2>5
<1>9. CASE BeginWait
  <2>1. /\ Same("preview") /\ Same("tof")
        /\ lap' = lap /\ pc = "beginWait" /\ pc' = "wait"
    BY <1>9 DEF BeginWait, Same
  <2>2. (There("preview")' <=> There("preview")) /\ (There("tof")' <=> There("tof"))
    BY <1>1, <2>1, SameThere
  <2> QED BY <1>2, <2>1, <2>2 DEF ImageStages, DepthStages, Waiting
<1>10. CASE Wake
  <2>1. lap' = lap /\ pc = "wait" /\ pc' = "copyImage"
    BY <1>10 DEF Wake
  <2>2. There("preview")
    BY <1>10 DEF Wake, LoopInv, ImageInv
  <2>3. tofTimely => There("tof")
    BY <1>10, <2>1 DEF Wake, TofServed, LoopInv, DepthInv, DepthOnItsWay
  <2> QED BY <1>2, <2>1, <2>2, <2>3 DEF ImageStages, DepthStages, Waiting
<1>11. CASE CopyImage
  <2>1. lap' = lap /\ pc = "copyImage" /\ pc' = "freeImage"
    BY <1>11 DEF CopyImage
  <2> QED BY <1>2, <2>1 DEF ImageStages, DepthStages
<1>12. CASE FreeImage
  <2>1. lap' = lap /\ pc = "freeImage" /\ pc' = "infer"
    BY <1>12 DEF FreeImage
  <2>2. Stage("preview") = "stored" /\ Stage("preview")' = "released"
    BY <2>1 DEF ImageStages
  <2>3. tofTimely => Stage("tof") = "stored" /\ Stage("tof")' = "stored"
    BY <2>1 DEF DepthStages
  <2>4. HandOver!Advance("preview", "stored", "released")
    BY <2>1, <2>2, <2>3, AdvanceStep
  <2> QED BY <1>3, <2>2, <2>3, <2>4 DEF HandOver!Release
<1>13. CASE NoObject
  BY <1>4, <1>13 DEF NoObject, EndLap
<1>14. CASE LoadDepth
  <2>1. lap' = lap /\ pc = "infer" /\ pc' = "copyDepth"
    BY <1>14 DEF LoadDepth
  <2> QED BY <1>2, <2>1 DEF ImageStages, DepthStages
<1>15. CASE NoDepth
  <2>1. lap' = lap /\ pc = "infer" /\ pc' = "lock" /\ data["tof"] = Null
    BY <1>15 DEF NoDepth
  <2> QED BY <1>4, <2>1
<1>16. CASE CopyDepth
  <2>1. lap' = lap /\ pc = "copyDepth" /\ pc' = "getBbox"
    BY <1>16 DEF CopyDepth
  <2> QED BY <1>2, <2>1 DEF ImageStages, DepthStages
<1>17. CASE NoBbox
  BY <1>4, <1>17 DEF NoBbox, EndLap
<1>18. CASE GetDepth
  <2>1. lap' = lap /\ pc = "getBbox" /\ pc' = "decide"
    BY <1>18 DEF GetDepth
  <2> QED BY <1>2, <2>1 DEF ImageStages, DepthStages
<1>19. CASE Decide
  BY <1>4, <1>19 DEF Decide, EndLap
<1> QED
  BY <1>5, <1>6, <1>7, <1>8, <1>9, <1>10, <1>11, <1>12, <1>13, <1>14, <1>15, <1>16, <1>17,
     <1>18, <1>19 DEF Main

\* The preview's thread stores the frame that main ordered, and only then.
LEMMA PreviewHandsOver ==
    ASSUME LoopInv, LoopInv', ImageStages, ImageStages', DepthStages, DepthStages',
           PreviewThread, UNCHANGED tofTimely
    PROVE  [HandOver!Next]_(HandOver!vars)
<1>1. TypeOK /\ "preview" \in Cameras /\ "tof" \in Cameras
  BY DEF LoopInv, TypeInv, Cameras
<1>2. pc' = pc /\ lap' = lap
  BY DEF PreviewThread, ImageWanted, ImageFill, ImageCountLoad, ImageCountStore, ImageSignal,
         loopVars
<1>3. Same("tof")
  BY <1>1, OtherCamera
  DEF PreviewThread, ImageWanted, ImageFill, ImageCountLoad, ImageCountStore, ImageSignal,
      Same, TypeOK
<1>4. tofTimely => Stage("tof")' = Stage("tof")
  <2>1. There("tof")' <=> There("tof")
    BY <1>1, <1>3, SameThere
  <2> QED BY <1>2, <2>1 DEF DepthStages, LoopInv, TypeInv, TypeOK
<1>5. ~Nothing("preview") \/ orders["preview"] > 0
  BY DEF PreviewThread, ImageWanted, ImageFill, ImageCountLoad, ImageCountStore, ImageSignal,
         Nothing
<1>6. ~There("preview")
  BY DEF PreviewThread, ImageWanted, ImageFill, ImageCountLoad, ImageCountStore, ImageSignal,
         There
<1>7. Waiting
  BY <1>1, <1>5, <1>6 DEF LoopInv, ImageInv, Waiting, TypeOK, Nothing
<1>8. Stage("preview") = "ordered"
  BY <1>6, <1>7 DEF ImageStages
<1>9. Stage("preview")' = IF There("preview")' THEN "stored" ELSE "ordered"
  BY <1>2, <1>7 DEF ImageStages, Waiting
<1> USE WatchedCameras
<1>10. CASE There("preview")'
  <2>1. HandOver!Store("preview")
    BY <1>2, <1>4, <1>8, <1>9, <1>10, AdvanceStep DEF HandOver!Store
  <2> QED BY <2>1 DEF HandOver!Next
<1>11. CASE ~There("preview")'
  BY <1>2, <1>4, <1>8, <1>9, <1>11, FramesStutter
<1> QED BY <1>10, <1>11

\* So does the TOF camera's thread, if its frames come in time; if they do not,
\* it leaves the preview's frame alone all the same.
LEMMA TofHandsOver ==
    ASSUME LoopInv, LoopInv', ImageStages, ImageStages', DepthStages, DepthStages',
           TofThread, UNCHANGED tofTimely
    PROVE  [HandOver!Next]_(HandOver!vars)
<1>1. TypeOK /\ "preview" \in Cameras /\ "tof" \in Cameras
  BY DEF LoopInv, TypeInv, Cameras
<1>2. pc' = pc /\ lap' = lap
  BY DEF TofThread, TofWanted, TofCountLoad, TofCountStore, TofAllocate, TofFill, loopVars
<1>3. Same("preview")
  BY <1>1, OtherCamera
  DEF TofThread, TofWanted, TofCountLoad, TofCountStore, TofAllocate, TofFill, Same, TypeOK
<1>4. Stage("preview")' = Stage("preview")
  <2>1. There("preview")' <=> There("preview")
    BY <1>1, <1>3, SameThere
  <2> QED BY <1>1, <1>2, <2>1 DEF ImageStages, Waiting, TypeOK
<1> USE WatchedCameras
<1>5. CASE tofTimely
  <2>1. ~There("tof") /\ ~Nothing("tof")
    BY DEF TofThread, TofWanted, TofCountLoad, TofCountStore, TofAllocate, TofFill,
           There, Nothing
  <2>2. pc \in {"beginWait", "wait"}
    BY <1>1, <1>5, <2>1 DEF LoopInv, DepthInv, TypeOK
  <2>3. Stage("tof") = "ordered"
    BY <1>5, <2>1, <2>2 DEF DepthStages
  <2>4. Stage("tof")' = IF There("tof")' THEN "stored" ELSE "ordered"
    BY <1>2, <1>5, <2>2 DEF DepthStages
  <2>5. CASE There("tof")'
    <3>1. HandOver!Store("tof")
      BY <1>2, <1>4, <1>5, <2>3, <2>4, <2>5, AdvanceStep DEF HandOver!Store
    <3> QED BY <1>5, <3>1 DEF HandOver!Next
  <2>6. CASE ~There("tof")'
    BY <1>2, <1>4, <2>3, <2>4, <2>6, FramesStutter
  <2> QED BY <2>5, <2>6
<1>6. CASE ~tofTimely
  BY <1>2, <1>4, <1>6, FramesStutter
<1> QED BY <1>5, <1>6

\* Before the first lap no frame was asked for and none is allocated.
LEMMA HandOverInit == Init /\ ImageStages /\ DepthStages => HandOver!Init
<1> SUFFICES ASSUME Init, ImageStages, DepthStages PROVE HandOver!Init
  OBVIOUS
<1>1. \A c \in Watched : Stage(c) = "released"
  BY WatchedCameras DEF Init, ImageStages, DepthStages
<1>2. Watched \in SUBSET Cameras
  BY DEF Watched, Cameras
<1> QED BY <1>1, <1>2 DEF Init, HandOver!Init

\* Every step of the frame loop moves the frames as FrameHandOver allows.
LEMMA HandOverStep ==
    LoopInv /\ LoopInv' /\ ImageStages /\ ImageStages' /\ DepthStages /\ DepthStages'
    /\ [Next]_vars
        => [HandOver!Next]_(HandOver!vars)
<1> SUFFICES ASSUME LoopInv, LoopInv', ImageStages, ImageStages', DepthStages, DepthStages',
                    [Next]_vars
             PROVE  [HandOver!Next]_(HandOver!vars)
  OBVIOUS
<1>1. CASE Main /\ UNCHANGED tofTimely
  BY <1>1, MainHandsOver
<1>2. CASE PreviewThread /\ UNCHANGED tofTimely
  BY <1>2, PreviewHandsOver
<1>3. CASE TofThread /\ UNCHANGED tofTimely
  BY <1>3, TofHandsOver
<1>4. CASE UNCHANGED vars
  <2>1. \A c \in Watched : Stage(c)' = Stage(c)
    BY <1>4 DEF vars, loopVars, Stage, There, OneFrame, Nothing, Live, Unasked
  <2>2. UNCHANGED <<lap, tofTimely>>
    BY <1>4 DEF vars, loopVars
  <2> QED BY <2>1, <2>2, FramesStutter
<1> QED BY <1>1, <1>2, <1>3, <1>4 DEF Next, Over

\* The frame loop implements the hand-over of one frame per camera and lap: the
\* preview's always, the TOF camera's if it comes in time, for every number of
\* laps and every order in which main and the two threads run.
THEOREM HandOverIsImplemented == SafetySpec => ImplementsHandOver
<1>1. Init => HandOver!Init
  BY LoopInit, ImageStagesHold, DepthStagesHold, HandOverInit
<1> QED
  BY <1>1, LoopInvariant, ImageStagesHold, DepthStagesHold, HandOverStep, PTL
  DEF SafetySpec, ImplementsHandOver, HandOver!Spec
=============================================================================
