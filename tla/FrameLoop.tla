----------------------------- MODULE FrameLoop -----------------------------
(***************************************************************************)
(* The frame loop of main(): in every lap the main thread orders one       *)
(* preview frame and one TOF frame, waits on cond_f, and decides how the   *)
(* bot moves.  CapturePostProcess of the preview camera and of the TOF     *)
(* camera run on the result threads of the two cameras and serve the       *)
(* orders; they take no lock.                                              *)
(*                                                                         *)
(* An unsynchronised counter is read and written in two steps where two    *)
(* threads may write it, and a malloc'ed frame has a life of its own: the  *)
(* pointers image_data and depth_data only name it.  What the inference    *)
(* and getBbox answer is nondeterministic; the fields depth_copy and       *)
(* rgb_copy are written but never read and are left out, and so is         *)
(* mFfbmPreviewCb, which nothing sets.                                     *)
(***************************************************************************)
EXTENDS Integers, FiniteSets

CONSTANTS
    Laps,       \* laps of the loop (10 in the code)
    Timings     \* the values tofTimely may have

ASSUME LoopAssumption == Laps \in Nat /\ Timings \subseteq BOOLEAN

Null == 0               \* the pointer value NULL
Wild == -1              \* an uninitialised pointer (the constructors set none)
Frames == 1 .. Laps * Laps \* a racing += of the TOF camera brings served orders back

VARIABLES
    pc,         \* where main is
    lap,        \* laps begun
    lock,       \* TRUE: main holds lock_f
    signalled,  \* cond_f was signalled while main waits on it
    orders,     \* orders[c]: mDumpPreviewNum of the preview / TOF object
    addend,     \* the value of mDumpPreviewNum that main's += has read
    thread,     \* thread[c]: where CapturePostProcess of camera c is
    subtrahend, \* subtrahend[c]: the value its mDumpPreviewNum-- has read
    data,       \* data[c]: image_data and depth_data
    heap,       \* heap[c][i]: what became of the i-th frame camera c stored
    depthImage, \* main's local copy of depth_data
    command,    \* the last command sent to the bot
    tofTimely,  \* TRUE: the TOF frame of a lap is there when main is woken
    lostSignal, \* history: cond_f was signalled when main did not wait
    fault       \* the undefined behaviour that was reached, if any

Cameras == {"preview", "tof"}

loopVars == <<pc, lap, lock>>
vars == <<loopVars, signalled, orders, addend, thread, subtrahend, data, heap,
          depthImage, command, tofTimely, lostSignal, fault>>

\* After both cameras were started by run() and before the first lap.  The
\* constructors leave image_data and depth_data as they find them.
Init ==
    /\ pc = "lock" /\ lap = 0 /\ lock = FALSE /\ signalled = FALSE
    /\ orders = [c \in Cameras |-> 0] /\ addend = 0
    /\ thread = [c \in Cameras |-> "idle"]
    /\ subtrahend = [c \in Cameras |-> 0]
    /\ data \in [Cameras -> {Null, Wild}]
    /\ heap = [c \in Cameras |-> [i \in Frames |-> "unused"]]
    /\ depthImage = Null
    /\ command = "none" /\ tofTimely \in Timings
    /\ lostSignal = FALSE /\ fault = "none"

\* What an access through pointer p to a frame of camera c meets
Contents(c, p) ==
    IF p = Null THEN "null" ELSE IF p = Wild THEN "wild" ELSE heap[c][p]

\* The fault of reading a frame through p, or "none"
ReadFault(c, p) ==
    CASE Contents(c, p) = "full" -> "none"
      [] Contents(c, p) = "raw"  -> "readUninitialised"
      [] OTHER                   -> "readDangling"

\* free(p): nothing for NULL, a fault for a freed or wild pointer
FreeFault(c, p) == IF p = Null \/ Contents(c, p) \in {"raw", "full"} THEN "none"
                                                                     ELSE "doubleFree"
Freed(c, p) == IF p \in Frames THEN [heap EXCEPT ![c][p] = "freed"] ELSE heap

-----------------------------------------------------------------------------
(* The main thread.                                                        *)

\* The next lap begins, or the loop ends after Laps laps.
LockLap ==
    /\ pc = "lock" /\ ~lock
    /\ IF lap < Laps THEN pc' = "orderImage" /\ lap' = lap + 1 /\ lock' = TRUE
                     ELSE pc' = "quit" /\ UNCHANGED <<lap, lock>>
    /\ UNCHANGED <<signalled, orders, addend, thread, subtrahend, data, heap,
                   depthImage, command, lostSignal, fault>>

\* testPreview->dumpPreview(num)
OrderImage ==
    /\ pc = "orderImage"
    /\ orders' = [orders EXCEPT !["preview"] = 1]
    /\ pc' = "loadTof"
    /\ UNCHANGED <<lap, lock, signalled, addend, thread, subtrahend, data, heap,
                   depthImage, command, lostSignal, fault>>

\* testTof->dumpPreview(num): mDumpPreviewNum += count, a read and a write
OrderTofLoad ==
    /\ pc = "loadTof"
    /\ addend' = orders["tof"]
    /\ pc' = "storeTof"
    /\ UNCHANGED <<lap, lock, signalled, orders, thread, subtrahend, data, heap,
                   depthImage, command, lostSignal, fault>>

OrderTofStore ==
    /\ pc = "storeTof"
    /\ orders' = [orders EXCEPT !["tof"] = addend + 1]
    /\ pc' = "beginWait"
    /\ UNCHANGED <<lap, lock, signalled, addend, thread, subtrahend, data, heap,
                   depthImage, command, lostSignal, fault>>

\* pthread_cond_wait: main starts to wait and gives lock_f up.
BeginWait ==
    /\ pc = "beginWait"
    /\ pc' = "wait" /\ lock' = FALSE /\ signalled' = FALSE
    /\ UNCHANGED <<lap, orders, addend, thread, subtrahend, data, heap,
                   depthImage, command, lostSignal, fault>>

\* The TOF camera has served the order of this lap.
TofServed == orders["tof"] = 0 /\ thread["tof"] = "idle"

\* pthread_cond_wait returns, lock_f held.  It is taken to return only when
\* cond_f was signalled: main checks nothing after it.
Wake ==
    /\ pc = "wait" /\ ~lock /\ signalled
    /\ tofTimely => TofServed
    /\ pc' = "copyImage" /\ lock' = TRUE /\ signalled' = FALSE
    /\ UNCHANGED <<lap, orders, addend, thread, subtrahend, data, heap,
                   depthImage, command, lostSignal, fault>>

\* memcpy out of image_data
CopyImage ==
    /\ pc = "copyImage"
    /\ fault' = ReadFault("preview", data["preview"])
    /\ pc' = "freeImage"
    /\ UNCHANGED <<lap, lock, signalled, orders, addend, thread, subtrahend, data, heap,
                   depthImage, command, lostSignal>>

FreeImage ==
    /\ pc = "freeImage"
    /\ fault' = FreeFault("preview", data["preview"])
    /\ heap' = Freed("preview", data["preview"])
    /\ pc' = "infer"
    /\ UNCHANGED <<lap, lock, signalled, orders, addend, thread, subtrahend, data,
                   depthImage, command, lostSignal>>

\* The end of a lap that frees depth_data and sends cmd ("none": no command).
EndLap(cmd) ==
    /\ fault' = FreeFault("tof", data["tof"])
    /\ heap' = Freed("tof", data["tof"])
    /\ command' = IF cmd = "none" THEN command ELSE cmd
    /\ pc' = "lock" /\ lock' = FALSE
    /\ UNCHANGED <<lap, signalled, orders, addend, thread, subtrahend, data, depthImage,
                   lostSignal>>

\* Mutant: the "No object" path returns to the top without unlocking.
NoObjectKeepsLock ==
    /\ pc = "infer"
    /\ fault' = FreeFault("tof", data["tof"])
    /\ heap' = Freed("tof", data["tof"])
    /\ command' = "forward" /\ pc' = "lock"
    /\ UNCHANGED <<lap, lock, signalled, orders, addend, thread, subtrahend, data, depthImage,
                   lostSignal>>

\* Neither model sees an object (or the inference failed).
NoObject == pc = "infer" /\ EndLap("forward")

\* An object: main looks at depth_data.
LoadDepth ==
    /\ pc = "infer" /\ data["tof"] # Null
    /\ depthImage' = data["tof"]
    /\ pc' = "copyDepth"
    /\ UNCHANGED <<lap, lock, signalled, orders, addend, thread, subtrahend, data, heap,
                   command, lostSignal, fault>>

\* "No Depth data Found": the lap ends without a command.
NoDepth ==
    /\ pc = "infer" /\ data["tof"] = Null
    /\ depthImage' = Null
    /\ pc' = "lock" /\ lock' = FALSE
    /\ UNCHANGED <<lap, signalled, orders, addend, thread, subtrahend, data, heap,
                   command, lostSignal, fault>>

\* memcpy out of depth_data, which is read again
CopyDepth ==
    /\ pc = "copyDepth"
    /\ fault' = ReadFault("tof", data["tof"])
    /\ pc' = "getBbox"
    /\ UNCHANGED <<lap, lock, signalled, orders, addend, thread, subtrahend, data, heap,
                   depthImage, command, lostSignal>>

\* Mutant: depth_data is not freed when there is no rectangle.
NoBboxKeepsDepth ==
    /\ pc = "getBbox"
    /\ command' = "stop" /\ pc' = "lock" /\ lock' = FALSE
    /\ UNCHANGED <<lap, signalled, orders, addend, thread, subtrahend, data, heap, depthImage,
                   lostSignal, fault>>

\* getBbox found no rectangle.
NoBbox == pc = "getBbox" /\ EndLap("stop")

\* Mutant: depth_data is freed before getDepth reads depthImage.
GetDepthAfterFree ==
    /\ pc = "getBbox"
    /\ heap' = Freed("tof", data["tof"])
    /\ fault' = IF depthImage = data["tof"] THEN "readDangling"
                                            ELSE ReadFault("tof", depthImage)
    /\ pc' = "decide"
    /\ UNCHANGED <<lap, lock, signalled, orders, addend, thread, subtrahend, data,
                   depthImage, command, lostSignal>>

\* getDepth reads the frame main's own pointer names.
GetDepth ==
    /\ pc = "getBbox"
    /\ fault' = ReadFault("tof", depthImage)
    /\ pc' = "decide"
    /\ UNCHANGED <<lap, lock, signalled, orders, addend, thread, subtrahend, data, heap,
                   depthImage, command, lostSignal>>

\* The distance decides; the first lap always stops, and a distance of 1 or 2
\* sends nothing.
Decide ==
    /\ pc = "decide"
    /\ \E cmd \in IF lap = 1 THEN {"stop"} ELSE {"stop", "forward", "bypass", "none"} :
        EndLap(cmd)

Main ==
    \/ LockLap \/ OrderImage \/ OrderTofLoad \/ OrderTofStore \/ BeginWait \/ Wake
    \/ CopyImage \/ FreeImage \/ NoObject \/ LoadDepth \/ NoDepth \/ CopyDepth
    \/ NoBbox \/ GetDepth \/ Decide

-----------------------------------------------------------------------------
(* CapturePostProcess of the two cameras.                                  *)

\* Frame i of camera c was not stored yet and all before it were.
NextFrame(c, i) == heap[c][i] = "unused" /\ \A j \in 1 .. i - 1 : heap[c][j] # "unused"

\* data[c] = malloc(...)
Allocate(c) ==
    \E i \in Frames :
        /\ NextFrame(c, i)
        /\ heap' = [heap EXCEPT ![c][i] = "raw"]
        /\ data' = [data EXCEPT ![c] = i]

\* memcpy into data[c], which is read again
Fill(c) ==
    IF Contents(c, data[c]) \in {"raw", "full"}
    THEN heap' = [heap EXCEPT ![c][data[c]] = "full"] /\ UNCHANGED fault
    ELSE fault' = "writeDangling" /\ UNCHANGED heap

\* Mutant: the waiting thread is woken before the frame was copied.
ImageWantedSignals ==
    /\ thread["preview"] = "idle" /\ orders["preview"] > 0
    /\ Allocate("preview")
    /\ signalled' = (signalled \/ pc = "wait")
    /\ thread' = [thread EXCEPT !["preview"] = "fill"]
    /\ UNCHANGED <<loopVars, orders, addend, subtrahend, depthImage, command,
                   lostSignal, fault>>

\* A preview frame is there and mDumpPreviewNum > 0.
ImageWanted ==
    /\ thread["preview"] = "idle" /\ orders["preview"] > 0
    /\ Allocate("preview")
    /\ thread' = [thread EXCEPT !["preview"] = "fill"]
    /\ UNCHANGED <<loopVars, signalled, orders, addend, subtrahend, depthImage, command,
                   lostSignal, fault>>

\* memcpy into image_data
ImageFill ==
    /\ thread["preview"] = "fill"
    /\ Fill("preview")
    /\ thread' = [thread EXCEPT !["preview"] = "load"]
    /\ UNCHANGED <<loopVars, signalled, orders, addend, subtrahend, data, depthImage, command,
                   lostSignal>>

\* mDumpPreviewNum--, a read and a write
ImageCountLoad ==
    /\ thread["preview"] = "load"
    /\ subtrahend' = [subtrahend EXCEPT !["preview"] = orders["preview"]]
    /\ thread' = [thread EXCEPT !["preview"] = "store"]
    /\ UNCHANGED <<loopVars, signalled, orders, addend, data, heap, depthImage, command,
                   lostSignal, fault>>

ImageCountStore ==
    /\ thread["preview"] = "store"
    /\ orders' = [orders EXCEPT !["preview"] = subtrahend["preview"] - 1]
    /\ thread' = [thread EXCEPT !["preview"] = "signal"]
    /\ UNCHANGED <<loopVars, signalled, addend, subtrahend, data, heap, depthImage, command,
                   lostSignal, fault>>

\* pthread_cond_signal without lock_f: it is lost unless main waits already.
ImageSignal ==
    /\ thread["preview"] = "signal"
    /\ signalled' = (signalled \/ pc = "wait")
    /\ lostSignal' = (lostSignal \/ pc # "wait")
    /\ thread' = [thread EXCEPT !["preview"] = "idle"]
    /\ UNCHANGED <<loopVars, orders, addend, subtrahend, data, heap, depthImage, command,
                   fault>>

\* A TOF frame is there and mDumpPreviewNum > 0; the count comes first here.
TofWanted ==
    /\ thread["tof"] = "idle" /\ orders["tof"] > 0
    /\ thread' = [thread EXCEPT !["tof"] = "load"]
    /\ UNCHANGED <<loopVars, signalled, orders, addend, subtrahend, data, heap, depthImage,
                   command, lostSignal, fault>>

TofCountLoad ==
    /\ thread["tof"] = "load"
    /\ subtrahend' = [subtrahend EXCEPT !["tof"] = orders["tof"]]
    /\ thread' = [thread EXCEPT !["tof"] = "store"]
    /\ UNCHANGED <<loopVars, signalled, orders, addend, data, heap, depthImage, command,
                   lostSignal, fault>>

TofCountStore ==
    /\ thread["tof"] = "store"
    /\ orders' = [orders EXCEPT !["tof"] = subtrahend["tof"] - 1]
    /\ thread' = [thread EXCEPT !["tof"] = "allocate"]
    /\ UNCHANGED <<loopVars, signalled, addend, subtrahend, data, heap, depthImage, command,
                   lostSignal, fault>>

TofAllocate ==
    /\ thread["tof"] = "allocate"
    /\ Allocate("tof")
    /\ thread' = [thread EXCEPT !["tof"] = "fill"]
    /\ UNCHANGED <<loopVars, signalled, orders, addend, subtrahend, depthImage, command,
                   lostSignal, fault>>

TofFill ==
    /\ thread["tof"] = "fill"
    /\ Fill("tof")
    /\ thread' = [thread EXCEPT !["tof"] = "idle"]
    /\ UNCHANGED <<loopVars, signalled, orders, addend, subtrahend, data, depthImage, command,
                   lostSignal>>

PreviewThread == ImageWanted \/ ImageFill \/ ImageCountLoad \/ ImageCountStore \/ ImageSignal
TofThread == TofWanted \/ TofCountLoad \/ TofCountStore \/ TofAllocate \/ TofFill

-----------------------------------------------------------------------------

\* Main waits on cond_f and no frame is ordered any more: nothing wakes it.
Hung == pc = "wait" /\ ~signalled /\ orders["preview"] = 0 /\ thread["preview"] = "idle"

\* The loop is over, main waits for ever, or undefined behaviour ended the model.
Over ==
    /\ pc = "quit" \/ fault # "none" \/ (Hung /\ lostSignal)
    /\ UNCHANGED vars

Next ==
    \/ fault = "none" /\ (Main \/ PreviewThread \/ TofThread) /\ UNCHANGED tofTimely
    \/ Over

SafetySpec == Init /\ [][Next]_vars

\* Main runs and both cameras keep delivering frames.
Spec ==
    /\ SafetySpec
    /\ WF_vars(fault = "none" /\ Main /\ UNCHANGED tofTimely)
    /\ WF_vars(fault = "none" /\ PreviewThread /\ UNCHANGED tofTimely)
    /\ WF_vars(fault = "none" /\ TofThread /\ UNCHANGED tofTimely)
-----------------------------------------------------------------------------
(* Properties.                                                             *)

\* The type of every variable of the loop.
TypeOK ==
    /\ pc \in {"lock", "orderImage", "loadTof", "storeTof", "beginWait", "wait", "copyImage",
               "freeImage", "infer", "copyDepth", "getBbox", "decide", "quit"}
    /\ lap \in 0 .. Laps
    /\ lock \in BOOLEAN /\ tofTimely \in Timings /\ signalled \in BOOLEAN /\ lostSignal \in BOOLEAN
    /\ orders \in [Cameras -> Nat] /\ addend \in Nat /\ subtrahend \in [Cameras -> Nat]
    /\ thread \in [Cameras -> {"idle", "allocate", "fill", "load", "store", "signal"}]
    /\ data \in [Cameras -> Frames \cup {Null, Wild}]
    /\ heap \in [Cameras -> [Frames -> {"unused", "raw", "full", "freed"}]]
    /\ depthImage \in Frames \cup {Null, Wild}
    /\ command \in {"none", "stop", "forward", "bypass"}
    /\ fault \in {"none", "readUninitialised", "readDangling", "writeDangling", "doubleFree"}

\* When main copies and frees image_data it is the frame it ordered, copied in
\* full and not freed before: the preview's memcpy, its count, its signal and
\* main's next order follow each other although only main takes lock_f.
ImageReady ==
    pc \in {"copyImage", "freeImage"} => Contents("preview", data["preview"]) = "full"

Live(c) == {i \in Frames : heap[c][i] \in {"raw", "full"}}

\* Between two laps the preview has served its order and main has freed the
\* frame: the threads leave neither a frame nor half an order behind.
NoImageLeftOver ==
    pc = "lock" =>
        Live("preview") = {} /\ orders["preview"] = 0 /\ thread["preview"] = "idle"

\* The same of the TOF camera, if its frames come in time.
NoDepthLeftOver == tofTimely /\ pc = "lock" => Live("tof") = {} /\ TofServed

\* If the TOF frames come in time, no frame is read, written or freed after it
\* was freed, or before it is there.
NoFault == tofTimely => fault = "none"

\* Every lap is run and the loop ends, unless the preview signalled cond_f
\* before main waited on it.
LoopEndsUnlessSignalLost == <>(pc = "quit" \/ lostSignal \/ fault # "none")

\* The ten laps of the loop are run.
LoopEnds == <>(pc = "quit" \/ fault # "none")

\* "No Depth data Found": main only goes on with a depth frame that is there.
DepthIsThere ==
    pc \in {"copyDepth", "getBbox"} => Contents("tof", data["tof"]) # "freed"
=============================================================================
