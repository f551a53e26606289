------------------------- MODULE FrameLoopHandOver -------------------------
(***************************************************************************)
(* FrameLoop implements FrameHandOver: how far the frame of a camera is is *)
(* read off what is allocated, what is ordered and where its thread is.    *)
(***************************************************************************)
EXTENDS FrameLoop

\* Camera c has nothing to do and no frame of it is allocated.
Nothing(c) == Live(c) = {} /\ orders[c] = 0 /\ thread[c] = "idle"

\* The one frame of camera c that is allocated is the one its pointer names.
OneFrame(c, state) ==
    data[c] \in Frames /\ Live(c) = {data[c]} /\ heap[c][data[c]] = state

\* The order is served: the frame is there, in full.
There(c) == OneFrame(c, "full") /\ orders[c] = 0 /\ thread[c] = "idle"

\* The preview is watched, and the TOF camera if its frames come in time.
Watched == IF tofTimely THEN Cameras ELSE {"preview"}

\* The lap has begun and camera c was not asked for its frame yet.
Unasked(c) == pc = "orderImage" \/ (c = "tof" /\ pc \in {"loadTof", "storeTof"})

Stage(c) ==
    CASE There(c)                 -> "stored"
      [] Nothing(c) /\ Unasked(c)  -> "idle"
      [] Nothing(c) /\ ~Unasked(c) -> "released"
      [] OTHER                     -> "ordered"

HandOver == INSTANCE FrameHandOver WITH
    watched <- Watched,
    stage   <- [c \in Watched |-> Stage(c)]

\* Every step of main and of the two camera threads moves the frames of the lap
\* as FrameHandOver allows: although the counters and pointers are shared
\* without a lock, no frame is stored twice or for no order, none is freed
\* before all are there, and no lap begins with one left over.
ImplementsHandOver == HandOver!Spec
=============================================================================
