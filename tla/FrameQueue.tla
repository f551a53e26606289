----------------------------- MODULE FrameQueue -----------------------------
(***************************************************************************)
(* What the video encoder promises the camera about its buffers, without   *)
(* threads, headers and the OMX component: the result thread brings one    *)
(* buffer at a time, and none after a stop began; those it enqueued are    *)
(* used and put back one by one, each once and in the order they came, and *)
(* none of them is left when the stop ends.                                *)
(***************************************************************************)
EXTENDS Sequences

CONSTANTS
    Buffers,    \* camera buffers of the video stream
    NoBuffer    \* no camera buffer

VARIABLES
    pool,       \* the buffers that are with the camera
    hand,       \* the buffer the result thread has brought
    line,       \* the buffers of the encoder, the next to be put back first
    stopping,   \* TRUE: a stop began
    closed      \* TRUE: the stop ended

vars == <<pool, hand, line, stopping, closed>>

Init ==
    /\ pool = Buffers /\ hand = NoBuffer /\ line = <<>>
    /\ stopping = FALSE /\ closed = FALSE

Bring ==
    /\ ~stopping /\ hand = NoBuffer
    /\ \E b \in pool : pool' = pool \ {b} /\ hand' = b
    /\ UNCHANGED <<line, stopping, closed>>

Enqueue ==
    /\ ~closed /\ hand # NoBuffer /\ hand' = NoBuffer
    /\ line' = Append(line, hand)
    /\ UNCHANGED <<pool, stopping, closed>>

PutBack ==
    /\ ~closed /\ line # <<>> /\ line' = Tail(line)
    /\ pool' = pool \cup {Head(line)}
    /\ UNCHANGED <<hand, stopping, closed>>

BeginStop == stopping' = TRUE /\ UNCHANGED <<pool, hand, line, closed>>

EndStop ==
    /\ stopping /\ line = <<>> /\ closed' = TRUE
    /\ UNCHANGED <<pool, hand, line, stopping>>

Next == Bring \/ Enqueue \/ PutBack \/ BeginStop \/ EndStop

Spec == Init /\ [][Next]_vars
=============================================================================
