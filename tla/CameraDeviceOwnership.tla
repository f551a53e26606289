----------------------- MODULE CameraDeviceOwnership -----------------------
(***************************************************************************)
(* CameraDevice implements BufferOwnership: who owns a buffer is read off  *)
(* the pools, the request being built, the HAL and the way of the results. *)
(***************************************************************************)
EXTENDS CameraDevice

InPool(b)     == \E s \in Streams : b \in free[s]
WithHal(b)    == \E f \in Frames : b \in halBufs[f]
InCallback(b) == cb.at = "enqueue" /\ b \in cb.bufs
InQueue(b)    == \E i \in 1 .. Len(resQ) : b \in resQ[i].bufs
InResult(b)   == InCallback(b) \/ InQueue(b) \/ b \in posting

OwnerOf(b) ==
    CASE InPool(b)      -> "pool"
      [] b \in held     -> "request"
      [] WithHal(b)     -> "hal"
      [] InResult(b)   -> "result"
      [] b \in client   -> "client"
      [] b \in dropped  -> "lost"
      [] OTHER          -> "nobody"

Abstract == INSTANCE BufferOwnership WITH
    Pools    <- {Pool[s] : s \in Streams},
    owner    <- [b \in Buffers |-> OwnerOf(b)],
    stopping <- resStopped

\* Every step of the threads passes buffers on as BufferOwnership allows:
\* GetBuffer never takes a second buffer of a stream for one request, the HAL
\* gets or refuses a request as a whole, and a buffer that left the HAL comes
\* back to its pool or its client unless a stop began.
ImplementsOwnership == Abstract!Spec
=============================================================================
