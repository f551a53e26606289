-------------------------- MODULE BufferOwnership --------------------------
(***************************************************************************)
(* What the capture pipeline of a camera device promises about buffers,    *)
(* without its threads and queues: a buffer belongs to one party at a time *)
(* and goes round pool -> request -> HAL -> result -> pool, with a detour  *)
(* to the owner of the callback; a request is built of at most one buffer  *)
(* of each pool and handed over or given up as a whole; and a buffer is    *)
(* lost only after a stop began.                                           *)
(***************************************************************************)
CONSTANTS Pools     \* the sets of buffers, one for each stream

VARIABLES
    owner,      \* owner[b]: who has buffer b
    stopping    \* TRUE: the result thread was told to stop

vars == <<owner, stopping>>

Buffers == UNION Pools
Owners == {"pool", "request", "hal", "result", "client", "lost"}

OwnedBy(o) == {b \in Buffers : owner[b] = o}

\* The buffers bufs, all of them owned by from, go to the owner to.
Pass(bufs, from, to) ==
    /\ bufs # {} /\ bufs \subseteq OwnedBy(from)
    /\ owner' = [b \in Buffers |-> IF b \in bufs THEN to ELSE owner[b]]
    /\ UNCHANGED stopping

Init == owner = [b \in Buffers |-> "pool"] /\ stopping = FALSE

\* A request gets a buffer of a pool it has none of yet.
Take ==
    \E b \in Buffers :
        /\ \A pool \in Pools : b \in pool => pool \cap OwnedBy("request") = {}
        /\ Pass({b}, "pool", "request")

\* The request is accepted or refused, with all its buffers.
Submit == Pass(OwnedBy("request"), "request", "hal")
Refuse == Pass(OwnedBy("request"), "request", "pool")

\* The HAL returns buffers of one request or of several.
Return == \E bufs \in SUBSET OwnedBy("hal") : Pass(bufs, "hal", "result")

\* They go back to the pools, at once or after the client has used them.
Recycle == \E bufs \in SUBSET OwnedBy("result") : Pass(bufs, "result", "pool")
Lend    == \E bufs \in SUBSET OwnedBy("result") : Pass(bufs, "result", "client")
GetBack == \E b \in OwnedBy("client") : Pass({b}, "client", "pool")

BeginStop == ~stopping /\ stopping' = TRUE /\ UNCHANGED owner
Lose == stopping /\ \E bufs \in SUBSET OwnedBy("result") : Pass(bufs, "result", "lost")

Next ==
    \/ Take \/ Submit \/ Refuse \/ Return \/ Recycle \/ Lend \/ GetBack
    \/ BeginStop \/ Lose

Spec == Init /\ [][Next]_vars
=============================================================================
