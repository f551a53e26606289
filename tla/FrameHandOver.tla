--------------------------- MODULE FrameHandOver ---------------------------
(***************************************************************************)
(* What the frame loop promises about the frames of a lap, without its     *)
(* counters, pointers, locks and threads: in every lap each watched camera *)
(* is asked for one frame, hands it over in full once and has it given     *)
(* back once, and no frame is given back before all of the lap are there.  *)
(***************************************************************************)
EXTENDS Naturals

CONSTANTS
    Laps,       \* laps of the loop
    Cameras     \* the cameras that may be watched

VARIABLES
    lap,        \* laps begun
    watched,    \* the cameras this promise is about; they stay the same
    stage       \* stage[c]: how far the frame of the lap is

vars == <<lap, watched, stage>>

Init ==
    /\ lap = 0 /\ watched \in SUBSET Cameras
    /\ stage = [c \in watched |-> "released"]

\* The last frames are given back before the next ones are asked for.
BeginLap ==
    /\ lap < Laps /\ lap' = lap + 1
    /\ \A c \in watched : stage[c] = "released"
    /\ stage' = [c \in watched |-> "idle"]
    /\ UNCHANGED watched

\* The frame of camera c gets from one stage to the next.
Advance(c, from, to) ==
    /\ c \in watched /\ stage[c] = from
    /\ stage' = [stage EXCEPT ![c] = to]
    /\ UNCHANGED <<lap, watched>>

Order(c) == Advance(c, "idle", "ordered")
Store(c) == Advance(c, "ordered", "stored")

Release(c) ==
    /\ \A d \in watched : stage[d] \in {"stored", "released"}
    /\ Advance(c, "stored", "released")

Next == BeginLap \/ \E c \in watched : Order(c) \/ Store(c) \/ Release(c)

Spec == Init /\ [][Next]_vars
=============================================================================
