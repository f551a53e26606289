-------------------------- MODULE SnapshotCapture --------------------------
(***************************************************************************)
(* Pictures of the snapshot camera.  RequestCaptures orders count pictures *)
(* from the request thread and lets the capture callback write the next    *)
(* count of them.  In ZSL mode it returns at once; otherwise it waits for  *)
(* the last picture or a timeout, and stops the camera.                    *)
(*                                                                         *)
(* mSnapshotNum is set by the caller under the request thread's mutex and  *)
(* counted down by the callback under none, so its decrement is a load and *)
(* a store.  The wait has no predicate: a signal before it is lost.        *)
(* setFfbmSnapshotCb has no caller, so mFfbmSnapshotCb is NULL.            *)
(***************************************************************************)
EXTENDS Naturals

CONSTANTS
    Counts,      \* numbers of pictures an order may ask for
    MaxOrders    \* orders a ZSL camera is given

NonZslStableFrameCount == 4

ASSUME ShotAssumption == Counts \subseteq Nat \ {0} /\ MaxOrders \in Nat

VARIABLES
    zsl,        \* mZslEnabled
    caller,     \* where RequestCaptures is: "idle", before the "lock" of the
                \* sync mutex, in the "wait", at "stop", or "done"
    woken,      \* the waiting caller has been signalled
    shotRes,    \* what RequestCaptures returned
    num,        \* mSnapshotNum
    due,        \* snapshot buffers that are requested and have not come back
    frame,      \* frame number of the next of them, in non-ZSL mode
    callback,   \* where CapturePostProcess is: "idle", "loaded" or "check"
    loaded,     \* the value of mSnapshotNum it is about to decrement
    orders,     \* history: orders given
    ordered,    \* history: pictures ordered
    written,    \* history: pictures written with a valid JPEG blob
    invalid,    \* history: buffers written whole, without a valid blob
    overlap,    \* history: an order was given before the last one was served
    spurious    \* history: the wait ended by itself

callerVars == <<caller, woken, shotRes, spurious>>
callbackVars == <<due, frame, callback, loaded, written, invalid>>
shotVars == <<zsl, num, callerVars, callbackVars, orders, ordered, overlap>>

ShotInit ==
    /\ zsl \in BOOLEAN /\ caller = "idle" /\ woken = FALSE /\ shotRes = 0
    /\ num = 0 /\ due = 0 /\ frame = 0 /\ callback = "idle" /\ loaded = 0
    /\ orders = 0 /\ ordered = 0 /\ written = 0 /\ invalid = 0
    /\ overlap = FALSE /\ spurious = FALSE

-----------------------------------------------------------------------------
(* RequestCaptures                                                         *)

\* The order goes to the request thread, and the callback is told how many
\* pictures to write: the count is set, not raised.  A non-ZSL camera is
\* stopped by its first order.
Order(count) ==
    /\ caller = "idle" /\ orders < MaxOrders
    /\ num' = count
    /\ due' = due + count + (IF zsl THEN 0 ELSE NonZslStableFrameCount)
    /\ caller' = IF zsl THEN "idle" ELSE "lock"
    /\ orders' = orders + 1 /\ ordered' = ordered + count
    /\ overlap' = (overlap \/ due > 0 \/ callback # "idle")
    /\ UNCHANGED <<zsl, woken, shotRes, spurious, frame, callback, loaded, written,
                   invalid>>

BeginWait ==
    /\ caller = "lock" /\ caller' = "wait"
    /\ UNCHANGED <<woken, shotRes, spurious>>

Woken ==
    /\ caller = "wait" /\ woken
    /\ caller' = "stop" /\ shotRes' = 0
    /\ UNCHANGED <<woken, spurious>>

\* Mutant: the wait has no timeout.
TimedOutNever == FALSE /\ UNCHANGED callerVars

\* (NonZslStableFrameCount + count) * 2 seconds have passed.
TimedOut ==
    /\ caller = "wait" /\ ~woken
    /\ caller' = "stop" /\ shotRes' = 1    \* -1
    /\ UNCHANGED <<woken, spurious>>

\* pthread_cond_timedwait may return 0 without a signal.
WokenForNothing ==
    /\ caller = "wait" /\ ~woken
    /\ caller' = "stop" /\ shotRes' = 0 /\ spurious' = TRUE
    /\ UNCHANGED woken

\* stop() ends when the threads have, so no callback is under way then.
StopCamera ==
    /\ caller = "stop" /\ callback = "idle" /\ caller' = "done"
    /\ UNCHANGED <<woken, shotRes, spurious>>

Proceed == BeginWait \/ Woken \/ TimedOut \/ StopCamera

-----------------------------------------------------------------------------
(* CapturePostProcess, for a snapshot buffer                               *)

\* Mutant: one frame too many is skipped.
IsSkippedOffByOne == ~zsl /\ frame <= NonZslStableFrameCount

\* The first frames of a non-ZSL camera are not stable yet.
IsSkipped == ~zsl /\ frame < NonZslStableFrameCount

\* A buffer comes back that is not to be written.
SkipFrame ==
    /\ callback = "idle" /\ due > 0 /\ (IsSkipped \/ num = 0)
    /\ due' = due - 1
    /\ frame' = IF zsl THEN frame ELSE frame + 1
    /\ UNCHANGED <<num, callback, loaded, written, invalid, woken>>

\* A buffer comes back and is written; only a valid JPEG blob counts.
TakeFrame(valid) ==
    /\ callback = "idle" /\ due > 0 /\ ~IsSkipped /\ num > 0
    /\ due' = due - 1
    /\ frame' = IF zsl THEN frame ELSE frame + 1
    /\ IF valid THEN callback' = "loaded" /\ loaded' = num /\ written' = written + 1
                     /\ UNCHANGED invalid
                ELSE callback' = "check" /\ invalid' = invalid + 1
                     /\ UNCHANGED <<loaded, written>>
    /\ UNCHANGED <<num, woken>>

CountDown ==
    /\ callback = "loaded" /\ callback' = "check" /\ num' = loaded - 1
    /\ UNCHANGED <<due, frame, loaded, written, invalid, woken>>

\* Mutant: the callback signals after every picture.
IsLastAlways == TRUE

\* Is this the picture a non-ZSL caller waits for?
IsLast == ~zsl /\ num = 0

SignalCaller ==
    /\ callback = "check" /\ callback' = "idle"
    /\ woken' = (woken \/ (IsLast /\ caller = "wait"))
    /\ UNCHANGED <<num, due, frame, loaded, written, invalid>>

CapturePostProcess ==
    /\ caller # "done"
    /\ SkipFrame \/ (\E valid \in BOOLEAN : TakeFrame(valid)) \/ CountDown \/ SignalCaller
    /\ UNCHANGED <<zsl, caller, shotRes, spurious, orders, ordered, overlap>>

-----------------------------------------------------------------------------

ShotNext ==
    \/ \E count \in Counts : Order(count)
    \/ /\ Proceed \/ WokenForNothing
       /\ UNCHANGED <<zsl, num, callbackVars, orders, ordered, overlap>>
    \/ CapturePostProcess

\* The caller runs on and the clock advances, so the wait ends, if need be by the
\* timeout; the HAL owes nothing here.  A callback that has begun ends.
ShotFairness ==
    /\ WF_shotVars(Proceed /\ UNCHANGED <<zsl, num, callbackVars, orders, ordered, overlap>>)
    /\ WF_shotVars((CountDown \/ SignalCaller) /\ CapturePostProcess)

-----------------------------------------------------------------------------
(* Properties.                                                             *)

\* The type of every variable of the snapshot.
ShotTypeOK ==
    /\ zsl \in BOOLEAN /\ caller \in {"idle", "lock", "wait", "stop", "done"}
    /\ woken \in BOOLEAN /\ shotRes \in {0, 1} /\ spurious \in BOOLEAN
    /\ {num, due, frame, loaded, orders, ordered, written, invalid} \subseteq Nat
    /\ callback \in {"idle", "loaded", "check"} /\ overlap \in BOOLEAN

\* When every buffer has come back each picture that was ordered is written, or
\* was no valid JPEG: the pictures to skip, the pictures ordered and the count
\* the callback keeps agree, in either mode.  Only an order given before the one
\* before it is served, which resets the count, loses pictures.
PicturesAccounted ==
    due = 0 /\ callback = "idle" /\ ~overlap => written + invalid = ordered

\* RequestCaptures of a non-ZSL camera returns success only when the valid
\* pictures are all written, unless the wait ended by itself.
ReturnIsHonest ==
    ~zsl /\ caller = "done" /\ shotRes = 0 /\ ~spurious => written = ordered

\* RequestCaptures of a non-ZSL camera returns, whatever the HAL delivers and
\* whenever the signal comes.
RequestReturns == caller = "lock" ~> caller = "done"
=============================================================================
