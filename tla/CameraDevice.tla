---------------------------- MODULE CameraDevice ----------------------------
(***************************************************************************)
(* The capture pipeline of one QCameraHAL3Device: the request thread       *)
(* (doprocessCaptureRequest), the camera HAL, the HAL's callback           *)
(* (ProcessCaptureResult), the result thread (doCapturePostProcess), the   *)
(* BufferManager of every stream and the application thread that calls     *)
(* stopStreams.                                                            *)
(*                                                                         *)
(* One action is one critical section (mPendingLock, the mutex of a        *)
(* CameraThreadData, mBufMutex) or one step on data no other thread        *)
(* touches.  A thread that waits for a condition is a thread whose action  *)
(* is not enabled; the wait on mPendingCond, which is not re-checked after *)
(* it ends, has a state of its own ("waitRoom").                           *)
(*                                                                         *)
(* The request settings (mSettingMetaQ) are payload and are left out, and  *)
(* so is the order in which a BufferManager hands out its free buffers.    *)
(***************************************************************************)
EXTENDS Integers, Sequences, FiniteSets

CONSTANTS
    Streams,        \* the indices 0 .. mStreams.size() - 1
    Pool,           \* Pool[s]: the buffers the BufferManager of s allocated
    InitialNumber,  \* requestNumber[] as run() sets it, -1 being "unlimited"
    SkipPattern,    \* skipPattern[]
    MaxLiving,      \* CAMX_LIVING_REQUEST_MAX + mLivingRequestExtAppend
    StopTries,      \* tryCount of stopStreams (5 in the code)
    MetaParts,      \* metadata results the HAL sends per request
    PutBufferExternal, \* getPutBufferExt() == PUT_BUFFER_EXTERNAL
    Timeouts,       \* TRUE: a timed wait may expire before the HAL answers
    HalRejects,     \* TRUE: process_capture_request may return an error
    Spurious,       \* TRUE: a condition wait may return without a signal
    MaxFrames,      \* bound: requests of one session
    MaxOrders       \* bound: captures the application orders per stream

Unlimited == -1
Frames == 0 .. (MaxFrames - 1)
Buffers == UNION {Pool[s] : s \in Streams}

\* Streams are indices, the pools are finite and disjoint, and the numbers are
\* those run() and configureStreams() can set.  mLivingRequestExtAppend may be
\* whatever the memory held, so the limit may be any number, 0 included.
ASSUME ConstantsAssumption ==
    /\ Streams \subseteq Nat /\ IsFiniteSet(Streams)
    /\ IsFiniteSet(Buffers)
    /\ \A s, t \in Streams : s # t => Pool[s] \cap Pool[t] = {}
    /\ InitialNumber \in [Streams -> Nat \cup {Unlimited}]
    /\ SkipPattern \in [Streams -> Nat \ {0}]
    /\ MaxLiving \in Nat /\ StopTries \in Nat /\ MetaParts \in Nat \ {0}
    /\ MaxFrames \in Nat /\ MaxOrders \in Nat
    /\ PutBufferExternal \in BOOLEAN /\ Timeouts \in BOOLEAN
    /\ HalRejects \in BOOLEAN /\ Spurious \in BOOLEAN

VARIABLES
    reqQ,     \* mRequestThread->msgQueue
    number,   \* mRequestThread->requestNumber
    frame,    \* mRequestThread->frameNumber
    rq,       \* where the request thread is
    asked,    \* requestNumberOfEachStream: the streams of this request
    toGet,    \* those of them GetBuffer was not yet called for
    held,     \* streamBuffers: the buffers of the request being built
    free,     \* free[s]: mBuffersFree of the BufferManager of s
    pending,  \* the keys of mPendingVector
    want,     \* want[f]: mRequest.num_output_buffers of the pend of f
    got,      \* got[f]: its mNumOutputbuffer
    meta,     \* meta[f]: its mNumMetadata
    halBufs,  \* halBufs[f]: buffers of request f that the HAL still holds
    halMeta,  \* halMeta[f]: metadata results the HAL still owes for f
    cb,       \* the callback being executed
    resQ,     \* mResultThread->msgQueue
    resStopped, \* mResultThread->stopped
    rs,       \* where the result thread is
    posting,  \* the buffers of the message it post-processes
    client,   \* external mode: buffers the callback's owner has not put back
    dropped,  \* buffers of results that arrived after resStopped
    stopper,  \* where stopStreams is
    tries,    \* its tryCount
    ordered,  \* history: captures ordered per stream by REQUEST_CHANGE
    taken,    \* history: requests the HAL accepted per stream
    freedRead,\* history: a deleted RequestPending was read
    fault     \* the undefined behaviour that was reached, if any

reqVars  == <<reqQ, number, frame, rq, asked, toGet, held>>
pendVars == <<pending, want, got, meta>>
halVars  == <<halBufs, halMeta>>
resVars  == <<resQ, resStopped, rs, posting, client, dropped>>
stopVars == <<stopper, tries>>
history  == <<ordered, taken, freedRead>>
vars == <<reqVars, free, pendVars, halVars, cb, resVars, stopVars, history, fault>>

Stop == [stop |-> TRUE, delta |-> [s \in Streams |-> 0]]
Change(delta) == [stop |-> FALSE, delta |-> delta]
IdleCallback == [at |-> "idle", frame |-> 0, bufs |-> {}, part |-> 0]

\* run() fills two CameraThreadData and processCaptureRequestOn starts both
\* threads; the stream pools were filled by configureStreams.
Init ==
    /\ reqQ = <<>> /\ number = InitialNumber /\ frame = 0
    /\ rq = "top" /\ asked = {} /\ toGet = {} /\ held = {}
    /\ free = [s \in Streams |-> Pool[s]]
    /\ pending = {}
    /\ want = [f \in Frames |-> 0]
    /\ got  = [f \in Frames |-> 0]
    /\ meta = [f \in Frames |-> 0]
    /\ halBufs = [f \in Frames |-> {}]
    /\ halMeta = [f \in Frames |-> 0]
    /\ cb = IdleCallback
    /\ resQ = <<>> /\ resStopped = FALSE /\ rs = "take" /\ posting = {}
    /\ client = {} /\ dropped = {}
    /\ stopper = "running" /\ tries = StopTries
    /\ ordered = [s \in Streams |-> 0]
    /\ taken = [s \in Streams |-> 0]
    /\ freedRead = FALSE /\ fault = "none"

\* PutBuffer of every buffer of bufs into the pool of the stream it belongs to
PutAll(bufs) == [s \in Streams |-> free[s] \cup (bufs \cap Pool[s])]

-----------------------------------------------------------------------------
(* The request thread.                                                     *)

\* Mutant: only repeating requests count as something to send.
HasRepeatingRequest == \E s \in Streams : number[s] = Unlimited

HasRequest == \E s \in Streams : number[s] # 0

\* START_STOP: the loop ends.
ReqStop ==
    /\ rq = "top" /\ reqQ # <<>> /\ Head(reqQ).stop
    /\ reqQ' = Tail(reqQ)
    /\ rq' = "exited"
    /\ UNCHANGED <<number, frame, asked, toGet, held, free, pendVars, halVars,
                   cb, resVars, stopVars, history, fault>>

\* Mutant: an order replaces what is left of the previous one.
NewNumberOverwrites(old, n) == IF n = 0 THEN old ELSE n

\* The requestNumber of a stream after a REQUEST_CHANGE of n (0: not in mask).
NewNumber(old, n) ==
    IF n = 0 THEN old ELSE IF old = Unlimited THEN n ELSE old + n

ReqChange ==
    /\ rq = "top" /\ reqQ # <<>> /\ ~Head(reqQ).stop
    /\ number' = [s \in Streams |-> NewNumber(number[s], Head(reqQ).delta[s])]
    /\ reqQ' = Tail(reqQ)
    /\ UNCHANGED <<frame, rq, asked, toGet, held, free, pendVars, halVars,
                   cb, resVars, stopVars, history, fault>>

\* No message and something to request: pick the streams of this frame.
ReqCompose ==
    /\ rq = "top" /\ reqQ = <<>> /\ HasRequest /\ frame < MaxFrames
    /\ asked' = {s \in Streams : number[s] # 0 /\ frame % SkipPattern[s] = 0}
    /\ toGet' = asked'
    /\ rq' = "admit"
    /\ UNCHANGED <<reqQ, number, frame, held, free, pendVars, halVars,
                   cb, resVars, stopVars, history, fault>>

\* Mutant: the limit itself is let through.
ReqAdmitOneTooMany ==
    /\ rq = "admit"
    /\ rq' = IF Cardinality(pending) > MaxLiving THEN "waitRoom" ELSE "get"
    /\ UNCHANGED <<reqQ, number, frame, asked, toGet, held, free, pendVars, halVars,
                   cb, resVars, stopVars, history, fault>>

\* ProcessOneCaptureRequest waits on mPendingCond when too many are in flight.
ReqAdmit ==
    /\ rq = "admit"
    /\ rq' = IF Cardinality(pending) >= MaxLiving THEN "waitRoom" ELSE "get"
    /\ UNCHANGED <<reqQ, number, frame, asked, toGet, held, free, pendVars, halVars,
                   cb, resVars, stopVars, history, fault>>

\* The 5 s wait expires: -1 is returned and the request thread returns.
ReqRoomTimeout ==
    /\ Timeouts /\ rq = "waitRoom"
    /\ rq' = "dead"
    /\ UNCHANGED <<reqQ, number, frame, asked, toGet, held, free, pendVars, halVars,
                   cb, resVars, stopVars, history, fault>>

\* The wait returns without a signal; the size is not looked at again.
ReqRoomSpurious ==
    /\ Spurious /\ rq = "waitRoom"
    /\ rq' = "get"
    /\ UNCHANGED <<reqQ, number, frame, asked, toGet, held, free, pendVars, halVars,
                   cb, resVars, stopVars, history, fault>>

\* The stream whose GetBuffer is called next: the loop goes by stream index.
NextToGet(s) == s \in toGet /\ \A t \in toGet : s <= t

\* Mutant: GetBuffer is called again for a stream that has a buffer already.
ReqGetBufferAgain ==
    /\ rq = "get"
    /\ \E s \in asked : \E b \in free[s] :
        /\ free' = [free EXCEPT ![s] = @ \ {b}]
        /\ held' = held \cup {b}
        /\ toGet' = toGet \ {s}
    /\ UNCHANGED <<reqQ, number, frame, rq, asked, pendVars, halVars,
                   cb, resVars, stopVars, history, fault>>

\* GetBuffer of the next stream; not enabled while the pool is empty.
ReqGetBuffer ==
    /\ rq = "get"
    /\ \E s \in toGet :
        /\ NextToGet(s)
        /\ \E b \in free[s] :
            /\ free' = [free EXCEPT ![s] = @ \ {b}]
            /\ held' = held \cup {b}
        /\ toGet' = toGet \ {s}
    /\ UNCHANGED <<reqQ, number, frame, rq, asked, pendVars, halVars,
                   cb, resVars, stopVars, history, fault>>

\* mBufCv.wait returns with the pool still empty: front() of an empty deque.
ReqGetSpurious ==
    /\ Spurious /\ rq = "get"
    /\ \E s \in toGet : NextToGet(s) /\ free[s] = {}
    /\ fault' = "frontOfEmptyPool"
    /\ UNCHANGED <<reqVars, free, pendVars, halVars, cb, resVars, stopVars, history>>

\* All buffers are there: the pend enters mPendingVector.
ReqRegister ==
    /\ rq = "get" /\ toGet = {}
    /\ pending' = pending \cup {frame}
    /\ want' = [want EXCEPT ![frame] = Cardinality(held)]
    /\ got'  = [got  EXCEPT ![frame] = 0]
    /\ meta' = [meta EXCEPT ![frame] = 0]
    /\ rq' = "submit"
    /\ UNCHANGED <<reqQ, number, frame, asked, toGet, held, free, halVars,
                   cb, resVars, stopVars, history, fault>>

\* process_capture_request takes the request over.
HalAccept ==
    /\ rq = "submit"
    /\ halBufs' = [halBufs EXCEPT ![frame] = held]
    /\ halMeta' = [halMeta EXCEPT ![frame] = MetaParts]
    /\ held' = {}
    /\ taken' = [s \in Streams |-> taken[s] + (IF s \in asked THEN 1 ELSE 0)]
    /\ rq' = "return"
    /\ UNCHANGED <<reqQ, number, frame, asked, toGet, free, pendVars,
                   cb, resVars, stopVars, ordered, freedRead, fault>>

\* process_capture_request fails: the buffers go back, the pend is removed and
\* the request thread returns.
HalReject ==
    /\ HalRejects /\ rq = "submit"
    /\ free' = PutAll(held)
    /\ held' = {}
    /\ pending' = pending \ {frame}
    /\ rq' = "dead"
    /\ UNCHANGED <<reqQ, number, frame, asked, toGet, want, got, meta, halVars,
                   cb, resVars, stopVars, history, fault>>

\* After the call: frameNumber is advanced and pend->mRequest.settings is read,
\* although the callback may have deleted pend.
ReqReturn ==
    /\ rq = "return"
    /\ frame' = frame + 1
    /\ freedRead' = (freedRead \/ frame \notin pending)
    /\ rq' = "settle"
    /\ UNCHANGED <<reqQ, number, asked, toGet, held, free, pendVars, halVars,
                   cb, resVars, stopVars, ordered, taken, fault>>

\* Mutant: unlimited streams are counted down as well.
ReqSettleAll ==
    /\ rq = "settle"
    /\ number' = [s \in Streams |-> IF s \in asked THEN number[s] - 1 ELSE number[s]]
    /\ rq' = "top"
    /\ asked' = {}
    /\ UNCHANGED <<reqQ, frame, toGet, held, free, pendVars, halVars,
                   cb, resVars, stopVars, history, fault>>

\* The counted streams of this request have one request less to send.
ReqSettle ==
    /\ rq = "settle"
    /\ number' = [s \in Streams |->
                    IF number[s] > 0 /\ s \in asked THEN number[s] - 1 ELSE number[s]]
    /\ rq' = "top"
    /\ asked' = {}
    /\ UNCHANGED <<reqQ, frame, toGet, held, free, pendVars, halVars,
                   cb, resVars, stopVars, history, fault>>

-----------------------------------------------------------------------------
(* The HAL and its callback ProcessCaptureResult.  The HAL calls it back   *)
(* from one thread; it hands out any part of what it still owes.           *)

\* The HAL delivers some buffers of request f, a metadata result, or both.
\* HandleMetaData runs at once; it touches nothing modelled here.
HalResult(f) ==
    /\ cb.at = "idle"
    /\ \E bufs \in SUBSET halBufs[f], m \in 0 .. 1 :
        /\ m <= halMeta[f] /\ (bufs # {} \/ m = 1)
        /\ halBufs' = [halBufs EXCEPT ![f] = @ \ bufs]
        /\ halMeta' = [halMeta EXCEPT ![f] = @ - m]
        /\ cb' = [at |-> IF bufs = {} THEN "account" ELSE "enqueue", frame |-> f,
                  bufs |-> bufs, part |-> m * (MetaParts + 1 - halMeta[f])]
    /\ UNCHANGED <<reqVars, free, pendVars, resVars, stopVars, history, fault>>

\* num_output_buffers > 0: the result is queued for the result thread, or is
\* dropped, buffers and all, when that thread was told to stop.
CbEnqueue ==
    /\ cb.at = "enqueue" /\ stopper # "done"
    /\ IF resStopped
       THEN dropped' = dropped \cup cb.bufs /\ UNCHANGED resQ
       ELSE resQ' = Append(resQ, [stop |-> FALSE, bufs |-> cb.bufs]) /\ UNCHANGED dropped
    /\ cb' = [cb EXCEPT !.at = "account"]
    /\ UNCHANGED <<reqVars, free, pendVars, halVars, resStopped, rs, posting, client,
                   stopVars, history, fault>>

\* stopStreams set mResultThread to NULL: the mutex of NULL is locked.
CbEnqueueNull ==
    /\ cb.at = "enqueue" /\ stopper = "done"
    /\ fault' = "nullResultThread"
    /\ UNCHANGED <<reqVars, free, pendVars, halVars, cb, resVars, stopVars, history>>

\* Mutants: metadata is not waited for; buffers are not waited for.
CbCompletesOnBuffers == got[cb.frame] + Cardinality(cb.bufs) >= want[cb.frame]
CbCompletesOnMeta == meta[cb.frame] + cb.part > 0

CbCompletes ==
    got[cb.frame] + Cardinality(cb.bufs) >= want[cb.frame] /\ meta[cb.frame] + cb.part > 0

\* Mutant: no signal when a request leaves mPendingVector.
CbAccountNoSignal ==
    /\ cb.at = "account" /\ cb.frame \in pending
    /\ got'  = [got  EXCEPT ![cb.frame] = @ + Cardinality(cb.bufs)]
    /\ meta' = [meta EXCEPT ![cb.frame] = @ + cb.part]
    /\ pending' = IF CbCompletes THEN pending \ {cb.frame} ELSE pending
    /\ cb' = IdleCallback
    /\ UNCHANGED <<reqVars, free, want, halVars, resVars, stopVars, history, fault>>

\* Under mPendingLock: the result is counted; a complete request leaves
\* mPendingVector, and the signal ends the request thread's wait.
CbAccount ==
    /\ cb.at = "account" /\ cb.frame \in pending
    /\ got'  = [got  EXCEPT ![cb.frame] = @ + Cardinality(cb.bufs)]
    /\ meta' = [meta EXCEPT ![cb.frame] = @ + cb.part]
    /\ pending' = IF CbCompletes THEN pending \ {cb.frame} ELSE pending
    /\ rq' = IF CbCompletes /\ rq = "waitRoom" THEN "get" ELSE rq
    /\ cb' = IdleCallback
    /\ UNCHANGED <<reqQ, number, frame, asked, toGet, held, free, want, halVars,
                   resVars, stopVars, history, fault>>

\* indexOfKey is negative and editValueAt reads outside the vector.
CbAccountMissing ==
    /\ cb.at = "account" /\ cb.frame \notin pending
    /\ fault' = "missingPend"
    /\ UNCHANGED <<reqVars, free, pendVars, halVars, cb, resVars, stopVars, history>>

-----------------------------------------------------------------------------
(* The result thread.                                                      *)

\* The stop message ends the thread.
ResStop ==
    /\ rs = "take" /\ resQ # <<>> /\ Head(resQ).stop
    /\ resQ' = Tail(resQ)
    /\ rs' = "exited"
    /\ UNCHANGED <<reqVars, free, pendVars, halVars, cb, resStopped, posting, client,
                   dropped, stopVars, history, fault>>

ResTake ==
    /\ rs = "take" /\ resQ # <<>> /\ ~Head(resQ).stop
    /\ posting' = Head(resQ).bufs
    /\ resQ' = Tail(resQ)
    /\ rs' = "post"
    /\ UNCHANGED <<reqVars, free, pendVars, halVars, cb, resStopped, client, dropped,
                   stopVars, history, fault>>

\* The timed wait returns without a signal: front() of an empty list.
ResTakeSpurious ==
    /\ Spurious /\ rs = "take" /\ resQ = <<>>
    /\ fault' = "frontOfEmptyQueue"
    /\ UNCHANGED <<reqVars, free, pendVars, halVars, cb, resVars, stopVars, history>>

\* Mutant: the buffers are put back in external mode too.
ResPostPutsAlways ==
    /\ rs = "post"
    /\ client' = IF PutBufferExternal THEN client \cup posting ELSE client
    /\ free' = PutAll(posting)
    /\ posting' = {}
    /\ rs' = "take"
    /\ UNCHANGED <<reqVars, pendVars, halVars, cb, resQ, resStopped, dropped,
                   stopVars, history, fault>>

\* CapturePostProcess, then PutBuffer of every buffer unless the owner of the
\* callback does that later (PUT_BUFFER_EXTERNAL).
ResPost ==
    /\ rs = "post"
    /\ IF PutBufferExternal
       THEN client' = client \cup posting /\ UNCHANGED free
       ELSE free' = PutAll(posting) /\ UNCHANGED client
    /\ posting' = {}
    /\ rs' = "take"
    /\ UNCHANGED <<reqVars, pendVars, halVars, cb, resQ, resStopped, dropped,
                   stopVars, history, fault>>

\* External mode: the owner (the video encoder) puts a buffer back.
ClientPut ==
    /\ stopper # "done"
    /\ \E b \in client :
        /\ free' = PutAll({b})
        /\ client' = client \ {b}
    /\ UNCHANGED <<reqVars, pendVars, halVars, cb, resQ, resStopped, rs, posting,
                   dropped, stopVars, history, fault>>

-----------------------------------------------------------------------------
(* The application thread.                                                 *)

\* RequestCaptures: order n captures of stream s.
OrderCaptures(s, n) ==
    /\ stopper = "running" /\ ordered[s] + n <= MaxOrders
    /\ reqQ' = Append(reqQ, Change([t \in Streams |-> IF t = s THEN n ELSE 0]))
    /\ ordered' = [ordered EXCEPT ![s] = @ + n]
    /\ UNCHANGED <<number, frame, rq, asked, toGet, held, free, pendVars, halVars, cb,
                   resVars, stopVars, taken, freedRead, fault>>

\* stopStreams begins: the stop message for the request thread.
StopRequestThread ==
    /\ stopper = "running"
    /\ reqQ' = Append(reqQ, Stop)
    /\ stopper' = "joinRequest"
    /\ UNCHANGED <<number, frame, rq, asked, toGet, held, free, pendVars, halVars, cb,
                   resVars, tries, history, fault>>

\* Mutant: the stopped flag is not set with the stop message.
StopResultThreadNoFlag ==
    /\ stopper = "joinRequest" /\ rq \in {"exited", "dead"}
    /\ resQ' = Append(resQ, [stop |-> TRUE, bufs |-> {}])
    /\ stopper' = "joinResult"
    /\ UNCHANGED <<reqVars, free, pendVars, halVars, cb, resStopped, rs, posting, client,
                   dropped, tries, history, fault>>

\* The request thread was joined and deleted; the stop message for the result
\* thread and its stopped flag are set in one critical section.
StopResultThread ==
    /\ stopper = "joinRequest" /\ rq \in {"exited", "dead"}
    /\ resQ' = Append(resQ, [stop |-> TRUE, bufs |-> {}])
    /\ resStopped' = TRUE
    /\ stopper' = "joinResult"
    /\ UNCHANGED <<reqVars, free, pendVars, halVars, cb, rs, posting, client, dropped,
                   tries, history, fault>>

StopDrain ==
    /\ stopper = "joinResult" /\ rs = "exited"
    /\ stopper' = "drain"
    /\ UNCHANGED <<reqVars, free, pendVars, halVars, cb, resVars, tries, history, fault>>

\* A 3 s wait for mPendingVector to empty expires.
StopDrainTimeout ==
    /\ Timeouts /\ stopper = "drain" /\ pending # {} /\ tries > 0
    /\ tries' = tries - 1
    /\ UNCHANGED <<reqVars, free, pendVars, halVars, cb, resVars, stopper, history, fault>>

\* Mutant: the pending requests are not waited for.
StopFinishAtOnce ==
    /\ stopper = "drain"
    /\ pending' = {}
    /\ stopper' = "done"
    /\ UNCHANGED <<reqVars, free, want, got, meta, halVars, cb, resVars, tries,
                   history, fault>>

\* Nothing pending, or no try left and the vector is cleared: mResultThread,
\* the streams and the BufferManagers are deleted.
StopFinish ==
    /\ stopper = "drain" /\ (pending = {} \/ tries = 0)
    /\ pending' = {}
    /\ stopper' = "done"
    /\ UNCHANGED <<reqVars, free, want, got, meta, halVars, cb, resVars, tries,
                   history, fault>>

-----------------------------------------------------------------------------

RequestThread ==
    \/ ReqStop \/ ReqChange \/ ReqCompose \/ ReqAdmit \/ ReqGetBuffer
    \/ ReqRegister \/ HalAccept \/ HalReject \/ ReqReturn \/ ReqSettle
Callback == CbEnqueue \/ CbEnqueueNull \/ CbAccount \/ CbAccountMissing
HalDelivers == \E f \in Frames : HalResult(f)
ResultThread == ResStop \/ ResTake \/ ResPost
WaitsExpire == ReqRoomTimeout \/ StopDrainTimeout
SpuriousWakeup == ReqRoomSpurious \/ ReqGetSpurious \/ ResTakeSpurious
Orders == \E s \in Streams, n \in 1 .. MaxOrders : OrderCaptures(s, n)
StopGoesOn == StopResultThread \/ StopDrain \/ StopFinish

\* The session is over, or undefined behaviour ended the model.
Over ==
    /\ stopper = "done" \/ fault # "none"
    /\ UNCHANGED vars

Next ==
    \/ /\ fault = "none"
       /\ \/ RequestThread \/ Callback \/ HalDelivers \/ ResultThread \/ WaitsExpire
          \/ SpuriousWakeup \/ ClientPut \/ Orders \/ StopRequestThread \/ StopGoesOn
    \/ Over

SafetySpec == Init /\ [][Next]_vars

\* The threads run, stopStreams included once it was called; nothing obliges
\* the application to call it.
ThreadFairness ==
    /\ WF_vars(fault = "none" /\ RequestThread)
    /\ WF_vars(fault = "none" /\ Callback)
    /\ WF_vars(fault = "none" /\ ResultThread)
    /\ WF_vars(fault = "none" /\ ClientPut)
    /\ WF_vars(fault = "none" /\ StopGoesOn)

\* A HAL that answers every request.
Spec == SafetySpec /\ ThreadFairness /\ WF_vars(fault = "none" /\ HalDelivers)

\* A HAL that may fall silent for ever; the timed waits then expire.
SilentHalSpec == SafetySpec /\ ThreadFairness /\ WF_vars(fault = "none" /\ WaitsExpire)
-----------------------------------------------------------------------------
(* Properties.                                                             *)

ReqMessage == [stop : BOOLEAN, delta : [Streams -> Nat]]
ResMessage == [stop : BOOLEAN, bufs : SUBSET Buffers]

RequestTypeOK ==
    /\ reqQ \in Seq(ReqMessage)
    /\ number \in [Streams -> Nat \cup {Unlimited}]
    /\ frame \in 0 .. MaxFrames
    /\ rq \in {"top", "admit", "waitRoom", "get", "submit", "return", "settle",
               "exited", "dead"}
    /\ asked \in SUBSET Streams /\ toGet \in SUBSET asked
    /\ held \in SUBSET Buffers

PoolTypeOK ==
    free \in [Streams -> SUBSET Buffers] /\ \A s \in Streams : free[s] \subseteq Pool[s]

PendTypeOK ==
    /\ pending \in SUBSET Frames
    /\ want \in [Frames -> Nat] /\ got \in [Frames -> Nat] /\ meta \in [Frames -> Nat]

HalTypeOK ==
    halBufs \in [Frames -> SUBSET Buffers] /\ halMeta \in [Frames -> 0 .. MetaParts]

CallbackTypeOK ==
    /\ cb \in [at : {"idle", "enqueue", "account"}, frame : Nat,
               bufs : SUBSET Buffers, part : 0 .. MetaParts]
    /\ cb.at # "idle" => cb.frame \in Frames

ResultTypeOK ==
    /\ resQ \in Seq(ResMessage)
    /\ resStopped \in BOOLEAN
    /\ rs \in {"take", "post", "exited"}
    /\ posting \in SUBSET Buffers /\ client \in SUBSET Buffers /\ dropped \in SUBSET Buffers

StopTypeOK ==
    /\ stopper \in {"running", "joinRequest", "joinResult", "drain", "done"}
    /\ tries \in 0 .. StopTries

HistoryTypeOK ==
    /\ ordered \in [Streams -> Nat] /\ taken \in [Streams -> Nat]
    /\ freedRead \in BOOLEAN
    /\ fault \in {"none", "nullResultThread", "missingPend", "frontOfEmptyPool",
                  "frontOfEmptyQueue"}

\* The type of every variable of the pipeline.
TypeOK ==
    /\ RequestTypeOK /\ PoolTypeOK /\ PendTypeOK /\ HalTypeOK /\ CallbackTypeOK
    /\ ResultTypeOK /\ StopTypeOK /\ HistoryTypeOK

\* The places buffer b is in: a pool, the request being built, the HAL, the
\* callback, the result queue, the result thread, its owner, or dropped.
Holders(b) ==
    {<<"pool", s>> : s \in {t \in Streams : b \in free[t]}}
    \cup {<<"hal", f>> : f \in {g \in Frames : b \in halBufs[g]}}
    \cup {<<"queue", i>> : i \in {j \in DOMAIN resQ : b \in resQ[j].bufs}}
    \cup (IF b \in held THEN {<<"request", 0>>} ELSE {})
    \cup (IF cb.at = "enqueue" /\ b \in cb.bufs THEN {<<"callback", 0>>} ELSE {})
    \cup (IF b \in posting THEN {<<"result", 0>>} ELSE {})
    \cup (IF b \in client THEN {<<"client", 0>>} ELSE {})
    \cup (IF b \in dropped THEN {<<"dropped", 0>>} ELSE {})

\* No buffer is lost, and none is handed out twice: two threads, the HAL and
\* the queues between them pass every buffer on exactly once (GetBuffer,
\* PutBuffer, the error path of ProcessOneCaptureRequest, the stopped flag).
EveryBufferInOnePlace == \A b \in Buffers : Cardinality(Holders(b)) = 1

\* At most CAMX_LIVING_REQUEST_MAX requests are in mPendingVector, although
\* the size is read in one critical section and the entry added in another.
LivingRequestsBounded == Cardinality(pending) <= MaxLiving

\* What the HAL still has to send back for request f, the callback included.
Outstanding(f) ==
    Cardinality(halBufs[f]) + (IF cb.at # "idle" /\ cb.frame = f THEN Cardinality(cb.bufs) ELSE 0)

\* The HAL or its callback is working on request f.
CallbackOf(f) == cb.at # "idle" /\ cb.frame = f
Working(f) == halBufs[f] # {} \/ halMeta[f] > 0 \/ CallbackOf(f)

\* The request thread is about to hand over request f.
Submitting(f) == rq = "submit" /\ frame = f

\* Until stopStreams ends, mPendingVector has an entry for exactly the requests
\* the HAL or its callback is still working on (and for the one being
\* submitted), and its counters account for what is outstanding: indexOfKey in
\* the callback always finds the entry and no entry stays for ever.
PendingMatchesHal ==
    stopper # "done" =>
        \A f \in Frames :
            /\ f \in pending <=> Working(f) \/ Submitting(f)
            /\ f \in pending /\ ~Submitting(f) => got[f] + Outstanding(f) = want[f]

\* Captures of s are ordered by the messages of reqQ: sum[i] is how many were
\* ordered up to message i, sum[0] how many the request thread knows of.
Running(s, sum) ==
    /\ \A i \in 1 .. Len(reqQ) : sum[i] = sum[i - 1] + reqQ[i].delta[s]
    /\ sum[Len(reqQ)] = ordered[s]

\* Every capture ordered of a counted stream is sent or still to be sent, and
\* a repeating stream stays unlimited until the first order for it is taken:
\* REQUEST_CHANGE and the countdown of doprocessCaptureRequest lose, repeat
\* and invent no capture, whatever else is requested meanwhile.
OrdersAccounted ==
    \A s \in Streams : \E sum \in [0 .. Len(reqQ) -> 0 .. ordered[s]] :
        /\ Running(s, sum)
        /\ IF InitialNumber[s] # Unlimited
           THEN sum[0] + InitialNumber[s] = taken[s] + number[s]
                  - (IF rq \in {"return", "settle"} /\ s \in asked THEN 1 ELSE 0)
           ELSE (number[s] = Unlimited <=> sum[0] = 0) /\ number[s] <= sum[0]

\* Buffer b left its pool and has not been lost: someone will put it back.
Returning(b) ==
    \/ \E f \in Frames : b \in halBufs[f]
    \/ cb.at = "enqueue" /\ b \in cb.bufs
    \/ \E i \in DOMAIN resQ : b \in resQ[i].bufs
    \/ b \in posting \cup client

\* No thread waits for what nobody will bring.  While the request thread waits
\* for room the HAL is still to complete a request (and to signal it), while
\* it waits for a buffer one of that pool is on its way back, and what
\* stopStreams waits for is queued or worked on: no signal was given too early,
\* no buffer held by the waiting thread itself, no message overtaken.
WaitsAreOwed ==
    /\ rq = "waitRoom" => \E f \in Frames : Working(f)
    /\ rq = "get" =>
           \A s \in toGet : NextToGet(s) /\ free[s] = {} /\ Pool[s] # {}
               => \E b \in Pool[s] : Returning(b)
    /\ stopper = "joinRequest" /\ rq \notin {"exited", "dead"}
           => \E i \in DOMAIN reqQ : reqQ[i].stop
    /\ stopper = "joinResult" /\ rs # "exited" => \E i \in DOMAIN resQ : resQ[i].stop
    /\ stopper = "drain" /\ pending # {} => \E f \in Frames : Working(f)

\* When the result thread was joined it had post-processed every result that
\* was queued: nothing is queued behind the stop message.
ResultQueueDrained == rs = "exited" => resQ = <<>>

\* "wait for all request back": when stopStreams frees the BufferManagers and
\* the result thread's data the HAL has no buffer and no callback is running.
AllRequestsBack ==
    stopper = "done" =>
        /\ cb.at = "idle"
        /\ \A f \in Frames : halBufs[f] = {} /\ halMeta[f] = 0

\* A result meets freed data or a missing entry of mPendingVector only after
\* stopStreams used up tryCount and cleared the pending requests, however the
\* waits of the other threads end.
FaultOnlyAfterGivingUp ==
    fault \in {"nullResultThread", "missingPend"} => stopper = "done" /\ tries = 0

\* A request that the HAL accepted is not touched after it was deleted.
NoFreedRead == ~freedRead

\* stopStreams ends once it was called, whatever the threads were doing.
StopCompletes == (stopper = "joinRequest") ~> (stopper = "done")

\* A request that waits for room or for a buffer is submitted in the end.
RequestsFlow == (rq \in {"waitRoom", "get"}) ~> (rq = "submit")

\* Every capture ordered of a counted stream is sent, unless stopStreams or an
\* error ends the request thread first.
OrdersServed ==
    \A s \in Streams :
        (InitialNumber[s] # Unlimited /\ number[s] > 0)
            ~> (number[s] = 0 \/ rq = "exited")
=============================================================================
