---------------------------- MODULE VideoEncoder ----------------------------
(***************************************************************************)
(* The video encoder: QCameraTestVideoEncoder holds a queue of the camera  *)
(* buffers to encode; QCameraOMX_Encoder moves buffer headers between an   *)
(* in-flight thread, an out-flight thread and the OMX component, which     *)
(* answers through callbacks.  The result thread of the camera enqueues    *)
(* the buffers, the application starts and stops the encoder.              *)
(*                                                                         *)
(* The build sets DISABLE_META_MODE: Read copies a frame into the header   *)
(* and puts the camera buffer back at once.  The NULL tests of the queues  *)
(* in Read, inFilghtFunc and outFilghtFunc are left out: stop joins both   *)
(* threads before it deletes a queue.  Parameters, colour formats and the  *)
(* contents of frames are left out.                                        *)
(***************************************************************************)
EXTENDS Integers, Sequences, FiniteSets

CONSTANTS
    InCount,    \* input buffer headers (m_nInputBufferCount)
    OutCount,   \* output buffer headers (m_nOutputBufferCount)
    Buffers,    \* camera buffers of the video stream
    NoBuffer,   \* no camera buffer
    MayRefuse,  \* TRUE: a call into the component may return an error
    MayBeLate   \* TRUE: stop's wait of five seconds may expire

ASSUME EncoderAssumption ==
    /\ InCount \in Nat \ {0} /\ OutCount \in Nat \ {0}
    /\ NoBuffer \notin Buffers
    /\ MayRefuse \in BOOLEAN /\ MayBeLate \in BOOLEAN

InHeaders == 1 .. InCount
OutHeaders == InCount + 1 .. InCount + OutCount
Headers == InHeaders \cup OutHeaders
NoHeader == 0

VARIABLES
    pc,         \* where the application is in start() and stop()
    next,       \* the header that start() enqueues next
    mIsStoped,  \* the flag of QCameraHAL3TestVideo
    inQ, outQ,  \* m_infightQ and m_outfightQ
    inAt,       \* where the in-flight thread is
    inHeader,   \* the header it works on
    inBuffer,   \* the camera buffer Read works on
    outAt,      \* where the out-flight thread is
    outMsg,     \* the message it works on
    coder,      \* "alive", "emptied" (its queues are deleted), "deleted"
    m_State,    \* what onOmxEvent made of the component's state
    cmds,       \* commands the component has not completed
    compState,  \* the state of the component
    held,       \* headers the component holds
    mBufferQueue, \* camera buffers to encode
    resBuffer,  \* a buffer the result thread is about to enqueue
    pool,       \* camera buffers in the stream's pool, the HAL or a result
    lost,       \* history: headers nobody has any more
    unwritten,  \* history: outputs the component filled that are not in the file
    owed,       \* history: those of them there were when stop asked for the exit
    premature,  \* history: IDLE was set before stop asked for it
    gaveUp,     \* history: stop's wait expired
    freedInUse, \* history: a header was freed that the component held
    fault       \* the undefined behaviour that was reached, if any

appVars == <<pc, next, mIsStoped>>
queueVars == <<inQ, outQ>>
inVars == <<inAt, inHeader, inBuffer>>
outVars == <<outAt, outMsg>>
compVars == <<m_State, cmds, compState, held>>
cameraVars == <<mBufferQueue, resBuffer, pool>>
history == <<lost, unwritten, owed, premature, gaveUp, freedInUse>>
vars == <<appVars, queueVars, inVars, outVars, coder, compVars, cameraVars, history, fault>>

States == {"start", "idle", "loaded"}

Message(type, header) == [type |-> type, header |-> header]
Exit == Message("exit", NoHeader)

\* After setConfig, which ends with the command to go to Idle.  The constructor
\* leaves m_State as it finds it.
Init ==
    /\ pc = "create" /\ next = NoHeader /\ mIsStoped = FALSE
    /\ inQ = <<>> /\ outQ = <<>>
    /\ inAt = "none" /\ inHeader = NoHeader /\ inBuffer = NoBuffer
    /\ outAt = "none" /\ outMsg = Exit
    /\ coder = "alive" /\ m_State \in States
    /\ cmds = <<"idle">> /\ compState = "loaded" /\ held = {}
    /\ mBufferQueue = <<>> /\ resBuffer = NoBuffer /\ pool = Buffers
    /\ lost = {} /\ unwritten = {} /\ owed = {}
    /\ premature = FALSE /\ gaveUp = FALSE /\ freedInUse = FALSE /\ fault = "none"

-----------------------------------------------------------------------------
(* start() of the encoder; the camera is started after it.                 *)

CreateThreads ==
    /\ pc = "create"
    /\ inAt' = "take" /\ outAt' = "take"
    /\ pc' = "execute"
    /\ UNCHANGED <<next, mIsStoped, queueVars, inHeader, inBuffer, outMsg, coder, compVars,
                   cameraVars, history, fault>>

\* An error of the command is only logged.
SendExecuting ==
    /\ pc = "execute"
    /\ \/ cmds' = Append(cmds, "executing")
       \/ MayRefuse /\ UNCHANGED cmds
    /\ pc' = "enqueueOut" /\ next' = InCount + 1
    /\ UNCHANGED <<mIsStoped, queueVars, inVars, outVars, coder, m_State, compState, held,
                   cameraVars, history, fault>>

EnqueueOut ==
    /\ pc = "enqueueOut"
    /\ outQ' = Append(outQ, Message("fill", next))
    /\ IF next < InCount + OutCount THEN next' = next + 1 /\ UNCHANGED pc
                                    ELSE next' = 1 /\ pc' = "enqueueIn"
    /\ UNCHANGED <<mIsStoped, inQ, inVars, outVars, coder, compVars, cameraVars, history, fault>>

EnqueueIn ==
    /\ pc = "enqueueIn"
    /\ inQ' = Append(inQ, Message("read", next))
    /\ IF next < InCount THEN next' = next + 1 /\ UNCHANGED pc
                         ELSE next' = NoHeader /\ pc' = "setState"
    /\ UNCHANGED <<mIsStoped, outQ, inVars, outVars, coder, compVars, cameraVars, history, fault>>

\* m_State = STATE_START, whatever the component told before; then the camera starts.
SetState ==
    /\ pc = "setState"
    /\ m_State' = "start"
    /\ pc' = "running"
    /\ UNCHANGED <<next, mIsStoped, queueVars, inVars, outVars, coder, cmds, compState, held,
                   cameraVars, history, fault>>

Start == CreateThreads \/ SendExecuting \/ EnqueueOut \/ EnqueueIn \/ SetState

-----------------------------------------------------------------------------
(* stop() of the video test, of the test encoder and of the OMX encoder.   *)

StopBegin ==
    /\ pc = "running"
    /\ mIsStoped' = TRUE
    /\ pc' = "flush"
    /\ UNCHANGED <<next, queueVars, inVars, outVars, coder, compVars, cameraVars, history, fault>>

\* Mutant: both queues are flushed.
FlushBoth ==
    /\ pc = "flush"
    /\ inQ' = <<>> /\ outQ' = <<>>
    /\ lost' = lost \cup {inQ[i].header : i \in DOMAIN inQ} \cup {outQ[i].header : i \in DOMAIN outQ}
    /\ pc' = "exitIn"
    /\ UNCHANGED <<next, mIsStoped, inVars, outVars, coder, compVars, cameraVars,
                   unwritten, owed, premature, gaveUp, freedInUse, fault>>

\* Only the in-flight queue is flushed.
Flush ==
    /\ pc = "flush"
    /\ inQ' = <<>>
    /\ lost' = lost \cup {inQ[i].header : i \in DOMAIN inQ}
    /\ pc' = "exitIn"
    /\ UNCHANGED <<next, mIsStoped, outQ, inVars, outVars, coder, compVars, cameraVars,
                   unwritten, owed, premature, gaveUp, freedInUse, fault>>

ExitIn ==
    /\ pc = "exitIn"
    /\ inQ' = Append(inQ, Exit)
    /\ pc' = "exitOut"
    /\ UNCHANGED <<next, mIsStoped, outQ, inVars, outVars, coder, compVars, cameraVars,
                   history, fault>>

ExitOut ==
    /\ pc = "exitOut"
    /\ outQ' = Append(outQ, Exit)
    /\ owed' = unwritten
    /\ pc' = "join"
    /\ UNCHANGED <<next, mIsStoped, inQ, inVars, outVars, coder, compVars, cameraVars,
                   lost, unwritten, premature, gaveUp, freedInUse, fault>>

\* A step of stop() that changes nothing but where the application is
StopStep(from, to) ==
    /\ pc = from
    /\ pc' = to
    /\ UNCHANGED <<next, mIsStoped, queueVars, inVars, outVars, coder, compVars, cameraVars,
                   history, fault>>

\* Mutant: stop() does not wait for the in-flight thread.
JoinOutOnly == outAt = "exit" /\ StopStep("join", "idleCommand")

Join == inAt = "exit" /\ outAt = "exit" /\ StopStep("join", "idleCommand")

SendIdle ==
    /\ pc = "idleCommand"
    /\ cmds' = Append(cmds, "idle")
    /\ pc' = "waitIdle"
    /\ UNCHANGED <<next, mIsStoped, queueVars, inVars, outVars, coder, m_State, compState, held,
                   cameraVars, history, fault>>

\* stop() of the OMX encoder returns when a call into the component fails.
StopRefused ==
    MayRefuse /\ \E at \in {"idleCommand", "loadedCommand", "free"} : StopStep(at, "delete")

\* Mutant: stop() does not look at m_State.
WaitIdleNever == StopStep("waitIdle", "loadedCommand")

WaitIdle == m_State = "idle" /\ StopStep("waitIdle", "loadedCommand")

\* The wait is not in a loop: it ends when its time is over, or by itself.
WaitIdleTimeout ==
    /\ MayBeLate /\ pc = "waitIdle" /\ m_State # "idle"
    /\ gaveUp' = TRUE
    /\ pc' = "loadedCommand"
    /\ UNCHANGED <<next, mIsStoped, queueVars, inVars, outVars, coder, compVars, cameraVars,
                   lost, unwritten, owed, premature, freedInUse, fault>>

SendLoaded ==
    /\ pc = "loadedCommand"
    /\ cmds' = Append(cmds, "loaded")
    /\ pc' = "free"
    /\ UNCHANGED <<next, mIsStoped, queueVars, inVars, outVars, coder, m_State, compState, held,
                   cameraVars, history, fault>>

\* OMX_FreeBuffer of every header, also of one the component still holds
FreeBuffers ==
    /\ pc = "free"
    /\ freedInUse' = (held # {})
    /\ pc' = "joinAgain"
    /\ UNCHANGED <<next, mIsStoped, queueVars, inVars, outVars, coder, compVars, cameraVars,
                   lost, unwritten, owed, premature, gaveUp, fault>>

\* pthread_join of a thread that was joined before is undefined: it returns ...
JoinAgain == StopStep("joinAgain", "deleteQueues")

\* ... or uses what is left of the thread.
JoinAgainFails ==
    /\ pc = "joinAgain"
    /\ fault' = "joinedTwice"
    /\ UNCHANGED <<appVars, queueVars, inVars, outVars, coder, compVars, cameraVars, history>>

DeleteQueues ==
    /\ pc = "deleteQueues"
    /\ coder' = "emptied" /\ inQ' = <<>> /\ outQ' = <<>>
    /\ pc' = "delete"
    /\ UNCHANGED <<next, mIsStoped, inVars, outVars, compVars, cameraVars, history, fault>>

\* delete mCoder: OMX_FreeHandle ends the component and its callbacks.
DeleteCoder ==
    /\ pc = "delete"
    /\ coder' = "deleted" /\ inQ' = <<>> /\ outQ' = <<>>
    /\ cmds' = <<>> /\ held' = {}
    /\ pc' = "drain"
    /\ UNCHANGED <<next, mIsStoped, inVars, outVars, m_State, compState, cameraVars, history,
                   fault>>

\* The buffers that are left go back to the pool, each in a critical section.
Drain ==
    /\ pc = "drain" /\ mBufferQueue # <<>>
    /\ pool' = pool \cup {Head(mBufferQueue)}
    /\ mBufferQueue' = Tail(mBufferQueue)
    /\ UNCHANGED <<appVars, queueVars, inVars, outVars, coder, compVars, resBuffer, history,
                   fault>>

\* The queue is empty and deleted.
DrainEnd == mBufferQueue = <<>> /\ StopStep("drain", "done")

Stop ==
    \/ Flush \/ ExitIn \/ ExitOut \/ Join \/ SendIdle \/ StopRefused \/ WaitIdle
    \/ WaitIdleTimeout \/ SendLoaded \/ FreeBuffers \/ JoinAgain \/ JoinAgainFails
    \/ DeleteQueues \/ DeleteCoder \/ Drain \/ DrainEnd

-----------------------------------------------------------------------------
(* The in-flight thread.                                                   *)

InTake ==
    /\ inAt = "take" /\ inQ # <<>>
    /\ inQ' = Tail(inQ)
    /\ inHeader' = Head(inQ).header
    /\ inAt' = IF Head(inQ) = Exit THEN "exit" ELSE "read"
    /\ UNCHANGED <<appVars, outQ, inBuffer, outVars, coder, compVars, cameraVars, history, fault>>

\* Read waits for a camera buffer, at most for a second at a time.
ReadWait ==
    /\ inAt = "read" /\ mBufferQueue = <<>>
    /\ inAt' = "wait"
    /\ UNCHANGED <<appVars, queueVars, inHeader, inBuffer, outVars, coder, compVars, cameraVars,
                   history, fault>>

ReadTake ==
    /\ inAt \in {"read", "wait"} /\ mBufferQueue # <<>>
    /\ inBuffer' = Head(mBufferQueue)
    /\ mBufferQueue' = Tail(mBufferQueue)
    /\ inAt' = "copy"
    /\ UNCHANGED <<appVars, queueVars, inHeader, outVars, coder, compVars, resBuffer, pool,
                   history, fault>>

\* The thread forgets the header it works on.
LoseHeader ==
    /\ lost' = lost \cup {inHeader}
    /\ inHeader' = NoHeader /\ inAt' = "take"
    /\ UNCHANGED <<appVars, queueVars, inBuffer, outVars, coder, compVars, cameraVars,
                   unwritten, owed, premature, gaveUp, freedInUse, fault>>

\* Mutant: Read waits on.
ReadTimeoutRetries ==
    /\ inAt = "wait"
    /\ inAt' = "read"
    /\ UNCHANGED <<appVars, queueVars, inHeader, inBuffer, outVars, coder, compVars, cameraVars,
                   history, fault>>

\* Read returns -1, perhaps with a buffer that came too late in the queue, and
\* the message with the header is deleted.
ReadTimeout == inAt = "wait" /\ LoseHeader

\* The frame is copied into the header and the camera buffer is put back.
ReadCopy ==
    /\ inAt = "copy"
    /\ pool' = pool \cup {inBuffer}
    /\ inBuffer' = NoBuffer
    /\ inAt' = "empty"
    /\ UNCHANGED <<appVars, queueVars, inHeader, outVars, coder, compVars, mBufferQueue,
                   resBuffer, history, fault>>

\* OMX_EmptyThisBuffer
EmptyThisBuffer ==
    /\ inAt = "empty"
    /\ held' = held \cup {inHeader}
    /\ inHeader' = NoHeader /\ inAt' = "take"
    /\ UNCHANGED <<appVars, queueVars, inBuffer, outVars, coder, m_State, cmds, compState,
                   cameraVars, history, fault>>

EmptyRefused == MayRefuse /\ inAt = "empty" /\ LoseHeader

InThread ==
    InTake \/ ReadWait \/ ReadTake \/ ReadTimeout \/ ReadCopy \/ EmptyThisBuffer \/ EmptyRefused

-----------------------------------------------------------------------------
(* The out-flight thread.                                                  *)

OutTake ==
    /\ outAt = "take" /\ outQ # <<>>
    /\ outQ' = Tail(outQ)
    /\ outMsg' = Head(outQ)
    /\ outAt' = IF Head(outQ) = Exit THEN "exit" ELSE "serve"
    /\ UNCHANGED <<appVars, inQ, inVars, coder, compVars, cameraVars, history, fault>>

\* Write for an output of the component (nothing for the first round), then
\* OMX_FillThisBuffer, which takes the header or not.
OutServe(taken) ==
    /\ outAt = "serve"
    /\ IF outMsg.type = "write"
       THEN unwritten' = unwritten \ {outMsg.header} /\ owed' = owed \ {outMsg.header}
       ELSE UNCHANGED <<unwritten, owed>>
    /\ IF taken THEN held' = held \cup {outMsg.header} /\ UNCHANGED lost
                ELSE lost' = lost \cup {outMsg.header} /\ UNCHANGED held
    /\ outAt' = "take" /\ outMsg' = Exit
    /\ UNCHANGED <<appVars, queueVars, inVars, coder, m_State, cmds, compState, cameraVars,
                   premature, gaveUp, freedInUse, fault>>

FillThisBuffer == OutServe(TRUE)
FillRefused == MayRefuse /\ OutServe(FALSE)

OutThread == OutTake \/ FillThisBuffer \/ FillRefused

-----------------------------------------------------------------------------
(* The OMX component and the callbacks it makes.                           *)

\* The component completes command c; onOmxEvent is its event.
Complete(c) ==
    /\ coder # "deleted" /\ cmds # <<>> /\ Head(cmds) = c
    /\ cmds' = Tail(cmds)
    /\ compState' = c

\* Going back to Idle the component first returns every header.
CompleteIdle ==
    /\ Complete("idle")
    /\ compState # "loaded" => held = {}
    /\ IF m_State = "start"
       THEN m_State' = "idle" /\ premature' = (premature \/ compState = "loaded")
       ELSE UNCHANGED <<m_State, premature>>
    /\ UNCHANGED <<appVars, queueVars, inVars, outVars, coder, held, cameraVars, lost,
                   unwritten, owed, gaveUp, freedInUse, fault>>

CompleteExecuting ==
    /\ Complete("executing")
    /\ UNCHANGED <<appVars, queueVars, inVars, outVars, coder, m_State, held, cameraVars,
                   history, fault>>

\* Going to Loaded the component waits until its buffers are back and freed.
CompleteLoaded ==
    /\ Complete("loaded") /\ held = {}
    /\ pc \in {"joinAgain", "deleteQueues"} \/ coder = "emptied"
    /\ m_State' = IF m_State = "idle" THEN "loaded" ELSE m_State
    /\ UNCHANGED <<appVars, queueVars, inVars, outVars, coder, held, cameraVars, history, fault>>

\* The component works on headers, or returns them to become idle.
Returns(h) ==
    /\ h \in held
    /\ \/ compState = "executing"
       \/ compState = "idle" /\ cmds # <<>> /\ Head(cmds) = "idle"
    /\ held' = held \ {h}
    /\ UNCHANGED <<appVars, inVars, outVars, coder, m_State, cmds, compState, cameraVars,
                   lost, owed, premature, gaveUp, freedInUse>>

\* Mutant: the callback does not ask for the next frame.
EmptyBufferDoneDrops(h) ==
    /\ h \in InHeaders /\ Returns(h)
    /\ UNCHANGED <<queueVars, unwritten, fault>>

\* onBufEmptyDone: the header is to be read into again.
EmptyBufferDone(h) ==
    /\ h \in InHeaders /\ Returns(h)
    /\ IF coder = "alive" THEN inQ' = Append(inQ, Message("read", h)) /\ UNCHANGED fault
                          ELSE fault' = "nullMessageQueue" /\ UNCHANGED inQ
    /\ UNCHANGED <<outQ, unwritten>>

\* onFillBufDone: the output is to be written.
FillBufferDone(h) ==
    /\ h \in OutHeaders /\ Returns(h)
    /\ IF coder = "alive" THEN outQ' = Append(outQ, Message("write", h)) /\ UNCHANGED fault
                          ELSE fault' = "nullMessageQueue" /\ UNCHANGED outQ
    /\ unwritten' = unwritten \cup {h}
    /\ UNCHANGED inQ

Commands == CompleteIdle \/ CompleteExecuting \/ CompleteLoaded
Component == Commands \/ \E h \in Headers : EmptyBufferDone(h) \/ FillBufferDone(h)

-----------------------------------------------------------------------------
(* CapturePostProcess of the video test, on the camera's result thread.    *)

CameraRuns == pc \notin {"create", "execute", "enqueueOut", "enqueueIn", "setState"}

\* A result brings buffer b and mIsStoped is not set.
ResultBuffer(b) ==
    /\ CameraRuns /\ ~mIsStoped /\ resBuffer = NoBuffer /\ b \in pool
    /\ pool' = pool \ {b}
    /\ resBuffer' = b
    /\ UNCHANGED <<appVars, queueVars, inVars, outVars, coder, compVars, mBufferQueue, history,
                   fault>>

\* mIsStoped is set: the buffer goes back where it came from.
ResultPutBack == mIsStoped /\ resBuffer = NoBuffer /\ pool # {} /\ UNCHANGED vars

\* EnqueueFrameBuffer, in mLock; stop() may have deleted the queue since the test.
EnqueueFrameBuffer ==
    /\ resBuffer # NoBuffer
    /\ IF pc = "done"
       THEN fault' = "nullBufferQueue" /\ UNCHANGED <<mBufferQueue, resBuffer>>
       ELSE /\ mBufferQueue' = Append(mBufferQueue, resBuffer)
            /\ resBuffer' = NoBuffer
            /\ UNCHANGED fault
    /\ UNCHANGED <<appVars, queueVars, inVars, outVars, coder, compVars, pool, history>>

Camera == (\E b \in Buffers : ResultBuffer(b)) \/ EnqueueFrameBuffer

-----------------------------------------------------------------------------

\* Undefined behaviour ends the model.
Crashed == fault # "none" /\ UNCHANGED vars

Next ==
    \/ fault = "none" /\ (Start \/ StopBegin \/ Stop)
    \/ fault = "none" /\ (InThread \/ OutThread \/ Component)
    \/ fault = "none" /\ (Camera \/ ResultPutBack)
    \/ Crashed

SafetySpec == Init /\ [][Next]_vars

\* The threads run, and the component completes commands and returns headers.
\* Nothing obliges the application to stop or the camera to deliver.
Spec ==
    /\ SafetySpec
    /\ WF_vars(fault = "none" /\ (Start \/ Stop))
    /\ WF_vars(fault = "none" /\ InThread)
    /\ WF_vars(fault = "none" /\ OutThread)
    /\ WF_vars(fault = "none" /\ Commands)
    /\ \A h \in Headers : WF_vars(fault = "none" /\ (EmptyBufferDone(h) \/ FillBufferDone(h)))
    /\ WF_vars(fault = "none" /\ EnqueueFrameBuffer)
-----------------------------------------------------------------------------
(* Properties.                                                             *)

\* The type of every variable of the encoder.
TypeOK ==
    /\ pc \in {"create", "execute", "enqueueOut", "enqueueIn", "setState", "running", "flush",
               "exitIn", "exitOut", "join", "idleCommand", "waitIdle", "loadedCommand", "free",
               "joinAgain", "deleteQueues", "delete", "drain", "done"}
    /\ next \in Headers \cup {NoHeader} /\ mIsStoped \in BOOLEAN
    /\ inQ \in Seq({Message("read", h) : h \in InHeaders} \cup {Exit})
    /\ outQ \in Seq({Message(t, h) : t \in {"fill", "write"}, h \in OutHeaders} \cup {Exit})
    /\ inAt \in {"none", "take", "read", "wait", "copy", "empty", "exit"}
    /\ inHeader \in InHeaders \cup {NoHeader} /\ inBuffer \in Buffers \cup {NoBuffer}
    /\ outAt \in {"none", "take", "serve", "exit"}
    /\ outMsg \in {Message(t, h) : t \in {"fill", "write"}, h \in OutHeaders} \cup {Exit}
    /\ coder \in {"alive", "emptied", "deleted"} /\ m_State \in States
    /\ cmds \in Seq({"idle", "executing", "loaded"})
    /\ compState \in {"idle", "executing", "loaded"}
    /\ held \subseteq Headers
    /\ mBufferQueue \in Seq(Buffers) /\ resBuffer \in Buffers \cup {NoBuffer}
    /\ pool \subseteq Buffers
    /\ lost \subseteq Headers /\ unwritten \subseteq OutHeaders /\ owed \subseteq OutHeaders
    /\ premature \in BOOLEAN /\ gaveUp \in BOOLEAN /\ freedInUse \in BOOLEAN
    /\ fault \in {"none", "nullMessageQueue", "joinedTwice", "nullBufferQueue"}

\* How often something is true of an element of a set
Count(S, P(_)) == Cardinality({x \in S : P(x)})
One(condition) == IF condition THEN 1 ELSE 0

BufferPlaces(b) ==
    One(b \in pool) + One(resBuffer = b) + One(inBuffer = b)
    + Count(DOMAIN mBufferQueue, LAMBDA i : mBufferQueue[i] = b)

\* A camera buffer is in exactly one place, also while stop() drains the queue
\* that the result thread fills and Read empties.
BuffersOnce == \A b \in Buffers : BufferPlaces(b) = 1

HeaderPlaces(h) ==
    One(h \in held) + One(h \in lost) + One(inHeader = h) + One(outMsg.header = h)
    + Count(DOMAIN inQ, LAMBDA i : inQ[i].header = h)
    + Count(DOMAIN outQ, LAMBDA i : outQ[i].header = h)

\* A buffer header is never in two places, so none is given to the component
\* that holds it and none is queued twice; and while the encoder runs none
\* vanishes: it is queued, in a thread's hands, with the component, or was lost
\* when a read timed out, a call was refused or the queue was flushed.
HeadersOnce ==
    \A h \in Headers :
        /\ HeaderPlaces(h) <= 1
        /\ CameraRuns /\ coder = "alive" => HeaderPlaces(h) = 1

\* Whatever stop() waits for will come: a thread it joins has its exit message
\* in its queue or has taken it, and while m_State is not Idle the command to go
\* to Idle is not completed.
StopIsOwed ==
    /\ pc = "join" /\ inAt # "exit" => \E i \in DOMAIN inQ : inQ[i] = Exit
    /\ pc = "join" /\ outAt # "exit" => \E i \in DOMAIN outQ : outQ[i] = Exit
    /\ pc = "waitIdle" /\ m_State # "idle" => \E i \in DOMAIN cmds : cmds[i] = "idle"

\* No header is freed under the component and no callback meets a deleted
\* queue, unless stop() did not wait long enough, or did not wait at all
\* because the Idle event of setConfig came after start() had set STATE_START.
HeadersBackBeforeFree ==
    freedInUse \/ fault = "nullMessageQueue" => gaveUp \/ premature

\* What the component encoded is written before the header is filled again, and
\* what it returned before stop() asked for the exit is in the file when the
\* out-flight thread has ended: flush does not touch the out-flight queue.
OutputsWritten ==
    /\ held \cap unwritten = {}
    /\ outAt = "exit" => owed = {}

\* stop() ends: both threads take their exit message, the one that waits for a
\* camera buffer included, and the drain comes to an end.
StopEnds == pc = "flush" ~> (pc = "done" \/ fault # "none")

InQueue(b) == \E i \in DOMAIN mBufferQueue : mBufferQueue[i] = b

\* The component executes or will.
Executes == compState = "executing" \/ \E i \in DOMAIN cmds : cmds[i] = "executing"

\* A buffer the camera enqueued comes back to its pool, unless the component
\* did not start or all the input headers are lost.
BuffersComeBack ==
    \A b \in Buffers :
        InQueue(b) ~> (b \in pool \/ InHeaders \subseteq lost \/ ~Executes \/ fault # "none")
=============================================================================
