------------------------- MODULE VideoEncoderProofs -------------------------
(***************************************************************************)
(* Proofs about VideoEncoder for any number of headers and camera buffers. *)
(***************************************************************************)
EXTENDS VideoEncoderQueue, FiniteSetTheorems, SequenceTheorems, TLAPS

InMessages == {Message("read", h) : h \in InHeaders} \cup {Exit}
OutMessages == {Message(t, h) : t \in {"fill", "write"}, h \in OutHeaders} \cup {Exit}

-----------------------------------------------------------------------------
(* The types, by the parts of the state, with what they need to know of the*)
(* positions of the threads.                                               *)

Starting == {"create", "execute", "enqueueOut", "enqueueIn", "setState"}
Stopping == {"idleCommand", "waitIdle", "loadedCommand", "free", "joinAgain", "deleteQueues",
             "delete", "drain", "done"}

AppOK ==
    /\ pc \in Starting \cup {"running", "flush", "exitIn", "exitOut", "join"} \cup Stopping
    /\ next \in Headers \cup {NoHeader} /\ mIsStoped \in BOOLEAN
    /\ pc = "enqueueOut" => next \in OutHeaders
    /\ pc = "enqueueIn" => next \in InHeaders
    /\ pc = "create" => inAt = "none" /\ outAt = "none"
    /\ pc \notin Starting \cup {"running"} => mIsStoped = TRUE

InOK ==
    /\ inQ \in Seq(InMessages)
    /\ inAt \in {"none", "take", "read", "wait", "copy", "empty", "exit"}
    /\ inHeader \in InHeaders \cup {NoHeader}
    /\ inAt \in {"read", "wait", "copy", "empty"} => inHeader \in InHeaders

OutOK ==
    /\ outQ \in Seq(OutMessages) /\ outMsg \in OutMessages
    /\ outAt \in {"none", "take", "serve", "exit"}
    /\ outAt = "serve" <=> outMsg # Exit

ComponentOK ==
    /\ coder \in {"alive", "emptied", "deleted"} /\ m_State \in States
    /\ cmds \in Seq({"idle", "executing", "loaded"})
    /\ compState \in {"idle", "executing", "loaded"}
    /\ held \subseteq Headers

CameraOK ==
    /\ mBufferQueue \in Seq(Buffers) /\ resBuffer \in Buffers \cup {NoBuffer}
    /\ inBuffer \in Buffers \cup {NoBuffer} /\ pool \subseteq Buffers
    /\ inBuffer # NoBuffer <=> inAt = "copy"

HistoryOK ==
    /\ lost \subseteq Headers /\ unwritten \subseteq OutHeaders /\ owed \subseteq OutHeaders
    /\ premature \in BOOLEAN /\ gaveUp \in BOOLEAN /\ freedInUse \in BOOLEAN
    /\ fault \in {"none", "nullMessageQueue", "joinedTwice", "nullBufferQueue"}

\* The in-flight queue gets its exit message from stop(), after the flush.
NoExitYet ==
    pc \in Starting \cup {"running", "flush", "exitIn"} => \A i \in DOMAIN inQ : inQ[i] # Exit

TypeInv == AppOK /\ InOK /\ OutOK /\ ComponentOK /\ CameraOK /\ HistoryOK /\ NoExitYet

-----------------------------------------------------------------------------
(* The camera buffers.                                                     *)

Queued(b) == \E i \in DOMAIN mBufferQueue : mBufferQueue[i] = b

\* Every buffer is in one of the four places, and in the queue once.
BufferInv ==
    /\ \A b \in Buffers :
          \/ b \in pool /\ resBuffer # b /\ inBuffer # b /\ ~Queued(b)
          \/ b \notin pool /\ resBuffer = b /\ inBuffer # b /\ ~Queued(b)
          \/ b \notin pool /\ resBuffer # b /\ inBuffer = b /\ ~Queued(b)
          \/ b \notin pool /\ resBuffer # b /\ inBuffer # b /\ Queued(b)
    /\ \A i, j \in DOMAIN mBufferQueue : mBufferQueue[i] = mBufferQueue[j] => i = j

-----------------------------------------------------------------------------
(* The end of the component.                                               *)

ThreadsEnded == inAt = "exit" /\ outAt = "exit"

\* What stop() does after it joined the threads happens without them.
JoinInv ==
    /\ pc \in Stopping => ThreadsEnded
    /\ coder = "emptied" => pc = "delete"
    /\ coder = "deleted" => pc \in {"drain", "done"} /\ held = {} /\ cmds = <<>>

\* A command to go to Idle other than that of setConfig comes from stop(); an
\* Idle event of it finds no header with the component, and none is given to it.
IdleInv ==
    /\ \A i \in DOMAIN cmds :
          cmds[i] = "idle" => (i = 1 /\ compState = "loaded") \/ ThreadsEnded
    /\ pc \notin Starting /\ m_State # "start" /\ ~premature => ThreadsEnded /\ held = {}
    /\ pc \in {"loadedCommand", "free", "joinAgain", "deleteQueues"} \/ coder = "emptied"
          => gaveUp \/ m_State # "start"

EndInv == JoinInv /\ IdleInv /\ HeadersBackBeforeFree

-----------------------------------------------------------------------------
(* The outputs.                                                            *)

\* start() has enqueued the output header h.
Sent(h) == pc \notin {"create", "execute"} /\ (pc = "enqueueOut" => h < next)

ToWrite(h) ==
    outMsg = Message("write", h) \/ \E i \in DOMAIN outQ : outQ[i] = Message("write", h)

\* Output h will be written before the out-flight thread takes its exit message.
WrittenFirst(h) ==
    \/ outMsg = Message("write", h)
    \/ \E i \in DOMAIN outQ : outQ[i] = Message("write", h) /\ \A j \in 1 .. i : outQ[j] # Exit

\* An output header is known once it was enqueued, and in one place.
HeaderInv ==
    /\ \A h \in OutHeaders : h \in held \cup unwritten => Sent(h)
    /\ outMsg # Exit => Sent(outMsg.header) /\ outMsg.header \notin held
    /\ \A i \in DOMAIN outQ :
          outQ[i] # Exit => /\ Sent(outQ[i].header) /\ outQ[i].header \notin held
                            /\ outQ[i].header # outMsg.header
    /\ \A i, j \in DOMAIN outQ : outQ[i].header = outQ[j].header => i = j

\* A header that was never filled has no output, and an output is on its way to
\* the file as long as there is a queue.
OutputInv ==
    /\ outMsg.type = "fill" => outMsg.header \notin unwritten
    /\ \A i \in DOMAIN outQ : outQ[i].type = "fill" => outQ[i].header \notin unwritten
    /\ coder = "alive" => \A h \in unwritten : ToWrite(h)
    /\ \A h \in owed : WrittenFirst(h)
    /\ pc \in Starting \cup {"running", "flush", "exitIn", "exitOut"} =>
          owed = {} /\ outAt # "exit" /\ \A i \in DOMAIN outQ : outQ[i] # Exit

WriteInv == HeaderInv /\ OutputInv /\ OutputsWritten

EncoderInv == TypeInv /\ BufferInv /\ EndInv /\ WriteInv

-----------------------------------------------------------------------------
(* Headers, messages and queues.                                           *)

\* An input header is not an output header, and NoHeader is neither: the numbers
\* of the headers start at 1.
LEMMA HeaderKinds ==
    /\ InHeaders \cap OutHeaders = {} /\ NoHeader \notin Headers
    /\ InHeaders \subseteq Headers /\ OutHeaders \subseteq Headers
    /\ Headers \subseteq Int /\ OutHeaders \subseteq Int
BY EncoderAssumption DEF InHeaders, OutHeaders, Headers, NoHeader

\* What a message says: its fields, and that only Exit names no header.
LEMMA Fields ==
    ASSUME NEW t, NEW h
    PROVE  Message(t, h).type = t /\ Message(t, h).header = h
BY DEF Message

\* The messages of the in-flight queue: a header to read into, or the exit.
LEMMA InMessageKinds ==
    /\ Exit \in InMessages
    /\ \A h \in InHeaders : Message("read", h) \in InMessages
    /\ \A m \in InMessages : m # Exit => m.header \in InHeaders
    /\ Exit.header = NoHeader /\ Exit.type = "exit"
BY DEF InMessages, Exit, Message

\* The messages of the out-flight queue: a header to fill or to write, or the exit.
LEMMA OutMessageKinds ==
    /\ Exit \in OutMessages
    /\ \A h \in OutHeaders : /\ Message("fill", h) \in OutMessages
                             /\ Message("write", h) \in OutMessages
                             /\ Message("fill", h) # Exit /\ Message("write", h) # Exit
    /\ \A m \in OutMessages :
          m # Exit => /\ m.header \in OutHeaders
                      /\ \/ m.type = "fill" /\ m = Message("fill", m.header)
                         \/ m.type = "write" /\ m = Message("write", m.header)
<1>1. ASSUME NEW m \in OutMessages, m # Exit
      PROVE  /\ m.header \in OutHeaders
             /\ \/ m.type = "fill" /\ m = Message("fill", m.header)
                \/ m.type = "write" /\ m = Message("write", m.header)
  <2>1. PICK t \in {"fill", "write"}, h \in OutHeaders : m = Message(t, h)
    BY <1>1 DEF OutMessages
  <2>2. m.type = t /\ m.header = h
    BY <2>1, Fields
  <2> QED
    BY <2>1, <2>2
<1>2. Exit \in OutMessages
  BY DEF OutMessages
<1>3. ASSUME NEW h \in OutHeaders, NEW t \in {"fill", "write"}
      PROVE  Message(t, h) \in OutMessages /\ Message(t, h) # Exit
  <2>1. Message(t, h).type # Exit.type
    BY DEF Exit, Message
  <2> QED
    BY <2>1 DEF OutMessages
<1> QED
  BY <1>1, <1>2, <1>3

\* Taking the first element of a queue leaves the others, one place further.
LEMMA TakeOne ==
    ASSUME NEW S, NEW s \in Seq(S), s # <<>>
    PROVE  /\ Head(s) \in S /\ Head(s) = s[1] /\ 1 \in DOMAIN s
           /\ Tail(s) \in Seq(S) /\ Len(s) \in Nat /\ Len(Tail(s)) = Len(s) - 1
           /\ DOMAIN s = 1 .. Len(s) /\ DOMAIN Tail(s) = 1 .. Len(s) - 1
           /\ \A i \in DOMAIN Tail(s) :
                 i \in 1 .. Len(s) /\ i + 1 \in DOMAIN s /\ Tail(s)[i] = s[i + 1]
<1>1. Head(s) = s[1] /\ Len(s) \in Nat /\ Len(s) # 0 /\ DOMAIN s = 1 .. Len(s)
  OBVIOUS
<1>2. Head(s) \in S /\ 1 \in DOMAIN s
  BY <1>1
<1>3. Tail(s) \in Seq(S) /\ Len(Tail(s)) = Len(s) - 1
  BY HeadTailProperties
<1>4. \A i \in 1 .. Len(s) - 1 : Tail(s)[i] = s[i + 1]
  BY HeadTailProperties
<1>5. DOMAIN Tail(s) = 1 .. Len(s) - 1
  BY <1>3
<1> QED
  BY <1>1, <1>2, <1>3, <1>4, <1>5

\* Appending to a queue keeps the others in their places.
LEMMA AddOne ==
    ASSUME NEW S, NEW s \in Seq(S), NEW e \in S
    PROVE  /\ Append(s, e) \in Seq(S) /\ Len(s) \in Nat
           /\ DOMAIN s = 1 .. Len(s) /\ DOMAIN Append(s, e) = 1 .. Len(s) + 1
           /\ Append(s, e)[Len(s) + 1] = e
           /\ \A i \in DOMAIN s : Append(s, e)[i] = s[i]
BY AppendProperties

-----------------------------------------------------------------------------
(* The types.                                                              *)

\* Where a step comes from.
LEMMA StepCases ==
    Next <=>
      \/ fault = "none" /\ Start
      \/ fault = "none" /\ StopBegin
      \/ fault = "none" /\ (Flush \/ ExitIn \/ ExitOut \/ Join \/ SendIdle)
      \/ fault = "none" /\ (StopRefused \/ WaitIdle \/ WaitIdleTimeout \/ SendLoaded)
      \/ fault = "none" /\ (FreeBuffers \/ JoinAgain \/ JoinAgainFails)
      \/ fault = "none" /\ (DeleteQueues \/ DeleteCoder \/ Drain \/ DrainEnd)
      \/ fault = "none" /\ InThread
      \/ fault = "none" /\ OutThread
      \/ fault = "none" /\ Commands
      \/ fault = "none" /\ \E h \in Headers : EmptyBufferDone(h) \/ FillBufferDone(h)
      \/ fault = "none" /\ Camera
      \/ (fault = "none" /\ ResultPutBack) \/ Crashed
BY DEF Next, Stop, Component

\* The threads, the component and the camera leave the application where it is.
LEMMA AppKept ==
    ASSUME InThread \/ OutThread \/ Component \/ Camera \/ ResultPutBack \/ Crashed
    PROVE  UNCHANGED appVars
<1>1. CASE InThread
  BY <1>1 DEF InThread, InTake, ReadWait, ReadTake, ReadTimeout, ReadCopy, EmptyThisBuffer,
              EmptyRefused, LoseHeader
<1>2. CASE OutThread
  BY <1>2 DEF OutThread, OutTake, FillThisBuffer, FillRefused, OutServe
<1>3. CASE Component
  BY <1>3 DEF Component, Commands, CompleteIdle, CompleteExecuting, CompleteLoaded,
              EmptyBufferDone, FillBufferDone, Returns
<1>4. CASE Camera \/ ResultPutBack \/ Crashed
  BY <1>4 DEF Camera, ResultBuffer, EnqueueFrameBuffer, ResultPutBack, Crashed, vars
<1> QED
  BY <1>1, <1>2, <1>3, <1>4

\* stop() leaves the threads alone, but for the buffers and queues it deletes.
LEMMA StopKeeps ==
    ASSUME Stop
    PROVE  /\ UNCHANGED <<next, mIsStoped, inVars, outVars, m_State, compState, resBuffer>>
           /\ UNCHANGED <<unwritten, premature>>
BY DEF Stop, Flush, ExitIn, ExitOut, Join, SendIdle, StopRefused, WaitIdle, WaitIdleTimeout,
       SendLoaded, FreeBuffers, JoinAgain, JoinAgainFails, DeleteQueues, DeleteCoder, Drain,
       DrainEnd, StopStep, appVars, queueVars, compVars, cameraVars, history

\* start() and stop() lead the application from one position to the next.
LEMMA AppStep ==
    ASSUME AppOK, [Next]_vars
    PROVE  AppOK'
<1>1. CASE Start
  <2>1. CASE CreateThreads \/ SendExecuting \/ SetState
    BY <2>1, EncoderAssumption
       DEF CreateThreads, SendExecuting, SetState, AppOK, Headers, OutHeaders, Starting
  <2>2. CASE EnqueueOut
    BY <2>2, EncoderAssumption
       DEF EnqueueOut, AppOK, Headers, InHeaders, OutHeaders, Starting
  <2>3. CASE EnqueueIn
    BY <2>3, EncoderAssumption
       DEF EnqueueIn, AppOK, Headers, InHeaders, OutHeaders, Starting
  <2> QED
    BY <1>1, <2>1, <2>2, <2>3 DEF Start
<1>2. CASE StopBegin
  BY <1>2 DEF StopBegin, AppOK
<1>3. CASE Stop
  <2>1. UNCHANGED <<next, mIsStoped, inAt, outAt>>
    BY <1>3, StopKeeps DEF inVars, outVars
  <2>2. /\ pc' = pc \/ pc' \in {"exitIn", "exitOut", "join"} \cup Stopping
        /\ pc \notin Starting \cup {"running"}
    BY <1>3 DEF Stop, Flush, ExitIn, ExitOut, Join, SendIdle, StopRefused, WaitIdle,
                WaitIdleTimeout, SendLoaded, FreeBuffers, JoinAgain, JoinAgainFails,
                DeleteQueues, DeleteCoder, Drain, DrainEnd, StopStep, appVars, Starting,
                Stopping
  <2> QED
    BY <2>1, <2>2 DEF AppOK, Starting, Stopping
<1>4. CASE InThread
  <2>1. pc # "create"
    BY <1>4 DEF AppOK, InThread, InTake, ReadWait, ReadTake, ReadTimeout, ReadCopy,
                EmptyThisBuffer, EmptyRefused
  <2> QED
    BY <1>4, <2>1, AppKept DEF AppOK, appVars
<1>5. CASE OutThread
  <2>1. pc # "create"
    BY <1>5 DEF AppOK, OutThread, OutTake, FillThisBuffer, FillRefused, OutServe
  <2> QED
    BY <1>5, <2>1, AppKept DEF AppOK, appVars
<1>6. CASE Component \/ Camera \/ ResultPutBack \/ Crashed
  <2>1. UNCHANGED <<inAt, outAt>>
    BY <1>6 DEF Component, Commands, CompleteIdle, CompleteExecuting, CompleteLoaded,
                EmptyBufferDone, FillBufferDone, Returns, Camera, ResultBuffer,
                EnqueueFrameBuffer, ResultPutBack, Crashed, vars, inVars, outVars
  <2> QED
    BY <1>6, <2>1, AppKept DEF AppOK, appVars
<1>7. CASE UNCHANGED vars
  BY <1>7 DEF AppOK, vars, appVars, inVars, outVars
<1> QED
  BY <1>1, <1>2, <1>3, <1>4, <1>5, <1>6, <1>7 DEF Next

\* The in-flight queue holds headers to read into and exits.
LEMMA InStep ==
    ASSUME AppOK, InOK, [Next]_vars
    PROVE  InOK'
<1> USE DEF InOK
<1>1. CASE Start
  <2>1. CASE EnqueueIn
    <3>1. next \in InHeaders
      BY <2>1 DEF EnqueueIn, AppOK
    <3>2. inQ' = Append(inQ, Message("read", next)) /\ UNCHANGED <<inAt, inHeader>>
      BY <2>1 DEF EnqueueIn, inVars
    <3>3. inQ' \in Seq(InMessages)
      BY <3>1, <3>2, InMessageKinds, AddOne
    <3> QED
      BY <3>2, <3>3
  <2>2. CASE CreateThreads \/ SendExecuting \/ EnqueueOut \/ SetState
    BY <2>2 DEF CreateThreads, SendExecuting, EnqueueOut, SetState, queueVars, inVars
  <2> QED
    BY <1>1, <2>1, <2>2 DEF Start
<1>2. CASE Stop
  <2>1. UNCHANGED <<inAt, inHeader>>
    BY <1>2, StopKeeps DEF inVars
  <2>2. inQ' = inQ \/ inQ' = <<>> \/ inQ' = Append(inQ, Exit)
    BY <1>2 DEF Stop, Flush, ExitIn, ExitOut, Join, SendIdle, StopRefused, WaitIdle,
                WaitIdleTimeout, SendLoaded, FreeBuffers, JoinAgain, JoinAgainFails,
                DeleteQueues, DeleteCoder, Drain, DrainEnd, StopStep, queueVars
  <2>3. <<>> \in Seq(InMessages) /\ Append(inQ, Exit) \in Seq(InMessages)
    BY InMessageKinds, AddOne, EmptySeq
  <2>4. inQ' \in Seq(InMessages)
    BY <2>2, <2>3
  <2> QED
    BY <2>1, <2>4
<1>3. CASE InThread
  <2>1. CASE InTake
    <3>1. inQ # <<>> /\ inQ' = Tail(inQ) /\ inHeader' = Head(inQ).header
      BY <2>1 DEF InTake
    <3>2. inAt' = IF Head(inQ) = Exit THEN "exit" ELSE "read"
      BY <2>1 DEF InTake
    <3>3. Tail(inQ) \in Seq(InMessages) /\ Head(inQ) \in InMessages
      BY <3>1, TakeOne
    <3>4. CASE Head(inQ) = Exit
      BY <3>1, <3>2, <3>3, <3>4, InMessageKinds
    <3>5. CASE Head(inQ) # Exit
      BY <3>1, <3>2, <3>3, <3>5, InMessageKinds
    <3> QED
      BY <3>4, <3>5
  <2>2. CASE ReadWait \/ ReadTake \/ ReadCopy
    BY <2>2 DEF ReadWait, ReadTake, ReadCopy, queueVars
  <2>3. CASE ReadTimeout \/ EmptyThisBuffer \/ EmptyRefused
    BY <2>3 DEF ReadTimeout, EmptyThisBuffer, EmptyRefused, LoseHeader, queueVars
  <2> QED
    BY <1>3, <2>1, <2>2, <2>3 DEF InThread
<1>4. CASE \E h \in Headers : EmptyBufferDone(h)
  <2>1. PICK h \in InHeaders : EmptyBufferDone(h)
    BY <1>4 DEF EmptyBufferDone
  <2>2. UNCHANGED <<inAt, inHeader>> /\ (inQ' = inQ \/ inQ' = Append(inQ, Message("read", h)))
    BY <2>1 DEF EmptyBufferDone, Returns, inVars
  <2>3. inQ' \in Seq(InMessages)
    BY <2>2, InMessageKinds, AddOne
  <2> QED
    BY <2>2, <2>3
<1>5. CASE \E h \in Headers : FillBufferDone(h)
  BY <1>5 DEF FillBufferDone, Returns, inVars
<1>6. CASE StopBegin \/ OutThread \/ Commands
  BY <1>6 DEF StopBegin, OutThread, OutTake, FillThisBuffer, FillRefused, OutServe, Commands,
              CompleteIdle, CompleteExecuting, CompleteLoaded, queueVars, inVars
<1>7. CASE Camera \/ ResultPutBack \/ Crashed
  BY <1>7 DEF Camera, ResultBuffer, EnqueueFrameBuffer, ResultPutBack, Crashed, vars, queueVars,
              inVars
<1>8. CASE UNCHANGED vars
  BY <1>8 DEF vars, queueVars, inVars
<1> QED
  BY <1>1, <1>2, <1>3, <1>4, <1>5, <1>6, <1>7, <1>8 DEF Next, Component

\* The out-flight queue holds headers to fill or to write and exits.
LEMMA OutStep ==
    ASSUME AppOK, OutOK, held \subseteq Headers, [Next]_vars
    PROVE  OutOK'
<1> USE DEF OutOK
<1>1. CASE Start
  <2>1. CASE EnqueueOut
    <3>1. next \in OutHeaders
      BY <2>1 DEF EnqueueOut, AppOK
    <3>2. outQ' = Append(outQ, Message("fill", next)) /\ UNCHANGED <<outAt, outMsg>>
      BY <2>1 DEF EnqueueOut, outVars
    <3>3. outQ' \in Seq(OutMessages)
      BY <3>1, <3>2, OutMessageKinds, AddOne
    <3> QED
      BY <3>2, <3>3
  <2>2. CASE CreateThreads
    <3>1. outQ' = outQ /\ outMsg' = outMsg /\ outAt' = "take" /\ outAt = "none"
      BY <2>2 DEF CreateThreads, queueVars, AppOK
    <3> QED
      BY <2>2, <3>1
  <2>3. CASE SendExecuting \/ EnqueueIn \/ SetState
    BY <2>3 DEF SendExecuting, EnqueueIn, SetState, queueVars, outVars
  <2> QED
    BY <1>1, <2>1, <2>2, <2>3 DEF Start
<1>2. CASE Stop
  <2>1. UNCHANGED <<outAt, outMsg>>
    BY <1>2, StopKeeps DEF outVars
  <2>2. outQ' = outQ \/ outQ' = <<>> \/ outQ' = Append(outQ, Exit)
    BY <1>2 DEF Stop, Flush, ExitIn, ExitOut, Join, SendIdle, StopRefused, WaitIdle,
                WaitIdleTimeout, SendLoaded, FreeBuffers, JoinAgain, JoinAgainFails,
                DeleteQueues, DeleteCoder, Drain, DrainEnd, StopStep, queueVars
  <2>3. <<>> \in Seq(OutMessages) /\ Append(outQ, Exit) \in Seq(OutMessages)
    BY OutMessageKinds, AddOne, EmptySeq
  <2>4. outQ' \in Seq(OutMessages)
    BY <2>2, <2>3
  <2> QED
    BY <2>1, <2>4
<1>3. CASE OutThread
  <2>1. CASE OutTake
    <3>1. outQ # <<>> /\ outQ' = Tail(outQ) /\ outMsg' = Head(outQ)
      BY <2>1 DEF OutTake
    <3>2. outAt' = IF Head(outQ) = Exit THEN "exit" ELSE "serve"
      BY <2>1 DEF OutTake
    <3>3. Tail(outQ) \in Seq(OutMessages) /\ Head(outQ) \in OutMessages
      BY <3>1, TakeOne
    <3> QED
      BY <3>1, <3>2, <3>3
  <2>2. CASE FillThisBuffer \/ FillRefused
    BY <2>2, OutMessageKinds DEF FillThisBuffer, FillRefused, OutServe, queueVars
  <2> QED
    BY <1>3, <2>1, <2>2 DEF OutThread
<1>4. CASE \E h \in Headers : FillBufferDone(h)
  <2>1. PICK h \in OutHeaders : FillBufferDone(h)
    BY <1>4 DEF FillBufferDone
  <2>2. /\ UNCHANGED <<outAt, outMsg>>
        /\ outQ' = outQ \/ outQ' = Append(outQ, Message("write", h))
    BY <2>1 DEF FillBufferDone, Returns, outVars
  <2>3. outQ' \in Seq(OutMessages)
    BY <2>2, OutMessageKinds, AddOne
  <2> QED
    BY <2>2, <2>3
<1>5. CASE \E h \in Headers : EmptyBufferDone(h)
  BY <1>5 DEF EmptyBufferDone, Returns, outVars
<1>6. CASE StopBegin \/ InThread \/ Commands
  BY <1>6 DEF StopBegin, InThread, InTake, ReadWait, ReadTake, ReadTimeout, ReadCopy,
              EmptyThisBuffer, EmptyRefused, LoseHeader, Commands, CompleteIdle,
              CompleteExecuting, CompleteLoaded, queueVars, outVars
<1>7. CASE Camera \/ ResultPutBack \/ Crashed
  BY <1>7 DEF Camera, ResultBuffer, EnqueueFrameBuffer, ResultPutBack, Crashed, vars, queueVars,
              outVars
<1>8. CASE UNCHANGED vars
  BY <1>8 DEF vars, queueVars, outVars
<1> QED
  BY <1>1, <1>2, <1>3, <1>4, <1>5, <1>6, <1>7, <1>8 DEF Next, Component

\* The component holds headers and has commands to complete.
LEMMA ComponentStep ==
    ASSUME InOK, OutOK, ComponentOK, [Next]_vars
    PROVE  ComponentOK'
<1> USE DEF ComponentOK
<1>1. CASE Start
  BY <1>1 DEF Start, CreateThreads, SendExecuting, EnqueueOut, EnqueueIn, SetState, compVars,
              States
<1>2. CASE Stop
  <2>1. UNCHANGED <<m_State, compState>>
    BY <1>2, StopKeeps
  <2>2. /\ \/ cmds' = cmds \/ cmds' = <<>>
           \/ cmds' = Append(cmds, "idle") \/ cmds' = Append(cmds, "loaded")
        /\ held' = held \/ held' = {}
        /\ coder' = coder \/ coder' = "emptied" \/ coder' = "deleted"
    BY <1>2 DEF Stop, Flush, ExitIn, ExitOut, Join, SendIdle, StopRefused, WaitIdle,
                WaitIdleTimeout, SendLoaded, FreeBuffers, JoinAgain, JoinAgainFails,
                DeleteQueues, DeleteCoder, Drain, DrainEnd, StopStep, compVars
  <2>3. /\ <<>> \in Seq({"idle", "executing", "loaded"})
        /\ Append(cmds, "idle") \in Seq({"idle", "executing", "loaded"})
        /\ Append(cmds, "loaded") \in Seq({"idle", "executing", "loaded"})
    BY AddOne, EmptySeq
  <2> QED
    BY <2>1, <2>2, <2>3
<1>3. CASE InThread
  <2>1. held' = held \/ (inAt = "empty" /\ held' = held \cup {inHeader})
    BY <1>3 DEF InThread, InTake, ReadWait, ReadTake, ReadTimeout, ReadCopy, EmptyThisBuffer,
                EmptyRefused, LoseHeader, compVars
  <2>2. UNCHANGED <<coder, m_State, cmds, compState>>
    BY <1>3 DEF InThread, InTake, ReadWait, ReadTake, ReadTimeout, ReadCopy, EmptyThisBuffer,
                EmptyRefused, LoseHeader, compVars
  <2>3. held' \subseteq Headers
    BY <2>1, HeaderKinds DEF InOK
  <2> QED
    BY <2>2, <2>3
<1>4. CASE OutThread
  <2>1. held' = held \/ (outAt = "serve" /\ held' = held \cup {outMsg.header})
    BY <1>4 DEF OutThread, OutTake, FillThisBuffer, FillRefused, OutServe, compVars
  <2>2. UNCHANGED <<coder, m_State, cmds, compState>>
    BY <1>4 DEF OutThread, OutTake, FillThisBuffer, FillRefused, OutServe, compVars
  <2>3. outAt = "serve" => outMsg.header \in Headers
    BY OutMessageKinds, HeaderKinds DEF OutOK
  <2>4. held' \subseteq Headers
    BY <2>1, <2>3
  <2> QED
    BY <2>2, <2>4
<1>5. CASE Commands
  <2>1. PICK c \in {"idle", "executing", "loaded"} : Complete(c)
    BY <1>5 DEF Commands, CompleteIdle, CompleteExecuting, CompleteLoaded
  <2>2. cmds # <<>> /\ cmds' = Tail(cmds) /\ compState' = c
    BY <2>1 DEF Complete
  <2>3. cmds' \in Seq({"idle", "executing", "loaded"})
    BY <2>2, TakeOne
  <2>4. UNCHANGED <<coder, held>> /\ m_State' \in {m_State, "idle", "loaded"}
    BY <1>5 DEF Commands, CompleteIdle, CompleteExecuting, CompleteLoaded
  <2> QED
    BY <2>2, <2>3, <2>4 DEF States
<1>6. CASE \E h \in Headers : EmptyBufferDone(h) \/ FillBufferDone(h)
  BY <1>6 DEF EmptyBufferDone, FillBufferDone, Returns
<1>7. CASE StopBegin \/ Camera \/ ResultPutBack \/ Crashed
  BY <1>7 DEF StopBegin, Camera, ResultBuffer, EnqueueFrameBuffer, ResultPutBack, Crashed, vars,
              compVars
<1>8. CASE UNCHANGED vars
  BY <1>8 DEF vars, compVars
<1> QED
  BY <1>1, <1>2, <1>3, <1>4, <1>5, <1>6, <1>7, <1>8 DEF Next, Component

\* What moves camera buffers; every other step leaves them where they are.
LEMMA CameraKept ==
    ASSUME Next
    PROVE  \/ fault = "none" /\ (ReadTake \/ ReadCopy \/ Drain)
           \/ fault = "none" /\ \E b \in Buffers : ResultBuffer(b)
           \/ fault = "none" /\ EnqueueFrameBuffer
           \/ UNCHANGED <<cameraVars, inBuffer>>
<1>1. CASE Start \/ StopBegin
  BY <1>1 DEF Start, CreateThreads, SendExecuting, EnqueueOut, EnqueueIn, SetState, StopBegin,
              inVars
<1>2. CASE fault = "none" /\ Stop
  BY <1>2 DEF Stop, Flush, ExitIn, ExitOut, Join, SendIdle, StopRefused, WaitIdle,
              WaitIdleTimeout, SendLoaded, FreeBuffers, JoinAgain, JoinAgainFails,
              DeleteQueues, DeleteCoder, Drain, DrainEnd, StopStep, inVars
<1>3. CASE fault = "none" /\ InThread
  BY <1>3 DEF InThread, InTake, ReadWait, ReadTake, ReadTimeout, ReadCopy,
              EmptyThisBuffer, EmptyRefused, LoseHeader
<1>4. CASE OutThread
  BY <1>4 DEF OutThread, OutTake, FillThisBuffer, FillRefused, OutServe, inVars
<1>5. CASE Component
  BY <1>5 DEF Component, Commands, CompleteIdle, CompleteExecuting, CompleteLoaded,
              EmptyBufferDone, FillBufferDone, Returns, inVars
<1>6. CASE ResultPutBack \/ Crashed
  BY <1>6 DEF ResultPutBack, Crashed, vars, inVars
<1> QED
  BY <1>1, <1>2, <1>3, <1>4, <1>5, <1>6 DEF Next, Camera

\* The camera buffers are where camera buffers can be.
LEMMA CameraStep ==
    ASSUME AppOK, CameraOK, [Next]_vars
    PROVE  CameraOK'
<1> USE DEF CameraOK
<1> USE EncoderAssumption
<1>1. CASE ReadTake
  <2>1. mBufferQueue # <<>> /\ mBufferQueue' = Tail(mBufferQueue)
    BY <1>1 DEF ReadTake
  <2>2. Tail(mBufferQueue) \in Seq(Buffers) /\ Head(mBufferQueue) \in Buffers
    BY <2>1, TakeOne
  <2> QED
    BY <1>1, <2>1, <2>2 DEF ReadTake
<1>2. CASE ReadCopy
  BY <1>2 DEF ReadCopy
<1>3. CASE Drain
  <2>1. mBufferQueue # <<>> /\ mBufferQueue' = Tail(mBufferQueue)
    BY <1>3 DEF Drain
  <2>2. Tail(mBufferQueue) \in Seq(Buffers) /\ Head(mBufferQueue) \in Buffers
    BY <2>1, TakeOne
  <2> QED
    BY <1>3, <2>1, <2>2 DEF Drain, inVars
<1>4. CASE \E b \in Buffers : ResultBuffer(b)
  BY <1>4 DEF ResultBuffer, inVars
<1>5. CASE EnqueueFrameBuffer
  <2>1. resBuffer \in Buffers /\ Append(mBufferQueue, resBuffer) \in Seq(Buffers)
    BY <1>5, AddOne DEF EnqueueFrameBuffer
  <2> QED
    BY <1>5, <2>1 DEF EnqueueFrameBuffer, inVars
<1>6. CASE UNCHANGED <<cameraVars, inBuffer>> /\ Next
  <2>1. inAt = "copy" <=> inAt' = "copy"
    <3>1. CASE Start \/ StopBegin
      BY <3>1 DEF AppOK, Start, CreateThreads, SendExecuting, EnqueueOut, EnqueueIn, SetState,
                  StopBegin, inVars
    <3>2. CASE Stop
      BY <3>2, StopKeeps DEF inVars
    <3>3. CASE InThread
      BY <1>6, <3>3, EncoderAssumption
         DEF InThread, InTake, ReadWait, ReadTake, ReadTimeout, ReadCopy, EmptyThisBuffer,
             EmptyRefused, LoseHeader, cameraVars
    <3>4. CASE OutThread \/ Component
      BY <3>4 DEF OutThread, OutTake, FillThisBuffer, FillRefused, OutServe, Component, Commands,
                  CompleteIdle, CompleteExecuting, CompleteLoaded, EmptyBufferDone,
                  FillBufferDone, Returns, inVars
    <3>5. CASE Camera \/ ResultPutBack \/ Crashed
      BY <3>5 DEF Camera, ResultBuffer, EnqueueFrameBuffer, ResultPutBack, Crashed, vars, inVars
    <3> QED
      BY <1>6, <3>1, <3>2, <3>3, <3>4, <3>5 DEF Next
  <2> QED
    BY <1>6, <2>1 DEF cameraVars
<1>7. CASE UNCHANGED vars
  BY <1>7 DEF vars, cameraVars, inVars
<1> QED
  BY <1>1, <1>2, <1>3, <1>4, <1>5, <1>6, <1>7, CameraKept

\* The history names headers.
LEMMA HistoryStep ==
    ASSUME InOK, OutOK, HistoryOK, NoExitYet, [Next]_vars
    PROVE  HistoryOK'
<1> USE DEF HistoryOK
<1>1. CASE Start \/ StopBegin
  BY <1>1 DEF Start, CreateThreads, SendExecuting, EnqueueOut, EnqueueIn, SetState, StopBegin,
              history
<1>2. CASE Flush
  <2>1. \A i \in DOMAIN inQ : inQ[i] \in InMessages /\ inQ[i] # Exit
    BY <1>2 DEF InOK, NoExitYet, Flush
  <2>2. \A i \in DOMAIN inQ : inQ[i].header \in Headers
    BY <2>1, InMessageKinds, HeaderKinds
  <2> QED
    BY <1>2, <2>2 DEF Flush
<1>3. CASE Stop /\ ~Flush
  BY <1>3 DEF Stop, ExitIn, ExitOut, Join, SendIdle, StopRefused, WaitIdle, WaitIdleTimeout,
              SendLoaded, FreeBuffers, JoinAgain, JoinAgainFails, DeleteQueues, DeleteCoder,
              Drain, DrainEnd, StopStep, history
<1>4. CASE InThread
  <2>1. inHeader \in Headers \cup {NoHeader}
    BY HeaderKinds DEF InOK
  <2>2. inAt \in {"wait", "empty"} => inHeader \in Headers
    BY HeaderKinds DEF InOK
  <2> QED
    BY <1>4, <2>2 DEF InThread, InTake, ReadWait, ReadTake, ReadTimeout, ReadCopy,
                      EmptyThisBuffer, EmptyRefused, LoseHeader, history
<1>5. CASE OutThread
  <2>1. outAt = "serve" => outMsg.header \in Headers
    BY OutMessageKinds, HeaderKinds DEF OutOK
  <2> QED
    BY <1>5, <2>1 DEF OutThread, OutTake, FillThisBuffer, FillRefused, OutServe, history
<1>6. CASE Commands
  BY <1>6 DEF Commands, CompleteIdle, CompleteExecuting, CompleteLoaded, history
<1>7. CASE \E h \in Headers : EmptyBufferDone(h) \/ FillBufferDone(h)
  BY <1>7 DEF EmptyBufferDone, FillBufferDone, Returns
<1>8. CASE Camera \/ ResultPutBack \/ Crashed
  BY <1>8 DEF Camera, ResultBuffer, EnqueueFrameBuffer, ResultPutBack, Crashed, vars, history
<1>9. CASE UNCHANGED vars
  BY <1>9 DEF vars, history
<1> QED
  BY <1>1, <1>2, <1>3, <1>4, <1>5, <1>6, <1>7, <1>8, <1>9 DEF Next, Component

\* Before stop() has put it there, no exit message is in the in-flight queue.
LEMMA ExitStep ==
    ASSUME AppOK, InOK, NoExitYet, [Next]_vars
    PROVE  NoExitYet'
<1> DEFINE Early == Starting \cup {"running", "flush", "exitIn"}
<1>1. CASE Start
  <2>1. pc \in Starting
    BY <1>1 DEF Start, CreateThreads, SendExecuting, EnqueueOut, EnqueueIn, SetState, Starting
  <2>2. CASE EnqueueIn
    <3>1. inQ' = Append(inQ, Message("read", next)) /\ next \in InHeaders
      BY <2>2 DEF EnqueueIn, AppOK
    <3>2. Message("read", next) # Exit /\ Message("read", next) \in InMessages
      BY <3>1, InMessageKinds, Fields
    <3> QED
      BY <2>1, <3>1, <3>2, AddOne DEF NoExitYet, InOK
  <2>3. CASE ~EnqueueIn
    BY <1>1, <2>1, <2>3
       DEF Start, CreateThreads, SendExecuting, EnqueueOut, SetState, queueVars, NoExitYet
  <2> QED
    BY <2>2, <2>3
<1>2. CASE StopBegin
  BY <1>2 DEF StopBegin, queueVars, NoExitYet
<1>3. CASE Stop
  <2>1. CASE Flush \/ Drain \/ DrainEnd \/ JoinAgainFails
    BY <2>1 DEF Flush, Drain, DrainEnd, JoinAgainFails, StopStep, appVars, queueVars, NoExitYet,
                Starting
  <2>2. CASE ~(Flush \/ Drain \/ DrainEnd \/ JoinAgainFails)
    <3>1. pc' \notin Early
      BY <1>3, <2>2
         DEF Stop, ExitIn, ExitOut, Join, SendIdle, StopRefused, WaitIdle, WaitIdleTimeout,
             SendLoaded, FreeBuffers, JoinAgain, DeleteQueues, DeleteCoder, StopStep, Starting
    <3> QED
      BY <3>1 DEF NoExitYet
  <2> QED
    BY <2>1, <2>2
<1>4. CASE InThread
  <2>1. UNCHANGED pc
    BY <1>4, AppKept DEF appVars
  <2>2. CASE InTake
    <3>1. inQ # <<>> /\ inQ' = Tail(inQ)
      BY <2>2 DEF InTake
    <3>2. \A i \in DOMAIN Tail(inQ) : \E j \in DOMAIN inQ : Tail(inQ)[i] = inQ[j]
      BY <3>1, TakeOne DEF InOK
    <3> QED
      BY <2>1, <3>1, <3>2 DEF NoExitYet
  <2>3. CASE ~InTake
    BY <1>4, <2>1, <2>3
       DEF InThread, ReadWait, ReadTake, ReadTimeout, ReadCopy, EmptyThisBuffer, EmptyRefused,
           LoseHeader, queueVars, NoExitYet
  <2> QED
    BY <2>2, <2>3
<1>5. CASE Component
  <2>1. UNCHANGED pc
    BY <1>5, AppKept DEF appVars
  <2>2. CASE Commands \/ \E h \in Headers : FillBufferDone(h)
    BY <2>1, <2>2 DEF Commands, CompleteIdle, CompleteExecuting, CompleteLoaded, FillBufferDone,
                      queueVars, NoExitYet
  <2>3. CASE \E h \in Headers : EmptyBufferDone(h)
    <3>1. PICK h \in InHeaders : EmptyBufferDone(h)
      BY <2>3 DEF EmptyBufferDone
    <3>2. inQ' = inQ \/ inQ' = Append(inQ, Message("read", h))
      BY <3>1 DEF EmptyBufferDone
    <3>3. Message("read", h) # Exit /\ Message("read", h) \in InMessages
      BY InMessageKinds, Fields
    <3> QED
      BY <2>1, <3>2, <3>3, AddOne DEF NoExitYet, InOK
  <2> QED
    BY <1>5, <2>2, <2>3 DEF Component
<1>6. CASE OutThread \/ Camera \/ ResultPutBack \/ Crashed
  <2>1. UNCHANGED inQ
    BY <1>6 DEF OutThread, OutTake, FillThisBuffer, FillRefused, OutServe, Camera, ResultBuffer,
                EnqueueFrameBuffer, ResultPutBack, Crashed, vars, queueVars
  <2> QED
    BY <1>6, <2>1, AppKept DEF appVars, NoExitYet
<1>7. CASE UNCHANGED vars
  BY <1>7 DEF vars, appVars, queueVars, NoExitYet
<1> QED
  BY <1>1, <1>2, <1>3, <1>4, <1>5, <1>6, <1>7 DEF Next

\* The encoder starts with its types.
LEMMA TypesInit == Init => TypeInv
<1> SUFFICES ASSUME Init PROVE TypeInv
  OBVIOUS
<1>1. AppOK /\ HistoryOK
  BY DEF Init, AppOK, HistoryOK, Starting
<1>2. InOK
  BY EmptySeq DEF Init, InOK
<1>3. OutOK
  BY EmptySeq, OutMessageKinds DEF Init, OutOK
<1>4. ComponentOK
  BY DEF Init, ComponentOK
<1>5. CameraOK /\ NoExitYet
  BY EmptySeq DEF Init, CameraOK, NoExitYet
<1> QED
  BY <1>1, <1>2, <1>3, <1>4, <1>5 DEF TypeInv

\* Every step keeps the types, from the parts.
LEMMA TypesStep == TypeInv /\ [Next]_vars => TypeInv'
<1> SUFFICES ASSUME TypeInv, [Next]_vars PROVE TypeInv'
  OBVIOUS
<1>1. AppOK' /\ InOK'
  BY AppStep, InStep DEF TypeInv
<1>2. OutOK'
  BY OutStep DEF TypeInv, ComponentOK
<1>3. ComponentOK' /\ CameraOK'
  BY ComponentStep, CameraStep DEF TypeInv
<1>4. HistoryOK' /\ NoExitYet'
  BY HistoryStep, ExitStep DEF TypeInv
<1> QED
  BY <1>1, <1>2, <1>3, <1>4 DEF TypeInv

-----------------------------------------------------------------------------
(* The camera buffers.                                                     *)

\* Where the first buffer of the queue and the others are once it is taken.
LEMMA BufferTaken ==
    ASSUME NEW q \in Seq(Buffers), q # <<>>,
           \A i, j \in DOMAIN q : q[i] = q[j] => i = j
    PROVE  /\ Head(q) \in Buffers
           /\ \E i \in DOMAIN q : q[i] = Head(q)
           /\ \A i \in DOMAIN Tail(q) : Tail(q)[i] # Head(q)
           /\ \A b \in Buffers : b # Head(q) =>
                 ((\E i \in DOMAIN Tail(q) : Tail(q)[i] = b) <=> \E i \in DOMAIN q : q[i] = b)
           /\ \A i, j \in DOMAIN Tail(q) : Tail(q)[i] = Tail(q)[j] => i = j
<1>1. /\ Head(q) \in Buffers /\ Head(q) = q[1] /\ 1 \in DOMAIN q /\ Len(q) \in Nat
      /\ DOMAIN q = 1 .. Len(q) /\ DOMAIN Tail(q) = 1 .. Len(q) - 1
      /\ \A i \in DOMAIN Tail(q) : i \in 1 .. Len(q) /\ i + 1 \in DOMAIN q /\ Tail(q)[i] = q[i + 1]
  BY TakeOne
<1>2. \A i \in DOMAIN Tail(q) : Tail(q)[i] # Head(q)
  BY <1>1
<1>3. \A i, j \in DOMAIN Tail(q) : Tail(q)[i] = Tail(q)[j] => i = j
  BY <1>1
<1>4. ASSUME NEW b \in Buffers, b # Head(q), NEW i \in DOMAIN q, q[i] = b
      PROVE  \E j \in DOMAIN Tail(q) : Tail(q)[j] = b
  <2>1. i - 1 \in DOMAIN Tail(q)
    BY <1>1, <1>4
  <2>2. Tail(q)[i - 1] = q[i]
    BY <1>1, <2>1
  <2> QED
    BY <1>4, <2>1, <2>2
<1>5. ASSUME NEW b \in Buffers, NEW i \in DOMAIN Tail(q), Tail(q)[i] = b
      PROVE  \E j \in DOMAIN q : q[j] = b
  BY <1>1, <1>5
<1> QED
  BY <1>1, <1>2, <1>3, <1>4, <1>5

\* Every step moves a camera buffer from one place to another.
LEMMA BufferStep == TypeInv /\ BufferInv /\ [Next]_vars => BufferInv'
<1> SUFFICES ASSUME TypeInv, BufferInv, [Next]_vars PROVE BufferInv'
  OBVIOUS
<1> USE EncoderAssumption
<1>a. CameraOK
  BY DEF TypeInv
<1>b. mBufferQueue \in Seq(Buffers) /\ \A i, j \in DOMAIN mBufferQueue :
                                           mBufferQueue[i] = mBufferQueue[j] => i = j
  BY <1>a DEF CameraOK, BufferInv
<1>c. mBufferQueue # <<>> =>
         LET b == Head(mBufferQueue) IN
         /\ b \in Buffers /\ Queued(b)
         /\ \A i \in DOMAIN Tail(mBufferQueue) : Tail(mBufferQueue)[i] # b
         /\ \A c \in Buffers : c # b =>
               ((\E i \in DOMAIN Tail(mBufferQueue) : Tail(mBufferQueue)[i] = c) <=> Queued(c))
         /\ \A i, j \in DOMAIN Tail(mBufferQueue) :
               Tail(mBufferQueue)[i] = Tail(mBufferQueue)[j] => i = j
  BY <1>b, BufferTaken DEF Queued
<1>1. CASE ReadTake
  <2>1. /\ mBufferQueue # <<>> /\ mBufferQueue' = Tail(mBufferQueue)
        /\ inBuffer' = Head(mBufferQueue) /\ UNCHANGED <<pool, resBuffer>>
        /\ inBuffer = NoBuffer
    BY <1>1, <1>a DEF ReadTake, CameraOK
  <2>2. \A c \in Buffers : Queued(c)' <=> Queued(c) /\ c # Head(mBufferQueue)
    BY <1>c, <2>1 DEF Queued
  <2> QED
    BY <1>c, <2>1, <2>2 DEF BufferInv
<1>2. CASE Drain
  <2>1. /\ mBufferQueue # <<>> /\ mBufferQueue' = Tail(mBufferQueue)
        /\ pool' = pool \cup {Head(mBufferQueue)} /\ UNCHANGED <<inBuffer, resBuffer>>
    BY <1>2 DEF Drain, inVars
  <2>2. \A c \in Buffers : Queued(c)' <=> Queued(c) /\ c # Head(mBufferQueue)
    BY <1>c, <2>1 DEF Queued
  <2> QED
    BY <1>c, <2>1, <2>2 DEF BufferInv
<1>3. CASE ReadCopy
  <2>1. /\ inBuffer \in Buffers /\ pool' = pool \cup {inBuffer} /\ inBuffer' = NoBuffer
        /\ UNCHANGED <<mBufferQueue, resBuffer>>
    BY <1>3, <1>a DEF ReadCopy, CameraOK
  <2>2. \A c \in Buffers : Queued(c)' <=> Queued(c)
    BY <2>1 DEF Queued
  <2> QED
    BY <2>1, <2>2 DEF BufferInv
<1>4. CASE \E b \in Buffers : ResultBuffer(b)
  <2>1. PICK b \in Buffers :
           /\ resBuffer = NoBuffer /\ b \in pool /\ pool' = pool \ {b} /\ resBuffer' = b
           /\ UNCHANGED <<mBufferQueue, inBuffer>>
    BY <1>4 DEF ResultBuffer, inVars
  <2>2. \A c \in Buffers : Queued(c)' <=> Queued(c)
    BY <2>1 DEF Queued
  <2> QED
    BY <2>1, <2>2 DEF BufferInv
<1>5. CASE EnqueueFrameBuffer
  <2>1. UNCHANGED <<pool, inBuffer>> /\ resBuffer \in Buffers
    BY <1>5, <1>a DEF EnqueueFrameBuffer, inVars, CameraOK
  <2>2. CASE UNCHANGED <<mBufferQueue, resBuffer>>
    <3>1. \A c \in Buffers : Queued(c)' <=> Queued(c)
      BY <2>2 DEF Queued
    <3> QED
      BY <2>1, <2>2, <3>1 DEF BufferInv
  <2>3. CASE mBufferQueue' = Append(mBufferQueue, resBuffer) /\ resBuffer' = NoBuffer
    <3>1. /\ Len(mBufferQueue) \in Nat /\ DOMAIN mBufferQueue = 1 .. Len(mBufferQueue)
          /\ DOMAIN mBufferQueue' = 1 .. Len(mBufferQueue) + 1
          /\ mBufferQueue'[Len(mBufferQueue) + 1] = resBuffer
          /\ \A i \in DOMAIN mBufferQueue : mBufferQueue'[i] = mBufferQueue[i]
      BY <1>b, <2>1, <2>3, AddOne
    <3>2. ~Queued(resBuffer)
      BY <2>1 DEF BufferInv
    <3>3. \A c \in Buffers : Queued(c)' <=> Queued(c) \/ c = resBuffer
      BY <3>1 DEF Queued
    <3>4. \A i, j \in DOMAIN mBufferQueue' : mBufferQueue'[i] = mBufferQueue'[j] => i = j
      BY <1>b, <3>1, <3>2 DEF Queued
    <3>5. \A c \in Buffers :
             \/ c \in pool' /\ resBuffer' # c /\ inBuffer' # c /\ ~Queued(c)'
             \/ c \notin pool' /\ resBuffer' = c /\ inBuffer' # c /\ ~Queued(c)'
             \/ c \notin pool' /\ resBuffer' # c /\ inBuffer' = c /\ ~Queued(c)'
             \/ c \notin pool' /\ resBuffer' # c /\ inBuffer' # c /\ Queued(c)'
      BY <2>1, <2>3, <3>3 DEF BufferInv
    <3> QED
      BY <3>4, <3>5 DEF BufferInv
  <2> QED
    BY <1>5, <2>2, <2>3 DEF EnqueueFrameBuffer
<1>6. CASE UNCHANGED <<cameraVars, inBuffer>>
  <2>1. UNCHANGED <<mBufferQueue, pool, resBuffer, inBuffer>>
    BY <1>6 DEF cameraVars
  <2>2. \A c \in Buffers : Queued(c)' <=> Queued(c)
    BY <2>1 DEF Queued
  <2> QED
    BY <2>1, <2>2 DEF BufferInv
<1> QED
  BY <1>1, <1>2, <1>3, <1>4, <1>5, <1>6, CameraKept DEF vars, cameraVars, inVars

\* At the start all buffers are in the pool.
LEMMA BufferInit == Init => BufferInv
BY EncoderAssumption DEF Init, BufferInv, Queued

\* A buffer is counted once in the queue if it is there, and not at all if not.
LEMMA BuffersCounted ==
    ASSUME TypeInv, BufferInv
    PROVE  BuffersOnce
<1> SUFFICES ASSUME NEW b \in Buffers PROVE BufferPlaces(b) = 1
  BY DEF BuffersOnce
<1> DEFINE Places == {i \in DOMAIN mBufferQueue : mBufferQueue[i] = b}
<1>1. Queued(b) => Cardinality(Places) = 1
  <2> SUFFICES ASSUME Queued(b) PROVE Cardinality(Places) = 1
    OBVIOUS
  <2>1. PICK i \in DOMAIN mBufferQueue : mBufferQueue[i] = b
    BY DEF Queued
  <2>2. Places = {i}
    BY <2>1 DEF BufferInv
  <2> QED
    BY <2>2, FS_Singleton
<1>2. ~Queued(b) => Cardinality(Places) = 0
  <2>1. ~Queued(b) => Places = {}
    BY DEF Queued
  <2> QED
    BY <2>1, FS_EmptySet
<1>3. Count(DOMAIN mBufferQueue, LAMBDA i : mBufferQueue[i] = b) = Cardinality(Places)
  BY DEF Count
<1> HIDE DEF Places
<1> QED
  BY <1>1, <1>2, <1>3 DEF BufferInv, BufferPlaces, One

-----------------------------------------------------------------------------
(* The end of the component.                                               *)

\* A thread that took its exit message does nothing any more.
LEMMA EndedStays ==
    ASSUME TypeInv, ThreadsEnded, [Next]_vars
    PROVE  ThreadsEnded' /\ ~InThread /\ ~OutThread /\ UNCHANGED <<inVars, outVars>>
<1> USE DEF ThreadsEnded
<1>1. ~InThread
  BY DEF InThread, InTake, ReadWait, ReadTake, ReadTimeout, ReadCopy, EmptyThisBuffer,
         EmptyRefused
<1>2. ~OutThread
  BY DEF OutThread, OutTake, FillThisBuffer, FillRefused, OutServe
<1>3. ~CreateThreads
  BY DEF CreateThreads, TypeInv, AppOK
<1>4. UNCHANGED <<inVars, outVars>>
  <2>1. CASE Start
    BY <1>3, <2>1 DEF Start, SendExecuting, EnqueueOut, EnqueueIn, SetState
  <2>2. CASE Stop
    BY <2>2, StopKeeps
  <2>3. CASE StopBegin \/ Component
    BY <2>3 DEF StopBegin, Component, Commands, CompleteIdle, CompleteExecuting, CompleteLoaded,
                EmptyBufferDone, FillBufferDone, Returns
  <2>4. CASE Camera \/ ResultPutBack \/ Crashed \/ UNCHANGED vars
    BY <2>4 DEF Camera, ResultBuffer, EnqueueFrameBuffer, ResultPutBack, Crashed, vars
  <2> QED
    BY <1>1, <1>2, <2>1, <2>2, <2>3, <2>4 DEF Next
<1> QED
  BY <1>1, <1>2, <1>4 DEF inVars, outVars

\* A step that touches none of this state keeps the invariant of the end.
LEMMA EndFrame ==
    ASSUME EndInv,
           UNCHANGED <<pc, inAt, outAt, coder, held, cmds, compState, m_State>>,
           UNCHANGED <<premature, gaveUp, freedInUse>>,
           fault' = "nullMessageQueue" => fault = "nullMessageQueue"
    PROVE  EndInv'
<1>1. ThreadsEnded' <=> ThreadsEnded
  BY DEF ThreadsEnded
<1>2. JoinInv'
  BY <1>1 DEF EndInv, JoinInv
<1>3. IdleInv'
  BY <1>1 DEF EndInv, IdleInv
<1> QED
  BY <1>2, <1>3 DEF EndInv, HeadersBackBeforeFree

\* start() meets a component that has only the command of setConfig, and may set
\* STATE_START over what the component told.
LEMMA EndStart == TypeInv /\ EndInv /\ Start => EndInv'
<1> SUFFICES ASSUME TypeInv, EndInv, Start PROVE EndInv'
  OBVIOUS
<1> USE DEF Starting, Stopping
<1>1. pc \in Starting /\ pc' \in Starting \cup {"running"} /\ (pc' = "running" => m_State' = "start")
  BY DEF Start, CreateThreads, SendExecuting, EnqueueOut, EnqueueIn, SetState
<1>2. /\ UNCHANGED <<coder, compState, held, premature, gaveUp, freedInUse, fault>>
      /\ cmds' = cmds \/ cmds' = Append(cmds, "executing")
  BY DEF Start, CreateThreads, SendExecuting, EnqueueOut, EnqueueIn, SetState, compVars, history
<1>3. ThreadsEnded => ThreadsEnded'
  BY DEF ThreadsEnded, TypeInv, AppOK, Start, CreateThreads, SendExecuting, EnqueueOut,
         EnqueueIn, SetState, inVars, outVars
<1>4. coder = "alive" /\ coder' = "alive"
  BY <1>1, <1>2 DEF TypeInv, ComponentOK, EndInv, JoinInv
<1>5. JoinInv'
  BY <1>1, <1>4 DEF JoinInv
<1>6. \A i \in DOMAIN cmds' : cmds'[i] = "idle" => i \in DOMAIN cmds /\ cmds[i] = "idle"
  <2>1. CASE cmds' = cmds
    BY <2>1
  <2>2. CASE cmds' = Append(cmds, "executing")
    <3>1. cmds \in Seq({"idle", "executing", "loaded"})
      BY DEF TypeInv, ComponentOK
    <3>2. /\ DOMAIN cmds = 1 .. Len(cmds) /\ DOMAIN cmds' = 1 .. Len(cmds) + 1
          /\ cmds'[Len(cmds) + 1] = "executing" /\ Len(cmds) \in Nat
          /\ \A i \in DOMAIN cmds : cmds'[i] = cmds[i]
      BY <2>2, <3>1, AddOne
    <3> QED
      BY <3>2
  <2> QED
    BY <1>2, <2>1, <2>2
<1>7. \A i \in DOMAIN cmds' : cmds'[i] = "idle" => (i = 1 /\ compState' = "loaded") \/ ThreadsEnded'
  BY <1>2, <1>3, <1>6 DEF EndInv, IdleInv
<1>8. IdleInv'
  BY <1>1, <1>4, <1>7 DEF IdleInv
<1> QED
  BY <1>2, <1>5, <1>8 DEF EndInv, HeadersBackBeforeFree

\* A command appended to those of the component; of the Idle commands before it
\* nothing changes.
LEMMA CommandAdded ==
    ASSUME ComponentOK, NEW c \in {"idle", "executing", "loaded"}, cmds' = Append(cmds, c)
    PROVE  \A i \in DOMAIN cmds' :
              cmds'[i] = "idle" => (i \in DOMAIN cmds /\ cmds[i] = "idle") \/ c = "idle"
<1>1. cmds \in Seq({"idle", "executing", "loaded"})
  BY DEF ComponentOK
<1>2. /\ DOMAIN cmds = 1 .. Len(cmds) /\ DOMAIN cmds' = 1 .. Len(cmds) + 1
      /\ cmds'[Len(cmds) + 1] = c /\ Len(cmds) \in Nat
      /\ \A i \in DOMAIN cmds : cmds'[i] = cmds[i]
  BY <1>1, AddOne
<1> QED
  BY <1>2

\* stop(): its Idle command comes after the join, and it frees the headers when
\* the wait for the event has ended.
LEMMA EndStop == TypeInv /\ EndInv /\ fault = "none" /\ Stop => EndInv'
<1> SUFFICES ASSUME TypeInv, EndInv, fault = "none", Stop PROVE EndInv'
  OBVIOUS
<1> USE DEF Starting, Stopping
<1>a. UNCHANGED <<inAt, outAt, m_State, compState, premature>> /\ (ThreadsEnded' <=> ThreadsEnded)
  BY StopKeeps DEF inVars, outVars, ThreadsEnded
<1>b. ComponentOK /\ AppOK
  BY DEF TypeInv
<1> USE <1>a DEF EndInv, JoinInv, IdleInv, HeadersBackBeforeFree
<1>1. CASE Flush \/ ExitIn \/ ExitOut
  BY <1>1, <1>b DEF Flush, ExitIn, ExitOut, compVars, history, ComponentOK
<1>2. CASE Join
  BY <1>2, <1>b DEF Join, StopStep, compVars, history, ComponentOK, ThreadsEnded
<1>3. CASE SendIdle
  <2>1. ThreadsEnded /\ coder = "alive"
    BY <1>3, <1>b DEF SendIdle, ComponentOK
  <2>2. /\ pc' = "waitIdle" /\ UNCHANGED <<coder, held, gaveUp, freedInUse, fault>>
        /\ pc = "idleCommand"
    BY <1>3 DEF SendIdle, history
  <2> QED
    BY <1>b, <2>1, <2>2
<1>4. CASE SendLoaded
  <2>1. ThreadsEnded /\ coder = "alive"
    BY <1>4, <1>b DEF SendLoaded, ComponentOK
  <2>2. /\ pc' = "free" /\ UNCHANGED <<coder, held, gaveUp, freedInUse, fault>>
        /\ pc = "loadedCommand"
    BY <1>4 DEF SendLoaded, history
  <2> QED
    BY <1>b, <2>1, <2>2
<1>5. CASE StopRefused \/ WaitIdle \/ JoinAgain \/ DrainEnd
  BY <1>5, <1>b DEF StopRefused, WaitIdle, JoinAgain, DrainEnd, StopStep, compVars, history,
                    ComponentOK
<1>6. CASE WaitIdleTimeout
  BY <1>6, <1>b DEF WaitIdleTimeout, compVars, ComponentOK
<1>7. CASE FreeBuffers
  <2>1. pc = "free" /\ pc' = "joinAgain" /\ freedInUse' = (held # {})
    BY <1>7 DEF FreeBuffers
  <2>2. UNCHANGED <<coder, held, cmds, gaveUp, fault>>
    BY <1>7 DEF FreeBuffers, compVars
  <2>3. held # {} => gaveUp \/ premature
    BY <2>1
  <2> QED
    BY <1>b, <2>1, <2>2, <2>3 DEF ComponentOK
<1>8. CASE JoinAgainFails
  BY <1>8, <1>b DEF JoinAgainFails, compVars, history, appVars
<1>9. CASE DeleteQueues
  BY <1>9, <1>b DEF DeleteQueues, compVars, history
<1>10. CASE DeleteCoder
  BY <1>10, <1>b DEF DeleteCoder, history
<1>11. CASE Drain
  BY <1>11, <1>b DEF Drain, compVars, history, appVars
<1> QED
  BY <1>1, <1>2, <1>3, <1>4, <1>5, <1>6, <1>7, <1>8, <1>9, <1>10, <1>11 DEF Stop

\* The threads give headers to the component until they take their exit messages.
LEMMA EndThreads == TypeInv /\ EndInv /\ [Next]_vars /\ (InThread \/ OutThread) => EndInv'
<1> SUFFICES ASSUME TypeInv, EndInv, [Next]_vars, InThread \/ OutThread PROVE EndInv'
  OBVIOUS
<1>1. ~ThreadsEnded
  BY EndedStays
<1>2. UNCHANGED <<pc, coder, cmds, compState, m_State, premature, gaveUp, freedInUse, fault>>
  BY DEF InThread, InTake, ReadWait, ReadTake, ReadTimeout, ReadCopy, EmptyThisBuffer,
         EmptyRefused, LoseHeader, OutThread, OutTake, FillThisBuffer, FillRefused, OutServe,
         appVars, compVars, history
<1>3. pc \notin Stopping /\ coder = "alive"
  BY <1>1 DEF EndInv, JoinInv, TypeInv, ComponentOK, Stopping
<1>4. \/ pc \in Starting \/ m_State = "start" \/ premature
  BY <1>1 DEF EndInv, IdleInv
<1>5. \A i \in DOMAIN cmds : cmds[i] = "idle" => i = 1 /\ compState = "loaded"
  BY <1>1 DEF EndInv, IdleInv
<1>6. JoinInv'
  BY <1>2, <1>3 DEF JoinInv
<1>7. IdleInv'
  BY <1>2, <1>3, <1>4, <1>5 DEF IdleInv, Stopping
<1> QED
  BY <1>2, <1>6, <1>7 DEF EndInv, HeadersBackBeforeFree

\* The component completes the first command: an Idle event of a command of stop()
\* comes when every header is back.
LEMMA EndCommands == TypeInv /\ EndInv /\ Commands => EndInv'
<1> SUFFICES ASSUME TypeInv, EndInv, Commands PROVE EndInv'
  OBVIOUS
<1>a. /\ coder # "deleted" /\ cmds # <<>> /\ cmds' = Tail(cmds)
      /\ UNCHANGED <<pc, inAt, outAt, coder, held, gaveUp, freedInUse, fault>>
  BY DEF Commands, CompleteIdle, CompleteExecuting, CompleteLoaded, Complete, appVars, inVars,
         outVars, history
<1>b. ThreadsEnded' <=> ThreadsEnded
  BY <1>a DEF ThreadsEnded
<1>c. cmds \in Seq({"idle", "executing", "loaded"})
  BY DEF TypeInv, ComponentOK
<1>1. JoinInv'
  BY <1>a, <1>b DEF EndInv, JoinInv
<1>2. \A i \in DOMAIN cmds' : cmds'[i] = "idle" => ThreadsEnded'
  <2> SUFFICES ASSUME NEW i \in DOMAIN cmds', cmds'[i] = "idle" PROVE ThreadsEnded'
    OBVIOUS
  <2>1. /\ Len(cmds) \in Nat /\ DOMAIN cmds' = 1 .. Len(cmds) - 1
        /\ i + 1 \in DOMAIN cmds /\ cmds'[i] = cmds[i + 1]
    BY <1>a, <1>c, TakeOne
  <2>2. i + 1 # 1
    BY <2>1
  <2> QED
    BY <1>b, <2>1, <2>2 DEF EndInv, IdleInv
<1>3. CASE CompleteIdle
  <2>1. cmds[1] = "idle" /\ 1 \in DOMAIN cmds
    BY <1>3, <1>a, <1>c, TakeOne DEF CompleteIdle, Complete
  <2>2. compState = "loaded" \/ (ThreadsEnded /\ held = {})
    BY <1>3, <2>1 DEF EndInv, IdleInv, CompleteIdle
  <2>3. \/ /\ m_State = "start" /\ m_State' = "idle"
           /\ premature' = (premature \/ compState = "loaded")
        \/ m_State # "start" /\ UNCHANGED <<m_State, premature>>
    BY <1>3 DEF CompleteIdle
  <2>4. premature \in BOOLEAN
    BY DEF TypeInv, HistoryOK
  <2>5. premature => premature'
    BY <2>3
  <2>6. pc' \notin Starting /\ m_State' # "start" /\ ~premature' => ThreadsEnded' /\ held' = {}
    BY <1>a, <1>b, <2>2, <2>3 DEF EndInv, IdleInv
  <2>7. m_State # "start" => m_State' # "start"
    BY <2>3
  <2>8. IdleInv'
    BY <1>a, <1>2, <2>6, <2>7 DEF EndInv, IdleInv
  <2> QED
    BY <1>1, <1>a, <2>5, <2>8 DEF EndInv, HeadersBackBeforeFree
<1>4. CASE CompleteExecuting \/ CompleteLoaded
  <2>1. premature' = premature /\ (m_State' = "start" <=> m_State = "start")
    BY <1>4 DEF CompleteExecuting, CompleteLoaded, compVars, history
  <2>2. IdleInv'
    BY <1>a, <1>b, <1>2, <2>1 DEF EndInv, IdleInv
  <2> QED
    BY <1>1, <1>a, <2>1, <2>2 DEF EndInv, HeadersBackBeforeFree
<1> QED
  BY <1>3, <1>4 DEF Commands

\* A header comes back: a callback that meets no queue follows a wait that ended
\* too early, or an Idle event that came too early.
LEMMA EndReturns ==
    TypeInv /\ EndInv /\ (\E h \in Headers : EmptyBufferDone(h) \/ FillBufferDone(h)) => EndInv'
<1> SUFFICES ASSUME TypeInv, EndInv,
                    NEW h \in Headers, EmptyBufferDone(h) \/ FillBufferDone(h)
             PROVE  EndInv'
  OBVIOUS
<1>1. /\ h \in held /\ held' = held \ {h}
      /\ UNCHANGED <<pc, inAt, outAt, coder, cmds, compState, m_State>>
      /\ UNCHANGED <<premature, gaveUp, freedInUse>>
      /\ fault' = fault \/ coder # "alive"
  BY DEF EmptyBufferDone, FillBufferDone, Returns, appVars, inVars, outVars
<1>2. ThreadsEnded' <=> ThreadsEnded
  BY <1>1 DEF ThreadsEnded
<1>3. JoinInv'
  BY <1>1, <1>2 DEF EndInv, JoinInv
<1>4. IdleInv'
  BY <1>1, <1>2 DEF EndInv, IdleInv
<1>5. coder # "alive" => gaveUp \/ premature
  <2> SUFFICES ASSUME coder # "alive" PROVE gaveUp \/ premature
    OBVIOUS
  <2>1. coder = "emptied" /\ pc = "delete"
    BY <1>1 DEF EndInv, JoinInv, TypeInv, ComponentOK
  <2> QED
    BY <1>1, <2>1 DEF EndInv, IdleInv, Starting
<1> QED
  BY <1>1, <1>3, <1>4, <1>5 DEF EndInv, HeadersBackBeforeFree

\* At the start the component has only the command of setConfig.
LEMMA EndInit == Init => EndInv
<1> SUFFICES ASSUME Init PROVE EndInv
  OBVIOUS
<1>1. \A i \in DOMAIN cmds : i = 1 /\ compState = "loaded"
  BY DEF Init
<1> QED
  BY <1>1 DEF Init, EndInv, JoinInv, IdleInv, HeadersBackBeforeFree, Starting, Stopping

\* Every step keeps the invariant of the end.
LEMMA EndStep == TypeInv /\ EndInv /\ [Next]_vars => EndInv'
<1> SUFFICES ASSUME TypeInv, EndInv, [Next]_vars PROVE EndInv'
  OBVIOUS
<1>1. CASE StopBegin
  <2>1. /\ pc = "running" /\ pc' = "flush"
        /\ UNCHANGED <<inAt, outAt, coder, held, cmds, compState, m_State>>
        /\ UNCHANGED <<premature, gaveUp, freedInUse, fault>>
    BY <1>1 DEF StopBegin, inVars, outVars, compVars, history
  <2>2. ThreadsEnded' <=> ThreadsEnded
    BY <2>1 DEF ThreadsEnded
  <2>3. coder # "emptied" /\ coder # "deleted"
    BY <2>1 DEF EndInv, JoinInv
  <2> QED
    BY <2>1, <2>2, <2>3
       DEF EndInv, JoinInv, IdleInv, HeadersBackBeforeFree, Starting, Stopping
<1>2. CASE Camera \/ ResultPutBack \/ Crashed \/ UNCHANGED vars
  <2>1. /\ UNCHANGED <<pc, inAt, outAt, coder, held, cmds, compState, m_State>>
        /\ UNCHANGED <<premature, gaveUp, freedInUse>>
        /\ fault' = fault \/ fault' = "nullBufferQueue"
    BY <1>2 DEF Camera, ResultBuffer, EnqueueFrameBuffer, ResultPutBack, Crashed, vars, appVars,
                inVars, outVars, compVars, history
  <2> QED
    BY <2>1, EndFrame
<1> QED
  BY <1>1, <1>2, EndStart, EndStop, EndThreads, EndCommands, EndReturns DEF Next, Component

-----------------------------------------------------------------------------
(* The outputs.                                                            *)

BeforeExit == Starting \cup {"running", "flush", "exitIn", "exitOut"}

\* What is in the out-flight queue, and on the thread's hands.
LEMMA OutFacts ==
    ASSUME TypeInv
    PROVE  /\ outQ \in Seq(OutMessages) /\ outMsg \in OutMessages
           /\ \A i \in DOMAIN outQ : outQ[i] \in OutMessages
           /\ \A i \in DOMAIN outQ :
                 outQ[i] # Exit => outQ[i].header \in OutHeaders /\ outQ[i].header # NoHeader
           /\ outMsg # Exit => outMsg.header \in OutHeaders /\ outMsg.header # NoHeader
           /\ outAt = "serve" <=> outMsg # Exit
           /\ NoHeader \notin OutHeaders /\ Exit.header = NoHeader /\ Exit.type = "exit"
<1>1. outQ \in Seq(OutMessages) /\ outMsg \in OutMessages /\ (outAt = "serve" <=> outMsg # Exit)
  BY DEF TypeInv, OutOK
<1>2. \A i \in DOMAIN outQ : outQ[i] \in OutMessages
  BY <1>1
<1>3. NoHeader \notin OutHeaders
  BY HeaderKinds
<1> QED
  BY <1>1, <1>2, <1>3, OutMessageKinds, InMessageKinds

\* A header that start() has enqueued stays so, and the application does not go
\* back before the exit message.
LEMMA SentStays ==
    ASSUME TypeInv, [Next]_vars
    PROVE  /\ \A h \in OutHeaders : Sent(h) => Sent(h)'
           /\ pc' \in BeforeExit => pc \in BeforeExit
<1> USE DEF Sent, BeforeExit, Starting
<1>1. CASE Start
  <2>1. CASE EnqueueOut
    <3>1. next \in Int /\ OutHeaders \subseteq Int
      BY <2>1, HeaderKinds DEF EnqueueOut, TypeInv, AppOK
    <3> QED
      BY <2>1, <3>1 DEF EnqueueOut
  <2>2. CASE CreateThreads \/ SendExecuting \/ EnqueueIn \/ SetState
    BY <2>2 DEF CreateThreads, SendExecuting, EnqueueIn, SetState
  <2> QED
    BY <1>1, <2>1, <2>2 DEF Start
<1>2. CASE StopBegin
  BY <1>2 DEF StopBegin
<1>3. CASE Stop
  <2>1. next' = next
    BY <1>3, StopKeeps
  <2>2. \/ pc' = pc
        \/ pc \in BeforeExit /\ pc' \in {"exitIn", "exitOut", "join"}
        \/ pc' \in Stopping
    BY <1>3 DEF Stop, Flush, ExitIn, ExitOut, Join, SendIdle, StopRefused, WaitIdle,
                WaitIdleTimeout, SendLoaded, FreeBuffers, JoinAgain, JoinAgainFails,
                DeleteQueues, DeleteCoder, Drain, DrainEnd, StopStep, appVars, Stopping
  <2> QED
    BY <2>1, <2>2 DEF Stopping
<1>4. CASE InThread \/ OutThread \/ Component \/ Camera \/ ResultPutBack \/ Crashed
  BY <1>4, AppKept DEF appVars
<1>5. CASE UNCHANGED vars
  BY <1>5 DEF vars, appVars
<1> QED
  BY <1>1, <1>2, <1>3, <1>4, <1>5 DEF Next

\* A step that leaves the outputs and the out-flight queue alone, and gives the
\* component no output header, keeps the invariant of the outputs.
LEMMA WriteFrame ==
    ASSUME TypeInv, WriteInv, [Next]_vars,
           UNCHANGED <<outQ, outAt, outMsg, unwritten, owed>>,
           coder' = "alive" => coder = "alive",
           held' \cap OutHeaders \subseteq held
    PROVE  WriteInv'
<1>1. /\ \A h \in OutHeaders : Sent(h) => Sent(h)'
      /\ pc' \in BeforeExit => pc \in BeforeExit
  BY SentStays
<1>2. /\ \A h : ToWrite(h)' <=> ToWrite(h)
      /\ \A h : WrittenFirst(h)' <=> WrittenFirst(h)
  BY DEF ToWrite, WrittenFirst
<1>3. unwritten \subseteq OutHeaders
  BY DEF TypeInv, HistoryOK
<1>4. HeaderInv'
  BY <1>1, OutFacts DEF WriteInv, HeaderInv
<1>5. OutputInv'
  BY <1>1, <1>2 DEF WriteInv, OutputInv, BeforeExit
<1>6. OutputsWritten'
  BY <1>3 DEF WriteInv, OutputsWritten
<1> QED
  BY <1>4, <1>5, <1>6 DEF WriteInv

\* start() enqueues an output header that nobody knew.
LEMMA WriteEnqueue == TypeInv /\ WriteInv /\ [Next]_vars /\ EnqueueOut => WriteInv'
<1> SUFFICES ASSUME TypeInv, WriteInv, [Next]_vars, EnqueueOut PROVE WriteInv'
  OBVIOUS
<1>0. PICK n \in OutHeaders : n = next
  BY DEF EnqueueOut, TypeInv, AppOK
<1> DEFINE m == Message("fill", n)
<1>1. /\ outQ' = Append(outQ, m)
      /\ UNCHANGED <<outAt, outMsg, unwritten, owed, coder, held>>
      /\ pc = "enqueueOut"
  BY <1>0 DEF EnqueueOut, outVars, history, compVars
<1>2. m \in OutMessages /\ m # Exit /\ m.header = n /\ m.type = "fill"
  BY <1>1, OutMessageKinds, Fields
<1> HIDE DEF m
<1>3. /\ Len(outQ) \in Nat /\ DOMAIN outQ = 1 .. Len(outQ)
      /\ DOMAIN outQ' = 1 .. Len(outQ) + 1 /\ outQ'[Len(outQ) + 1] = m
      /\ \A i \in DOMAIN outQ : outQ'[i] = outQ[i]
  BY <1>1, <1>2, OutFacts, AddOne
<1>4. \A h \in OutHeaders : Sent(h) => Sent(h)'
  BY SentStays
<1>5. ~Sent(n) /\ Sent(n)'
  <2>1. n \in Int /\ n < n + 1
    BY HeaderKinds
  <2> QED
    BY <1>0, <1>1, <2>1 DEF Sent, EnqueueOut
<1>6. /\ n \notin held /\ n \notin unwritten
      /\ outMsg # Exit => outMsg.header # n
      /\ \A i \in DOMAIN outQ : outQ[i] # Exit /\ outQ[i].header # n
  BY <1>1, <1>5 DEF WriteInv, HeaderInv, OutputInv, Starting
<1>7. HeaderInv'
  <2>1. \A h \in OutHeaders : h \in held' \cup unwritten' => Sent(h)'
    BY <1>1, <1>4 DEF WriteInv, HeaderInv
  <2>2. outMsg' # Exit => Sent(outMsg.header)' /\ outMsg'.header \notin held'
    BY <1>1, <1>4, OutFacts DEF WriteInv, HeaderInv
  <2>3. outMsg.header # n
    BY <1>1, <1>6, OutFacts
  <2>4. ASSUME NEW i \in DOMAIN outQ'
        PROVE  Sent(outQ[i].header)' /\ outQ'[i].header \notin held'
               /\ outQ'[i].header # outMsg'.header
    <3>1. CASE i \in DOMAIN outQ
      <4>1. outQ'[i] = outQ[i] /\ outQ[i] # Exit
        BY <1>3, <1>6, <3>1
      <4>2. Sent(outQ[i].header)
        BY <3>1, <4>1 DEF WriteInv, HeaderInv
      <4>3. outQ[i].header \in OutHeaders
        BY <3>1, <4>1, OutFacts
      <4> QED
        BY <1>1, <1>4, <3>1, <4>1, <4>2, <4>3 DEF WriteInv, HeaderInv, Sent
    <3>2. CASE i = Len(outQ) + 1
      <4>1. outQ'[i] = m
        BY <1>3, <3>2
      <4> QED
        BY <1>1, <1>2, <1>5, <1>6, <2>3, <4>1 DEF Sent
    <3> QED
      BY <1>3, <3>1, <3>2
  <2>5. \A i, j \in DOMAIN outQ' : outQ'[i].header = outQ'[j].header => i = j
    BY <1>2, <1>3, <1>6 DEF WriteInv, HeaderInv
  <2> QED
    BY <2>1, <2>2, <2>4, <2>5 DEF HeaderInv
<1>8. OutputInv'
  <2>1. \A i \in DOMAIN outQ' : outQ'[i] # Exit /\ (outQ'[i].type = "fill" => outQ'[i].header \notin unwritten)
    BY <1>2, <1>3, <1>6 DEF WriteInv, OutputInv
  <2>2. \A h : ToWrite(h) => ToWrite(h)'
    BY <1>1, <1>3 DEF ToWrite
  <2>3. owed = {} /\ outAt # "exit"
    BY <1>1 DEF WriteInv, OutputInv, Starting
  <2> QED
    BY <1>1, <2>1, <2>2, <2>3 DEF WriteInv, OutputInv
<1>9. OutputsWritten'
  BY <1>1 DEF WriteInv, OutputsWritten
<1> QED
  BY <1>7, <1>8, <1>9 DEF WriteInv

\* stop() asks for the exit: what the component returned is before it in the queue.
LEMMA WriteExit ==
    TypeInv /\ EndInv /\ WriteInv /\ [Next]_vars /\ ExitOut => WriteInv'
<1> SUFFICES ASSUME TypeInv, EndInv, WriteInv, [Next]_vars, ExitOut PROVE WriteInv'
  OBVIOUS
<1>1. /\ outQ' = Append(outQ, Exit) /\ owed' = unwritten /\ pc = "exitOut" /\ pc' = "join"
      /\ UNCHANGED <<outAt, outMsg, unwritten, coder, held>>
  BY DEF ExitOut, outVars, compVars
<1>2. /\ Len(outQ) \in Nat /\ DOMAIN outQ = 1 .. Len(outQ)
      /\ DOMAIN outQ' = 1 .. Len(outQ) + 1 /\ outQ'[Len(outQ) + 1] = Exit
      /\ \A i \in DOMAIN outQ : outQ'[i] = outQ[i]
  BY <1>1, OutFacts, OutMessageKinds, AddOne
<1>3. \A h \in OutHeaders : Sent(h) => Sent(h)'
  BY SentStays
<1>4. outAt # "exit" /\ \A i \in DOMAIN outQ : outQ[i] # Exit
  BY <1>1 DEF WriteInv, OutputInv
<1>5. coder = "alive"
  BY <1>1 DEF EndInv, JoinInv, TypeInv, ComponentOK
<1>6. HeaderInv'
  <2>1. \A h \in OutHeaders : h \in held' \cup unwritten' => Sent(h)'
    BY <1>1, <1>3 DEF WriteInv, HeaderInv
  <2>2. outMsg' # Exit => Sent(outMsg.header)' /\ outMsg'.header \notin held'
    BY <1>1, <1>3, OutFacts DEF WriteInv, HeaderInv
  <2>3. ASSUME NEW i \in DOMAIN outQ', outQ'[i] # Exit
        PROVE  Sent(outQ[i].header)' /\ outQ'[i].header \notin held'
               /\ outQ'[i].header # outMsg'.header
    <3>1. i \in DOMAIN outQ /\ outQ'[i] = outQ[i]
      BY <1>2, <2>3
    <3>2. outQ[i].header \in OutHeaders /\ Sent(outQ[i].header)
      BY <2>3, <3>1, OutFacts DEF WriteInv, HeaderInv
    <3> QED
      BY <1>1, <1>3, <2>3, <3>1, <3>2 DEF WriteInv, HeaderInv, Sent
  <2>4. \A i, j \in DOMAIN outQ' : outQ'[i].header = outQ'[j].header => i = j
    BY <1>2, <1>4, OutFacts DEF WriteInv, HeaderInv
  <2> QED
    BY <2>1, <2>2, <2>3, <2>4 DEF HeaderInv
<1>7. OutputInv'
  <2>1. \A h : ToWrite(h) => ToWrite(h)'
    BY <1>1, <1>2 DEF ToWrite
  <2>2. ASSUME NEW h \in unwritten PROVE WrittenFirst(h)'
    <3>1. ToWrite(h)
      BY <1>5 DEF WriteInv, OutputInv
    <3>2. CASE outMsg = Message("write", h)
      BY <1>1, <3>2 DEF WrittenFirst
    <3>3. ASSUME NEW i \in DOMAIN outQ, outQ[i] = Message("write", h) PROVE WrittenFirst(h)'
      <4>1. i \in DOMAIN outQ' /\ outQ'[i] = Message("write", h)
        BY <1>2, <3>3
      <4>2. \A j \in 1 .. i : j \in DOMAIN outQ
        BY <1>2, <3>3
      <4>3. \A j \in 1 .. i : outQ'[j] # Exit
        BY <1>2, <1>4, <4>2
      <4> QED
        BY <4>1, <4>3 DEF WrittenFirst
    <3> QED
      BY <3>1, <3>2, <3>3 DEF ToWrite
  <2>3. \A i \in DOMAIN outQ' : outQ'[i].type = "fill" => outQ'[i].header \notin unwritten'
    BY <1>1, <1>2, OutFacts DEF WriteInv, OutputInv
  <2>4. outMsg'.type = "fill" => outMsg'.header \notin unwritten'
    BY <1>1 DEF WriteInv, OutputInv
  <2> QED
    BY <1>1, <2>1, <2>2, <2>3, <2>4 DEF WriteInv, OutputInv, Starting
<1>8. OutputsWritten'
  BY <1>1, <1>4 DEF WriteInv, OutputsWritten
<1> QED
  BY <1>6, <1>7, <1>8 DEF WriteInv

\* The queues are deleted when the out-flight thread has written what was owed.
LEMMA WriteDelete ==
    ASSUME TypeInv, EndInv, WriteInv, [Next]_vars, DeleteQueues \/ DeleteCoder
    PROVE  WriteInv'
<1>1. /\ outQ' = <<>> /\ pc \in {"deleteQueues", "delete"} /\ pc' \in {"delete", "drain"}
      /\ UNCHANGED <<outAt, outMsg, unwritten, owed>>
      /\ coder' # "alive" /\ held' \subseteq held
  BY DEF DeleteQueues, DeleteCoder, outVars, history, compVars
<1>2. outAt = "exit" /\ owed = {} /\ outMsg = Exit
  <2>1. outAt = "exit"
    BY <1>1 DEF EndInv, JoinInv, ThreadsEnded, Stopping
  <2> QED
    BY <2>1, OutFacts DEF WriteInv, OutputsWritten
<1>3. \A h \in OutHeaders : Sent(h) => Sent(h)'
  BY SentStays
<1>4. DOMAIN outQ' = {}
  BY <1>1
<1>5. HeaderInv'
  BY <1>1, <1>2, <1>3, <1>4 DEF WriteInv, HeaderInv
<1>6. OutputInv'
  BY <1>1, <1>2, <1>4, OutFacts DEF OutputInv, Starting
<1>7. OutputsWritten'
  BY <1>1, <1>2 DEF WriteInv, OutputsWritten
<1> QED
  BY <1>5, <1>6, <1>7 DEF WriteInv

\* The out-flight thread takes a message; when it is the exit, all that was owed
\* was before it and is written.
LEMMA WriteTake == TypeInv /\ WriteInv /\ [Next]_vars /\ OutTake => WriteInv'
<1> SUFFICES ASSUME TypeInv, WriteInv, [Next]_vars, OutTake PROVE WriteInv'
  OBVIOUS
<1>1. /\ outQ # <<>> /\ outQ' = Tail(outQ) /\ outMsg' = Head(outQ) /\ outAt = "take"
      /\ outAt' = (IF outMsg' = Exit THEN "exit" ELSE "serve")
      /\ UNCHANGED <<pc, next, unwritten, owed, coder, held>>
  BY DEF OutTake, history, compVars, appVars
<1>2. /\ Len(outQ) \in Nat /\ DOMAIN outQ = 1 .. Len(outQ)
      /\ DOMAIN outQ' = 1 .. Len(outQ) - 1 /\ 1 \in DOMAIN outQ /\ outMsg' = outQ[1]
      /\ \A i \in DOMAIN outQ' : i + 1 \in DOMAIN outQ /\ outQ'[i] = outQ[i + 1]
  BY <1>1, OutFacts, TakeOne
<1>3. \A h : Sent(h)' <=> Sent(h)
  BY <1>1 DEF Sent
<1>4. outMsg = Exit
  BY <1>1, OutFacts
<1>5. \A h : outMsg # Message("write", h)
  BY <1>4, Fields, OutFacts
<1>6. \A i \in DOMAIN outQ : i = 1 \/ (i - 1 \in DOMAIN outQ' /\ outQ'[i - 1] = outQ[i])
  <2> SUFFICES ASSUME NEW i \in DOMAIN outQ, i # 1
               PROVE  i - 1 \in DOMAIN outQ' /\ outQ'[i - 1] = outQ[i]
    OBVIOUS
  <2>1. i - 1 \in DOMAIN outQ' /\ i - 1 + 1 = i
    BY <1>2
  <2> QED
    BY <1>2, <2>1
<1>7. HeaderInv'
  <2>1. \A h \in OutHeaders : h \in held' \cup unwritten' => Sent(h)'
    BY <1>1, <1>3 DEF WriteInv, HeaderInv
  <2>2. outMsg' # Exit => Sent(outMsg.header)' /\ outMsg'.header \notin held'
    BY <1>1, <1>2 DEF WriteInv, HeaderInv, Sent
  <2>3. ASSUME NEW i \in DOMAIN outQ', outQ'[i] # Exit
        PROVE  Sent(outQ[i].header)' /\ outQ'[i].header \notin held'
               /\ outQ'[i].header # outMsg'.header
    <3>1. i + 1 \in DOMAIN outQ /\ outQ'[i] = outQ[i + 1] /\ i + 1 # 1
      BY <1>2
    <3>2. outQ'[i].header # outMsg'.header
      BY <1>2, <3>1 DEF WriteInv, HeaderInv
    <3> QED
      BY <1>1, <2>3, <3>1, <3>2 DEF WriteInv, HeaderInv, Sent
  <2>4. \A i, j \in DOMAIN outQ' : outQ'[i].header = outQ'[j].header => i = j
    BY <1>2 DEF WriteInv, HeaderInv
  <2> QED
    BY <2>1, <2>2, <2>3, <2>4 DEF HeaderInv
<1>8. OutputInv'
  <2>1. outMsg'.type = "fill" => outMsg'.header \notin unwritten'
    BY <1>1, <1>2 DEF WriteInv, OutputInv
  <2>2. \A i \in DOMAIN outQ' : outQ'[i].type = "fill" => outQ'[i].header \notin unwritten'
    BY <1>1, <1>2 DEF WriteInv, OutputInv
  <2>3. \A h : ToWrite(h) => ToWrite(h)'
    BY <1>2, <1>5, <1>6 DEF ToWrite
  <2>4. ASSUME NEW h, WrittenFirst(h) PROVE WrittenFirst(h)'
    <3>1. PICK i \in DOMAIN outQ : outQ[i] = Message("write", h) /\ \A j \in 1 .. i : outQ[j] # Exit
      BY <1>5, <2>4 DEF WrittenFirst
    <3>2. CASE i = 1
      BY <1>2, <3>1, <3>2 DEF WrittenFirst
    <3>3. CASE i # 1
      <4>1. i - 1 \in DOMAIN outQ' /\ outQ'[i - 1] = Message("write", h)
        BY <1>6, <3>1, <3>3
      <4>2. \A j \in 1 .. i - 1 : j \in DOMAIN outQ' /\ j + 1 \in 1 .. i
        BY <1>2
      <4>3. \A j \in 1 .. i - 1 : outQ'[j] # Exit
        BY <1>2, <3>1, <4>2
      <4> QED
        BY <4>1, <4>3 DEF WrittenFirst
    <3> QED
      BY <3>2, <3>3
  <2>5. pc' \in BeforeExit => owed' = {} /\ outAt' # "exit" /\ \A i \in DOMAIN outQ' : outQ'[i] # Exit
    BY <1>1, <1>2 DEF WriteInv, OutputInv, BeforeExit
  <2> QED
    BY <1>1, <2>1, <2>2, <2>3, <2>4, <2>5 DEF WriteInv, OutputInv, BeforeExit
<1>9. OutputsWritten'
  <2>1. outMsg' = Exit => owed = {}
    <3> SUFFICES ASSUME outMsg' = Exit, NEW h \in owed PROVE FALSE
      OBVIOUS
    <3>1. PICK i \in DOMAIN outQ : \A j \in 1 .. i : outQ[j] # Exit
      BY <1>5 DEF WriteInv, OutputInv, WrittenFirst
    <3>2. 1 \in 1 .. i
      BY <1>2
    <3> QED
      BY <1>2, <3>1, <3>2
  <2> QED
    BY <1>1, <2>1 DEF WriteInv, OutputsWritten
<1> QED
  BY <1>7, <1>8, <1>9 DEF WriteInv

\* The thread writes the output it holds, and the header is then the component's
\* or lost.
LEMMA WriteServe ==
    ASSUME TypeInv, WriteInv, [Next]_vars, FillThisBuffer \/ FillRefused
    PROVE  WriteInv'
<1>1. PICK g : g = outMsg.header
  OBVIOUS
<1>2. /\ outAt = "serve" /\ outAt' = "take" /\ outMsg' = Exit
      /\ UNCHANGED <<pc, next, outQ, coder>> /\ held' \subseteq held \cup {g}
      /\ \/ outMsg.type = "write" /\ unwritten' = unwritten \ {g} /\ owed' = owed \ {g}
         \/ outMsg.type # "write" /\ unwritten' = unwritten /\ owed' = owed
  BY <1>1 DEF FillThisBuffer, FillRefused, OutServe, appVars, queueVars
<1>3. outMsg # Exit /\ g \in OutHeaders /\ Sent(g) /\ g \notin held
  BY <1>1, <1>2, OutFacts DEF WriteInv, HeaderInv
<1>4. /\ outMsg = Message("fill", g) \/ outMsg = Message("write", g)
      /\ \A h : outMsg = Message("write", h) => h = g
  BY <1>1, <1>3, OutFacts, OutMessageKinds, Fields
<1>5. \A i \in DOMAIN outQ : outQ[i].header # g
  BY <1>1, <1>3, OutFacts DEF WriteInv, HeaderInv
<1>6. \A h : (ToWrite(h) => h = g \/ ToWrite(h)') /\ (WrittenFirst(h) => h = g \/ WrittenFirst(h)')
  BY <1>2, <1>4 DEF ToWrite, WrittenFirst
<1>7. unwritten' \subseteq unwritten /\ owed' \subseteq owed /\ g \notin unwritten' /\ g \notin owed'
  <2>1. CASE outMsg.type = "write"
    BY <1>2, <2>1
  <2>2. CASE outMsg.type # "write"
    <3>1. outMsg.type = "fill" /\ outMsg # Message("write", g)
      BY <1>4, <2>2, Fields
    <3>2. g \notin unwritten
      BY <1>1, <3>1 DEF WriteInv, OutputInv
    <3>3. ~WrittenFirst(g)
      BY <1>5, <3>1, Fields DEF WrittenFirst
    <3>4. g \notin owed
      BY <3>3 DEF WriteInv, OutputInv
    <3> QED
      BY <1>2, <2>2, <3>2, <3>4
  <2> QED
    BY <2>1, <2>2
<1>8. \A h : Sent(h)' <=> Sent(h)
  BY <1>2 DEF Sent
<1>9. HeaderInv'
  <2>1. \A h \in OutHeaders : h \in held' \cup unwritten' => Sent(h)'
    BY <1>2, <1>3, <1>7, <1>8 DEF WriteInv, HeaderInv
  <2>2. ASSUME NEW i \in DOMAIN outQ, outQ[i] # Exit
        PROVE  Sent(outQ[i].header) /\ outQ[i].header \notin held'
               /\ outQ[i].header # outMsg'.header
    BY <1>2, <1>5, <2>2, OutFacts DEF WriteInv, HeaderInv
  <2>3. \A i \in DOMAIN outQ : Sent(outQ[i].header)' <=> Sent(outQ[i].header)
    BY <1>2 DEF Sent
  <2>4. \A i, j \in DOMAIN outQ' : outQ'[i].header = outQ'[j].header => i = j
    BY <1>2 DEF WriteInv, HeaderInv
  <2> QED
    BY <1>2, <2>1, <2>2, <2>3, <2>4 DEF HeaderInv
<1>10. OutputInv'
  <2>1. outMsg'.type # "fill"
    BY <1>2, OutFacts
  <2>2. \A i \in DOMAIN outQ' : outQ'[i].type = "fill" => outQ'[i].header \notin unwritten'
    BY <1>2, <1>7 DEF WriteInv, OutputInv
  <2>3. coder' = "alive" => \A h \in unwritten' : ToWrite(h)'
    BY <1>2, <1>6, <1>7 DEF WriteInv, OutputInv
  <2>4. \A h \in owed' : WrittenFirst(h)'
    BY <1>6, <1>7 DEF WriteInv, OutputInv
  <2>5. pc' \in BeforeExit => owed' = {} /\ outAt' # "exit" /\ \A i \in DOMAIN outQ' : outQ'[i] # Exit
    BY <1>2, <1>7 DEF WriteInv, OutputInv, BeforeExit
  <2> QED
    BY <2>1, <2>2, <2>3, <2>4, <2>5 DEF OutputInv, BeforeExit
<1>11. OutputsWritten'
  BY <1>2, <1>7 DEF WriteInv, OutputsWritten
<1> QED
  BY <1>9, <1>10, <1>11 DEF WriteInv

\* The component returns an output: it is on its way to the file.
LEMMA WriteReturns ==
    ASSUME TypeInv, WriteInv, [Next]_vars, NEW h \in Headers, FillBufferDone(h)
    PROVE  WriteInv'
<1> DEFINE m == Message("write", h)
<1>1. /\ h \in OutHeaders /\ h \in held /\ held' = held \ {h} /\ unwritten' = unwritten \cup {h}
      /\ UNCHANGED <<pc, next, outAt, outMsg, coder, owed>>
      /\ IF coder = "alive" THEN outQ' = Append(outQ, m) ELSE outQ' = outQ
  BY DEF FillBufferDone, Returns, appVars, outVars
<1>2. m \in OutMessages /\ m # Exit /\ m.header = h /\ m.type = "write"
  BY <1>1, OutMessageKinds, Fields
<1>3. Sent(h) /\ outMsg.header # h /\ \A i \in DOMAIN outQ : outQ[i].header # h
  BY <1>1, OutFacts DEF WriteInv, HeaderInv
<1>4. \A g : Sent(g)' <=> Sent(g)
  BY <1>1 DEF Sent
<1>5. OutputsWritten'
  BY <1>1 DEF WriteInv, OutputsWritten
<1>6. /\ \A g \in OutHeaders : g \in held' \cup unwritten' => Sent(g)'
      /\ outMsg' # Exit => Sent(outMsg.header)' /\ outMsg'.header \notin held'
      /\ outMsg'.type = "fill" => outMsg'.header \notin unwritten'
  <2>1. \A g \in OutHeaders : g \in held' \cup unwritten' => Sent(g)'
    BY <1>1, <1>3, <1>4 DEF WriteInv, HeaderInv
  <2>2. outMsg' # Exit => Sent(outMsg.header)' /\ outMsg'.header \notin held'
    BY <1>1 DEF WriteInv, HeaderInv, Sent
  <2>3. outMsg'.type = "fill" => outMsg'.header \notin unwritten'
    BY <1>1, <1>3 DEF WriteInv, OutputInv
  <2> QED
    BY <2>1, <2>2, <2>3
<1>7. CASE coder = "alive"
  <2>1. outQ' = Append(outQ, m)
    BY <1>1, <1>7
  <2> HIDE DEF m
  <2>2. /\ Len(outQ) \in Nat /\ DOMAIN outQ = 1 .. Len(outQ)
        /\ DOMAIN outQ' = 1 .. Len(outQ) + 1 /\ outQ'[Len(outQ) + 1] = m
        /\ \A i \in DOMAIN outQ : outQ'[i] = outQ[i]
    BY <1>2, <2>1, OutFacts, AddOne
  <2>3. ASSUME NEW i \in DOMAIN outQ', outQ'[i] # Exit
        PROVE  /\ Sent(outQ[i].header)' /\ outQ'[i].header \notin held'
               /\ outQ'[i].header # outMsg'.header
               /\ outQ'[i].type = "fill" => outQ'[i].header \notin unwritten'
    <3>1. CASE i \in DOMAIN outQ
      BY <1>1, <1>3, <2>2, <2>3, <3>1 DEF WriteInv, HeaderInv, OutputInv, Sent
    <3>2. CASE i = Len(outQ) + 1
      BY <1>1, <1>2, <1>3, <2>2, <3>2 DEF Sent
    <3> QED
      BY <2>2, <3>1, <3>2
  <2>4. \A i, j \in DOMAIN outQ' : outQ'[i].header = outQ'[j].header => i = j
    BY <1>2, <1>3, <2>2 DEF WriteInv, HeaderInv
  <2>5. HeaderInv'
    BY <1>6, <2>3, <2>4 DEF HeaderInv
  <2>6. \A g : ToWrite(g) => ToWrite(g)'
    BY <1>1, <2>2 DEF ToWrite
  <2>7. ToWrite(h)'
    BY <1>1, <2>2 DEF ToWrite, m
  <2>8. \A g \in unwritten' : ToWrite(g)'
    BY <1>1, <1>7, <2>6, <2>7 DEF WriteInv, OutputInv
  <2>9. ASSUME NEW g \in owed PROVE WrittenFirst(g)'
    <3>1. WrittenFirst(g)
      BY DEF WriteInv, OutputInv
    <3>2. CASE outMsg = Message("write", g)
      BY <1>1, <3>2 DEF WrittenFirst
    <3>3. ASSUME NEW i \in DOMAIN outQ, outQ[i] = Message("write", g),
                 \A j \in 1 .. i : outQ[j] # Exit
          PROVE  WrittenFirst(g)'
      <4>1. \A j \in 1 .. i : j \in DOMAIN outQ
        BY <2>2
      <4>2. i \in DOMAIN outQ' /\ outQ'[i] = Message("write", g)
        BY <2>2, <3>3
      <4>3. \A j \in 1 .. i : outQ'[j] # Exit
        BY <2>2, <3>3, <4>1
      <4> QED
        BY <4>2, <4>3 DEF WrittenFirst
    <3> QED
      BY <3>1, <3>2, <3>3 DEF WrittenFirst
  <2>10. pc' \in BeforeExit => owed' = {} /\ outAt' # "exit" /\ \A i \in DOMAIN outQ' : outQ'[i] # Exit
    BY <1>1, <1>2, <2>2 DEF WriteInv, OutputInv, BeforeExit
  <2>11. \A i \in DOMAIN outQ' : outQ'[i].type = "fill" => outQ'[i].header \notin unwritten'
    BY <2>3, OutFacts
  <2>12. OutputInv'
    BY <1>1, <1>6, <2>8, <2>9, <2>10, <2>11 DEF OutputInv, BeforeExit
  <2> QED
    BY <1>5, <2>5, <2>12 DEF WriteInv
<1>8. CASE coder # "alive"
  <2>1. outQ' = outQ
    BY <1>1, <1>8
  <2>2. ASSUME NEW i \in DOMAIN outQ', outQ'[i] # Exit
        PROVE  /\ Sent(outQ[i].header)' /\ outQ'[i].header \notin held'
               /\ outQ'[i].header # outMsg'.header
    BY <1>1, <2>1, <2>2 DEF WriteInv, HeaderInv, Sent
  <2>3. \A i \in DOMAIN outQ' : outQ'[i].type = "fill" => outQ'[i].header \notin unwritten'
    BY <1>1, <1>3, <2>1 DEF WriteInv, OutputInv
  <2>4. HeaderInv'
    BY <1>6, <2>1, <2>2 DEF HeaderInv, WriteInv
  <2>5. \A g \in owed' : WrittenFirst(g)'
    BY <1>1, <2>1 DEF WriteInv, OutputInv, WrittenFirst
  <2>6. OutputInv'
    BY <1>1, <1>6, <1>8, <2>1, <2>3, <2>5 DEF WriteInv, OutputInv
  <2> QED
    BY <1>5, <2>4, <2>6 DEF WriteInv
<1> QED
  BY <1>7, <1>8

\* At the start there are no outputs.
LEMMA WriteInit == Init => WriteInv
<1> SUFFICES ASSUME Init PROVE WriteInv
  OBVIOUS
<1>1. DOMAIN outQ = {} /\ outMsg = Exit /\ Exit.type = "exit"
  BY OutMessageKinds, InMessageKinds DEF Init
<1> QED
  BY <1>1 DEF Init, WriteInv, HeaderInv, OutputInv, OutputsWritten

\* Every step keeps the invariant of the outputs.
LEMMA WriteStep == TypeInv /\ EndInv /\ WriteInv /\ [Next]_vars => WriteInv'
<1> SUFFICES ASSUME TypeInv, EndInv, WriteInv, [Next]_vars PROVE WriteInv'
  OBVIOUS
<1> USE DEF queueVars, outVars, compVars, history
<1>1. CASE Start /\ ~EnqueueOut
  <2>1. UNCHANGED <<outQ, outMsg, unwritten, owed, coder, held>>
    BY <1>1 DEF Start, CreateThreads, SendExecuting, EnqueueIn, SetState
  <2>2. CASE UNCHANGED outAt
    BY <2>1, <2>2, WriteFrame
  <2>3. CASE CreateThreads
    <3>1. outAt' = "take" /\ outAt = "none" /\ pc = "create" /\ pc' = "execute"
      BY <2>3 DEF CreateThreads, TypeInv, AppOK
    <3>2. \A h : (ToWrite(h)' <=> ToWrite(h)) /\ (WrittenFirst(h)' <=> WrittenFirst(h))
      BY <2>1 DEF ToWrite, WrittenFirst
    <3>3. /\ \A h \in OutHeaders : h \notin held \cup unwritten
          /\ outMsg = Exit /\ \A i \in DOMAIN outQ : outQ[i] = Exit
      BY <3>1 DEF WriteInv, HeaderInv, Sent
    <3>4. HeaderInv'
      BY <2>1, <3>3 DEF WriteInv, HeaderInv
    <3>5. OutputInv'
      BY <2>1, <3>1, <3>2 DEF WriteInv, OutputInv, Starting
    <3>6. OutputsWritten'
      BY <2>1, <3>1 DEF WriteInv, OutputsWritten
    <3> QED
      BY <3>4, <3>5, <3>6 DEF WriteInv
  <2> QED
    BY <1>1, <2>2, <2>3 DEF Start, SendExecuting, EnqueueIn, SetState
<1>2. CASE Start /\ EnqueueOut
  BY <1>2, WriteEnqueue
<1>3. CASE Stop /\ ~ExitOut /\ ~DeleteQueues /\ ~DeleteCoder
  <2>1. UNCHANGED <<outQ, outAt, outMsg, unwritten, owed, coder, held>>
    BY <1>3 DEF Stop, Flush, ExitIn, Join, SendIdle, StopRefused, WaitIdle, WaitIdleTimeout,
                SendLoaded, FreeBuffers, JoinAgain, JoinAgainFails, Drain, DrainEnd, StopStep
  <2> QED
    BY <2>1, WriteFrame
<1>4. CASE Stop /\ (ExitOut \/ DeleteQueues \/ DeleteCoder)
  BY <1>4, WriteExit, WriteDelete
<1>5. CASE InThread
  <2>1. held' = held \/ (inAt = "empty" /\ held' = held \cup {inHeader})
    BY <1>5 DEF InThread, InTake, ReadWait, ReadTake, ReadTimeout, ReadCopy, EmptyThisBuffer,
                EmptyRefused, LoseHeader
  <2>2. held' \cap OutHeaders \subseteq held
    BY <2>1, HeaderKinds DEF TypeInv, InOK
  <2>3. UNCHANGED <<outQ, outAt, outMsg, unwritten, owed, coder>>
    BY <1>5 DEF InThread, InTake, ReadWait, ReadTake, ReadTimeout, ReadCopy, EmptyThisBuffer,
                EmptyRefused, LoseHeader
  <2> QED
    BY <2>2, <2>3, WriteFrame
<1>6. CASE OutThread
  BY <1>6, WriteTake, WriteServe DEF OutThread
<1>7. CASE Commands
  <2>1. UNCHANGED <<outQ, outAt, outMsg, unwritten, owed, coder, held>>
    BY <1>7 DEF Commands, CompleteIdle, CompleteExecuting, CompleteLoaded
  <2> QED
    BY <2>1, WriteFrame
<1>8. ASSUME NEW h \in Headers, EmptyBufferDone(h) PROVE WriteInv'
  <2>1. UNCHANGED <<outQ, outAt, outMsg, unwritten, owed, coder>> /\ held' \subseteq held
    BY <1>8 DEF EmptyBufferDone, Returns
  <2> QED
    BY <2>1, WriteFrame
<1>9. ASSUME NEW h \in Headers, FillBufferDone(h) PROVE WriteInv'
  BY <1>9, WriteReturns
<1>10. CASE StopBegin \/ Camera \/ ResultPutBack \/ Crashed \/ UNCHANGED vars
  <2>1. UNCHANGED <<outQ, outAt, outMsg, unwritten, owed, coder, held>>
    BY <1>10 DEF StopBegin, Camera, ResultBuffer, EnqueueFrameBuffer, ResultPutBack, Crashed,
                 vars
  <2> QED
    BY <2>1, WriteFrame
<1> QED
  BY <1>1, <1>2, <1>3, <1>4, <1>5, <1>6, <1>7, <1>8, <1>9, <1>10 DEF Next, Component

-----------------------------------------------------------------------------
(* What is shown of every execution.                                       *)

\* The inductive invariant of the encoder.
THEOREM EncoderInvariant == SafetySpec => []EncoderInv
<1>1. Init => EncoderInv
  BY TypesInit, BufferInit, EndInit, WriteInit DEF EncoderInv
<1>2. EncoderInv /\ [Next]_vars => EncoderInv'
  BY TypesStep, BufferStep, EndStep, WriteStep DEF EncoderInv
<1> QED
  BY <1>1, <1>2, PTL DEF SafetySpec

\* Every variable of the encoder keeps its type.
THEOREM EncoderTypes == SafetySpec => []TypeOK
<1>1. EncoderInv => TypeOK
  BY DEF EncoderInv, TypeInv, AppOK, InOK, OutOK, ComponentOK, CameraOK, HistoryOK, TypeOK,
         Starting, Stopping, InMessages, OutMessages
<1> QED
  BY <1>1, EncoderInvariant, PTL

\* A camera buffer is in one place: the pool with the camera, the result thread's
\* hands, mBufferQueue, or Read's hands, also while stop() drains the queue.
THEOREM BuffersStayOnce == SafetySpec => []BuffersOnce
<1>1. EncoderInv => BuffersOnce
  BY BuffersCounted DEF EncoderInv
<1> QED
  BY <1>1, EncoderInvariant, PTL

\* stop() frees no header that the component holds, and no callback finds a
\* deleted queue, but after a wait that ended early or an early Idle event.
THEOREM HeadersAreBack == SafetySpec => []HeadersBackBeforeFree
<1>1. EncoderInv => HeadersBackBeforeFree
  BY DEF EncoderInv, EndInv
<1> QED
  BY <1>1, EncoderInvariant, PTL

\* An output is written before its header is filled again, and those of before
\* the exit message before the out-flight thread ends.
THEOREM OutputsAreWritten == SafetySpec => []OutputsWritten
<1>1. EncoderInv => OutputsWritten
  BY DEF EncoderInv, WriteInv
<1> QED
  BY <1>1, EncoderInvariant, PTL

-----------------------------------------------------------------------------
(* VideoEncoder implements FrameQueue.                                     *)

\* The line is the queue, behind the buffer that Read works on if there is one.
LEMMA LineIs ==
    ASSUME CameraOK
    PROVE  /\ Line \in Seq(Buffers)
           /\ inBuffer = NoBuffer => Line = mBufferQueue
           /\ inBuffer # NoBuffer => Line = <<inBuffer>> \o mBufferQueue
<1>1. mBufferQueue \in Seq(Buffers) /\ inBuffer \in Buffers \cup {NoBuffer}
  BY DEF CameraOK
<1>2. CASE inBuffer = NoBuffer
  <2>1. Line = <<>> \o mBufferQueue
    BY <1>2 DEF Line
  <2>2. <<>> \o mBufferQueue = mBufferQueue
    BY <1>1, ConcatEmptySeq
  <2> QED BY <1>1, <1>2, <2>1, <2>2
<1>3. CASE inBuffer # NoBuffer
  <2>1. Line = <<inBuffer>> \o mBufferQueue
    BY <1>3 DEF Line
  <2>2. <<inBuffer>> \in Seq(Buffers)
    BY <1>1, <1>3
  <2> QED BY <1>1, <1>3, <2>1, <2>2, ConcatProperties
<1> QED BY <1>2, <1>3

\* What is appended to the second of two sequences is appended to both.
LEMMA ConcatAppend ==
    ASSUME NEW S, NEW s \in Seq(S), NEW t \in Seq(S), NEW e \in S
    PROVE  s \o Append(t, e) = Append(s \o t, e)
OBVIOUS

\* The first of a sequence and the rest of it are the sequence.
LEMMA HeadAndTail ==
    ASSUME NEW S, NEW s \in Seq(S), s # <<>>
    PROVE  <<Head(s)>> \o Tail(s) = s
OBVIOUS

\* Without the first element put in front of it a sequence is as it was.
LEMMA FirstGone ==
    ASSUME NEW S, NEW s \in Seq(S), NEW e \in S
    PROVE  /\ <<e>> \o s # <<>>
           /\ Head(<<e>> \o s) = e /\ Tail(<<e>> \o s) = s
OBVIOUS

\* A step that moves no camera buffer and is not the last of stop() is none of
\* FrameQueue, or begins the stop.
LEMMA BuffersStand ==
    ASSUME UNCHANGED <<cameraVars, inBuffer>>, UNCHANGED mIsStoped \/ mIsStoped' = TRUE,
           pc' = "done" <=> pc = "done"
    PROVE  [Queue!Next]_(Queue!vars)
<1>1. UNCHANGED <<pool, resBuffer, mBufferQueue, inBuffer>>
  BY DEF cameraVars
<1>2. Line' = Line
  BY <1>1 DEF Line
<1> QED
  BY <1>1, <1>2 DEF Queue!Next, Queue!BeginStop, Queue!vars

\* The flag of the video test is set by stop() and never reset.
LEMMA StopFlag ==
    ASSUME Next
    PROVE  UNCHANGED mIsStoped \/ mIsStoped' = TRUE
<1>1. CASE Start
  BY Zenon, <1>1 DEF Start, CreateThreads, SendExecuting, EnqueueOut, EnqueueIn, SetState
<1>2. CASE StopBegin
  BY Zenon, <1>2 DEF StopBegin
<1>3. CASE Stop
  BY Zenon, <1>3, StopKeeps
<1>4. CASE InThread \/ OutThread \/ Component \/ Camera \/ ResultPutBack \/ Crashed
  BY Zenon, <1>4, AppKept DEF appVars
<1> QED
  BY <1>1, <1>2, <1>3, <1>4 DEF Next

\* stop() of the encoder ends with an empty queue, and once.
LEMMA StopDone ==
    ASSUME Next, ~DrainEnd
    PROVE  pc' = "done" <=> pc = "done"
<1>1. CASE Start \/ StopBegin
  BY <1>1 DEF Start, CreateThreads, SendExecuting, EnqueueOut, EnqueueIn, SetState, StopBegin
<1>2. CASE Stop
  BY <1>2 DEF Stop, Flush, ExitIn, ExitOut, Join, SendIdle, StopRefused, WaitIdle,
              WaitIdleTimeout, SendLoaded, FreeBuffers, JoinAgain, JoinAgainFails, DeleteQueues,
              DeleteCoder, Drain, StopStep, appVars
<1>3. CASE InThread \/ OutThread \/ Component \/ Camera \/ ResultPutBack \/ Crashed
  BY <1>3, AppKept DEF appVars
<1> QED
  BY <1>1, <1>2, <1>3 DEF Next

\* Every step passes the buffers on as FrameQueue allows.
LEMMA QueueStep == TypeInv /\ EndInv /\ [Next]_vars => [Queue!Next]_(Queue!vars)
<1> SUFFICES ASSUME TypeInv, EndInv, [Next]_vars PROVE [Queue!Next]_(Queue!vars)
  OBVIOUS
<1> USE EncoderAssumption
<1>a. CameraOK
  BY DEF TypeInv
<1>b. /\ mBufferQueue \in Seq(Buffers) /\ resBuffer \in Buffers \cup {NoBuffer}
      /\ inBuffer \in Buffers \cup {NoBuffer} /\ (inBuffer # NoBuffer <=> inAt = "copy")
  BY <1>a DEF CameraOK
<1>c. pc \in {"drain", "done"} => inAt = "exit"
  BY DEF EndInv, JoinInv, Stopping, ThreadsEnded
<1>1. CASE ReadTake
  <2>1. /\ mBufferQueue # <<>> /\ mBufferQueue' = Tail(mBufferQueue)
        /\ inBuffer' = Head(mBufferQueue) /\ inBuffer = NoBuffer
        /\ UNCHANGED <<pool, resBuffer, mIsStoped, pc>>
    BY <1>1, <1>b DEF ReadTake, appVars
  <2>2. inBuffer' # NoBuffer
    BY <1>b, <2>1, TakeOne
  <2>3. Line' = <<Head(mBufferQueue)>> \o Tail(mBufferQueue)
    BY <2>1, <2>2 DEF Line
  <2>4. Line' = Line
    BY <1>a, <1>b, <2>1, <2>3, LineIs, HeadAndTail
  <2> QED
    BY <2>1, <2>4 DEF Queue!vars
<1>2. CASE ReadCopy
  <2>1. /\ inBuffer \in Buffers /\ inBuffer # NoBuffer /\ inBuffer' = NoBuffer
        /\ pool' = pool \cup {inBuffer}
        /\ UNCHANGED <<mBufferQueue, resBuffer, mIsStoped, pc>>
    BY <1>2, <1>b DEF ReadCopy, appVars
  <2>2. Line = <<inBuffer>> \o mBufferQueue
    BY <1>a, <2>1, LineIs
  <2>3. Line # <<>> /\ Head(Line) = inBuffer /\ Tail(Line) = mBufferQueue
    BY <1>b, <2>1, <2>2, FirstGone
  <2>4. Line' = <<>> \o mBufferQueue
    BY <2>1 DEF Line
  <2>5. Line' = mBufferQueue
    BY <1>b, <2>4, ConcatEmptySeq
  <2>6. pc # "done"
    BY <1>2, <1>c DEF ReadCopy
  <2>7. Queue!PutBack
    BY <2>1, <2>3, <2>5, <2>6 DEF Queue!PutBack
  <2> QED
    BY <2>7 DEF Queue!Next
<1>3. CASE Drain
  <2>1. inBuffer = NoBuffer
    BY <1>3, <1>b DEF Drain, EndInv, JoinInv, Stopping, ThreadsEnded
  <2>2. /\ mBufferQueue # <<>> /\ mBufferQueue' = Tail(mBufferQueue)
        /\ pool' = pool \cup {Head(mBufferQueue)}
        /\ UNCHANGED <<inBuffer, resBuffer, mIsStoped, pc>> /\ pc = "drain"
    BY <1>3 DEF Drain, inVars, appVars
  <2>3. Line = mBufferQueue
    BY <1>a, <2>1, LineIs
  <2>4. Line' = <<>> \o Tail(mBufferQueue)
    BY <2>1, <2>2 DEF Line
  <2>5. Line' = Tail(mBufferQueue)
    BY <1>b, <2>2, <2>4, TakeOne, ConcatEmptySeq
  <2>6. Queue!PutBack
    BY <2>2, <2>3, <2>5 DEF Queue!PutBack
  <2> QED
    BY <2>6 DEF Queue!Next
<1>4. CASE \E b \in Buffers : ResultBuffer(b)
  <2>1. PICK b \in Buffers :
           /\ ~mIsStoped /\ resBuffer = NoBuffer /\ b \in pool
           /\ pool' = pool \ {b} /\ resBuffer' = b
           /\ UNCHANGED <<mBufferQueue, inBuffer, mIsStoped, pc>>
    BY <1>4 DEF ResultBuffer, inVars, appVars
  <2>2. Line' = Line
    BY <2>1 DEF Line
  <2>3. Queue!Bring
    BY <2>1, <2>2 DEF Queue!Bring
  <2> QED
    BY <2>3 DEF Queue!Next
<1>5. CASE EnqueueFrameBuffer
  <2>1. /\ resBuffer # NoBuffer /\ resBuffer \in Buffers
        /\ UNCHANGED <<pool, inBuffer, mIsStoped, pc>>
    BY <1>5, <1>b DEF EnqueueFrameBuffer, inVars, appVars
  <2>2. CASE UNCHANGED <<mBufferQueue, resBuffer>>
    <3>1. Line' = Line
      BY <2>1, <2>2 DEF Line
    <3> QED
      BY <2>1, <2>2, <3>1 DEF Queue!vars
  <2>3. CASE /\ mBufferQueue' = Append(mBufferQueue, resBuffer) /\ resBuffer' = NoBuffer
             /\ pc # "done"
    <3>e. <<>> \in Seq(Buffers) /\ (inBuffer # NoBuffer => <<inBuffer>> \in Seq(Buffers))
      BY <1>b
    <3>1. PICK s \in Seq(Buffers) : s = IF inBuffer = NoBuffer THEN <<>> ELSE <<inBuffer>>
      BY <3>e
    <3>2. Line = s \o mBufferQueue
      BY <3>1 DEF Line
    <3>3. Line' = s \o mBufferQueue'
      BY <2>1, <3>1 DEF Line
    <3>4. Line' = Append(Line, resBuffer)
      BY <1>b, <2>1, <2>3, <3>2, <3>3, ConcatAppend
    <3>5. Queue!Enqueue
      BY <2>1, <2>3, <3>4 DEF Queue!Enqueue
    <3> QED
      BY <3>5 DEF Queue!Next
  <2> QED
    BY <1>5, <2>2, <2>3 DEF EnqueueFrameBuffer
<1>6. CASE UNCHANGED <<cameraVars, inBuffer>> /\ Next /\ ~DrainEnd
  BY <1>6, StopFlag, StopDone, BuffersStand
<1>7. CASE DrainEnd
  <2>1. /\ mBufferQueue = <<>> /\ pc = "drain" /\ pc' = "done"
        /\ UNCHANGED <<mBufferQueue, inBuffer, pool, resBuffer, mIsStoped>>
    BY <1>7 DEF DrainEnd, StopStep, inVars, cameraVars
  <2>2. inBuffer = NoBuffer
    BY <1>b, <1>c, <2>1
  <2>3. Line' = Line /\ Line = <<>>
    BY <1>a, <2>1, <2>2, LineIs DEF Line
  <2>4. mIsStoped = TRUE
    BY <2>1 DEF TypeInv, AppOK, Starting
  <2>5. Queue!EndStop
    BY <2>1, <2>3, <2>4 DEF Queue!EndStop
  <2> QED
    BY <2>5 DEF Queue!Next
<1>8. CASE UNCHANGED vars
  BY <1>8, BuffersStand DEF vars, appVars, inVars
<1> QED
  BY <1>1, <1>2, <1>3, <1>4, <1>5, <1>6, <1>7, <1>8, CameraKept

\* The video encoder gives every camera buffer back once and in the order they
\* came, in any interleaving of the result thread, Read and stop(), with reads
\* that time out and calls that are refused.
THEOREM FrameQueueIsImplemented == SafetySpec => ImplementsFrameQueue
<1>1. Init => Queue!Init
  <2> SUFFICES ASSUME Init PROVE Queue!Init
    OBVIOUS
  <2>1. Line = <<>> \o <<>>
    BY DEF Init, Line
  <2>2. <<>> \o <<>> = <<>>
    OBVIOUS
  <2> QED
    BY <2>1, <2>2 DEF Init, Queue!Init
<1>2. EncoderInv => TypeInv /\ EndInv
  BY DEF EncoderInv
<1> QED
  BY <1>1, <1>2, EncoderInvariant, QueueStep, PTL
  DEF SafetySpec, ImplementsFrameQueue, Queue!Spec
-----------------------------------------------------------------------------
(* What stop() waits for.                                                  *)

\* An element is in a queue.
Within(q, e) == \E i \in DOMAIN q : q[i] = e

\* The exit messages are in their queues until they are taken, and stop() finds
\* the component neither unloaded nor, without an Idle command, waiting for one.
OwedInv ==
    /\ pc \in {"exitOut", "join"} /\ inAt # "exit" => Within(inQ, Exit)
    /\ pc = "join" /\ outAt # "exit" => Within(outQ, Exit)
    /\ pc \notin Starting /\ m_State = "loaded" =>
          pc \in {"joinAgain", "deleteQueues", "delete", "drain", "done"}
    /\ pc = "waitIdle" => m_State = "idle" \/ Within(cmds, "idle")

\* What is in a queue is still there when another element was taken or appended.
LEMMA StaysWithin ==
    ASSUME NEW S, NEW q \in Seq(S), NEW e \in S, NEW x \in S
    PROVE  /\ q # <<>> /\ Within(q, e) /\ Head(q) # e => Within(Tail(q), e)
           /\ Within(q, e) \/ x = e => Within(Append(q, x), e)
<1>1. ASSUME q # <<>>, Within(q, e), Head(q) # e
      PROVE  Within(Tail(q), e)
  <2>1. PICK i \in DOMAIN q : q[i] = e
    BY <1>1 DEF Within
  <2>2. /\ DOMAIN q = 1 .. Len(q) /\ DOMAIN Tail(q) = 1 .. Len(q) - 1 /\ Len(q) \in Nat
        /\ Head(q) = q[1] /\ \A j \in DOMAIN Tail(q) : Tail(q)[j] = q[j + 1]
    BY <1>1, TakeOne
  <2>3. i - 1 \in DOMAIN Tail(q) /\ Tail(q)[i - 1] = e
    BY <1>1, <2>1, <2>2
  <2> QED
    BY <2>3 DEF Within
<1>2. ASSUME Within(q, e) \/ x = e
      PROVE  Within(Append(q, x), e)
  <2>1. /\ DOMAIN q = 1 .. Len(q) /\ DOMAIN Append(q, x) = 1 .. Len(q) + 1 /\ Len(q) \in Nat
        /\ Append(q, x)[Len(q) + 1] = x /\ \A j \in DOMAIN q : Append(q, x)[j] = q[j]
    BY AddOne
  <2> QED
    BY <1>2, <2>1 DEF Within
<1> QED
  BY <1>1, <1>2

\* Every step leaves in the queues and with the component what stop() waits for.
LEMMA OwedStep == TypeInv /\ EndInv /\ OwedInv /\ [Next]_vars => OwedInv'
<1> SUFFICES ASSUME TypeInv, EndInv, OwedInv, [Next]_vars PROVE OwedInv'
  OBVIOUS
<1> DEFINE Kinds == {"idle", "executing", "loaded"}
<1>a. /\ inQ \in Seq(InMessages) /\ Exit \in InMessages
      /\ outQ \in Seq(OutMessages) /\ Exit \in OutMessages
      /\ cmds \in Seq(Kinds) /\ "idle" \in Kinds
  BY InMessageKinds, OutMessageKinds DEF TypeInv, InOK, OutOK, ComponentOK
<1> USE DEF OwedInv
<1> HIDE DEF Kinds
<1>1. CASE Start \/ StopBegin
  BY <1>1 DEF Start, CreateThreads, SendExecuting, EnqueueOut, EnqueueIn, SetState, StopBegin,
              compVars, Starting
<1>2. CASE Flush
  BY <1>2 DEF Flush, compVars, inVars, outVars, Starting
<1>3. CASE ExitIn
  <2>1. Within(inQ', Exit)
    BY <1>3, <1>a, StaysWithin DEF ExitIn
  <2> QED
    BY <1>3, <2>1 DEF ExitIn, compVars, inVars, outVars, Starting
<1>4. CASE ExitOut
  <2>1. Within(outQ', Exit)
    BY <1>4, <1>a, StaysWithin DEF ExitOut
  <2> QED
    BY <1>4, <2>1 DEF ExitOut, compVars, inVars, outVars, Starting
<1>5. CASE SendIdle
  <2>1. Within(cmds', "idle")
    BY <1>5, <1>a, StaysWithin DEF SendIdle
  <2> QED
    BY <1>5, <2>1 DEF SendIdle, Starting
<1>6. CASE Stop /\ ~(Flush \/ ExitIn \/ ExitOut \/ SendIdle)
  <2>1. UNCHANGED m_State
    BY <1>6, StopKeeps
  <2>2. /\ pc \in {"join"} \cup Stopping
        /\ pc' \in {"idleCommand", "loadedCommand", "free"} =>
              pc \in {"join", "idleCommand", "waitIdle", "loadedCommand", "free"}
        /\ pc' \in {"idleCommand", "loadedCommand", "free", "joinAgain", "deleteQueues", "delete",
                    "drain", "done"}
    BY <1>6 DEF Stop, Join, StopRefused, WaitIdle, WaitIdleTimeout, SendLoaded, FreeBuffers,
                JoinAgain, JoinAgainFails, DeleteQueues, DeleteCoder, Drain, DrainEnd, StopStep,
                appVars, Stopping
  <2> QED
    BY <2>1, <2>2 DEF Starting, Stopping
<1>7. CASE InThread
  <2>1. UNCHANGED <<pc, outQ, outAt, cmds, m_State>>
    BY <1>7 DEF InThread, InTake, ReadWait, ReadTake, ReadTimeout, ReadCopy, EmptyThisBuffer,
                EmptyRefused, LoseHeader, appVars, queueVars, outVars, compVars
  <2>2. CASE InTake
    <3>1. inQ # <<>> /\ inQ' = Tail(inQ) /\ inAt # "exit"
      BY <2>2 DEF InTake
    <3>2. inAt' = IF Head(inQ) = Exit THEN "exit" ELSE "read"
      BY <2>2 DEF InTake
    <3>3. inAt' # "exit" => Head(inQ) # Exit
      BY <3>2
    <3>4. Within(inQ, Exit) /\ inAt' # "exit" => Within(inQ', Exit)
      BY <1>a, <3>1, <3>3, StaysWithin
    <3> QED
      BY <2>1, <3>1, <3>4
  <2>3. CASE ~InTake
    <3>1. UNCHANGED inQ /\ inAt # "exit"
      BY <1>7, <2>3 DEF InThread, ReadWait, ReadTake, ReadTimeout, ReadCopy, EmptyThisBuffer,
                        EmptyRefused, LoseHeader, queueVars
    <3> QED
      BY <2>1, <3>1
  <2> QED
    BY <2>2, <2>3
<1>8. CASE OutThread
  <2>1. UNCHANGED <<pc, inQ, inAt, cmds, m_State>>
    BY <1>8 DEF OutThread, OutTake, FillThisBuffer, FillRefused, OutServe, appVars, queueVars,
                inVars, compVars
  <2>2. CASE OutTake
    <3>1. outQ # <<>> /\ outQ' = Tail(outQ) /\ outAt # "exit"
      BY <2>2 DEF OutTake
    <3>2. outAt' = IF Head(outQ) = Exit THEN "exit" ELSE "serve"
      BY <2>2 DEF OutTake
    <3>3. outAt' # "exit" => Head(outQ) # Exit
      BY <3>2
    <3>4. Within(outQ, Exit) /\ outAt' # "exit" => Within(outQ', Exit)
      BY <1>a, <3>1, <3>3, StaysWithin
    <3> QED
      BY <2>1, <3>1, <3>4
  <2>3. CASE ~OutTake
    <3>1. UNCHANGED outQ /\ outAt # "exit"
      BY <1>8, <2>3 DEF OutThread, FillThisBuffer, FillRefused, OutServe, queueVars
    <3> QED
      BY <2>1, <3>1
  <2> QED
    BY <2>2, <2>3
<1>9. CASE Commands
  <2>1. /\ UNCHANGED <<pc, inQ, outQ, inAt, outAt>> /\ cmds # <<>> /\ cmds' = Tail(cmds)
    BY <1>9 DEF Commands, CompleteIdle, CompleteExecuting, CompleteLoaded, Complete, appVars,
                queueVars, inVars, outVars
  <2>2. m_State \in States
    BY DEF TypeInv, ComponentOK
  <2>3. CASE CompleteIdle
    <3>1. m_State' \in {"idle", m_State} /\ (m_State = "start" => m_State' = "idle")
      BY <2>3 DEF CompleteIdle
    <3>2. pc = "waitIdle" => m_State' = "idle"
      BY <2>2, <3>1 DEF States, Starting
    <3> QED
      BY <2>1, <3>1, <3>2
  <2>4. CASE CompleteExecuting
    <3>1. Head(cmds) # "idle" /\ UNCHANGED m_State
      BY <2>4 DEF CompleteExecuting, Complete
    <3>2. Within(cmds, "idle") => Within(cmds', "idle")
      BY <1>a, <2>1, <3>1, StaysWithin
    <3> QED
      BY <2>1, <3>1, <3>2
  <2>5. CASE CompleteLoaded
    <3>1. Head(cmds) # "idle" /\ m_State' = IF m_State = "idle" THEN "loaded" ELSE m_State
      BY <2>5 DEF CompleteLoaded, Complete
    <3>2. pc \in {"joinAgain", "deleteQueues", "delete"}
      BY <2>5 DEF CompleteLoaded, EndInv, JoinInv
    <3> QED
      BY <2>1, <3>1, <3>2
  <2> QED
    BY <1>9, <2>3, <2>4, <2>5 DEF Commands
<1>10. CASE \E h \in Headers : EmptyBufferDone(h) \/ FillBufferDone(h)
  <2>1. PICK h \in Headers : EmptyBufferDone(h) \/ FillBufferDone(h)
    BY <1>10
  <2>2. UNCHANGED <<pc, inAt, outAt, cmds, m_State>>
    BY <2>1 DEF EmptyBufferDone, FillBufferDone, Returns, appVars, inVars, outVars
  <2>3. /\ inQ' = inQ \/ (h \in InHeaders /\ inQ' = Append(inQ, Message("read", h)))
        /\ outQ' = outQ \/ (h \in OutHeaders /\ outQ' = Append(outQ, Message("write", h)))
    BY <2>1 DEF EmptyBufferDone, FillBufferDone
  <2>4. Within(inQ, Exit) => Within(inQ', Exit)
    <3>1. inQ' = inQ \/ \E m \in InMessages : inQ' = Append(inQ, m)
      BY <2>3, InMessageKinds
    <3>2. ASSUME NEW m \in InMessages, inQ' = Append(inQ, m), Within(inQ, Exit)
          PROVE  Within(inQ', Exit)
      <4>1. Within(Append(inQ, m), Exit)
        BY <1>a, <3>2, StaysWithin
      <4> QED
        BY <3>2, <4>1
    <3> QED
      BY <3>1, <3>2
  <2>5. Within(outQ, Exit) => Within(outQ', Exit)
    <3>1. outQ' = outQ \/ \E m \in OutMessages : outQ' = Append(outQ, m)
      BY <2>3, OutMessageKinds
    <3>2. ASSUME NEW m \in OutMessages, outQ' = Append(outQ, m), Within(outQ, Exit)
          PROVE  Within(outQ', Exit)
      <4>1. Within(Append(outQ, m), Exit)
        BY <1>a, <3>2, StaysWithin
      <4> QED
        BY <3>2, <4>1
    <3> QED
      BY <3>1, <3>2
  <2> QED
    BY <2>2, <2>4, <2>5
<1>11. CASE Camera \/ ResultPutBack \/ Crashed \/ UNCHANGED vars
  BY <1>11 DEF Camera, ResultBuffer, EnqueueFrameBuffer, ResultPutBack, Crashed, vars, appVars,
               queueVars, inVars, outVars, compVars
<1> QED
  BY <1>1, <1>2, <1>3, <1>4, <1>5, <1>6, <1>7, <1>8, <1>9, <1>10, <1>11 DEF Next, Component

\* stop() waits for nothing that cannot come: a thread it joins has its exit
\* message before it or has taken it, and while it waits for the Idle event the
\* command to go to Idle is not completed.
THEOREM StopWaitsForWhatComes == SafetySpec => []StopIsOwed
<1>1. Init => OwedInv
  BY DEF Init, OwedInv, Starting
<1>2. OwedInv => StopIsOwed
  BY DEF OwedInv, StopIsOwed, Within
<1>3. EncoderInv => TypeInv /\ EndInv
  BY DEF EncoderInv
<1> QED
  BY <1>1, <1>2, <1>3, EncoderInvariant, OwedStep, PTL DEF SafetySpec

-----------------------------------------------------------------------------
(* The places of the headers.                                              *)

Carries(q, h) == \E i \in DOMAIN q : q[i].header = h
InQueued(h) == Carries(inQ, h)
OutQueued(h) == Carries(outQ, h)

\* A header is in a queue once, whatever the messages with it say.
OnceIn(q) == \A i, j \in DOMAIN q : q[i].header = q[j].header /\ q[i].header # NoHeader => i = j

\* start() has enqueued the header h for the first time.
Known(h) ==
    \/ h \in OutHeaders /\ pc \notin {"create", "execute"} /\ (pc = "enqueueOut" => h < next)
    \/ /\ h \in InHeaders /\ pc \notin {"create", "execute", "enqueueOut"}
       /\ pc = "enqueueIn" => h < next

Somewhere(h) ==
    h \in held \/ h \in lost \/ inHeader = h \/ outMsg.header = h \/ InQueued(h) \/ OutQueued(h)

NotTwice(h) ==
    /\ h \in held => h \notin lost /\ inHeader # h /\ outMsg.header # h
    /\ h \in held \cup lost => ~InQueued(h) /\ ~OutQueued(h)
    /\ h \in lost => inHeader # h /\ outMsg.header # h
    /\ inHeader = h => outMsg.header # h
    /\ inHeader = h \/ outMsg.header = h => ~InQueued(h) /\ ~OutQueued(h)
    /\ ~(InQueued(h) /\ OutQueued(h))

\* Every header that start() enqueued is in one place, until the queues are deleted.
PlaceInv ==
    /\ \A h \in Headers : NotTwice(h)
    /\ \A h \in Headers : Somewhere(h) => Known(h)
    /\ coder = "alive" => \A h \in Headers : Known(h) => Somewhere(h)
    /\ OnceIn(inQ) /\ OnceIn(outQ)
    /\ inAt \notin {"read", "wait", "copy", "empty"} => inHeader = NoHeader

\* What a queue carries after a message was appended to it or taken from it.
LEMMA CarriesMore ==
    ASSUME NEW S, NEW q \in Seq(S), NEW m \in S
    PROVE  /\ \A h : Carries(Append(q, m), h) <=> Carries(q, h) \/ m.header = h
           /\ OnceIn(q) /\ (m.header = NoHeader \/ ~Carries(q, m.header)) => OnceIn(Append(q, m))
<1>1. /\ DOMAIN q = 1 .. Len(q) /\ DOMAIN Append(q, m) = 1 .. Len(q) + 1 /\ Len(q) \in Nat
      /\ Append(q, m)[Len(q) + 1] = m /\ \A i \in DOMAIN q : Append(q, m)[i] = q[i]
  BY AddOne
<1>2. \A h : Carries(Append(q, m), h) <=> Carries(q, h) \/ m.header = h
  BY <1>1 DEF Carries
<1>3. ASSUME OnceIn(q), m.header = NoHeader \/ ~Carries(q, m.header)
      PROVE  OnceIn(Append(q, m))
  BY <1>1, <1>3 DEF OnceIn, Carries
<1> QED
  BY <1>2, <1>3

\* A message is carried until it is taken, and then no more.
LEMMA CarriesLess ==
    ASSUME NEW S, NEW q \in Seq(S), q # <<>>, OnceIn(q)
    PROVE  /\ OnceIn(Tail(q)) /\ Carries(q, Head(q).header)
           /\ \A h : h # NoHeader =>
                 (Carries(Tail(q), h) <=> Carries(q, h) /\ h # Head(q).header)
<1>1. /\ DOMAIN q = 1 .. Len(q) /\ DOMAIN Tail(q) = 1 .. Len(q) - 1 /\ Len(q) \in Nat
      /\ 1 \in DOMAIN q /\ Head(q) = q[1]
      /\ \A i \in DOMAIN Tail(q) : i + 1 \in DOMAIN q /\ Tail(q)[i] = q[i + 1]
  BY TakeOne
<1>2. OnceIn(Tail(q))
  BY <1>1 DEF OnceIn
<1>3. Carries(q, Head(q).header)
  BY <1>1 DEF Carries
<1>4. ASSUME NEW h, h # NoHeader, Carries(Tail(q), h)
      PROVE  Carries(q, h) /\ h # Head(q).header
  <2>1. PICK i \in DOMAIN Tail(q) : Tail(q)[i].header = h
    BY <1>4 DEF Carries
  <2>2. i + 1 \in DOMAIN q /\ q[i + 1].header = h /\ i + 1 # 1
    BY <1>1, <2>1
  <2> QED
    BY <1>1, <1>4, <2>2 DEF OnceIn, Carries
<1>5. ASSUME NEW h, Carries(q, h), h # Head(q).header
      PROVE  Carries(Tail(q), h)
  <2>1. PICK i \in DOMAIN q : q[i].header = h
    BY <1>5 DEF Carries
  <2>2. i # 1
    BY <1>1, <1>5, <2>1
  <2>3. i - 1 \in DOMAIN Tail(q) /\ Tail(q)[i - 1].header = h
    BY <1>1, <2>1, <2>2
  <2> QED
    BY <2>3 DEF Carries
<1> QED
  BY <1>2, <1>3, <1>4, <1>5

\* A queue that was flushed or deleted carries nothing.
LEMMA CarriesNothing == OnceIn(<<>>) /\ \A h : ~Carries(<<>>, h)
BY DEF OnceIn, Carries

\* start() makes the headers known one after the other.
LEMMA KnownStep ==
    ASSUME TypeInv, [Next]_vars
    PROVE  \A h \in Headers : Known(h)' <=> Known(h) \/ (h = next /\ (EnqueueOut \/ EnqueueIn))
<1> USE DEF Known
<1>a. InCount \in Nat /\ OutCount \in Nat /\ Headers = InHeaders \cup OutHeaders
  BY EncoderAssumption DEF Headers
<1>1. CASE EnqueueOut
  BY <1>1, <1>a DEF EnqueueOut, TypeInv, AppOK, InHeaders, OutHeaders
<1>2. CASE EnqueueIn
  BY <1>2, <1>a DEF EnqueueIn, TypeInv, AppOK, InHeaders, OutHeaders
<1>3. CASE Start /\ ~EnqueueOut /\ ~EnqueueIn
  BY <1>3, <1>a DEF Start, CreateThreads, SendExecuting, SetState, InHeaders, OutHeaders
<1>4. CASE StopBegin
  BY <1>4 DEF StopBegin, EnqueueOut, EnqueueIn
<1>5. CASE Stop
  <2>1. /\ pc \notin {"create", "execute", "enqueueOut", "enqueueIn"}
        /\ pc' \notin {"create", "execute", "enqueueOut", "enqueueIn"}
    BY <1>5 DEF Stop, Flush, ExitIn, ExitOut, Join, SendIdle, StopRefused, WaitIdle,
                WaitIdleTimeout, SendLoaded, FreeBuffers, JoinAgain, JoinAgainFails,
                DeleteQueues, DeleteCoder, Drain, DrainEnd, StopStep, appVars
  <2> QED
    BY <2>1 DEF EnqueueOut, EnqueueIn
<1>6. CASE InThread \/ OutThread \/ Component \/ Camera \/ ResultPutBack \/ Crashed
  <2>1. UNCHANGED <<pc, next>>
    BY <1>6, AppKept DEF appVars
  <2>2. ~EnqueueOut /\ ~EnqueueIn
    BY <2>1, <1>a DEF EnqueueOut, EnqueueIn, TypeInv, AppOK, InHeaders, OutHeaders
  <2> QED
    BY <2>1, <2>2
<1>7. CASE UNCHANGED vars
  <2>1. UNCHANGED <<pc, next>>
    BY <1>7 DEF vars, appVars
  <2>2. ~EnqueueOut /\ ~EnqueueIn
    BY <2>1, <1>a DEF EnqueueOut, EnqueueIn, TypeInv, AppOK, InHeaders, OutHeaders
  <2> QED
    BY <2>1, <2>2
<1> QED
  BY <1>1, <1>2, <1>3, <1>4, <1>5, <1>6, <1>7 DEF Next

\* A step that moves no header and enqueues none for the first time.
LEMMA PlaceFrame ==
    ASSUME PlaceInv, \A h \in Headers : Known(h)' <=> Known(h),
           UNCHANGED <<held, lost, inHeader, outMsg, inQ, outQ, coder>>,
           inAt' \notin {"read", "wait", "copy", "empty"} => inHeader = NoHeader
    PROVE  PlaceInv'
<1>1. \A h \in Headers : (NotTwice(h)' <=> NotTwice(h)) /\ (Somewhere(h)' <=> Somewhere(h))
  BY DEF NotTwice, Somewhere, InQueued, OutQueued
<1> QED
  BY <1>1 DEF PlaceInv

\* start() enqueues a header that nobody had.
LEMMA PlaceEnqueue ==
    ASSUME TypeInv, PlaceInv, [Next]_vars, EnqueueOut \/ EnqueueIn
    PROVE  PlaceInv'
<1> USE DEF InQueued, OutQueued
<1>a. inQ \in Seq(InMessages) /\ outQ \in Seq(OutMessages)
  BY DEF TypeInv, InOK, OutOK
<1>b. \A h \in Headers : Known(h)' <=> Known(h) \/ h = next
  BY KnownStep
<1>c. UNCHANGED <<held, lost, inHeader, outMsg, inAt, coder>>
  BY DEF EnqueueOut, EnqueueIn, inVars, outVars, compVars, history
<1>d. next \in Headers /\ ~Known(next) /\ next # NoHeader
  BY EncoderAssumption, HeaderKinds
     DEF EnqueueOut, EnqueueIn, TypeInv, AppOK, Known, InHeaders, OutHeaders, Headers
<1>e. ~Somewhere(next)
  BY <1>d DEF PlaceInv
<1>1. CASE EnqueueOut
  <2>1. PICK m \in OutMessages : m.header = next /\ outQ' = Append(outQ, m) /\ inQ' = inQ
    <3>1. next \in OutHeaders
      BY <1>1 DEF EnqueueOut, TypeInv, AppOK
    <3> QED
      BY <1>1, <3>1, OutMessageKinds, Fields DEF EnqueueOut
  <2>2. /\ \A h : Carries(outQ', h) <=> Carries(outQ, h) \/ h = next
        /\ OnceIn(outQ')
    BY <1>a, <1>e, <2>1, CarriesMore DEF PlaceInv, Somewhere
  <2>3. \A h : (InQueued(h)' <=> InQueued(h)) /\ (OutQueued(h)' <=> OutQueued(h) \/ h = next)
    BY <2>1, <2>2
  <2> HIDE DEF InQueued, OutQueued
  <2>4. \A h \in Headers : NotTwice(h)' /\ (Somewhere(h)' <=> Somewhere(h) \/ h = next)
    BY <1>c, <1>e, <2>3 DEF PlaceInv, NotTwice, Somewhere
  <2> QED
    BY <1>b, <1>c, <2>1, <2>2, <2>4 DEF PlaceInv
<1>2. CASE EnqueueIn
  <2>1. PICK m \in InMessages : m.header = next /\ inQ' = Append(inQ, m) /\ outQ' = outQ
    <3>1. next \in InHeaders
      BY <1>2 DEF EnqueueIn, TypeInv, AppOK
    <3> QED
      BY <1>2, <3>1, InMessageKinds, Fields DEF EnqueueIn
  <2>2. /\ \A h : Carries(inQ', h) <=> Carries(inQ, h) \/ h = next
        /\ OnceIn(inQ')
    BY <1>a, <1>e, <2>1, CarriesMore DEF PlaceInv, Somewhere
  <2>3. \A h : (OutQueued(h)' <=> OutQueued(h)) /\ (InQueued(h)' <=> InQueued(h) \/ h = next)
    BY <2>1, <2>2
  <2> HIDE DEF InQueued, OutQueued
  <2>4. \A h \in Headers : NotTwice(h)' /\ (Somewhere(h)' <=> Somewhere(h) \/ h = next)
    BY <1>c, <1>e, <2>3 DEF PlaceInv, NotTwice, Somewhere
  <2> QED
    BY <1>b, <1>c, <2>1, <2>2, <2>4 DEF PlaceInv
<1> QED
  BY <1>1, <1>2

\* stop() flushes the in-flight queue, adds the exit messages and deletes both
\* queues; with the component the headers it holds are gone.
LEMMA PlaceStop ==
    ASSUME TypeInv, PlaceInv, [Next]_vars, fault = "none", Stop
    PROVE  PlaceInv'
<1>a. /\ inQ \in Seq(InMessages) /\ Exit \in InMessages
      /\ outQ \in Seq(OutMessages) /\ Exit \in OutMessages /\ Exit.header = NoHeader
  BY InMessageKinds, OutMessageKinds DEF TypeInv, InOK, OutOK
<1>b. UNCHANGED <<inHeader, inAt, outMsg>>
  BY StopKeeps DEF inVars, outVars
<1>c. ~EnqueueOut /\ ~EnqueueIn
  <2>1. pc \notin {"enqueueOut", "enqueueIn"}
    BY DEF Stop, Flush, ExitIn, ExitOut, Join, SendIdle, StopRefused, WaitIdle,
           WaitIdleTimeout, SendLoaded, FreeBuffers, JoinAgain, JoinAgainFails, DeleteQueues,
           DeleteCoder, Drain, DrainEnd, StopStep
  <2> QED
    BY <2>1 DEF EnqueueOut, EnqueueIn
<1>d. \A h \in Headers : Known(h)' <=> Known(h)
  BY <1>c, KnownStep
<1>n. NoHeader \notin Headers
  BY HeaderKinds
<1>1. CASE Flush
  <2>1. /\ inQ' = <<>> /\ UNCHANGED <<outQ, held, coder>>
        /\ \A h : h \in lost' <=> h \in lost \/ InQueued(h)
    BY <1>1 DEF Flush, compVars, InQueued, Carries
  <2>2. \A h : ~InQueued(h)' /\ (OutQueued(h)' <=> OutQueued(h))
    BY <2>1, CarriesNothing DEF InQueued, OutQueued
  <2>3. \A h \in Headers : NotTwice(h)' /\ (Somewhere(h)' <=> Somewhere(h))
    BY <1>b, <2>1, <2>2 DEF PlaceInv, NotTwice, Somewhere
  <2>4. OnceIn(inQ') /\ OnceIn(outQ')
    BY <2>1, CarriesNothing DEF PlaceInv
  <2> QED
    BY <1>b, <1>d, <2>1, <2>3, <2>4 DEF PlaceInv
<1>2. CASE ExitIn \/ ExitOut
  <2>1. /\ inQ' = inQ \/ inQ' = Append(inQ, Exit)
        /\ outQ' = outQ \/ outQ' = Append(outQ, Exit)
        /\ UNCHANGED <<held, lost, coder>>
    BY <1>2 DEF ExitIn, ExitOut, compVars, history
  <2>2. /\ \A h \in Headers : Carries(Append(inQ, Exit), h) <=> Carries(inQ, h)
        /\ OnceIn(inQ) => OnceIn(Append(inQ, Exit))
    BY <1>a, <1>n, CarriesMore
  <2>3. /\ \A h \in Headers : Carries(Append(outQ, Exit), h) <=> Carries(outQ, h)
        /\ OnceIn(outQ) => OnceIn(Append(outQ, Exit))
    BY <1>a, <1>n, CarriesMore
  <2>4. \A h \in Headers : InQueued(h)' <=> InQueued(h)
    BY <2>1, <2>2 DEF InQueued
  <2>5. \A h \in Headers : OutQueued(h)' <=> OutQueued(h)
    BY <2>1, <2>3 DEF OutQueued
  <2>6. \A h \in Headers : NotTwice(h)' /\ (Somewhere(h)' <=> Somewhere(h))
    BY <1>b, <2>1, <2>4, <2>5 DEF PlaceInv, NotTwice, Somewhere
  <2>7. OnceIn(inQ') /\ OnceIn(outQ')
    BY <2>1, <2>2, <2>3 DEF PlaceInv
  <2> QED
    BY <1>b, <1>d, <2>1, <2>6, <2>7 DEF PlaceInv
<1>3. CASE DeleteQueues \/ DeleteCoder
  <2>1. /\ inQ' = <<>> /\ outQ' = <<>> /\ lost' = lost /\ held' \subseteq held
        /\ coder' # "alive"
    BY <1>3 DEF DeleteQueues, DeleteCoder, compVars, history
  <2>2. \A h : ~InQueued(h)' /\ ~OutQueued(h)'
    BY <2>1, CarriesNothing DEF InQueued, OutQueued
  <2>3. \A h \in Headers : NotTwice(h)' /\ (Somewhere(h)' => Somewhere(h))
    BY <1>b, <2>1, <2>2 DEF PlaceInv, NotTwice, Somewhere
  <2>4. OnceIn(inQ') /\ OnceIn(outQ')
    BY <2>1, CarriesNothing
  <2> QED
    BY <1>b, <1>d, <2>1, <2>3, <2>4 DEF PlaceInv
<1>4. CASE ~(Flush \/ ExitIn \/ ExitOut \/ DeleteQueues \/ DeleteCoder)
  <2>1. UNCHANGED <<held, lost, inQ, outQ, coder>>
    BY <1>4 DEF Stop, Join, SendIdle, StopRefused, WaitIdle, WaitIdleTimeout, SendLoaded,
                FreeBuffers, JoinAgain, JoinAgainFails, Drain, DrainEnd, StopStep, queueVars,
                compVars, history
  <2>2. inAt' \notin {"read", "wait", "copy", "empty"} => inHeader = NoHeader
    BY <1>b DEF PlaceInv
  <2> QED
    BY <1>b, <1>d, <2>1, <2>2, PlaceFrame
<1> QED
  BY <1>1, <1>2, <1>3, <1>4

\* The in-flight thread takes a header from its queue and gives it to the
\* component, or forgets it.
LEMMA PlaceIn ==
    ASSUME TypeInv, PlaceInv, [Next]_vars, InThread
    PROVE  PlaceInv'
<1>a. inQ \in Seq(InMessages) /\ Exit.header = NoHeader /\ NoHeader \notin Headers
  BY InMessageKinds, HeaderKinds DEF TypeInv, InOK
<1>d. \A h \in Headers : Known(h)' <=> Known(h)
  <2>1. UNCHANGED <<pc, next>>
    BY AppKept DEF appVars
  <2> QED
    BY <2>1 DEF Known
<1>1. CASE InTake
  <2>1. /\ inQ # <<>> /\ inQ' = Tail(inQ) /\ inHeader' = Head(inQ).header
        /\ inHeader = NoHeader /\ UNCHANGED <<held, lost, outMsg, outQ, coder>>
    BY <1>1 DEF InTake, PlaceInv, outVars, compVars, history
  <2>2. inAt' = IF Head(inQ) = Exit THEN "exit" ELSE "read"
    BY <1>1 DEF InTake
  <2>3. inAt' \notin {"read", "wait", "copy", "empty"} => inHeader' = NoHeader
    BY <1>a, <2>1, <2>2
  <2>4. /\ OnceIn(inQ') /\ Carries(inQ, inHeader')
        /\ \A h : h # NoHeader => (Carries(inQ', h) <=> Carries(inQ, h) /\ h # inHeader')
    BY <1>a, <2>1, CarriesLess DEF PlaceInv
  <2>5. \A h \in Headers : /\ InQueued(h)' <=> InQueued(h) /\ h # inHeader'
                           /\ inHeader' = h => InQueued(h)
                           /\ OutQueued(h)' <=> OutQueued(h)
    BY <1>a, <2>1, <2>4 DEF InQueued, OutQueued
  <2>6. \A h \in Headers : NotTwice(h)' /\ (Somewhere(h)' <=> Somewhere(h))
    BY <1>a, <2>1, <2>5 DEF PlaceInv, NotTwice, Somewhere
  <2> QED
    BY <1>d, <2>1, <2>3, <2>4, <2>6 DEF PlaceInv
<1>2. CASE ReadWait \/ ReadTake \/ ReadCopy
  BY <1>2, <1>d, PlaceFrame DEF ReadWait, ReadTake, ReadCopy, queueVars, outVars, compVars, history
<1>3. CASE ReadTimeout \/ EmptyRefused \/ EmptyThisBuffer
  <2>1. /\ inHeader' = NoHeader /\ UNCHANGED <<outMsg, inQ, outQ, coder>>
        /\ \/ held' = held /\ lost' = lost \cup {inHeader}
           \/ lost' = lost /\ held' = held \cup {inHeader}
    BY <1>3 DEF ReadTimeout, EmptyRefused, EmptyThisBuffer, LoseHeader, queueVars, outVars,
                compVars, history
  <2>2. \A h : (InQueued(h)' <=> InQueued(h)) /\ (OutQueued(h)' <=> OutQueued(h))
    BY <2>1 DEF InQueued, OutQueued
  <2>3. \A h \in Headers : NotTwice(h)' /\ (Somewhere(h)' <=> Somewhere(h))
    BY <1>a, <2>1, <2>2 DEF PlaceInv, NotTwice, Somewhere
  <2> QED
    BY <1>d, <2>1, <2>3 DEF PlaceInv
<1> QED
  BY <1>1, <1>2, <1>3 DEF InThread

\* The out-flight thread takes a header from its queue and gives it to the
\* component, or it is refused.
LEMMA PlaceOut ==
    ASSUME TypeInv, PlaceInv, [Next]_vars, OutThread
    PROVE  PlaceInv'
<1>a. /\ outQ \in Seq(OutMessages) /\ Exit.header = NoHeader /\ NoHeader \notin Headers
      /\ outAt = "serve" <=> outMsg # Exit
  BY OutMessageKinds, InMessageKinds, HeaderKinds DEF TypeInv, OutOK
<1>d. \A h \in Headers : Known(h)' <=> Known(h)
  <2>1. UNCHANGED <<pc, next>>
    BY AppKept DEF appVars
  <2> QED
    BY <2>1 DEF Known
<1>1. CASE OutTake
  <2>1. /\ outQ # <<>> /\ outQ' = Tail(outQ) /\ outMsg' = Head(outQ)
        /\ outMsg.header = NoHeader /\ UNCHANGED <<held, lost, inHeader, inAt, inQ, coder>>
    BY <1>1, <1>a DEF OutTake, inVars, compVars, history
  <2>2. /\ OnceIn(outQ') /\ Carries(outQ, Head(outQ).header)
        /\ \A h : h # NoHeader => (Carries(outQ', h) <=> Carries(outQ, h) /\ h # Head(outQ).header)
    BY <1>a, <2>1, CarriesLess DEF PlaceInv
  <2>3. \A h \in Headers : /\ OutQueued(h)' <=> OutQueued(h) /\ h # outMsg'.header
                           /\ outMsg'.header = h => OutQueued(h)
                           /\ InQueued(h)' <=> InQueued(h)
    BY <1>a, <2>1, <2>2 DEF InQueued, OutQueued
  <2>4. \A h \in Headers : NotTwice(h)' /\ (Somewhere(h)' <=> Somewhere(h))
    BY <1>a, <2>1, <2>3 DEF PlaceInv, NotTwice, Somewhere
  <2> QED
    BY <1>d, <2>1, <2>2, <2>4 DEF PlaceInv
<1>2. CASE FillThisBuffer \/ FillRefused
  <2>1. /\ outMsg'.header = NoHeader /\ UNCHANGED <<inHeader, inAt, inQ, outQ, coder>>
        /\ \/ held' = held /\ lost' = lost \cup {outMsg.header}
           \/ lost' = lost /\ held' = held \cup {outMsg.header}
    BY <1>2, <1>a DEF FillThisBuffer, FillRefused, OutServe, queueVars, inVars
  <2>2. \A h : (InQueued(h)' <=> InQueued(h)) /\ (OutQueued(h)' <=> OutQueued(h))
    BY <2>1 DEF InQueued, OutQueued
  <2>3. \A h \in Headers : NotTwice(h)' /\ (Somewhere(h)' <=> Somewhere(h))
    BY <1>a, <2>1, <2>2 DEF PlaceInv, NotTwice, Somewhere
  <2> QED
    BY <1>d, <2>1, <2>3 DEF PlaceInv
<1> QED
  BY <1>1, <1>2 DEF OutThread

\* A callback puts the header the component returns into a queue, if there is one.
LEMMA PlaceReturns ==
    ASSUME TypeInv, PlaceInv, [Next]_vars,
           NEW h \in Headers, EmptyBufferDone(h) \/ FillBufferDone(h)
    PROVE  PlaceInv'
<1>a. inQ \in Seq(InMessages) /\ outQ \in Seq(OutMessages)
  BY DEF TypeInv, InOK, OutOK
<1>b. /\ h \in held /\ held' = held \ {h}
      /\ UNCHANGED <<pc, next, lost, inHeader, inAt, outMsg, coder>>
  BY DEF EmptyBufferDone, FillBufferDone, Returns, appVars, inVars, outVars
<1>d. \A g \in Headers : Known(g)' <=> Known(g)
  BY <1>b DEF Known
<1>e. ~InQueued(h) /\ ~OutQueued(h) /\ h # NoHeader
  BY <1>b, HeaderKinds DEF PlaceInv, NotTwice
<1>1. CASE coder # "alive"
  <2>1. UNCHANGED <<inQ, outQ>>
    BY <1>1 DEF EmptyBufferDone, FillBufferDone
  <2>2. \A g : (InQueued(g)' <=> InQueued(g)) /\ (OutQueued(g)' <=> OutQueued(g))
    BY <2>1 DEF InQueued, OutQueued
  <2>3. \A g \in Headers : NotTwice(g)' /\ (Somewhere(g)' => Somewhere(g))
    BY <1>b, <2>2 DEF PlaceInv, NotTwice, Somewhere
  <2> QED
    BY <1>1, <1>b, <1>d, <2>1, <2>3 DEF PlaceInv
<1>2. CASE coder = "alive" /\ EmptyBufferDone(h)
  <2>1. PICK m \in InMessages : m.header = h /\ inQ' = Append(inQ, m) /\ outQ' = outQ
    BY <1>2, InMessageKinds, Fields DEF EmptyBufferDone
  <2>2. OnceIn(inQ') /\ \A g : Carries(inQ', g) <=> Carries(inQ, g) \/ g = h
    BY <1>a, <1>e, <2>1, CarriesMore DEF PlaceInv, InQueued
  <2>3. \A g : (InQueued(g)' <=> InQueued(g) \/ g = h) /\ (OutQueued(g)' <=> OutQueued(g))
    BY <2>1, <2>2 DEF InQueued, OutQueued
  <2>4. \A g \in Headers : NotTwice(g)' /\ (Somewhere(g)' <=> Somewhere(g))
    BY <1>b, <1>e, <2>3 DEF PlaceInv, NotTwice, Somewhere
  <2> QED
    BY <1>b, <1>d, <2>1, <2>2, <2>4 DEF PlaceInv
<1>3. CASE coder = "alive" /\ FillBufferDone(h)
  <2>1. PICK m \in OutMessages : m.header = h /\ outQ' = Append(outQ, m) /\ inQ' = inQ
    BY <1>3, OutMessageKinds, Fields DEF FillBufferDone
  <2>2. OnceIn(outQ') /\ \A g : Carries(outQ', g) <=> Carries(outQ, g) \/ g = h
    BY <1>a, <1>e, <2>1, CarriesMore DEF PlaceInv, OutQueued
  <2>3. \A g : (OutQueued(g)' <=> OutQueued(g) \/ g = h) /\ (InQueued(g)' <=> InQueued(g))
    BY <2>1, <2>2 DEF InQueued, OutQueued
  <2>4. \A g \in Headers : NotTwice(g)' /\ (Somewhere(g)' <=> Somewhere(g))
    BY <1>b, <1>e, <2>3 DEF PlaceInv, NotTwice, Somewhere
  <2> QED
    BY <1>b, <1>d, <2>1, <2>2, <2>4 DEF PlaceInv
<1> QED
  BY <1>1, <1>2, <1>3

\* Every step moves a header from one place to another or leaves it where it is.
LEMMA PlaceStep == TypeInv /\ PlaceInv /\ [Next]_vars => PlaceInv'
<1> SUFFICES ASSUME TypeInv, PlaceInv, [Next]_vars PROVE PlaceInv'
  OBVIOUS
<1>1. CASE EnqueueOut \/ EnqueueIn
  BY <1>1, PlaceEnqueue
<1>2. CASE fault = "none" /\ Stop
  BY <1>2, PlaceStop
<1>3. CASE InThread
  BY <1>3, PlaceIn
<1>4. CASE OutThread
  BY <1>4, PlaceOut
<1>5. CASE \E h \in Headers : EmptyBufferDone(h) \/ FillBufferDone(h)
  BY <1>5, PlaceReturns
<1>6. CASE /\ ~(EnqueueOut \/ EnqueueIn)
           /\ Start \/ StopBegin \/ Commands \/ Camera \/ ResultPutBack \/ Crashed \/ UNCHANGED vars
  <2>1. /\ UNCHANGED <<held, lost, inHeader, outMsg, inQ, outQ, coder>>
        /\ inAt' = inAt \/ CreateThreads
    BY <1>6 DEF Start, CreateThreads, SendExecuting, SetState, StopBegin, Commands, CompleteIdle,
                CompleteExecuting, CompleteLoaded, Camera, ResultBuffer, EnqueueFrameBuffer,
                ResultPutBack, Crashed, vars, queueVars, inVars, outVars, compVars, history
  <2>2. CreateThreads => inAt = "none"
    BY DEF CreateThreads, TypeInv, AppOK
  <2>3. inAt' \notin {"read", "wait", "copy", "empty"} => inHeader = NoHeader
    BY <2>1, <2>2 DEF PlaceInv
  <2>4. \A h \in Headers : Known(h)' <=> Known(h)
    BY <1>6, KnownStep
  <2> QED
    BY <2>1, <2>3, <2>4, PlaceFrame
<1> QED
  BY <1>1, <1>2, <1>3, <1>4, <1>5, <1>6 DEF Next, Component

\* A header is counted once in a queue that carries it, and not at all in another.
LEMMA HeadersCounted ==
    ASSUME NEW q, OnceIn(q), NEW h, h # NoHeader
    PROVE  Cardinality({i \in DOMAIN q : q[i].header = h}) = IF Carries(q, h) THEN 1 ELSE 0
<1> DEFINE Where == {i \in DOMAIN q : q[i].header = h}
<1>1. CASE Carries(q, h)
  <2>1. PICK i \in DOMAIN q : q[i].header = h
    BY <1>1 DEF Carries
  <2>2. Where = {i}
    BY <2>1 DEF OnceIn
  <2> QED
    BY <1>1, <2>2, FS_Singleton
<1>2. CASE ~Carries(q, h)
  <2>1. Where = {}
    BY <1>2 DEF Carries
  <2> QED
    BY <1>2, <2>1, FS_EmptySet
<1> QED
  BY <1>1, <1>2

\* A buffer header is in one place: with the component, in a queue, in a thread's
\* hands or lost; for any number of headers, whatever times out or is refused.
THEOREM HeadersStayOnce == SafetySpec => []HeadersOnce
<1>1. Init => PlaceInv
  <2> SUFFICES ASSUME Init PROVE PlaceInv
    OBVIOUS
  <2>1. /\ inQ = <<>> /\ outQ = <<>> /\ held = {} /\ lost = {} /\ pc = "create"
        /\ inHeader = NoHeader /\ outMsg.header = NoHeader
    BY InMessageKinds DEF Init
  <2>2. \A h \in Headers : ~Somewhere(h) /\ ~Known(h) /\ NotTwice(h)
    BY <2>1, CarriesNothing, HeaderKinds DEF Somewhere, NotTwice, Known, InQueued, OutQueued
  <2> QED
    BY <2>1, <2>2, CarriesNothing DEF PlaceInv
<1>2. PlaceInv => HeadersOnce
  <2> SUFFICES ASSUME PlaceInv, NEW h \in Headers
               PROVE  /\ HeaderPlaces(h) <= 1
                      /\ CameraRuns /\ coder = "alive" => HeaderPlaces(h) = 1
    BY DEF HeadersOnce
  <2>1. h # NoHeader
    BY HeaderKinds
  <2>2. /\ Count(DOMAIN inQ, LAMBDA i : inQ[i].header = h) = IF InQueued(h) THEN 1 ELSE 0
        /\ Count(DOMAIN outQ, LAMBDA i : outQ[i].header = h) = IF OutQueued(h) THEN 1 ELSE 0
    <3>1. Cardinality({i \in DOMAIN inQ : inQ[i].header = h}) = IF InQueued(h) THEN 1 ELSE 0
      BY <2>1, HeadersCounted DEF PlaceInv, InQueued
    <3>2. Cardinality({i \in DOMAIN outQ : outQ[i].header = h}) = IF OutQueued(h) THEN 1 ELSE 0
      BY <2>1, HeadersCounted DEF PlaceInv, OutQueued
    <3> QED
      BY <3>1, <3>2 DEF Count
  <2>3. HeaderPlaces(h) =
            (IF h \in held THEN 1 ELSE 0) + (IF h \in lost THEN 1 ELSE 0)
            + (IF inHeader = h THEN 1 ELSE 0) + (IF outMsg.header = h THEN 1 ELSE 0)
            + (IF InQueued(h) THEN 1 ELSE 0) + (IF OutQueued(h) THEN 1 ELSE 0)
    BY <2>2 DEF HeaderPlaces, One
  <2>4. NotTwice(h) /\ (CameraRuns /\ coder = "alive" => Somewhere(h))
    BY DEF PlaceInv, CameraRuns, Known, Headers
  <2> QED
    BY <2>3, <2>4 DEF NotTwice, Somewhere
<1>3. EncoderInv => TypeInv
  BY DEF EncoderInv
<1> QED
  BY <1>1, <1>2, <1>3, EncoderInvariant, PlaceStep, PTL DEF SafetySpec
=============================================================================
