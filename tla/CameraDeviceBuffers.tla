------------------------ MODULE CameraDeviceBuffers ------------------------
(***************************************************************************)
(* Proofs about the buffers of CameraDevice for every value of its         *)
(* constants: no buffer is lost or in two places.                          *)
(***************************************************************************)
EXTENDS CameraDeviceOwnership, CameraDeviceProofs

\* Buffer b is somewhere, ...
SomeHolder(b) ==
    \/ InPool(b) \/ b \in held \/ WithHal(b) \/ InCallback(b) \/ InQueue(b)
    \/ b \in posting \/ b \in client \/ b \in dropped

\* ... not in places of two kinds, ...
OneKind(b) ==
    /\ InPool(b) => ~(b \in held \/ WithHal(b) \/ InCallback(b) \/ InQueue(b)
                      \/ b \in posting \/ b \in client \/ b \in dropped)
    /\ b \in held => ~(WithHal(b) \/ InCallback(b) \/ InQueue(b)
                       \/ b \in posting \/ b \in client \/ b \in dropped)
    /\ WithHal(b) => ~(InCallback(b) \/ InQueue(b)
                       \/ b \in posting \/ b \in client \/ b \in dropped)
    /\ InCallback(b) => ~(InQueue(b) \/ b \in posting \/ b \in client \/ b \in dropped)
    /\ InQueue(b) => ~(b \in posting \/ b \in client \/ b \in dropped)
    /\ b \in posting => ~(b \in client \/ b \in dropped)
    /\ b \in client => b \notin dropped

\* ... and not in two of the same kind.  (The pools are disjoint by assumption.)
HalOnce(b) == \A f, g \in Frames : b \in halBufs[f] /\ b \in halBufs[g] => f = g
QueueOnce(b) ==
    \A i, j \in 1 .. Len(resQ) : b \in resQ[i].bufs /\ b \in resQ[j].bufs => i = j

HeldOnce(b) == SomeHolder(b) /\ OneKind(b) /\ HalOnce(b) /\ QueueOnce(b)

\* The HAL has nothing of a frame it was not asked for yet, so that a request
\* it accepts overwrites nothing.
FreshFrames ==
    \A f \in Frames : f > frame \/ (f = frame /\ rq # "return") => halBufs[f] = {}

\* The result thread has no buffers while it waits, so that those it takes
\* overwrite nothing, and the stop message it takes brings none.
NothingPosted == rs # "post" => posting = {}
StopsAreEmpty == \A i \in 1 .. Len(resQ) : resQ[i].stop => resQ[i].bufs = {}

QuietInv == FreshFrames /\ NothingPosted /\ StopsAreEmpty

BufferInv == TypeInv /\ QuietInv /\ \A b \in Buffers : HeldOnce(b)

-----------------------------------------------------------------------------
(* Lemmas about the places.                                                *)

\* A place is left as it is by a step that leaves its variable alone.
LEMMA PlaceFrame ==
    ASSUME NEW b
    PROVE  /\ UNCHANGED free => (InPool(b)' <=> InPool(b))
           /\ UNCHANGED halBufs => (WithHal(b)' <=> WithHal(b)) /\ (HalOnce(b)' <=> HalOnce(b))
           /\ UNCHANGED cb => (InCallback(b)' <=> InCallback(b))
           /\ UNCHANGED resQ => (InQueue(b)' <=> InQueue(b)) /\ (QueueOnce(b)' <=> QueueOnce(b))
BY DEF InPool, WithHal, HalOnce, InCallback, InQueue, QueueOnce

\* PutBuffer adds exactly the buffers it is called with.
LEMMA PutPlaces ==
    ASSUME NEW bufs \in SUBSET Buffers, free' = PutAll(bufs), NEW b
    PROVE  InPool(b)' <=> InPool(b) \/ b \in bufs
BY DEF InPool, PutAll, Buffers

\* GetBuffer takes a buffer out of the only pool it is in.
LEMMA GetPlaces ==
    ASSUME PoolTypeOK, NEW s \in Streams, NEW c \in free[s],
           free' = [free EXCEPT ![s] = @ \ {c}], NEW b
    PROVE  InPool(b)' <=> InPool(b) /\ b # c
<1>1. \A t \in Streams : t # s => c \notin free[t]
  BY ConstantsAssumption DEF PoolTypeOK
<1> QED
  BY <1>1 DEF InPool, PoolTypeOK

\* A message that is queued brings its buffers into the queue.
LEMMA AppendPlaces ==
    ASSUME resQ \in Seq(ResMessage), NEW msg \in ResMessage, resQ' = Append(resQ, msg), NEW b
    PROVE  /\ InQueue(b)' <=> InQueue(b) \/ b \in msg.bufs
           /\ QueueOnce(b) /\ ~(InQueue(b) /\ b \in msg.bufs) => QueueOnce(b)'
<1>1. /\ Len(resQ) \in Nat /\ Len(resQ') = Len(resQ) + 1
      /\ \A i \in 1 .. Len(resQ) : resQ'[i] = resQ[i]
      /\ resQ'[Len(resQ) + 1] = msg
  OBVIOUS
<1>2. \A i \in 1 .. Len(resQ') : i \in 1 .. Len(resQ) \/ i = Len(resQ) + 1
  BY <1>1
<1>3. 1 .. Len(resQ) \subseteq 1 .. Len(resQ') /\ Len(resQ) + 1 \in 1 .. Len(resQ')
  BY <1>1
<1>4. InQueue(b)' <=> InQueue(b) \/ b \in msg.bufs
  BY <1>1, <1>2, <1>3 DEF InQueue
<1>5. ASSUME QueueOnce(b), ~(InQueue(b) /\ b \in msg.bufs) PROVE QueueOnce(b)'
  BY <1>1, <1>2, <1>5 DEF QueueOnce, InQueue
<1> QED
  BY <1>4, <1>5

\* The message that is taken takes its buffers out of the queue.
LEMMA TailPlaces ==
    ASSUME resQ \in Seq(ResMessage), resQ # <<>>, resQ' = Tail(resQ), NEW b, QueueOnce(b)
    PROVE  /\ InQueue(b)' <=> InQueue(b) /\ b \notin Head(resQ).bufs
           /\ QueueOnce(b)'
<1>1. /\ Len(resQ) \in Nat \ {0} /\ Len(resQ') = Len(resQ) - 1
      /\ \A i \in 1 .. Len(resQ') : resQ'[i] = resQ[i + 1]
      /\ Head(resQ) = resQ[1]
  BY HeadTailProperties, EmptySeq
<1>2. \A i \in 1 .. Len(resQ') : i + 1 \in 1 .. Len(resQ) /\ i + 1 # 1
  BY <1>1
<1>3. 1 \in 1 .. Len(resQ) /\ \A i \in 1 .. Len(resQ) : i = 1 \/ i - 1 \in 1 .. Len(resQ')
  BY <1>1
<1>4. QueueOnce(b)'
  <2> SUFFICES ASSUME NEW i \in 1 .. Len(resQ'), NEW j \in 1 .. Len(resQ'),
                      b \in resQ'[i].bufs, b \in resQ'[j].bufs
               PROVE  i = j
    BY DEF QueueOnce
  <2>1. i + 1 = j + 1
    BY <1>1, <1>2 DEF QueueOnce
  <2> QED
    BY <2>1, <1>1
<1>5. ASSUME InQueue(b)' PROVE InQueue(b) /\ b \notin Head(resQ).bufs
  <2> PICK i \in 1 .. Len(resQ') : b \in resQ'[i].bufs
    BY <1>5 DEF InQueue
  <2>1. b \in resQ[i + 1].bufs /\ i + 1 \in 1 .. Len(resQ) /\ i + 1 # 1
    BY <1>1, <1>2
  <2>2. b \notin resQ[1].bufs
    BY <2>1, <1>3 DEF QueueOnce
  <2> QED
    BY <2>1, <2>2, <1>1 DEF InQueue
<1>6. ASSUME InQueue(b), b \notin Head(resQ).bufs PROVE InQueue(b)'
  <2> PICK i \in 1 .. Len(resQ) : b \in resQ[i].bufs
    BY <1>6 DEF InQueue
  <2>1. i # 1
    BY <1>6, <1>1
  <2>2. i - 1 \in 1 .. Len(resQ')
    BY <2>1, <1>3
  <2>3. resQ'[i - 1] = resQ[i]
    BY <2>2, <1>1
  <2> QED
    BY <2>2, <2>3 DEF InQueue
<1> QED
  BY <1>4, <1>5, <1>6

-----------------------------------------------------------------------------
(* The invariant.                                                          *)

LEMMA BufferInit == Init => BufferInv
<1> SUFFICES ASSUME Init PROVE BufferInv
  OBVIOUS
<1>1. QuietInv
  BY DEF Init, QuietInv, FreshFrames, NothingPosted, StopsAreEmpty
<1>2. \A b \in Buffers : InPool(b)
  BY DEF Init, InPool, Buffers
<1>3. \A b : /\ ~WithHal(b) /\ ~InCallback(b) /\ ~InQueue(b)
             /\ HalOnce(b) /\ QueueOnce(b)
  BY DEF Init, WithHal, InCallback, IdleCallback, InQueue, HalOnce, QueueOnce
<1> QED
  BY <1>1, <1>2, <1>3, TypeInit DEF Init, BufferInv, HeldOnce, SomeHolder, OneKind

\* The variables the places of the buffers are read off
places == <<held, free, halBufs, cb, resQ, posting, client, dropped>>

LEMMA HeldFrame ==
    ASSUME BufferInv, UNCHANGED places
    PROVE  \A b \in Buffers : HeldOnce(b)'
BY PlaceFrame DEF places, BufferInv, HeldOnce, SomeHolder, OneKind

\* The HAL gets no buffers by a step that only moves the request thread, unless
\* it leaves the call of process_capture_request.
LEMMA QuietFrame ==
    ASSUME BufferInv
    PROVE  /\ UNCHANGED <<halBufs, frame>> /\ (rq = "return" => rq' = "return") => FreshFrames'
           /\ UNCHANGED <<posting, rs>> => NothingPosted'
           /\ UNCHANGED resQ => StopsAreEmpty'
BY DEF BufferInv, QuietInv, FreshFrames, NothingPosted, StopsAreEmpty

\* What holds of the places of one buffer before a step
LEMMA HeldBefore ==
    ASSUME BufferInv, NEW b \in Buffers
    PROVE  SomeHolder(b) /\ OneKind(b) /\ HalOnce(b) /\ QueueOnce(b)
BY DEF BufferInv, HeldOnce

\* The request thread takes buffers out of the pools and hands them to the HAL.
LEMMA RequestThreadBuffers == BufferInv /\ RequestThread => QuietInv' /\ \A b \in Buffers : HeldOnce(b)'
<1> SUFFICES ASSUME BufferInv, RequestThread PROVE QuietInv' /\ \A b \in Buffers : HeldOnce(b)'
  OBVIOUS
<1>t. RequestTypeOK /\ PoolTypeOK /\ HalTypeOK /\ ControlOK
  BY DEF BufferInv, TypeInv, TypeOK
<1>1. CASE ReqStop \/ ReqChange \/ ReqCompose \/ ReqAdmit \/ ReqRegister \/ ReqSettle
  <2>1. /\ UNCHANGED places /\ UNCHANGED <<halBufs, frame, posting, rs, resQ>>
        /\ rq = "return" => rq' = "return"
    BY <1>1
    DEF ReqStop, ReqChange, ReqCompose, ReqAdmit, ReqRegister, ReqSettle, places, halVars, resVars
  <2> QED
    BY <2>1, HeldFrame, QuietFrame DEF QuietInv
<1>2. CASE ReqGetBuffer
  <2>1. UNCHANGED <<halBufs, frame, cb, posting, rs, resQ, client, dropped, rq>>
    BY <1>2 DEF ReqGetBuffer, halVars, resVars
  <2> PICK s \in Streams :
         \E c \in free[s] : free' = [free EXCEPT ![s] = @ \ {c}] /\ held' = held \cup {c}
    BY <1>2, <1>t DEF ReqGetBuffer, RequestTypeOK
  <2> PICK c \in free[s] : free' = [free EXCEPT ![s] = @ \ {c}] /\ held' = held \cup {c}
    OBVIOUS
  <2>2. InPool(c)
    BY DEF InPool
  <2>3. ASSUME NEW b \in Buffers PROVE HeldOnce(b)'
    <3>1. InPool(b)' <=> InPool(b) /\ b # c
      BY <1>t, GetPlaces
    <3>2. b \in held' <=> b \in held \/ b = c
      OBVIOUS
    <3> QED
      BY <2>1, <2>2, <3>1, <3>2, PlaceFrame, HeldBefore DEF HeldOnce, SomeHolder, OneKind
  <2> QED
    BY <2>1, <2>3, QuietFrame DEF QuietInv
<1>3. CASE HalAccept
  <2>1. UNCHANGED <<free, frame, cb, posting, rs, resQ, client, dropped>> /\ rq' = "return"
    BY <1>3 DEF HalAccept, resVars
  <2>2. halBufs' = [halBufs EXCEPT ![frame] = held] /\ held' = {}
    BY <1>3 DEF HalAccept
  <2>3. frame \in Frames /\ halBufs[frame] = {}
    BY <1>3, <1>t DEF HalAccept, ControlOK, BufferInv, QuietInv, FreshFrames
  <2>4. \A f \in Frames : halBufs'[f] = IF f = frame THEN held ELSE halBufs[f]
    BY <2>2, <2>3, <1>t DEF HalTypeOK
  <2>5. ASSUME NEW b \in Buffers PROVE HeldOnce(b)'
    <3>1. WithHal(b)' <=> WithHal(b) \/ b \in held
      BY <2>3, <2>4 DEF WithHal
    <3>2. HalOnce(b)'
      BY <2>4, HeldBefore DEF HalOnce, OneKind, WithHal
    <3> QED
      BY <2>1, <2>2, <3>1, <3>2, PlaceFrame, HeldBefore DEF HeldOnce, SomeHolder, OneKind
  <2>6. FreshFrames'
    <3>1. \A f \in Frames : f > frame => f # frame
      BY <2>3, FramesType
    <3>2. \A f \in Frames : f > frame => halBufs'[f] = {}
      BY <2>4, <3>1 DEF BufferInv, QuietInv, FreshFrames
    <3> QED
      BY <2>1, <3>2 DEF FreshFrames
  <2> QED
    BY <2>1, <2>5, <2>6, QuietFrame DEF QuietInv
<1>4. CASE HalReject
  <2>1. /\ UNCHANGED <<halBufs, frame, cb, posting, rs, resQ, client, dropped>>
        /\ rq # "return"
    BY <1>4 DEF HalReject, halVars, resVars
  <2>2. free' = PutAll(held) /\ held' = {} /\ held \in SUBSET Buffers
    BY <1>4, <1>t DEF HalReject, RequestTypeOK
  <2>3. ASSUME NEW b \in Buffers PROVE HeldOnce(b)'
    <3>1. InPool(b)' <=> InPool(b) \/ b \in held
      BY <2>2, PutPlaces
    <3> QED
      BY <2>1, <2>2, <3>1, PlaceFrame, HeldBefore DEF HeldOnce, SomeHolder, OneKind
  <2> QED
    BY <2>1, <2>3, QuietFrame DEF QuietInv
<1>5. CASE ReqReturn
  <2>1. UNCHANGED places /\ UNCHANGED <<halBufs, posting, rs, resQ>>
    BY <1>5 DEF ReqReturn, places, halVars, resVars
  <2>2. frame \in Frames /\ frame' = frame + 1
    BY <1>5, <1>t DEF ReqReturn, ControlOK
  <2>3. \A f \in Frames : f > frame' \/ f = frame' => f > frame
    BY <2>2, FramesType
  <2>4. FreshFrames'
    <3>1. \A f \in Frames : f > frame => halBufs[f] = {}
      BY DEF BufferInv, QuietInv, FreshFrames
    <3> QED
      BY <2>1, <2>3, <3>1 DEF FreshFrames
  <2> QED
    BY <2>1, <2>4, HeldFrame, QuietFrame DEF QuietInv
<1> QED
  BY <1>1, <1>2, <1>3, <1>4, <1>5 DEF RequestThread

\* A delivery moves buffers of one request from the HAL to the callback.
LEMMA HalDeliversBuffers == BufferInv /\ HalDelivers => QuietInv' /\ \A b \in Buffers : HeldOnce(b)'
<1> SUFFICES ASSUME BufferInv, NEW f \in Frames, HalResult(f)
             PROVE  QuietInv' /\ \A b \in Buffers : HeldOnce(b)'
  BY DEF HalDelivers
<1> PICK bufs \in SUBSET halBufs[f] :
       /\ halBufs' = [halBufs EXCEPT ![f] = @ \ bufs]
       /\ cb'.at = (IF bufs = {} THEN "account" ELSE "enqueue") /\ cb'.bufs = bufs
  <2> PICK bufs \in SUBSET halBufs[f], m \in 0 .. 1 :
         /\ halBufs' = [halBufs EXCEPT ![f] = @ \ bufs]
         /\ cb' = [at |-> IF bufs = {} THEN "account" ELSE "enqueue", frame |-> f,
                   bufs |-> bufs, part |-> m * (MetaParts + 1 - halMeta[f])]
    BY DEF HalResult
  <2> QED
    OBVIOUS
<1>t. HalTypeOK
  BY DEF BufferInv, TypeInv, TypeOK
<1>1. /\ UNCHANGED <<free, held, frame, rq, posting, rs, resQ, client, dropped>>
      /\ cb.at = "idle"
  BY DEF HalResult, reqVars, resVars
<1>2. \A g \in Frames : halBufs'[g] = IF g = f THEN halBufs[g] \ bufs ELSE halBufs[g]
  BY <1>t DEF HalTypeOK
<1>3. ASSUME NEW b \in Buffers PROVE HeldOnce(b)'
  <2>1. InCallback(b)' <=> b \in bufs
    BY DEF InCallback
  <2>2. ~InCallback(b)
    BY <1>1 DEF InCallback
  <2>3. b \in bufs => WithHal(b)
    BY DEF WithHal
  <2>4. WithHal(b)' <=> WithHal(b) /\ b \notin bufs
    BY <1>2, HeldBefore DEF WithHal, HalOnce
  <2>5. HalOnce(b)'
    BY <1>2, HeldBefore DEF HalOnce
  <2> QED
    BY <1>1, <2>1, <2>2, <2>3, <2>4, <2>5, PlaceFrame, HeldBefore
    DEF HeldOnce, SomeHolder, OneKind
<1>4. FreshFrames'
  BY <1>1, <1>2 DEF BufferInv, QuietInv, FreshFrames
<1> QED
  BY <1>1, <1>3, <1>4, QuietFrame DEF QuietInv

\* The callback queues the buffers of its result, or drops them.
LEMMA CallbackBuffers == BufferInv /\ Callback => QuietInv' /\ \A b \in Buffers : HeldOnce(b)'
<1> SUFFICES ASSUME BufferInv, Callback PROVE QuietInv' /\ \A b \in Buffers : HeldOnce(b)'
  OBVIOUS
<1>t. CallbackTypeOK /\ resQ \in Seq(ResMessage)
  BY DEF BufferInv, TypeInv, TypeOK, ResultTypeOK
<1>1. CASE CbEnqueue
  <2>1. /\ UNCHANGED <<free, held, halBufs, frame, rq, posting, rs, client>>
        /\ cb.at = "enqueue" /\ cb'.at = "account"
    BY <1>1, <1>t DEF CbEnqueue, reqVars, halVars, CallbackTypeOK
  <2>2. \A b : ~InCallback(b)' /\ (InCallback(b) <=> b \in cb.bufs)
    BY <2>1 DEF InCallback
  <2>3. CASE resStopped
    <3>1. dropped' = dropped \cup cb.bufs /\ UNCHANGED resQ
      BY <1>1, <2>3 DEF CbEnqueue
    <3>2. ASSUME NEW b \in Buffers PROVE HeldOnce(b)'
      BY <2>1, <2>2, <3>1, PlaceFrame, HeldBefore DEF HeldOnce, SomeHolder, OneKind
    <3> QED
      BY <2>1, <3>1, <3>2, QuietFrame DEF QuietInv
  <2>4. CASE ~resStopped
    <3> DEFINE msg == [stop |-> FALSE, bufs |-> cb.bufs]
    <3>1. resQ' = Append(resQ, msg) /\ UNCHANGED dropped
      BY <1>1, <2>4 DEF CbEnqueue
    <3>2. cb.bufs \in SUBSET Buffers
      BY <1>t DEF CallbackTypeOK
    <3>3. msg \in ResMessage /\ msg.bufs = cb.bufs /\ ~msg.stop
      BY <3>2 DEF ResMessage
    <3> HIDE DEF msg
    <3>4. ASSUME NEW b \in Buffers PROVE HeldOnce(b)'
      <4>1. ~(InQueue(b) /\ b \in msg.bufs)
        BY <2>2, <3>3, HeldBefore DEF OneKind
      <4>2. /\ InQueue(b)' <=> InQueue(b) \/ b \in msg.bufs
            /\ QueueOnce(b)'
        BY <1>t, <3>1, <3>3, <4>1, AppendPlaces, HeldBefore
      <4> QED
        BY <2>1, <2>2, <3>1, <3>3, <4>2, PlaceFrame, HeldBefore
        DEF HeldOnce, SomeHolder, OneKind
    <3>5. StopsAreEmpty'
      BY <1>t, <3>1, <3>3 DEF BufferInv, QuietInv, StopsAreEmpty
    <3> QED
      BY <2>1, <3>4, <3>5, QuietFrame DEF QuietInv
  <2> QED
    BY <2>3, <2>4
<1>2. CASE CbEnqueueNull \/ CbAccountMissing
  <2>1. UNCHANGED places /\ UNCHANGED <<halBufs, frame, rq, posting, rs, resQ>>
    BY <1>2 DEF CbEnqueueNull, CbAccountMissing, places, reqVars, halVars, resVars
  <2> QED
    BY <2>1, HeldFrame, QuietFrame DEF QuietInv
<1>3. CASE CbAccount
  <2>1. /\ UNCHANGED <<free, held, halBufs, frame, posting, rs, resQ, client, dropped>>
        /\ cb.at = "account" /\ cb'.at = "idle" /\ (rq = "return" => rq' = "return")
    BY <1>3 DEF CbAccount, halVars, resVars, IdleCallback
  <2>2. \A b : ~InCallback(b)' /\ ~InCallback(b)
    BY <2>1 DEF InCallback
  <2>3. ASSUME NEW b \in Buffers PROVE HeldOnce(b)'
    BY <2>1, <2>2, PlaceFrame, HeldBefore DEF HeldOnce, SomeHolder, OneKind
  <2> QED
    BY <2>1, <2>3, QuietFrame DEF QuietInv
<1> QED
  BY <1>1, <1>2, <1>3 DEF Callback

\* The result thread takes the buffers of one message and passes them on.
LEMMA ResultThreadBuffers == BufferInv /\ ResultThread => QuietInv' /\ \A b \in Buffers : HeldOnce(b)'
<1> SUFFICES ASSUME BufferInv, ResultThread PROVE QuietInv' /\ \A b \in Buffers : HeldOnce(b)'
  OBVIOUS
<1>t. ResultTypeOK /\ resQ \in Seq(ResMessage)
  BY DEF BufferInv, TypeInv, TypeOK, ResultTypeOK
<1>q. ASSUME resQ # <<>>, resQ' = Tail(resQ) PROVE StopsAreEmpty'
  <2>1. /\ Len(resQ) \in Nat \ {0} /\ Len(resQ') = Len(resQ) - 1
        /\ \A i \in 1 .. Len(resQ') : resQ'[i] = resQ[i + 1]
    BY <1>t, <1>q, HeadTailProperties, EmptySeq
  <2> QED
    BY <2>1 DEF BufferInv, QuietInv, StopsAreEmpty
<1>h. ASSUME resQ # <<>> PROVE Head(resQ) = resQ[1] /\ 1 \in 1 .. Len(resQ)
  BY <1>t, <1>h, EmptySeq
<1>1. CASE ResStop
  <2>1. /\ UNCHANGED <<free, held, halBufs, cb, frame, rq, posting, client, dropped>>
        /\ resQ # <<>> /\ Head(resQ).stop /\ resQ' = Tail(resQ) /\ rs # "post"
    BY <1>1 DEF ResStop, reqVars, halVars
  <2>2. Head(resQ).bufs = {}
    BY <2>1, <1>h DEF BufferInv, QuietInv, StopsAreEmpty
  <2>3. ASSUME NEW b \in Buffers PROVE HeldOnce(b)'
    <3>1. (InQueue(b)' <=> InQueue(b)) /\ QueueOnce(b)'
      BY <1>t, <2>1, <2>2, TailPlaces, HeldBefore
    <3> QED
      BY <2>1, <3>1, PlaceFrame, HeldBefore DEF HeldOnce, SomeHolder, OneKind
  <2>4. NothingPosted'
    BY <2>1 DEF BufferInv, QuietInv, NothingPosted
  <2> QED
    BY <2>1, <2>3, <2>4, <1>q, QuietFrame DEF QuietInv
<1>2. CASE ResTake
  <2>1. /\ UNCHANGED <<free, held, halBufs, cb, frame, rq, client, dropped>>
        /\ resQ # <<>> /\ resQ' = Tail(resQ) /\ posting' = Head(resQ).bufs
        /\ rs' = "post" /\ posting = {}
    BY <1>2 DEF ResTake, reqVars, halVars, BufferInv, QuietInv, NothingPosted
  <2>2. ASSUME NEW b \in Buffers PROVE HeldOnce(b)'
    <3>1. (InQueue(b)' <=> InQueue(b) /\ b \notin Head(resQ).bufs) /\ QueueOnce(b)'
      BY <1>t, <2>1, TailPlaces, HeldBefore
    <3>2. b \in Head(resQ).bufs => InQueue(b)
      BY <1>h, <2>1 DEF InQueue
    <3> QED
      BY <2>1, <3>1, <3>2, PlaceFrame, HeldBefore DEF HeldOnce, SomeHolder, OneKind
  <2>3. NothingPosted'
    BY <2>1 DEF NothingPosted
  <2> QED
    BY <2>1, <2>2, <2>3, <1>q, QuietFrame DEF QuietInv
<1>3. CASE ResPost
  <2>1. /\ UNCHANGED <<held, halBufs, cb, frame, rq, resQ, dropped>> /\ posting' = {}
    BY <1>3 DEF ResPost, reqVars, halVars
  <2>2. \/ client' = client \cup posting /\ UNCHANGED free
        \/ free' = PutAll(posting) /\ UNCHANGED client
    BY <1>3 DEF ResPost
  <2>3. posting \in SUBSET Buffers
    BY <1>t DEF ResultTypeOK
  <2>4. ASSUME NEW b \in Buffers PROVE HeldOnce(b)'
    <3>1. CASE client' = client \cup posting /\ UNCHANGED free
      BY <2>1, <3>1, PlaceFrame, HeldBefore DEF HeldOnce, SomeHolder, OneKind
    <3>2. CASE free' = PutAll(posting) /\ UNCHANGED client
      <4>1. InPool(b)' <=> InPool(b) \/ b \in posting
        BY <2>3, <3>2, PutPlaces
      <4> QED
        BY <2>1, <3>2, <4>1, PlaceFrame, HeldBefore DEF HeldOnce, SomeHolder, OneKind
    <3> QED
      BY <2>2, <3>1, <3>2
  <2>5. NothingPosted'
    BY <2>1 DEF NothingPosted
  <2> QED
    BY <2>1, <2>4, <2>5, QuietFrame DEF QuietInv
<1> QED
  BY <1>1, <1>2, <1>3 DEF ResultThread

\* The owner of the callback puts a buffer back into its pool.
LEMMA ClientPutBuffers == BufferInv /\ ClientPut => QuietInv' /\ \A b \in Buffers : HeldOnce(b)'
<1> SUFFICES ASSUME BufferInv, ClientPut PROVE QuietInv' /\ \A b \in Buffers : HeldOnce(b)'
  OBVIOUS
<1> PICK c \in client : free' = PutAll({c}) /\ client' = client \ {c}
  BY DEF ClientPut
<1>1. UNCHANGED <<held, halBufs, cb, frame, rq, resQ, posting, rs, dropped>>
  BY DEF ClientPut, reqVars, halVars
<1>2. {c} \in SUBSET Buffers
  BY DEF BufferInv, TypeInv, TypeOK, ResultTypeOK
<1>3. ASSUME NEW b \in Buffers PROVE HeldOnce(b)'
  <2>1. InPool(b)' <=> InPool(b) \/ b = c
    BY <1>2, PutPlaces
  <2> QED
    BY <1>1, <2>1, PlaceFrame, HeldBefore DEF HeldOnce, SomeHolder, OneKind
<1> QED
  BY <1>1, <1>3, QuietFrame DEF QuietInv

LEMMA BufferStep == BufferInv /\ [Next]_vars => BufferInv'
<1> SUFFICES ASSUME BufferInv, [Next]_vars PROVE QuietInv' /\ \A b \in Buffers : HeldOnce(b)'
  BY TypeStep DEF BufferInv
<1>1. CASE UNCHANGED vars \/ Over
  <2>1. UNCHANGED places /\ UNCHANGED <<halBufs, frame, rq, posting, rs, resQ>>
    BY <1>1 DEF Over, vars, places, reqVars, halVars, resVars
  <2> QED
    BY <2>1, HeldFrame, QuietFrame DEF QuietInv
<1>2. CASE StopResultThread
  <2> DEFINE msg == [stop |-> TRUE, bufs |-> {}]
  <2>1. /\ UNCHANGED <<free, held, halBufs, cb, frame, rq, posting, rs, client, dropped>>
        /\ resQ' = Append(resQ, msg)
    BY <1>2 DEF StopResultThread, reqVars, halVars
  <2>2. msg \in ResMessage /\ msg.bufs = {} /\ resQ \in Seq(ResMessage)
    BY DEF ResMessage, BufferInv, TypeInv, TypeOK, ResultTypeOK
  <2> HIDE DEF msg
  <2>3. ASSUME NEW b \in Buffers PROVE HeldOnce(b)'
    <3>1. (InQueue(b)' <=> InQueue(b)) /\ QueueOnce(b)'
      BY <2>1, <2>2, AppendPlaces, HeldBefore
    <3> QED
      BY <2>1, <3>1, PlaceFrame, HeldBefore DEF HeldOnce, SomeHolder, OneKind
  <2>4. StopsAreEmpty'
    BY <2>1, <2>2 DEF BufferInv, QuietInv, StopsAreEmpty
  <2> QED
    BY <2>1, <2>3, <2>4, QuietFrame DEF QuietInv
<1>3. CASE Orders \/ StopRequestThread \/ StopDrain \/ StopFinish \/ WaitsExpire \/ SpuriousWakeup
  <2>1. /\ UNCHANGED places /\ UNCHANGED <<halBufs, frame, posting, rs, resQ>>
        /\ rq = "return" => rq' = "return"
    BY <1>3
    DEF Orders, OrderCaptures, StopRequestThread, StopDrain, StopFinish, WaitsExpire,
        ReqRoomTimeout, StopDrainTimeout, SpuriousWakeup, ReqRoomSpurious, ReqGetSpurious,
        ResTakeSpurious, places, reqVars, halVars, resVars
  <2> QED
    BY <2>1, HeldFrame, QuietFrame DEF QuietInv
<1> QED
  BY <1>1, <1>2, <1>3, RequestThreadBuffers, HalDeliversBuffers, CallbackBuffers,
     ResultThreadBuffers, ClientPutBuffers DEF Next, StopGoesOn

\* A buffer that HeldOnce speaks of has one holder.
LEMMA OneHolder ==
    ASSUME TypeInv, NEW b \in Buffers, HeldOnce(b)
    PROVE  \E h : Holders(b) = {h}
<1> DEFINE pools  == {<<"pool", s>> : s \in {t \in Streams : b \in free[t]}}
           hal    == {<<"hal", f>> : f \in {g \in Frames : b \in halBufs[g]}}
           queue  == {<<"queue", i>> : i \in {j \in DOMAIN resQ : b \in resQ[j].bufs}}
           others == (IF b \in held THEN {<<"request", 0>>} ELSE {})
                     \cup (IF cb.at = "enqueue" /\ b \in cb.bufs THEN {<<"callback", 0>>} ELSE {})
                     \cup (IF b \in posting THEN {<<"result", 0>>} ELSE {})
                     \cup (IF b \in client THEN {<<"client", 0>>} ELSE {})
                     \cup (IF b \in dropped THEN {<<"dropped", 0>>} ELSE {})
<1>1. Holders(b) = pools \cup hal \cup queue \cup others
  BY DEF Holders
<1>2. PoolTypeOK /\ DOMAIN resQ = 1 .. Len(resQ)
  BY DEF TypeInv, TypeOK, ResultTypeOK
<1>3. ~InPool(b) => pools = {}
  BY DEF InPool
<1>4. ~WithHal(b) => hal = {}
  BY DEF WithHal
<1>5. ~InQueue(b) => queue = {}
  BY <1>2 DEF InQueue
<1>6. InPool(b) => \E s \in Streams : pools = {<<"pool", s>>}
  <2> SUFFICES ASSUME NEW s \in Streams, b \in free[s] PROVE pools = {<<"pool", s>>}
    BY DEF InPool
  <2>1. \A t \in Streams : b \in free[t] => t = s
    BY <1>2, ConstantsAssumption DEF PoolTypeOK
  <2>2. {t \in Streams : b \in free[t]} = {s}
    BY <2>1
  <2> QED
    BY <2>2
<1>7. WithHal(b) => \E f \in Frames : hal = {<<"hal", f>>}
  <2> SUFFICES ASSUME NEW f \in Frames, b \in halBufs[f] PROVE hal = {<<"hal", f>>}
    BY DEF WithHal
  <2>1. {g \in Frames : b \in halBufs[g]} = {f}
    BY DEF HeldOnce, HalOnce
  <2> QED
    BY <2>1
<1>8. InQueue(b) => \E i \in 1 .. Len(resQ) : queue = {<<"queue", i>>}
  <2> SUFFICES ASSUME NEW i \in 1 .. Len(resQ), b \in resQ[i].bufs PROVE queue = {<<"queue", i>>}
    BY DEF InQueue
  <2>1. {j \in DOMAIN resQ : b \in resQ[j].bufs} = {i}
    BY <1>2 DEF HeldOnce, QueueOnce
  <2> QED
    BY <2>1
<1> HIDE DEF pools, hal, queue
<1>9. CASE InPool(b) \/ WithHal(b) \/ InQueue(b)
  <2>1. others = {}
    BY <1>9 DEF HeldOnce, OneKind, InCallback
  <2> QED
    BY <1>1, <1>3, <1>4, <1>5, <1>6, <1>7, <1>8, <1>9, <2>1 DEF HeldOnce, OneKind
<1>10. CASE ~(InPool(b) \/ WithHal(b) \/ InQueue(b))
  <2>1. Holders(b) = others
    BY <1>1, <1>3, <1>4, <1>5, <1>10
  <2>2. \E h : others = {h}
    BY <1>10 DEF HeldOnce, SomeHolder, OneKind, InCallback
  <2> QED
    BY <2>1, <2>2
<1> QED
  BY <1>9, <1>10

\* No buffer of any stream is lost or handed out twice: whatever the number of
\* streams, buffers and frames, whether requests are rejected, waits expire or
\* end by themselves, and whoever puts the buffers back.
THEOREM BuffersAreConserved == SafetySpec => []EveryBufferInOnePlace
<1>1. BufferInv => EveryBufferInOnePlace
  BY OneHolder, FS_Singleton DEF BufferInv, EveryBufferInOnePlace
<1> QED
  BY BufferInit, BufferStep, <1>1, PTL DEF SafetySpec

-----------------------------------------------------------------------------
(* CameraDevice implements BufferOwnership.                                *)

\* The request being built has buffers only while they are collected and
\* submitted, and none of the streams GetBuffer was not called for.
HeldByStream ==
    /\ rq \notin {"get", "submit"} => held = {}
    /\ \A s \in toGet : held \cap Pool[s] = {}

OwnershipInv == BufferInv /\ DrainInv /\ HeldByStream

\* HeldByStream needs the steps that touch the request thread only.
LEMMA HeldByStreamStep == BufferInv /\ HeldByStream /\ [Next]_vars => HeldByStream'
<1> SUFFICES ASSUME BufferInv, HeldByStream, [Next]_vars PROVE HeldByStream'
  OBVIOUS
<1>t. RequestTypeOK /\ PoolTypeOK
  BY DEF BufferInv, TypeInv, TypeOK
<1>1. CASE ReqGetBuffer
  <2> PICK s \in toGet :
         /\ \E c \in free[s] : held' = held \cup {c}
         /\ toGet' = toGet \ {s}
    BY <1>1 DEF ReqGetBuffer
  <2>1. rq = "get" /\ rq' = "get"
    BY <1>1 DEF ReqGetBuffer
  <2>2. ASSUME NEW t \in toGet' PROVE held' \cap Pool[t] = {}
    <3>1. t \in toGet /\ t # s /\ s \in Streams /\ t \in Streams
      BY <1>t DEF RequestTypeOK
    <3>2. free[s] \cap Pool[t] = {}
      BY <1>t, <3>1, ConstantsAssumption DEF PoolTypeOK
    <3> QED
      BY <3>1, <3>2 DEF HeldByStream
  <2> QED
    BY <2>1, <2>2 DEF HeldByStream
<1>2. CASE HalAccept \/ HalReject
  BY <1>2 DEF HalAccept, HalReject, HeldByStream
<1>3. CASE ReqCompose
  BY <1>3 DEF ReqCompose, HeldByStream
<1>4. CASE ReqStop \/ ReqChange \/ ReqAdmit \/ ReqRegister \/ ReqReturn \/ ReqSettle
  BY <1>4 DEF ReqStop, ReqChange, ReqAdmit, ReqRegister, ReqReturn, ReqSettle, HeldByStream
<1>5. CASE Callback \/ HalDelivers \/ ResultThread \/ ClientPut
  BY <1>5
  DEF Callback, CbEnqueue, CbEnqueueNull, CbAccount, CbAccountMissing, HalDelivers, HalResult,
      ResultThread, ResStop, ResTake, ResPost, ClientPut, reqVars, HeldByStream
<1>6. CASE WaitsExpire \/ SpuriousWakeup
  BY <1>6
  DEF WaitsExpire, ReqRoomTimeout, StopDrainTimeout, SpuriousWakeup, ReqRoomSpurious,
      ReqGetSpurious, ResTakeSpurious, reqVars, HeldByStream
<1>7. CASE Orders \/ StopRequestThread \/ StopGoesOn
  BY <1>7
  DEF Orders, OrderCaptures, StopRequestThread, StopGoesOn, StopResultThread, StopDrain,
      StopFinish, reqVars, HeldByStream
<1>8. CASE UNCHANGED vars \/ Over
  BY <1>8 DEF Over, vars, reqVars, HeldByStream
<1> QED
  BY <1>1, <1>2, <1>3, <1>4, <1>5, <1>6, <1>7, <1>8 DEF Next, RequestThread

LEMMA OwnershipInvInit == Init => OwnershipInv
BY BufferInit, DrainInit DEF OwnershipInv, HeldByStream, Init

LEMMA OwnershipInvStep == OwnershipInv /\ [Next]_vars => OwnershipInv'
BY BufferStep, DrainStep, HeldByStreamStep DEF OwnershipInv

\* The place of a buffer tells its owner, before a step and after it.
LEMMA OwnerNow ==
    ASSUME NEW b, HeldOnce(b)
    PROVE  /\ OwnerOf(b) = "pool"    <=> InPool(b)
           /\ OwnerOf(b) = "request" <=> b \in held
           /\ OwnerOf(b) = "hal"     <=> WithHal(b)
           /\ OwnerOf(b) = "result"  <=> InResult(b)
           /\ OwnerOf(b) = "client"  <=> b \in client
           /\ OwnerOf(b) = "lost"    <=> b \in dropped
BY DEF OwnerOf, HeldOnce, SomeHolder, OneKind, InResult

LEMMA OwnerNext ==
    ASSUME NEW b, HeldOnce(b)'
    PROVE  /\ InPool(b)'   => OwnerOf(b)' = "pool"
           /\ b \in held'  => OwnerOf(b)' = "request"
           /\ WithHal(b)'  => OwnerOf(b)' = "hal"
           /\ InResult(b)' => OwnerOf(b)' = "result"
           /\ b \in client' => OwnerOf(b)' = "client"
           /\ b \in dropped' => OwnerOf(b)' = "lost"
BY DEF OwnerOf, HeldOnce, SomeHolder, OneKind, InResult

\* A step that leaves every place but those of one kind alone
LEMMA OwnerFrame ==
    ASSUME NEW b, HeldOnce(b), HeldOnce(b)',
           InPool(b) => InPool(b)', b \in held => b \in held', WithHal(b) => WithHal(b)',
           InResult(b) => InResult(b)', b \in client => b \in client',
           b \in dropped => b \in dropped'
    PROVE  OwnerOf(b)' = OwnerOf(b)
BY OwnerNow, OwnerNext DEF HeldOnce, SomeHolder, InResult

\* A step in which the buffers of one owner, and no others, go to another one
\* is a step of BufferOwnership, or none if there are no such buffers.
LEMMA PassStep ==
    ASSUME NEW bufs \in SUBSET Buffers, NEW from, NEW to,
           \A b \in bufs : OwnerOf(b) = from,
           \A b \in Buffers : OwnerOf(b)' = IF b \in bufs THEN to ELSE OwnerOf(b),
           UNCHANGED resStopped
    PROVE  Abstract!Pass(bufs, from, to) \/ (bufs = {} /\ UNCHANGED Abstract!vars)
<1>1. Abstract!Buffers = Buffers
  BY DEF Abstract!Buffers, Buffers
<1>2. bufs \subseteq Abstract!OwnedBy(from)
  BY <1>1 DEF Abstract!OwnedBy
<1>3. [b \in Buffers |-> OwnerOf(b)]'
        = [b \in Buffers |-> IF b \in bufs THEN to ELSE [c \in Buffers |-> OwnerOf(c)][b]]
  OBVIOUS
<1>4. CASE bufs # {}
  BY <1>1, <1>2, <1>3, <1>4 DEF Abstract!Pass
<1>5. CASE bufs = {}
  BY <1>3, <1>5 DEF Abstract!vars
<1> QED
  BY <1>4, <1>5

\* A step in which no buffer changes its owner is none of BufferOwnership.
LEMMA StutterStep ==
    ASSUME \A b \in Buffers : OwnerOf(b)' = OwnerOf(b), UNCHANGED resStopped
    PROVE  UNCHANGED Abstract!vars
BY DEF Abstract!vars

\* Such is a step that leaves the places alone.
LEMMA PlacesStutter ==
    ASSUME OwnershipInv, OwnershipInv', UNCHANGED places, UNCHANGED resStopped
    PROVE  UNCHANGED Abstract!vars
<1>1. ASSUME NEW b \in Buffers PROVE OwnerOf(b)' = OwnerOf(b)
  <2>1. HeldOnce(b) /\ HeldOnce(b)'
    BY DEF OwnershipInv, BufferInv
  <2> QED
    BY <2>1, PlaceFrame, OwnerFrame DEF places, InResult
<1> QED
  BY <1>1, StutterStep

\* The request thread: Take, Submit and Refuse.
LEMMA RequestThreadOwnership ==
    ASSUME OwnershipInv, OwnershipInv', RequestThread
    PROVE  Abstract!Next \/ UNCHANGED Abstract!vars
<1>t. RequestTypeOK /\ PoolTypeOK /\ HalTypeOK /\ ControlOK
  BY DEF OwnershipInv, BufferInv, TypeInv, TypeOK
<1>h. \A b \in Buffers : HeldOnce(b) /\ HeldOnce(b)'
  BY DEF OwnershipInv, BufferInv
<1>1. CASE ReqStop \/ ReqChange \/ ReqCompose \/ ReqAdmit \/ ReqRegister \/ ReqReturn \/ ReqSettle
  <2>1. UNCHANGED places /\ UNCHANGED resStopped
    BY <1>1
    DEF ReqStop, ReqChange, ReqCompose, ReqAdmit, ReqRegister, ReqReturn, ReqSettle, places,
        halVars, resVars
  <2> QED
    BY <2>1, PlacesStutter
<1>2. CASE ReqGetBuffer
  <2>1. UNCHANGED <<halBufs, cb, posting, resQ, client, dropped, resStopped>>
    BY <1>2 DEF ReqGetBuffer, halVars, resVars
  <2> PICK s \in toGet :
         \E c \in free[s] : free' = [free EXCEPT ![s] = @ \ {c}] /\ held' = held \cup {c}
    BY <1>2 DEF ReqGetBuffer
  <2> PICK c \in free[s] : free' = [free EXCEPT ![s] = @ \ {c}] /\ held' = held \cup {c}
    OBVIOUS
  <2>2. s \in Streams /\ c \in Pool[s] /\ c \in Buffers
    BY <1>t DEF RequestTypeOK, PoolTypeOK
  <2>3. OwnerOf(c) = "pool"
    BY <1>h, <2>2, OwnerNow DEF InPool
  <2>4. OwnerOf(c)' = "request"
    BY <1>h, <2>2, OwnerNext
  <2>5. ASSUME NEW b \in Buffers, b # c PROVE OwnerOf(b)' = OwnerOf(b)
    <3>1. InPool(b)' <=> InPool(b)
      BY <1>t, <2>2, <2>5, GetPlaces
    <3> QED
      BY <1>h, <2>1, <3>1, PlaceFrame, OwnerFrame DEF InResult
  <2>6. Abstract!Pass({c}, "pool", "request")
    BY <2>1, <2>2, <2>3, <2>4, <2>5, PassStep
  <2>7. \A t \in Streams : c \in Pool[t] => Pool[t] \cap Abstract!OwnedBy("request") = {}
    <3>1. \A t \in Streams : c \in Pool[t] => t = s
      BY <2>2, ConstantsAssumption
    <3>2. Pool[s] \cap held = {}
      BY DEF OwnershipInv, HeldByStream
    <3>3. Abstract!OwnedBy("request") \subseteq held
      BY <1>h, OwnerNow DEF Abstract!OwnedBy, Abstract!Buffers, Buffers
    <3>4. Pool[s] \cap Abstract!OwnedBy("request") = {}
      BY <3>2, <3>3
    <3> QED
      BY <3>1, <3>4
  <2>8. Abstract!Take
    <3>1. c \in Abstract!Buffers
      BY <2>2 DEF Abstract!Buffers, Buffers
    <3>2. \A pool \in {Pool[t] : t \in Streams} :
             c \in pool => pool \cap Abstract!OwnedBy("request") = {}
      BY <2>7
    <3> QED
      BY <3>1, <3>2, <2>6 DEF Abstract!Take
  <2> QED
    BY <2>8 DEF Abstract!Next
<1>3. ASSUME HalAccept \/ HalReject
      PROVE  held \in SUBSET Buffers /\ held' = {} /\ held = Abstract!OwnedBy("request")
  <2>1. held \in SUBSET Buffers
    BY <1>t DEF RequestTypeOK
  <2>2. held = Abstract!OwnedBy("request")
    BY <2>1, <1>h, OwnerNow DEF Abstract!OwnedBy, Abstract!Buffers, Buffers
  <2> QED
    BY <1>3, <2>1, <2>2 DEF HalAccept, HalReject
<1>4. CASE HalAccept
  <2>1. UNCHANGED <<free, cb, posting, resQ, client, dropped, resStopped>>
    BY <1>4 DEF HalAccept, resVars
  <2>2. frame \in Frames /\ halBufs[frame] = {} /\ halBufs' = [halBufs EXCEPT ![frame] = held]
    BY <1>4, <1>t
    DEF HalAccept, ControlOK, OwnershipInv, BufferInv, QuietInv, FreshFrames
  <2>3. \A f \in Frames : halBufs'[f] = IF f = frame THEN held ELSE halBufs[f]
    BY <2>2, <1>t DEF HalTypeOK
  <2>4. \A b \in Buffers : WithHal(b)' <=> WithHal(b) \/ b \in held
    BY <2>2, <2>3 DEF WithHal
  <2>5. \A b \in held : OwnerOf(b) = "request" /\ OwnerOf(b)' = "hal"
    BY <1>3, <1>4, <1>h, <2>4, OwnerNow, OwnerNext
  <2>6. \A b \in Buffers \ held : OwnerOf(b)' = OwnerOf(b)
    BY <1>h, <2>1, <2>4, PlaceFrame, OwnerFrame DEF InResult
  <2> QED
    BY <1>3, <1>4, <2>1, <2>5, <2>6, PassStep DEF Abstract!Next, Abstract!Submit
<1>5. CASE HalReject
  <2>1. UNCHANGED <<halBufs, cb, posting, resQ, client, dropped, resStopped>> /\ free' = PutAll(held)
    BY <1>5 DEF HalReject, halVars, resVars
  <2>2. \A b \in Buffers : InPool(b)' <=> InPool(b) \/ b \in held
    BY <1>3, <1>5, <2>1, PutPlaces
  <2>3. \A b \in held : OwnerOf(b) = "request" /\ OwnerOf(b)' = "pool"
    BY <1>3, <1>5, <1>h, <2>2, OwnerNow, OwnerNext
  <2>4. \A b \in Buffers \ held : OwnerOf(b)' = OwnerOf(b)
    BY <1>h, <2>1, <2>2, PlaceFrame, OwnerFrame DEF InResult
  <2> QED
    BY <1>3, <1>5, <2>1, <2>3, <2>4, PassStep DEF Abstract!Next, Abstract!Refuse
<1> QED
  BY <1>1, <1>2, <1>4, <1>5 DEF RequestThread

\* A delivery of the HAL: Return.
LEMMA HalDeliversOwnership ==
    ASSUME OwnershipInv, OwnershipInv', HalDelivers
    PROVE  Abstract!Next \/ UNCHANGED Abstract!vars
<1>h. \A b \in Buffers : HeldOnce(b) /\ HeldOnce(b)'
  BY DEF OwnershipInv, BufferInv
<1>t. HalTypeOK
  BY DEF OwnershipInv, BufferInv, TypeInv, TypeOK
<1> PICK f \in Frames : HalResult(f)
  BY DEF HalDelivers
<1> PICK bufs \in SUBSET halBufs[f], m \in 0 .. 1 :
       /\ halBufs' = [halBufs EXCEPT ![f] = @ \ bufs]
       /\ cb' = [at |-> IF bufs = {} THEN "account" ELSE "enqueue", frame |-> f,
                 bufs |-> bufs, part |-> m * (MetaParts + 1 - halMeta[f])]
  BY DEF HalResult
<1>1. /\ UNCHANGED <<free, held, posting, resQ, client, dropped, resStopped>>
      /\ cb.at = "idle" /\ bufs \in SUBSET Buffers
  BY <1>t DEF HalResult, reqVars, resVars, HalTypeOK
<1>2. \A b : (InCallback(b)' <=> b \in bufs) /\ ~InCallback(b)
  BY <1>1 DEF InCallback
<1>3. \A g \in Frames : halBufs'[g] = IF g = f THEN halBufs[g] \ bufs ELSE halBufs[g]
  BY <1>t DEF HalTypeOK
<1>4. \A b \in bufs : OwnerOf(b) = "hal"
  BY <1>h, <1>1, OwnerNow DEF WithHal
<1>5. \A b \in bufs : OwnerOf(b)' = "result"
  BY <1>h, <1>1, <1>2, OwnerNext DEF InResult
<1>6. \A b \in Buffers \ bufs : WithHal(b) => WithHal(b)'
  BY <1>3 DEF WithHal
<1>7. \A b \in Buffers \ bufs : OwnerOf(b)' = OwnerOf(b)
  BY <1>h, <1>1, <1>2, <1>6, PlaceFrame, OwnerFrame DEF InResult
<1>8. Abstract!Pass(bufs, "hal", "result") \/ UNCHANGED Abstract!vars
  BY <1>1, <1>4, <1>5, <1>7, PassStep
<1>9. Abstract!Pass(bufs, "hal", "result") => Abstract!Return
  BY DEF Abstract!Return, Abstract!Pass
<1> QED
  BY <1>8, <1>9 DEF Abstract!Next

\* The callback keeps the buffers of a result on their way, or it is Lose.
LEMMA CallbackOwnership ==
    ASSUME OwnershipInv, OwnershipInv', Callback
    PROVE  Abstract!Next \/ UNCHANGED Abstract!vars
<1>h. \A b \in Buffers : HeldOnce(b) /\ HeldOnce(b)'
  BY DEF OwnershipInv, BufferInv
<1>t. cb.bufs \in SUBSET Buffers /\ CallbackTypeOK /\ resQ \in Seq(ResMessage)
  BY DEF OwnershipInv, BufferInv, TypeInv, TypeOK, CallbackTypeOK, ResultTypeOK
<1>1. CASE CbEnqueue
  <2>1. /\ UNCHANGED <<free, held, halBufs, posting, client, resStopped>>
        /\ cb.at = "enqueue" /\ cb'.at = "account"
    BY <1>1, <1>t DEF CbEnqueue, reqVars, halVars, CallbackTypeOK
  <2>2. \A b : ~InCallback(b)' /\ (InCallback(b) <=> b \in cb.bufs)
    BY <2>1 DEF InCallback
  <2>3. CASE resStopped
    <3>1. dropped' = dropped \cup cb.bufs /\ UNCHANGED resQ
      BY <1>1, <2>3 DEF CbEnqueue
    <3>2. \A b \in cb.bufs : OwnerOf(b) = "result" /\ OwnerOf(b)' = "lost"
      BY <1>h, <1>t, <2>2, <3>1, OwnerNow, OwnerNext DEF InResult
    <3>3. \A b \in Buffers \ cb.bufs : OwnerOf(b)' = OwnerOf(b)
      BY <1>h, <2>1, <2>2, <3>1, PlaceFrame, OwnerFrame DEF InResult
    <3>4. Abstract!Pass(cb.bufs, "result", "lost") \/ UNCHANGED Abstract!vars
      BY <1>t, <2>1, <3>2, <3>3, PassStep
    <3>5. Abstract!Pass(cb.bufs, "result", "lost") => Abstract!Lose
      BY <2>3 DEF Abstract!Lose, Abstract!Pass
    <3> QED
      BY <3>4, <3>5 DEF Abstract!Next
  <2>4. CASE ~resStopped
    <3> DEFINE msg == [stop |-> FALSE, bufs |-> cb.bufs]
    <3>1. resQ' = Append(resQ, msg) /\ UNCHANGED dropped
      BY <1>1, <2>4 DEF CbEnqueue
    <3>2. msg \in ResMessage /\ msg.bufs = cb.bufs
      BY <1>t DEF ResMessage
    <3> HIDE DEF msg
    <3>3. \A b \in Buffers : InQueue(b)' <=> InQueue(b) \/ b \in cb.bufs
      BY <1>t, <3>1, <3>2, AppendPlaces
    <3>4. \A b \in Buffers : OwnerOf(b)' = OwnerOf(b)
      BY <1>h, <2>1, <2>2, <3>1, <3>3, PlaceFrame, OwnerFrame DEF InResult
    <3> QED
      BY <2>1, <3>4, StutterStep
  <2> QED
    BY <2>3, <2>4
<1>2. CASE CbAccount
  <2>1. /\ UNCHANGED <<free, held, halBufs, posting, resQ, client, dropped, resStopped>>
        /\ cb.at = "account"
    BY <1>2 DEF CbAccount, halVars, resVars
  <2>2. \A b : ~InCallback(b)
    BY <2>1 DEF InCallback
  <2>3. \A b \in Buffers : OwnerOf(b)' = OwnerOf(b)
    BY <1>h, <2>1, <2>2, PlaceFrame, OwnerFrame DEF InResult
  <2> QED
    BY <2>1, <2>3, StutterStep
<1>3. CASE CbEnqueueNull \/ CbAccountMissing
  <2>1. UNCHANGED places /\ UNCHANGED resStopped
    BY <1>3 DEF CbEnqueueNull, CbAccountMissing, places, reqVars, halVars, resVars
  <2> QED
    BY <2>1, PlacesStutter
<1> QED
  BY <1>1, <1>2, <1>3 DEF Callback

\* The result thread and the owner of the callback: Recycle, Lend and GetBack.
LEMMA ResultOwnership ==
    ASSUME OwnershipInv, OwnershipInv', ResultThread \/ ClientPut
    PROVE  Abstract!Next \/ UNCHANGED Abstract!vars
<1>h. \A b \in Buffers : HeldOnce(b) /\ HeldOnce(b)' /\ QueueOnce(b)
  BY DEF OwnershipInv, BufferInv, HeldOnce
<1>t. ResultTypeOK /\ resQ \in Seq(ResMessage) /\ posting \in SUBSET Buffers
  BY DEF OwnershipInv, BufferInv, TypeInv, TypeOK, ResultTypeOK
<1>1. CASE ResStop \/ ResTake
  <2>1. /\ UNCHANGED <<free, held, halBufs, cb, client, dropped, resStopped>>
        /\ resQ # <<>> /\ resQ' = Tail(resQ)
    BY <1>1 DEF ResStop, ResTake, reqVars, halVars
  <2>2. Head(resQ) = resQ[1] /\ 1 \in 1 .. Len(resQ)
    BY <1>t, <2>1, EmptySeq
  <2>3. \A b \in Buffers : InQueue(b)' <=> InQueue(b) /\ b \notin Head(resQ).bufs
    BY <1>h, <1>t, <2>1, TailPlaces
  <2>4. CASE ResStop
    <3>1. Head(resQ).bufs = {} /\ UNCHANGED posting
      BY <2>2, <2>4 DEF ResStop, OwnershipInv, BufferInv, QuietInv, StopsAreEmpty
    <3>2. \A b \in Buffers : OwnerOf(b)' = OwnerOf(b)
      BY <1>h, <2>1, <2>3, <3>1, PlaceFrame, OwnerFrame DEF InResult
    <3> QED
      BY <2>1, <3>2, StutterStep
  <2>5. CASE ResTake
    <3>1. posting' = Head(resQ).bufs /\ posting = {}
      BY <2>5 DEF ResTake, OwnershipInv, BufferInv, QuietInv, NothingPosted
    <3>2. \A b \in Buffers : InResult(b) => InResult(b)'
      BY <2>1, <2>3, <3>1, PlaceFrame DEF InResult
    <3>3. \A b \in Buffers : OwnerOf(b)' = OwnerOf(b)
      BY <1>h, <2>1, <3>2, PlaceFrame, OwnerFrame
    <3> QED
      BY <2>1, <3>3, StutterStep
  <2> QED
    BY <1>1, <2>4, <2>5
<1>2. CASE ResPost
  <2>1. UNCHANGED <<held, halBufs, cb, resQ, dropped, resStopped>> /\ posting' = {}
    BY <1>2 DEF ResPost, reqVars, halVars
  <2>2. \A b \in posting : OwnerOf(b) = "result"
    BY <1>h, <1>t, OwnerNow DEF InResult
  <2>3. CASE client' = client \cup posting /\ UNCHANGED free
    <3>1. \A b \in posting : OwnerOf(b)' = "client"
      BY <1>h, <1>t, <2>3, OwnerNext
    <3>2. \A b \in Buffers \ posting : OwnerOf(b)' = OwnerOf(b)
      BY <1>h, <2>1, <2>3, PlaceFrame, OwnerFrame DEF InResult
    <3>3. Abstract!Pass(posting, "result", "client") \/ UNCHANGED Abstract!vars
      BY <1>t, <2>1, <2>2, <3>1, <3>2, PassStep
    <3>4. Abstract!Pass(posting, "result", "client") => Abstract!Lend
      BY DEF Abstract!Lend, Abstract!Pass
    <3> QED
      BY <3>3, <3>4 DEF Abstract!Next
  <2>4. CASE free' = PutAll(posting) /\ UNCHANGED client
    <3>1. \A b \in Buffers : InPool(b)' <=> InPool(b) \/ b \in posting
      BY <1>t, <2>4, PutPlaces
    <3>2. \A b \in posting : OwnerOf(b)' = "pool"
      BY <1>h, <1>t, <3>1, OwnerNext
    <3>3. \A b \in Buffers \ posting : OwnerOf(b)' = OwnerOf(b)
      BY <1>h, <2>1, <2>4, <3>1, PlaceFrame, OwnerFrame DEF InResult
    <3>4. Abstract!Pass(posting, "result", "pool") \/ UNCHANGED Abstract!vars
      BY <1>t, <2>1, <2>2, <3>2, <3>3, PassStep
    <3>5. Abstract!Pass(posting, "result", "pool") => Abstract!Recycle
      BY DEF Abstract!Recycle, Abstract!Pass
    <3> QED
      BY <3>4, <3>5 DEF Abstract!Next
  <2> QED
    BY <1>2, <2>3, <2>4 DEF ResPost
<1>3. CASE ClientPut
  <2> PICK c \in client : free' = PutAll({c}) /\ client' = client \ {c}
    BY <1>3 DEF ClientPut
  <2>1. UNCHANGED <<held, halBufs, cb, resQ, posting, dropped, resStopped>> /\ c \in Buffers
    BY <1>3, <1>t DEF ClientPut, reqVars, halVars, ResultTypeOK
  <2>2. \A b \in Buffers : InPool(b)' <=> InPool(b) \/ b = c
    BY <2>1, PutPlaces
  <2>3. OwnerOf(c) = "client" /\ OwnerOf(c)' = "pool"
    BY <1>h, <2>1, <2>2, OwnerNow, OwnerNext
  <2>4. \A b \in Buffers \ {c} : OwnerOf(b)' = OwnerOf(b)
    BY <1>h, <2>1, <2>2, PlaceFrame, OwnerFrame DEF InResult
  <2>5. Abstract!Pass({c}, "client", "pool")
    BY <2>1, <2>3, <2>4, PassStep
  <2>6. Abstract!GetBack
    BY <2>5 DEF Abstract!GetBack, Abstract!Pass
  <2> QED
    BY <2>6 DEF Abstract!Next
<1> QED
  BY <1>1, <1>2, <1>3 DEF ResultThread

\* Every other step leaves the owners alone; one of them begins the stop.
LEMMA OwnershipStep ==
    ASSUME OwnershipInv, OwnershipInv', [Next]_vars
    PROVE  Abstract!Next \/ UNCHANGED Abstract!vars
<1>h. \A b \in Buffers : HeldOnce(b) /\ HeldOnce(b)'
  BY DEF OwnershipInv, BufferInv
<1>t. resQ \in Seq(ResMessage)
  BY DEF OwnershipInv, BufferInv, TypeInv, TypeOK, ResultTypeOK
<1>1. CASE StopResultThread
  <2> DEFINE msg == [stop |-> TRUE, bufs |-> {}]
  <2>1. /\ UNCHANGED <<free, held, halBufs, cb, posting, client, dropped>>
        /\ resQ' = Append(resQ, msg) /\ resStopped' = TRUE /\ stopper = "joinRequest"
    BY <1>1 DEF StopResultThread, reqVars, halVars
  <2>2. msg \in ResMessage /\ msg.bufs = {}
    BY DEF ResMessage
  <2> HIDE DEF msg
  <2>3. \A b \in Buffers : InQueue(b)' <=> InQueue(b)
    BY <1>t, <2>1, <2>2, AppendPlaces
  <2>4. \A b \in Buffers : OwnerOf(b)' = OwnerOf(b)
    BY <1>h, <2>1, <2>3, PlaceFrame, OwnerFrame DEF InResult
  <2>5. ~resStopped
    BY <2>1 DEF OwnershipInv, DrainInv, StopIsLast
  <2> QED
    BY <2>1, <2>4, <2>5 DEF Abstract!Next, Abstract!BeginStop
<1>2. CASE Orders \/ StopRequestThread \/ StopDrain \/ StopFinish \/ WaitsExpire \/ SpuriousWakeup
  <2>1. UNCHANGED places /\ UNCHANGED resStopped
    BY <1>2
    DEF Orders, OrderCaptures, StopRequestThread, StopDrain, StopFinish, WaitsExpire,
        ReqRoomTimeout, StopDrainTimeout, SpuriousWakeup, ReqRoomSpurious, ReqGetSpurious,
        ResTakeSpurious, places, reqVars, halVars, resVars
  <2> QED
    BY <2>1, PlacesStutter
<1>3. CASE UNCHANGED vars \/ Over
  <2>1. UNCHANGED places /\ UNCHANGED resStopped
    BY <1>3 DEF Over, vars, places, reqVars, halVars, resVars
  <2> QED
    BY <2>1, PlacesStutter
<1> QED
  BY <1>1, <1>2, <1>3, RequestThreadOwnership, HalDeliversOwnership, CallbackOwnership,
     ResultOwnership DEF Next, StopGoesOn

LEMMA OwnershipInit == Init => Abstract!Init
<1> SUFFICES ASSUME Init PROVE Abstract!Init
  OBVIOUS
<1>1. \A b \in Buffers : OwnerOf(b) = "pool"
  <2> TAKE b \in Buffers
  <2>1. HeldOnce(b)
    BY BufferInit DEF BufferInv
  <2>2. InPool(b)
    BY DEF Init, InPool, Buffers
  <2> QED
    BY <2>1, <2>2, OwnerNow
<1> QED
  BY <1>1 DEF Init, Abstract!Init, Abstract!Buffers, Buffers

\* The pipeline keeps the promise BufferOwnership states: seen from its owners
\* a buffer only ever goes round, requests are built, accepted and refused as a
\* whole, and nothing is lost before a stop begins - for any number of streams,
\* buffers and frames, with rejects, expired waits and spurious wakeups.
THEOREM OwnershipIsImplemented == SafetySpec => ImplementsOwnership
<1>1. OwnershipInv /\ [Next]_vars => OwnershipInv'
  BY OwnershipInvStep
<1>2. OwnershipInv /\ OwnershipInv' /\ [Next]_vars => [Abstract!Next]_Abstract!vars
  BY OwnershipStep
<1> QED
  BY OwnershipInvInit, OwnershipInit, <1>1, <1>2, PTL
  DEF SafetySpec, ImplementsOwnership, Abstract!Spec

-----------------------------------------------------------------------------
(* What every wait waits for.                                              *)

\* The vector is full as long as the request thread waits for room: what makes
\* room in it also ends the wait.
FullWhileWaiting == rq = "waitRoom" => Cardinality(pending) >= MaxLiving

\* The stop message is in the queue until the request thread takes it.
StopQueued ==
    stopper = "joinRequest" /\ rq \notin {"exited", "dead"}
        => \E i \in 1 .. Len(reqQ) : reqQ[i].stop

\* A result is dropped only after the result thread was told to stop.
NothingLostYet == ~resStopped => dropped = {}

WaitInv == PendInv /\ OwnershipInv /\ FullWhileWaiting /\ StopQueued /\ NothingLostYet

LEMMA FullWhileWaitingStep == PendInv /\ FullWhileWaiting /\ [Next]_vars => FullWhileWaiting'
<1> SUFFICES ASSUME PendInv, FullWhileWaiting, [Next]_vars PROVE FullWhileWaiting'
  OBVIOUS
<1>1. CASE ReqAdmit
  BY <1>1 DEF ReqAdmit, FullWhileWaiting, pendVars
<1>2. CASE CbAccount
  BY <1>2 DEF CbAccount, FullWhileWaiting
<1>3. CASE StopFinish
  <2>1. UNCHANGED rq /\ rq \in {"exited", "dead"}
    BY <1>3 DEF StopFinish, reqVars, PendInv, EndInv
  <2> QED BY <2>1 DEF FullWhileWaiting
<1>4. CASE ReqRegister \/ HalReject
  BY <1>4 DEF ReqRegister, HalReject, FullWhileWaiting
<1>5. CASE ReqStop \/ ReqChange \/ ReqCompose \/ ReqGetBuffer \/ HalAccept \/ ReqReturn \/ ReqSettle
  BY <1>5
  DEF ReqStop, ReqChange, ReqCompose, ReqGetBuffer, HalAccept, ReqReturn, ReqSettle, pendVars,
      FullWhileWaiting
<1>6. CASE CbEnqueue \/ CbEnqueueNull \/ CbAccountMissing \/ HalDelivers
  BY <1>6
  DEF CbEnqueue, CbEnqueueNull, CbAccountMissing, HalDelivers, HalResult, reqVars, pendVars,
      FullWhileWaiting
<1>7. CASE ResultThread \/ ClientPut \/ WaitsExpire \/ SpuriousWakeup
  BY <1>7
  DEF ResultThread, ResStop, ResTake, ResPost, ClientPut, WaitsExpire, ReqRoomTimeout,
      StopDrainTimeout, SpuriousWakeup, ReqRoomSpurious, ReqGetSpurious, ResTakeSpurious,
      reqVars, pendVars, FullWhileWaiting
<1>8. CASE Orders \/ StopRequestThread \/ StopResultThread \/ StopDrain
  BY <1>8
  DEF Orders, OrderCaptures, StopRequestThread, StopResultThread, StopDrain, reqVars, pendVars,
      FullWhileWaiting
<1>9. CASE UNCHANGED vars \/ Over
  BY <1>9 DEF Over, vars, reqVars, pendVars, FullWhileWaiting
<1> QED
  BY <1>1, <1>2, <1>3, <1>4, <1>5, <1>6, <1>7, <1>8, <1>9
  DEF Next, RequestThread, Callback, StopGoesOn

\* A message that is queued or taken leaves the stop message behind it.
LEMMA StopQueuedStep == TypeInv /\ StopQueued /\ [Next]_vars => StopQueued'
<1> SUFFICES ASSUME TypeInv, StopQueued, [Next]_vars PROVE StopQueued'
  OBVIOUS
<1>t. reqQ \in Seq(ReqMessage)
  BY DEF TypeInv, TypeOK, RequestTypeOK
<1>1. CASE ReqStop
  BY <1>1 DEF ReqStop, StopQueued
<1>2. CASE ReqChange
  <2>1. /\ Len(reqQ) \in Nat \ {0} /\ Len(reqQ') = Len(reqQ) - 1
        /\ \A i \in 1 .. Len(reqQ') : reqQ'[i] = reqQ[i + 1]
        /\ ~reqQ[1].stop /\ UNCHANGED <<rq, stopper>>
    BY <1>t, <1>2, HeadTailProperties, EmptySeq DEF ReqChange, stopVars
  <2>2. ASSUME NEW i \in 1 .. Len(reqQ), reqQ[i].stop
        PROVE  \E j \in 1 .. Len(reqQ') : reqQ'[j].stop
    <3>1. i - 1 \in 1 .. Len(reqQ') /\ (i - 1) + 1 = i
      <4>1. i # 1
        BY <2>1, <2>2
      <4> QED BY <2>1, <4>1
    <3> QED BY <2>1, <2>2, <3>1
  <2> QED BY <2>1, <2>2 DEF StopQueued
<1>3. CASE Orders
  <2> PICK s \in Streams, n \in 1 .. MaxOrders : OrderCaptures(s, n)
    BY <1>3 DEF Orders
  <2> QED BY DEF OrderCaptures, stopVars, StopQueued
<1>4. CASE StopRequestThread
  <2>1. /\ reqQ' = Append(reqQ, Stop) /\ Stop.stop
    BY <1>4 DEF StopRequestThread, Stop
  <2>2. Len(reqQ) + 1 \in 1 .. Len(reqQ') /\ reqQ'[Len(reqQ) + 1] = Stop
    BY <1>t, <2>1
  <2> QED BY <2>1, <2>2 DEF StopQueued
<1>5. CASE ReqCompose \/ ReqAdmit \/ ReqGetBuffer \/ ReqRegister \/ HalAccept \/ HalReject
           \/ ReqReturn \/ ReqSettle
  BY <1>5
  DEF ReqCompose, ReqAdmit, ReqGetBuffer, ReqRegister, HalAccept, HalReject, ReqReturn,
      ReqSettle, stopVars, StopQueued
<1>6. CASE Callback \/ HalDelivers
  BY <1>6
  DEF Callback, CbEnqueue, CbEnqueueNull, CbAccount, CbAccountMissing, HalDelivers, HalResult,
      reqVars, stopVars, StopQueued
<1>7. CASE ResultThread \/ ClientPut \/ WaitsExpire \/ SpuriousWakeup
  BY <1>7
  DEF ResultThread, ResStop, ResTake, ResPost, ClientPut, WaitsExpire, ReqRoomTimeout,
      StopDrainTimeout, SpuriousWakeup, ReqRoomSpurious, ReqGetSpurious, ResTakeSpurious,
      reqVars, stopVars, StopQueued
<1>8. CASE StopGoesOn
  BY <1>8 DEF StopGoesOn, StopResultThread, StopDrain, StopFinish, StopQueued
<1>9. CASE UNCHANGED vars \/ Over
  BY <1>9 DEF Over, vars, reqVars, stopVars, StopQueued
<1> QED
  BY <1>1, <1>2, <1>3, <1>4, <1>5, <1>6, <1>7, <1>8, <1>9 DEF Next, RequestThread

LEMMA NothingLostYetStep == NothingLostYet /\ [Next]_vars => NothingLostYet'
<1> SUFFICES ASSUME NothingLostYet, [Next]_vars PROVE NothingLostYet'
  OBVIOUS
<1>1. CASE CbEnqueue
  BY <1>1 DEF CbEnqueue, NothingLostYet
<1>2. CASE StopResultThread
  BY <1>2 DEF StopResultThread, NothingLostYet
<1>3. CASE RequestThread
  BY <1>3
  DEF RequestThread, ReqStop, ReqChange, ReqCompose, ReqAdmit, ReqGetBuffer, ReqRegister,
      HalAccept, HalReject, ReqReturn, ReqSettle, resVars, NothingLostYet
<1>4. CASE CbEnqueueNull \/ CbAccount \/ CbAccountMissing \/ HalDelivers
  BY <1>4
  DEF CbEnqueueNull, CbAccount, CbAccountMissing, HalDelivers, HalResult, resVars, NothingLostYet
<1>5. CASE ResultThread \/ ClientPut \/ Orders
  BY <1>5
  DEF ResultThread, ResStop, ResTake, ResPost, ClientPut, Orders, OrderCaptures, resVars,
      NothingLostYet
<1>6. CASE WaitsExpire \/ SpuriousWakeup
  BY <1>6
  DEF WaitsExpire, ReqRoomTimeout, StopDrainTimeout, SpuriousWakeup, ReqRoomSpurious,
      ReqGetSpurious, ResTakeSpurious, resVars, NothingLostYet
<1>7. CASE StopRequestThread \/ StopDrain \/ StopFinish
  BY <1>7 DEF StopRequestThread, StopDrain, StopFinish, resVars, NothingLostYet
<1>8. CASE UNCHANGED vars \/ Over
  BY <1>8 DEF Over, vars, resVars, NothingLostYet
<1> QED
  BY <1>1, <1>2, <1>3, <1>4, <1>5, <1>6, <1>7, <1>8 DEF Next, Callback, StopGoesOn

LEMMA WaitInvStep == ASSUME MetaParts = 1
                     PROVE  WaitInv /\ [Next]_vars => WaitInv'
<1>1. PendInv /\ [Next]_vars => PendInv'
  BY PendStep
<1> QED
  BY <1>1, OwnershipInvStep, FullWhileWaitingStep, StopQueuedStep, NothingLostYetStep
  DEF WaitInv, PendInv

\* An entry that is not being submitted is worked on.
LEMMA PendingIsWorkedOn ==
    ASSUME WaitInv, stopper # "done", rq # "submit", pending # {}
    PROVE  \E f \in Frames : Working(f)
<1> PICK f \in pending : TRUE
  OBVIOUS
<1>1. f \in Frames
  BY DEF WaitInv, PendInv, TypeInv, TypeOK, PendTypeOK
<1> QED BY <1>1 DEF WaitInv, PendInv, EntriesInv, Entry, Submitting

\* A buffer that the request thread cannot get is neither its own nor lost.
LEMMA MissingIsReturning ==
    ASSUME WaitInv, rq = "get", NEW s \in toGet, free[s] = {}, NEW b \in Pool[s]
    PROVE  Returning(b)
<1>t. RequestTypeOK /\ PoolTypeOK /\ ResultTypeOK
  BY DEF WaitInv, PendInv, TypeInv, TypeOK
<1>1. s \in Streams /\ b \in Buffers
  BY <1>t DEF RequestTypeOK, Buffers
<1>2. SomeHolder(b)
  BY <1>1 DEF WaitInv, OwnershipInv, BufferInv, HeldOnce
<1>3. ~InPool(b)
  <2>1. \A t \in Streams : t # s => b \notin free[t]
    BY <1>t, <1>1, ConstantsAssumption DEF PoolTypeOK
  <2> QED BY <1>1, <2>1 DEF InPool
<1>4. b \notin held
  BY DEF WaitInv, OwnershipInv, HeldByStream
<1>5. b \notin dropped
  BY DEF WaitInv, OwnershipInv, DrainInv, StopIsLast, PendInv, EndInv, NothingLostYet
<1> QED
  BY <1>2, <1>3, <1>4, <1>5, <1>t DEF SomeHolder, InPool, WithHal, InCallback, InQueue, Returning,
     ResultTypeOK

\* No thread waits for what nobody will bring, for any number of streams, buffers
\* and requests and in any interleaving, with requests that are rejected and
\* waits that expire or end by themselves: a request to be completed, a buffer
\* on its way, a stop message in its queue.  (A limit of 0 living requests, which
\* an uninitialised mLivingRequestExtAppend allows, is excluded: with it the
\* request thread waits for a request that was never sent.)
THEOREM NoWaitIsForNothing ==
    ASSUME MetaParts = 1, MaxLiving # 0
    PROVE  SafetySpec => []WaitsAreOwed
<1>1. Init => WaitInv
  BY PendInit, OwnershipInvInit DEF Init, WaitInv, FullWhileWaiting, StopQueued, NothingLostYet
<1>2. WaitInv /\ [Next]_vars => WaitInv'
  BY WaitInvStep
<1>3. WaitInv => WaitsAreOwed
  <2> SUFFICES ASSUME WaitInv PROVE WaitsAreOwed
    OBVIOUS
  <2>t. RequestTypeOK /\ PendTypeOK /\ ResultTypeOK /\ MaxLiving \in Nat
    BY ConstantsAssumption DEF WaitInv, PendInv, TypeInv, TypeOK
  <2>e. stopper \in {"joinResult", "drain", "done"} => rq \in {"exited", "dead"}
    BY DEF WaitInv, PendInv, EndInv
  <2>1. rq = "waitRoom" => \E f \in Frames : Working(f)
    <3> SUFFICES ASSUME rq = "waitRoom" PROVE \E f \in Frames : Working(f)
      OBVIOUS
    <3>1. Cardinality(pending) >= MaxLiving /\ Cardinality(pending) \in Nat
      BY <2>t, PendingSize DEF WaitInv, FullWhileWaiting
    <3>2. pending # {}
      BY <2>t, <3>1, FS_EmptySet
    <3> QED BY <2>e, <3>2, PendingIsWorkedOn
  <2>2. rq = "get" =>
          \A s \in toGet : NextToGet(s) /\ free[s] = {} /\ Pool[s] # {}
              => \E b \in Pool[s] : Returning(b)
    BY MissingIsReturning
  <2>3. stopper = "joinRequest" /\ rq \notin {"exited", "dead"}
          => \E i \in DOMAIN reqQ : reqQ[i].stop
    BY <2>t DEF RequestTypeOK, WaitInv, StopQueued
  <2>4. stopper = "joinResult" /\ rs # "exited" => \E i \in DOMAIN resQ : resQ[i].stop
    <3> SUFFICES ASSUME stopper = "joinResult", rs # "exited" PROVE \E i \in DOMAIN resQ : resQ[i].stop
      OBVIOUS
    <3>1. resQ # <<>> /\ resQ[Len(resQ)].stop
      BY DEF WaitInv, OwnershipInv, DrainInv, StopIsLast
    <3>2. Len(resQ) \in DOMAIN resQ
      BY <2>t, <3>1, EmptySeq DEF ResultTypeOK
    <3> QED BY <3>1, <3>2
  <2>5. stopper = "drain" /\ pending # {} => \E f \in Frames : Working(f)
    BY <2>e, PendingIsWorkedOn
  <2> QED BY <2>1, <2>2, <2>3, <2>4, <2>5 DEF WaitsAreOwed
<1> QED BY <1>1, <1>2, <1>3, PTL DEF SafetySpec
=============================================================================
