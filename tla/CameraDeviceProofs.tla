------------------------- MODULE CameraDeviceProofs -------------------------
(***************************************************************************)
(* Proofs about CameraDevice for every value of its constants.             *)
(***************************************************************************)
EXTENDS CameraDevice, FiniteSetTheorems, SequenceTheorems, TLAPS

\* What type correctness needs to know about the request thread's position: a
\* request is being built only for a frame within the bound, and all its
\* buffers are there once it is submitted.
ControlOK ==
    /\ rq \in {"admit", "waitRoom", "get", "submit", "return"} => frame \in Frames
    /\ rq \in {"submit", "return", "settle"} => toGet = {}

TypeInv == TypeOK /\ ControlOK

\* Any set of buffers is finite, so its size is a number.
LEMMA BuffersFinite ==
    ASSUME NEW S \in SUBSET Buffers
    PROVE  IsFiniteSet(S) /\ Cardinality(S) \in Nat
BY FS_Subset, FS_CardinalityType, ConstantsAssumption

\* Putting buffers back keeps every pool within the buffers it was given.
LEMMA PutAllType ==
    ASSUME PoolTypeOK, NEW bufs \in SUBSET Buffers
    PROVE  /\ PutAll(bufs) \in [Streams -> SUBSET Buffers]
           /\ \A s \in Streams : PutAll(bufs)[s] \subseteq Pool[s]
BY DEF PoolTypeOK, PutAll, Buffers

\* Every frame number is a natural number and its successor is within the bound.
LEMMA FramesType == Frames \subseteq Nat /\ \A f \in Frames : f + 1 \in 0 .. MaxFrames
BY ConstantsAssumption DEF Frames

\* What the type of a part of the state says, a step that leaves it alone keeps.
LEMMA TypeFrame ==
    ASSUME TypeInv
    PROVE  /\ UNCHANGED reqVars => RequestTypeOK'
           /\ UNCHANGED reqVars => ControlOK'
           /\ UNCHANGED free => PoolTypeOK'
           /\ UNCHANGED pendVars => PendTypeOK'
           /\ UNCHANGED halVars => HalTypeOK'
           /\ UNCHANGED cb => CallbackTypeOK'
           /\ UNCHANGED resVars => ResultTypeOK'
           /\ UNCHANGED stopVars => StopTypeOK'
           /\ UNCHANGED <<history, fault>> => HistoryTypeOK'
<1> USE DEF TypeInv, TypeOK
<1>1. UNCHANGED reqVars => RequestTypeOK'
  BY DEF RequestTypeOK, reqVars
<1>2. UNCHANGED reqVars => ControlOK'
  BY DEF ControlOK, reqVars
<1>3. UNCHANGED free => PoolTypeOK'
  BY DEF PoolTypeOK
<1>4. UNCHANGED pendVars => PendTypeOK'
  BY DEF PendTypeOK, pendVars
<1>5. UNCHANGED halVars => HalTypeOK'
  BY DEF HalTypeOK, halVars
<1>6. UNCHANGED cb => CallbackTypeOK'
  BY DEF CallbackTypeOK
<1>7. UNCHANGED resVars => ResultTypeOK'
  BY DEF ResultTypeOK, resVars
<1>8. UNCHANGED stopVars => StopTypeOK'
  BY DEF StopTypeOK, stopVars
<1>9. UNCHANGED <<history, fault>> => HistoryTypeOK'
  BY DEF HistoryTypeOK, history
<1> QED
  BY <1>1, <1>2, <1>3, <1>4, <1>5, <1>6, <1>7, <1>8, <1>9

LEMMA TypeInit == Init => TypeInv
<1> SUFFICES ASSUME Init PROVE TypeInv
  OBVIOUS
<1>1. RequestTypeOK
  BY ConstantsAssumption, EmptySeq DEF Init, RequestTypeOK
<1>2. PoolTypeOK
  BY DEF Init, PoolTypeOK, Buffers
<1>3. PendTypeOK
  BY DEF Init, PendTypeOK
<1>4. HalTypeOK
  BY ConstantsAssumption DEF Init, HalTypeOK
<1>5. CallbackTypeOK
  BY ConstantsAssumption DEF Init, CallbackTypeOK, IdleCallback
<1>6. ResultTypeOK
  BY EmptySeq DEF Init, ResultTypeOK
<1>7. StopTypeOK
  BY ConstantsAssumption DEF Init, StopTypeOK
<1>8. HistoryTypeOK
  BY DEF Init, HistoryTypeOK
<1>9. ControlOK
  BY DEF Init, ControlOK
<1> QED
  BY <1>1, <1>2, <1>3, <1>4, <1>5, <1>6, <1>7, <1>8, <1>9 DEF TypeInv, TypeOK

\* Every step of the request thread keeps the types.
LEMMA RequestThreadType == TypeInv /\ RequestThread => TypeInv'
<1> SUFFICES ASSUME TypeInv, RequestThread PROVE TypeInv'
  OBVIOUS
<1>1. CASE ReqStop
  <2>1. RequestTypeOK' /\ ControlOK'
    BY <1>1, HeadTailProperties
    DEF ReqStop, TypeInv, TypeOK, RequestTypeOK, ControlOK, ReqMessage
  <2> QED
    BY <1>1, <2>1, TypeFrame DEF ReqStop, TypeInv, TypeOK
<1>2. CASE ReqChange
  <2>1. Head(reqQ) \in ReqMessage /\ Tail(reqQ) \in Seq(ReqMessage)
    BY <1>2, HeadTailProperties DEF ReqChange, TypeInv, TypeOK, RequestTypeOK
  <2>2. Head(reqQ).delta \in [Streams -> Nat]
    BY <2>1 DEF ReqMessage
  <2>3. \A old \in Nat \cup {Unlimited}, n \in Nat : NewNumber(old, n) \in Nat \cup {Unlimited}
    BY DEF NewNumber, Unlimited
  <2>4. number' \in [Streams -> Nat \cup {Unlimited}]
    BY <1>2, <2>2, <2>3 DEF ReqChange, TypeInv, TypeOK, RequestTypeOK
  <2>5. RequestTypeOK' /\ ControlOK'
    BY <1>2, <2>1, <2>4 DEF ReqChange, TypeInv, TypeOK, RequestTypeOK, ControlOK
  <2> QED
    BY <1>2, <2>5, TypeFrame DEF ReqChange, TypeInv, TypeOK
<1>3. CASE ReqCompose
  <2>1. RequestTypeOK' /\ ControlOK'
    BY <1>3, ConstantsAssumption
    DEF ReqCompose, TypeInv, TypeOK, RequestTypeOK, ControlOK, Frames
  <2> QED
    BY <1>3, <2>1, TypeFrame DEF ReqCompose, TypeInv, TypeOK
<1>4. CASE ReqAdmit
  <2>1. RequestTypeOK' /\ ControlOK'
    BY <1>4
    DEF ReqAdmit, TypeInv, TypeOK, RequestTypeOK, ControlOK
  <2> QED
    BY <1>4, <2>1, TypeFrame DEF ReqAdmit, TypeInv, TypeOK
<1>5. CASE ReqGetBuffer
  <2>1. RequestTypeOK' /\ ControlOK'
    BY <1>5
    DEF ReqGetBuffer, TypeInv, TypeOK, RequestTypeOK, ControlOK, PoolTypeOK
  <2>2. PoolTypeOK'
    BY <1>5
    DEF ReqGetBuffer, TypeInv, TypeOK, PoolTypeOK
  <2> QED
    BY <1>5, <2>1, <2>2, TypeFrame DEF ReqGetBuffer, TypeInv, TypeOK
<1>6. CASE ReqRegister
  <2>1. RequestTypeOK' /\ ControlOK'
    BY <1>6
    DEF ReqRegister, TypeInv, TypeOK, RequestTypeOK, ControlOK
  <2>2. PendTypeOK'
    BY <1>6, BuffersFinite
    DEF ReqRegister, TypeInv, TypeOK, PendTypeOK, RequestTypeOK, ControlOK
  <2> QED
    BY <1>6, <2>1, <2>2, TypeFrame DEF ReqRegister, TypeInv, TypeOK
<1>7. CASE HalAccept
  <2>1. RequestTypeOK' /\ ControlOK'
    BY <1>7
    DEF HalAccept, TypeInv, TypeOK, RequestTypeOK, ControlOK
  <2>2. HalTypeOK'
    <3>1. held \in SUBSET Buffers /\ MetaParts \in 0 .. MetaParts
      BY ConstantsAssumption DEF TypeInv, TypeOK, RequestTypeOK
    <3> QED
      BY <1>7, <3>1 DEF HalAccept, TypeInv, TypeOK, HalTypeOK
  <2>3. HistoryTypeOK'
    BY <1>7
    DEF HalAccept, TypeInv, TypeOK, HistoryTypeOK
  <2> QED
    BY <1>7, <2>1, <2>2, <2>3, TypeFrame DEF HalAccept, TypeInv, TypeOK
<1>8. CASE HalReject
  <2>1. RequestTypeOK' /\ ControlOK'
    BY <1>8
    DEF HalReject, TypeInv, TypeOK, RequestTypeOK, ControlOK
  <2>2. PoolTypeOK'
    BY <1>8, PutAllType
    DEF HalReject, TypeInv, TypeOK, PoolTypeOK, RequestTypeOK
  <2>3. PendTypeOK'
    BY <1>8
    DEF HalReject, TypeInv, TypeOK, PendTypeOK
  <2> QED
    BY <1>8, <2>1, <2>2, <2>3, TypeFrame DEF HalReject, TypeInv, TypeOK
<1>9. CASE ReqReturn
  <2>1. RequestTypeOK' /\ ControlOK'
    BY <1>9, FramesType
    DEF ReqReturn, TypeInv, TypeOK, RequestTypeOK, ControlOK
  <2>2. HistoryTypeOK'
    BY <1>9
    DEF ReqReturn, TypeInv, TypeOK, HistoryTypeOK
  <2> QED
    BY <1>9, <2>1, <2>2, TypeFrame DEF ReqReturn, TypeInv, TypeOK
<1>10. CASE ReqSettle
  <2>1. RequestTypeOK' /\ ControlOK'
    BY <1>10, ConstantsAssumption
    DEF ReqSettle, TypeInv, TypeOK, RequestTypeOK, ControlOK, Unlimited
  <2> QED
    BY <1>10, <2>1, TypeFrame DEF ReqSettle, TypeInv, TypeOK
<1> QED
  BY <1>1, <1>2, <1>3, <1>4, <1>5, <1>6, <1>7, <1>8, <1>9, <1>10 DEF RequestThread

\* So does a wait that expires,
LEMMA WaitsExpireType == TypeInv /\ WaitsExpire => TypeInv'
<1> SUFFICES ASSUME TypeInv, WaitsExpire PROVE TypeInv'
  OBVIOUS
<1>1. CASE ReqRoomTimeout
  <2>1. RequestTypeOK' /\ ControlOK'
    BY <1>1
    DEF ReqRoomTimeout, TypeInv, TypeOK, RequestTypeOK, ControlOK
  <2> QED
    BY <1>1, <2>1, TypeFrame DEF ReqRoomTimeout, TypeInv, TypeOK
<1>2. CASE StopDrainTimeout
  <2>1. StopTypeOK'
    BY <1>2, ConstantsAssumption
    DEF StopDrainTimeout, TypeInv, TypeOK, StopTypeOK
  <2> QED
    BY <1>2, <2>1, TypeFrame DEF StopDrainTimeout, TypeInv, TypeOK
<1> QED
  BY <1>1, <1>2 DEF WaitsExpire

\* a wait that returns without a signal,
LEMMA SpuriousWakeupType == TypeInv /\ SpuriousWakeup => TypeInv'
<1> SUFFICES ASSUME TypeInv, SpuriousWakeup PROVE TypeInv'
  OBVIOUS
<1>1. CASE ReqRoomSpurious
  <2>1. RequestTypeOK' /\ ControlOK'
    BY <1>1
    DEF ReqRoomSpurious, TypeInv, TypeOK, RequestTypeOK, ControlOK
  <2> QED
    BY <1>1, <2>1, TypeFrame DEF ReqRoomSpurious, TypeInv, TypeOK
<1>2. CASE ReqGetSpurious
  <2>1. HistoryTypeOK'
    BY <1>2
    DEF ReqGetSpurious, TypeInv, TypeOK, HistoryTypeOK, history
  <2> QED
    BY <1>2, <2>1, TypeFrame DEF ReqGetSpurious, TypeInv, TypeOK
<1>3. CASE ResTakeSpurious
  <2>1. HistoryTypeOK'
    BY <1>3
    DEF ResTakeSpurious, TypeInv, TypeOK, HistoryTypeOK, history
  <2> QED
    BY <1>3, <2>1, TypeFrame DEF ResTakeSpurious, TypeInv, TypeOK
<1> QED
  BY <1>1, <1>2, <1>3 DEF SpuriousWakeup

\* a step of the callback,
LEMMA CallbackType == TypeInv /\ Callback => TypeInv'
<1> SUFFICES ASSUME TypeInv, Callback PROVE TypeInv'
  OBVIOUS
<1>1. CASE CbEnqueue
  <2>1. CallbackTypeOK'
    BY <1>1
    DEF CbEnqueue, TypeInv, TypeOK, CallbackTypeOK
  <2>2. cb.bufs \in SUBSET Buffers
    BY DEF TypeInv, TypeOK, CallbackTypeOK
  <2>3. [stop |-> FALSE, bufs |-> cb.bufs] \in ResMessage
    BY <2>2 DEF ResMessage
  <2>4. resQ' \in Seq(ResMessage)
    BY <1>1, <2>3 DEF CbEnqueue, TypeInv, TypeOK, ResultTypeOK
  <2>5. dropped' \in SUBSET Buffers
    BY <1>1, <2>2 DEF CbEnqueue, TypeInv, TypeOK, ResultTypeOK
  <2>6. ResultTypeOK'
    BY <1>1, <2>4, <2>5 DEF CbEnqueue, TypeInv, TypeOK, ResultTypeOK
  <2> QED
    BY <1>1, <2>1, <2>6, TypeFrame DEF CbEnqueue, TypeInv, TypeOK
<1>2. CASE CbEnqueueNull
  <2>1. HistoryTypeOK'
    BY <1>2
    DEF CbEnqueueNull, TypeInv, TypeOK, HistoryTypeOK, history
  <2> QED
    BY <1>2, <2>1, TypeFrame DEF CbEnqueueNull, TypeInv, TypeOK
<1>3. CASE CbAccount
  <2>1. RequestTypeOK' /\ ControlOK'
    BY <1>3
    DEF CbAccount, TypeInv, TypeOK, RequestTypeOK, ControlOK
  <2>2. PendTypeOK'
    BY <1>3, BuffersFinite, ConstantsAssumption
    DEF CbAccount, TypeInv, TypeOK, CallbackTypeOK, PendTypeOK
  <2>3. CallbackTypeOK'
    BY <1>3, ConstantsAssumption
    DEF CbAccount, TypeInv, TypeOK, CallbackTypeOK, IdleCallback
  <2> QED
    BY <1>3, <2>1, <2>2, <2>3, TypeFrame DEF CbAccount, TypeInv, TypeOK
<1>4. CASE CbAccountMissing
  <2>1. HistoryTypeOK'
    BY <1>4
    DEF CbAccountMissing, TypeInv, TypeOK, HistoryTypeOK, history
  <2> QED
    BY <1>4, <2>1, TypeFrame DEF CbAccountMissing, TypeInv, TypeOK
<1> QED
  BY <1>1, <1>2, <1>3, <1>4 DEF Callback

\* a step of the result thread,
LEMMA ResultThreadType == TypeInv /\ ResultThread => TypeInv'
<1> SUFFICES ASSUME TypeInv, ResultThread PROVE TypeInv'
  OBVIOUS
<1>1. CASE ResStop
  <2>1. ResultTypeOK'
    BY <1>1, HeadTailProperties
    DEF ResStop, TypeInv, TypeOK, ResultTypeOK, ResMessage
  <2> QED
    BY <1>1, <2>1, TypeFrame DEF ResStop, TypeInv, TypeOK
<1>2. CASE ResTake
  <2>1. Head(resQ) \in ResMessage /\ Tail(resQ) \in Seq(ResMessage)
    BY <1>2, HeadTailProperties DEF ResTake, TypeInv, TypeOK, ResultTypeOK
  <2>2. Head(resQ).bufs \in SUBSET Buffers
    BY <2>1 DEF ResMessage
  <2>3. ResultTypeOK'
    BY <1>2, <2>1, <2>2 DEF ResTake, TypeInv, TypeOK, ResultTypeOK
  <2> QED
    BY <1>2, <2>3, TypeFrame DEF ResTake, TypeInv, TypeOK
<1>3. CASE ResPost
  <2>1. ResultTypeOK'
    BY <1>3
    DEF ResPost, TypeInv, TypeOK, ResultTypeOK
  <2>2. PoolTypeOK'
    BY <1>3, PutAllType
    DEF ResPost, TypeInv, TypeOK, ResultTypeOK, PoolTypeOK
  <2> QED
    BY <1>3, <2>1, <2>2, TypeFrame DEF ResPost, TypeInv, TypeOK
<1> QED
  BY <1>1, <1>2, <1>3 DEF ResultThread

\* and a step of stopStreams.
LEMMA StopType == TypeInv /\ (StopRequestThread \/ StopGoesOn) => TypeInv'
<1> SUFFICES ASSUME TypeInv, (StopRequestThread \/ StopGoesOn) PROVE TypeInv'
  OBVIOUS
<1>1. CASE StopRequestThread
  <2>1. RequestTypeOK' /\ ControlOK'
    BY <1>1
    DEF StopRequestThread, TypeInv, TypeOK, RequestTypeOK, ControlOK, ReqMessage, Stop
  <2>2. StopTypeOK'
    BY <1>1
    DEF StopRequestThread, TypeInv, TypeOK, StopTypeOK
  <2> QED
    BY <1>1, <2>1, <2>2, TypeFrame DEF StopRequestThread, TypeInv, TypeOK
<1>2. CASE StopResultThread
  <2>1. ResultTypeOK'
    BY <1>2
    DEF StopResultThread, TypeInv, TypeOK, ResultTypeOK, ResMessage
  <2>2. StopTypeOK'
    BY <1>2
    DEF StopResultThread, TypeInv, TypeOK, StopTypeOK
  <2> QED
    BY <1>2, <2>1, <2>2, TypeFrame DEF StopResultThread, TypeInv, TypeOK
<1>3. CASE StopDrain
  <2>1. StopTypeOK'
    BY <1>3
    DEF StopDrain, TypeInv, TypeOK, StopTypeOK
  <2> QED
    BY <1>3, <2>1, TypeFrame DEF StopDrain, TypeInv, TypeOK
<1>4. CASE StopFinish
  <2>1. PendTypeOK'
    BY <1>4
    DEF StopFinish, TypeInv, TypeOK, PendTypeOK
  <2>2. StopTypeOK'
    BY <1>4
    DEF StopFinish, TypeInv, TypeOK, StopTypeOK
  <2> QED
    BY <1>4, <2>1, <2>2, TypeFrame DEF StopFinish, TypeInv, TypeOK
<1> QED
  BY <1>1, <1>2, <1>3, <1>4 DEF StopGoesOn

\* A delivery of the HAL keeps the types.
LEMMA HalDeliversType == TypeInv /\ HalDelivers => TypeInv'
<1> SUFFICES ASSUME TypeInv, NEW f \in Frames, HalResult(f) PROVE TypeInv'
  BY DEF HalDelivers
<1> PICK bufs \in SUBSET halBufs[f], m \in 0 .. 1 :
       /\ m <= halMeta[f] /\ (bufs # {} \/ m = 1)
       /\ halBufs' = [halBufs EXCEPT ![f] = @ \ bufs]
       /\ halMeta' = [halMeta EXCEPT ![f] = @ - m]
       /\ cb' = [at |-> IF bufs = {} THEN "account" ELSE "enqueue", frame |-> f,
                 bufs |-> bufs, part |-> m * (MetaParts + 1 - halMeta[f])]
  BY DEF HalResult
<1> USE ConstantsAssumption DEF TypeInv, TypeOK, HalTypeOK
<1>1. halMeta[f] \in 0 .. MetaParts /\ halBufs[f] \in SUBSET Buffers
  OBVIOUS
<1>2. halMeta[f] - m \in 0 .. MetaParts
  BY <1>1
<1>3. HalTypeOK'
  BY <1>1, <1>2
<1>4. m * (MetaParts + 1 - halMeta[f]) \in 0 .. MetaParts
  <2>1. CASE m = 0
    BY <2>1, <1>1
  <2>2. CASE m = 1
    BY <2>2, <1>1
  <2> QED
    BY <2>1, <2>2
<1>5. CallbackTypeOK'
  BY <1>1, <1>4, FramesType DEF CallbackTypeOK
<1> QED
  BY <1>3, <1>5, TypeFrame DEF HalResult

\* The owner of the callback keeps the types.
LEMMA ClientPutType == TypeInv /\ ClientPut => TypeInv'
<1> SUFFICES ASSUME TypeInv, ClientPut PROVE TypeInv'
  OBVIOUS
<1>1. ResultTypeOK'
  BY DEF ClientPut, TypeInv, TypeOK, ResultTypeOK
<1>2. PoolTypeOK'
  <2> PICK b \in client : free' = PutAll({b})
    BY DEF ClientPut
  <2>1. {b} \in SUBSET Buffers
    BY DEF TypeInv, TypeOK, ResultTypeOK
  <2> QED
    BY <2>1, PutAllType DEF TypeInv, TypeOK, PoolTypeOK
<1> QED
  BY <1>1, <1>2, TypeFrame DEF ClientPut, TypeInv, TypeOK

\* The application's orders keep the types.
LEMMA OrdersType == TypeInv /\ Orders => TypeInv'
<1> SUFFICES ASSUME TypeInv, NEW s \in Streams, NEW n \in 1 .. MaxOrders,
                    OrderCaptures(s, n)
             PROVE  TypeInv'
  BY DEF Orders
<1>1. n \in Nat
  BY ConstantsAssumption
<1>2. RequestTypeOK' /\ ControlOK'
  BY <1>1 DEF OrderCaptures, TypeInv, TypeOK, RequestTypeOK, ControlOK, ReqMessage, Change
<1>3. HistoryTypeOK'
  BY <1>1 DEF OrderCaptures, TypeInv, TypeOK, HistoryTypeOK
<1> QED
  BY <1>2, <1>3, TypeFrame DEF OrderCaptures, TypeInv, TypeOK

LEMMA TypeStep == TypeInv /\ [Next]_vars => TypeInv'
<1> SUFFICES ASSUME TypeInv, [Next]_vars PROVE TypeInv'
  OBVIOUS
<1>1. CASE UNCHANGED vars
  BY <1>1, TypeFrame DEF vars, TypeInv, TypeOK
<1>2. CASE Over
  BY <1>2, TypeFrame DEF Over, vars, TypeInv, TypeOK
<1>3. CASE /\ fault = "none"
           /\ \/ RequestThread \/ Callback \/ HalDelivers \/ ResultThread \/ WaitsExpire
              \/ SpuriousWakeup \/ ClientPut \/ Orders \/ StopRequestThread \/ StopGoesOn
  BY <1>3, RequestThreadType, CallbackType, HalDeliversType, ResultThreadType,
     WaitsExpireType, SpuriousWakeupType, ClientPutType, OrdersType, StopType
<1> QED
  BY <1>1, <1>2, <1>3 DEF Next

\* Every variable of the pipeline keeps its type, whatever the interleaving of
\* the threads, the HAL's answers and the waits that expire or end by themselves.
THEOREM TypeCorrect == SafetySpec => []TypeOK
<1>1. TypeInv => TypeOK
  BY DEF TypeInv
<1> QED
  BY TypeInit, TypeStep, <1>1, PTL DEF SafetySpec

-----------------------------------------------------------------------------
(* The bound on the requests in flight.                                    *)

\* A request thread that passed the test of ProcessOneCaptureRequest finds room
\* for its request although the test and the entry are two critical sections:
\* only this thread adds entries.
RoomInv ==
    /\ LivingRequestsBounded
    /\ rq = "get" => Cardinality(pending) < MaxLiving

LivingInv == TypeInv /\ RoomInv

\* The size of mPendingVector is a number, one more at most after an entry was
\* added and one less after one was removed.
LEMMA PendingSize ==
    ASSUME PendTypeOK, NEW f
    PROVE  /\ Cardinality(pending) \in Nat
           /\ Cardinality(pending \ {f}) \in Nat
           /\ Cardinality(pending \cup {f}) \in Nat
           /\ Cardinality(pending \cup {f}) <= Cardinality(pending) + 1
           /\ f \in pending => Cardinality(pending \ {f}) = Cardinality(pending) - 1
           /\ Cardinality(pending \ {f}) <= Cardinality(pending)
<1>1. IsFiniteSet(Frames)
  BY FS_Interval, ConstantsAssumption DEF Frames
<1>2. IsFiniteSet(pending)
  BY <1>1, FS_Subset DEF PendTypeOK
<1>3. IsFiniteSet(pending \ {f}) /\ IsFiniteSet(pending \cup {f})
  BY <1>2, FS_AddElement, FS_RemoveElement
<1>4. /\ Cardinality(pending) \in Nat /\ Cardinality(pending \ {f}) \in Nat
      /\ Cardinality(pending \cup {f}) \in Nat
  BY <1>2, <1>3, FS_CardinalityType
<1>5. /\ f \in pending => Cardinality(pending \ {f}) = Cardinality(pending) - 1
      /\ f \notin pending => Cardinality(pending \ {f}) = Cardinality(pending)
  BY <1>2, FS_RemoveElement
<1>6. /\ f \in pending => Cardinality(pending \cup {f}) = Cardinality(pending)
      /\ f \notin pending => Cardinality(pending \cup {f}) = Cardinality(pending) + 1
  BY <1>2, FS_AddElement
<1> QED
  BY <1>4, <1>5, <1>6

LEMMA LivingInit == Init => LivingInv
<1> SUFFICES ASSUME Init PROVE RoomInv
  BY TypeInit DEF LivingInv
<1>1. Cardinality(pending) = 0
  BY FS_EmptySet DEF Init
<1> QED
  BY <1>1, ConstantsAssumption DEF Init, RoomInv, LivingRequestsBounded

\* The steps that change neither mPendingVector nor bring the request thread
\* behind its test keep the bound.
LEMMA RoomFrame ==
    ASSUME LivingInv, UNCHANGED pending, rq' = rq \/ rq' # "get"
    PROVE  RoomInv'
BY DEF LivingInv, RoomInv, LivingRequestsBounded

LEMMA LivingStep == ASSUME Spurious = FALSE
                    PROVE  LivingInv /\ [Next]_vars => LivingInv'
<1> SUFFICES ASSUME LivingInv, [Next]_vars PROVE RoomInv'
  BY TypeStep DEF LivingInv
<1>t. PendTypeOK /\ MaxLiving \in Nat
  BY ConstantsAssumption DEF LivingInv, TypeInv, TypeOK
<1>1. CASE UNCHANGED vars \/ Over
  BY <1>1, RoomFrame DEF Over, vars, reqVars, pendVars
<1>2. CASE ReqAdmit
  <2>1. UNCHANGED pending
    BY <1>2 DEF ReqAdmit, pendVars
  <2>2. Cardinality(pending) \in Nat
    BY <1>t, PendingSize
  <2> QED
    BY <1>2, <2>1, <2>2, <1>t DEF ReqAdmit, LivingInv, RoomInv, LivingRequestsBounded
<1>3. CASE ReqRegister
  <2>1. Cardinality(pending \cup {frame}) <= Cardinality(pending) + 1
    BY <1>t, PendingSize
  <2>2. Cardinality(pending) < MaxLiving
    BY <1>3 DEF ReqRegister, LivingInv, RoomInv
  <2>3. Cardinality(pending) \in Nat /\ Cardinality(pending \cup {frame}) \in Nat
    BY <1>t, PendingSize
  <2>4. Cardinality(pending \cup {frame}) <= MaxLiving
    BY <2>1, <2>2, <2>3, <1>t
  <2> QED
    BY <1>3, <2>4 DEF ReqRegister, RoomInv, LivingRequestsBounded
<1>4. CASE HalReject
  <2>1. Cardinality(pending \ {frame}) <= Cardinality(pending)
    BY <1>t, PendingSize
  <2>2. Cardinality(pending) \in Nat /\ Cardinality(pending \ {frame}) \in Nat
    BY <1>t, PendingSize
  <2> QED
    BY <1>4, <2>1, <2>2, <1>t DEF HalReject, LivingInv, RoomInv, LivingRequestsBounded
<1>5. CASE CbAccount
  <2>1. /\ Cardinality(pending) \in Nat
        /\ Cardinality(pending \ {cb.frame}) = Cardinality(pending) - 1
    BY <1>5, <1>t, PendingSize DEF CbAccount
  <2>2. CASE CbCompletes
    BY <1>5, <1>t, <2>1, <2>2 DEF CbAccount, LivingInv, RoomInv, LivingRequestsBounded
  <2>3. CASE ~CbCompletes
    BY <1>5, <2>3, RoomFrame DEF CbAccount
  <2> QED
    BY <2>2, <2>3
<1>6. CASE StopFinish
  <2>1. Cardinality(pending') = 0
    BY <1>6, FS_EmptySet DEF StopFinish
  <2>2. Cardinality(pending) \in Nat /\ UNCHANGED rq
    BY <1>6, <1>t, PendingSize DEF StopFinish, reqVars
  <2> QED
    BY <2>1, <2>2, <1>t DEF LivingInv, RoomInv, LivingRequestsBounded
<1>7. CASE ReqStop \/ ReqChange \/ ReqCompose \/ ReqGetBuffer \/ HalAccept \/ ReqReturn
           \/ ReqSettle
  BY <1>7, RoomFrame
  DEF ReqStop, ReqChange, ReqCompose, ReqGetBuffer, HalAccept, ReqReturn, ReqSettle, pendVars
<1>8. CASE CbEnqueue \/ CbEnqueueNull \/ CbAccountMissing \/ HalDelivers
  BY <1>8, RoomFrame
  DEF CbEnqueue, CbEnqueueNull, CbAccountMissing, HalDelivers, HalResult, reqVars, pendVars
<1>9. CASE ResultThread \/ WaitsExpire \/ ClientPut
  BY <1>9, RoomFrame
  DEF ResultThread, ResStop, ResTake, ResPost, WaitsExpire, ReqRoomTimeout, StopDrainTimeout,
      ClientPut, reqVars, pendVars
<1>10. CASE SpuriousWakeup
  BY <1>10 DEF SpuriousWakeup, ReqRoomSpurious, ReqGetSpurious, ResTakeSpurious
<1>11. CASE Orders \/ StopRequestThread \/ StopResultThread \/ StopDrain
  BY <1>11, RoomFrame
  DEF Orders, OrderCaptures, StopRequestThread, StopResultThread, StopDrain, reqVars, pendVars
<1> QED
  BY <1>1, <1>2, <1>3, <1>4, <1>5, <1>6, <1>7, <1>8, <1>9, <1>10, <1>11
  DEF Next, RequestThread, Callback, StopGoesOn

\* As long as a wait on mPendingCond only ends by a signal or its timeout,
\* mPendingVector never has more than CAMX_LIVING_REQUEST_MAX entries, although
\* ProcessOneCaptureRequest reads its size in one critical section and adds the
\* entry in another, and does not read it again after the wait.
THEOREM LivingRequestsAreBounded ==
    ASSUME Spurious = FALSE
    PROVE  SafetySpec => []LivingRequestsBounded
<1>1. LivingInv => LivingRequestsBounded
  BY DEF LivingInv, RoomInv
<1>2. LivingInv /\ [Next]_vars => LivingInv'
  BY LivingStep
<1> QED
  BY LivingInit, <1>1, <1>2, PTL DEF SafetySpec

-----------------------------------------------------------------------------
(* The result queue is drained.                                            *)

\* The stop message is the last one of the queue until the result thread takes
\* it; the callback queues nothing once the stopped flag is set.
StopIsLast ==
    /\ resStopped <=> stopper \in {"joinResult", "drain", "done"}
    /\ rs = "exited" => resStopped
    /\ rs # "exited" /\ resStopped => resQ # <<>> /\ resQ[Len(resQ)].stop
    /\ ~resStopped => \A i \in 1 .. Len(resQ) : ~resQ[i].stop
    /\ \A i \in 1 .. Len(resQ) : resQ[i].stop => i = Len(resQ)

DrainInv == TypeInv /\ StopIsLast /\ ResultQueueDrained

LEMMA DrainInit == Init => DrainInv
BY TypeInit DEF Init, DrainInv, StopIsLast, ResultQueueDrained

\* What the property is about changes only with the queue, the flag, the result
\* thread and stopStreams.
LEMMA DrainFrame ==
    ASSUME DrainInv, UNCHANGED <<resQ, resStopped, rs, stopper>>
    PROVE  StopIsLast' /\ ResultQueueDrained'
BY DEF DrainInv, StopIsLast, ResultQueueDrained

LEMMA DrainStep == DrainInv /\ [Next]_vars => DrainInv'
<1> SUFFICES ASSUME DrainInv, [Next]_vars PROVE StopIsLast' /\ ResultQueueDrained'
  BY TypeStep DEF DrainInv
<1>q. resQ \in Seq(ResMessage)
  BY DEF DrainInv, TypeInv, TypeOK, ResultTypeOK
<1>1. CASE UNCHANGED vars \/ Over
  BY <1>1, DrainFrame DEF Over, vars, resVars, stopVars
<1>2. CASE CbEnqueue
  <2>1. CASE resStopped
    BY <1>2, <2>1, DrainFrame DEF CbEnqueue, stopVars
  <2>2. CASE ~resStopped
    <3> DEFINE msg == [stop |-> FALSE, bufs |-> cb.bufs]
    <3>1. resQ' = Append(resQ, msg) /\ UNCHANGED <<resStopped, rs, stopper>>
      BY <1>2, <2>2 DEF CbEnqueue, stopVars
    <3>2. \A i \in 1 .. Len(resQ') : ~resQ'[i].stop
      BY <3>1, <2>2, <1>q DEF DrainInv, StopIsLast
    <3> QED
      BY <3>1, <3>2, <2>2 DEF DrainInv, StopIsLast, ResultQueueDrained
  <2> QED
    BY <2>1, <2>2
<1>3. CASE ResStop
  <2>1. Len(resQ) = 1 /\ resQ' = <<>>
    <3>1. resQ # <<>> /\ Head(resQ).stop /\ resQ' = Tail(resQ)
      BY <1>3 DEF ResStop
    <3>2. Len(resQ) \in Nat \ {0} /\ Head(resQ) = resQ[1]
      BY <3>1, <1>q, EmptySeq
    <3>3. 1 = Len(resQ)
      BY <3>1, <3>2 DEF DrainInv, StopIsLast
    <3>4. Tail(resQ) \in Seq(ResMessage) /\ Len(Tail(resQ)) = 0
      BY <3>1, <3>3, <1>q, HeadTailProperties
    <3> QED
      BY <3>1, <3>3, <3>4, EmptySeq
  <2>2. resStopped
    BY <1>3, <1>q, <2>1 DEF ResStop, DrainInv, StopIsLast
  <2> QED
    BY SMTT(30), <1>3, <2>1, <2>2 DEF ResStop, DrainInv, StopIsLast, ResultQueueDrained, stopVars
<1>4. CASE ResTake
  <2>1. /\ resQ # <<>> /\ ~resQ[1].stop /\ resQ' = Tail(resQ)
        /\ rs = "take" /\ rs' = "post" /\ UNCHANGED <<resStopped, stopper>>
    BY <1>4 DEF ResTake, stopVars
  <2>2. Len(resQ') = Len(resQ) - 1 /\ \A i \in 1 .. Len(resQ') : resQ'[i] = resQ[i + 1]
    BY <2>1, <1>q, HeadTailProperties
  <2>i. Len(resQ) \in Nat \ {0} /\ \A i \in 1 .. Len(resQ') : i + 1 \in 1 .. Len(resQ)
    BY <2>1, <2>2, <1>q, EmptySeq
  <2>3. \A i \in 1 .. Len(resQ') : resQ'[i].stop => i = Len(resQ')
    <3> SUFFICES ASSUME NEW i \in 1 .. Len(resQ'), resQ'[i].stop PROVE i = Len(resQ')
      OBVIOUS
    <3>1. resQ[i + 1].stop /\ i + 1 \in 1 .. Len(resQ)
      BY <2>2, <2>i
    <3>2. i + 1 = Len(resQ)
      BY <3>1 DEF DrainInv, StopIsLast
    <3> QED
      BY <3>2, <2>2, <2>i
  <2>4. ~resStopped' => \A i \in 1 .. Len(resQ') : ~resQ'[i].stop
    BY <2>1, <2>2, <2>i DEF DrainInv, StopIsLast
  <2>5. resStopped' => resQ' # <<>> /\ resQ'[Len(resQ')].stop
    <3> SUFFICES ASSUME resStopped PROVE resQ' # <<>> /\ resQ'[Len(resQ')].stop
      BY <2>1
    <3>1. resQ[Len(resQ)].stop
      BY <2>1 DEF DrainInv, StopIsLast
    <3>2. Len(resQ) # 1
      BY <2>1, <3>1
    <3>3. Len(resQ') \in 1 .. Len(resQ') /\ resQ'[Len(resQ')] = resQ[Len(resQ)]
      BY <3>2, <2>2, <2>i
    <3>4. resQ' # <<>>
      BY <3>3, EmptySeq
    <3> QED
      BY <3>1, <3>3, <3>4
  <2> QED
    BY <2>1, <2>3, <2>4, <2>5 DEF DrainInv, StopIsLast, ResultQueueDrained
<1>5. CASE ResPost
  BY <1>5 DEF ResPost, DrainInv, StopIsLast, ResultQueueDrained, stopVars
<1>6. CASE StopResultThread
  <2> DEFINE msg == [stop |-> TRUE, bufs |-> {}]
  <2>1. /\ resQ' = Append(resQ, msg) /\ resStopped' = TRUE /\ stopper' = "joinResult"
        /\ stopper = "joinRequest" /\ UNCHANGED rs
    BY <1>6 DEF StopResultThread
  <2>2. ~resStopped /\ rs # "exited"
    BY <2>1 DEF DrainInv, StopIsLast
  <2>3. resQ' # <<>> /\ resQ'[Len(resQ')].stop
    BY <2>1, <1>q
  <2>4. \A i \in 1 .. Len(resQ') : resQ'[i].stop => i = Len(resQ')
    BY <2>1, <2>2, <1>q DEF DrainInv, StopIsLast
  <2> QED
    BY <2>1, <2>2, <2>3, <2>4 DEF StopIsLast, ResultQueueDrained
<1>7. CASE StopRequestThread \/ StopDrain \/ StopFinish
  BY <1>7 DEF StopRequestThread, StopDrain, StopFinish, DrainInv, StopIsLast,
      ResultQueueDrained, resVars
<1>8. CASE RequestThread
  BY <1>8, DrainFrame
  DEF RequestThread, ReqStop, ReqChange, ReqCompose, ReqAdmit, ReqGetBuffer, ReqRegister,
      HalAccept, HalReject, ReqReturn, ReqSettle, resVars, stopVars
<1>9. CASE CbEnqueueNull \/ CbAccount \/ CbAccountMissing \/ HalDelivers
  BY <1>9, DrainFrame
  DEF CbEnqueueNull, CbAccount, CbAccountMissing, HalDelivers, HalResult, resVars, stopVars
<1>10. CASE WaitsExpire \/ SpuriousWakeup \/ ClientPut \/ Orders
  BY <1>10, DrainFrame
  DEF WaitsExpire, ReqRoomTimeout, StopDrainTimeout, SpuriousWakeup, ReqRoomSpurious,
      ReqGetSpurious, ResTakeSpurious, ClientPut, Orders, OrderCaptures, resVars, stopVars
<1> QED
  BY <1>1, <1>2, <1>3, <1>4, <1>5, <1>6, <1>7, <1>8, <1>9, <1>10
  DEF Next, Callback, ResultThread, StopGoesOn

\* stopStreams joins the result thread only after it post-processed every result
\* that was queued, whatever else happens: rejected requests, waits that expire
\* or end by themselves, and results that arrive during the stop.
THEOREM ResultQueueIsDrained == SafetySpec => []ResultQueueDrained
<1>1. DrainInv => ResultQueueDrained
  BY DEF DrainInv
<1> QED
  BY DrainInit, DrainStep, <1>1, PTL DEF SafetySpec

-----------------------------------------------------------------------------
(* mPendingVector and the HAL.                                             *)

\* The HAL has not been given request f.
Unsent(f) == f > frame \/ (f = frame /\ rq # "return")

\* mPendingVector has an entry for the requests that are worked on, and its
\* counters account for the buffers and the metadata of each of them.
Entry(f) ==
    /\ f \in pending <=> Working(f) \/ Submitting(f)
    /\ f \in pending /\ ~Submitting(f) =>
           /\ got[f] + Outstanding(f) = want[f]
           /\ meta[f] + halMeta[f] + (IF CallbackOf(f) THEN cb.part ELSE 0) = 1

EntriesInv == stopper # "done" => \A f \in Frames : Entry(f)

\* A request is fresh when it is submitted, and so are those after it.
SubmitInv ==
    /\ rq = "submit" => want[frame] = Cardinality(held) /\ got[frame] = 0 /\ meta[frame] = 0
    /\ \A f \in Frames : Unsent(f) => ~Working(f)

\* Nothing is submitted once stopStreams joined the request thread, and nothing
\* is worked on when it ends, unless it gave up.
EndInv ==
    /\ stopper \in {"joinResult", "drain", "done"} => rq \in {"exited", "dead"}
    /\ stopper = "done" /\ tries # 0 => \A f \in Frames : ~Working(f)

PendInv == TypeInv /\ EntriesInv /\ SubmitInv /\ EndInv /\ FaultOnlyAfterGivingUp

\* The number of buffers of a request the HAL or its callback has
LEMMA OutstandingSize ==
    ASSUME TypeInv, NEW f \in Frames
    PROVE  /\ Cardinality(halBufs[f]) \in Nat /\ Cardinality(cb.bufs) \in Nat
           /\ Cardinality(held) \in Nat
           /\ halBufs[f] = {} <=> Cardinality(halBufs[f]) = 0
           /\ IsFiniteSet(halBufs[f])
           /\ Outstanding(f) = Cardinality(halBufs[f])
                               + (IF CallbackOf(f) THEN Cardinality(cb.bufs) ELSE 0)
           /\ Outstanding(f) \in Nat
           /\ got[f] \in Nat /\ want[f] \in Nat /\ meta[f] \in Nat /\ halMeta[f] \in Nat
           /\ cb.part \in Nat
<1>1. halBufs[f] \in SUBSET Buffers /\ cb.bufs \in SUBSET Buffers /\ held \in SUBSET Buffers
  BY DEF TypeInv, TypeOK, HalTypeOK, CallbackTypeOK, RequestTypeOK
<1>2. /\ Cardinality(halBufs[f]) \in Nat /\ Cardinality(cb.bufs) \in Nat
      /\ Cardinality(held) \in Nat /\ IsFiniteSet(halBufs[f])
  BY <1>1, BuffersFinite
<1>3. halBufs[f] = {} <=> Cardinality(halBufs[f]) = 0
  BY <1>2, FS_EmptySet
<1>4. /\ got[f] \in Nat /\ want[f] \in Nat /\ meta[f] \in Nat /\ halMeta[f] \in Nat
      /\ cb.part \in Nat
  BY ConstantsAssumption DEF TypeInv, TypeOK, HalTypeOK, CallbackTypeOK, PendTypeOK
<1> QED BY <1>2, <1>3, <1>4 DEF Outstanding, CallbackOf

\* The steps that neither hand over nor count a request
LEMMA PendFrame ==
    ASSUME PendInv, UNCHANGED <<pending, want, got, meta, halBufs, halMeta, frame>>,
           cb'.frame = cb.frame, cb'.bufs = cb.bufs, cb'.part = cb.part,
           cb'.at # "idle" <=> cb.at # "idle",
           rq' = "submit" <=> rq = "submit", rq' = "return" <=> rq = "return",
           held' = held \/ rq # "submit",
           stopper' = "done" <=> stopper = "done", stopper' = "done" => tries' = tries,
           stopper' \in {"joinResult", "drain", "done"} => rq' \in {"exited", "dead"},
           fault' = fault \/ fault' \notin {"nullResultThread", "missingPend"}
    PROVE  EntriesInv' /\ SubmitInv' /\ EndInv' /\ FaultOnlyAfterGivingUp'
<1>1. \A f \in Frames : /\ CallbackOf(f)' <=> CallbackOf(f)
                        /\ Working(f)' <=> Working(f)
                        /\ Submitting(f)' <=> Submitting(f)
                        /\ Unsent(f)' <=> Unsent(f)
  BY DEF CallbackOf, Working, Submitting, Unsent
<1>2. \A f \in Frames : Outstanding(f)' = Outstanding(f)
  BY DEF Outstanding
<1>3. EntriesInv'
  BY <1>1, <1>2 DEF PendInv, EntriesInv, Entry
<1>4. SubmitInv'
  BY <1>1 DEF PendInv, SubmitInv
<1>5. EndInv'
  BY <1>1 DEF PendInv, EndInv
<1>6. FaultOnlyAfterGivingUp'
  BY DEF PendInv, FaultOnlyAfterGivingUp
<1> QED BY <1>3, <1>4, <1>5, <1>6

\* What a request that changes the entry of its own frame leaves alone
LEMMA OtherEntry ==
    ASSUME PendInv, NEW f \in Frames, stopper # "done",
           f \in pending' <=> f \in pending,
           want'[f] = want[f], got'[f] = got[f], meta'[f] = meta[f],
           halBufs'[f] = halBufs[f], halMeta'[f] = halMeta[f],
           CallbackOf(f)' <=> CallbackOf(f), CallbackOf(f) => cb' = cb,
           Submitting(f)' <=> Submitting(f)
    PROVE  Entry(f)'
<1>1. Working(f)' <=> Working(f)
  BY DEF Working
<1>2. Entry(f)
  BY DEF PendInv, EntriesInv
<1>3. Outstanding(f)' = Outstanding(f)
  BY DEF Outstanding, CallbackOf
<1>4. (IF CallbackOf(f) THEN cb.part ELSE 0)' = IF CallbackOf(f) THEN cb.part ELSE 0
  OBVIOUS
<1> QED BY <1>1, <1>2, <1>3, <1>4 DEF Entry

LEMMA RegisterKeepsPend ==
    ASSUME PendInv, ReqRegister
    PROVE  EntriesInv' /\ SubmitInv' /\ EndInv' /\ FaultOnlyAfterGivingUp'
<1>1. /\ rq = "get" /\ rq' = "submit" /\ pending' = pending \cup {frame}
      /\ want' = [want EXCEPT ![frame] = Cardinality(held)]
      /\ got' = [got EXCEPT ![frame] = 0] /\ meta' = [meta EXCEPT ![frame] = 0]
      /\ UNCHANGED <<frame, held, halBufs, halMeta, cb, stopper, tries, fault>>
  BY DEF ReqRegister, halVars, stopVars
<1>2. /\ frame \in Frames /\ TypeInv /\ frame \in Nat
      /\ want \in [Frames -> Nat] /\ got \in [Frames -> Nat] /\ meta \in [Frames -> Nat]
  BY <1>1, FramesType DEF PendInv, TypeInv, ControlOK, TypeOK, PendTypeOK
<1>3. stopper \notin {"joinResult", "drain", "done"}
  BY <1>1 DEF PendInv, EndInv
<1>4. \A f \in Frames : Unsent(f) => ~Working(f)
  BY DEF PendInv, SubmitInv
<1>5. ~Working(frame)
  BY <1>1, <1>2, <1>4 DEF Unsent
<1>6. \A f \in Frames : /\ Working(f)' <=> Working(f)
                        /\ CallbackOf(f)' <=> CallbackOf(f)
                        /\ Unsent(f)' <=> Unsent(f)
  BY <1>1 DEF Working, CallbackOf, Unsent
<1>7. ASSUME NEW f \in Frames PROVE Entry(f)'
  <2>1. CASE f = frame
    BY <1>1, <2>1 DEF Entry, Submitting
  <2>2. CASE f # frame
    <3>1. Submitting(f)' <=> Submitting(f)
      BY <1>1, <2>2 DEF Submitting
    <3> QED BY <1>1, <1>2, <1>3, <1>6, <2>2, <3>1, OtherEntry
  <2> QED BY <2>1, <2>2
<1>8. SubmitInv'
  BY <1>1, <1>2, <1>4, <1>6 DEF SubmitInv
<1>9. EntriesInv' /\ EndInv' /\ FaultOnlyAfterGivingUp'
  BY <1>1, <1>3, <1>7 DEF EntriesInv, EndInv, PendInv, FaultOnlyAfterGivingUp
<1> QED BY <1>8, <1>9

LEMMA AcceptKeepsPend ==
    ASSUME MetaParts = 1, PendInv, HalAccept
    PROVE  EntriesInv' /\ SubmitInv' /\ EndInv' /\ FaultOnlyAfterGivingUp'
<1>1. /\ rq = "submit" /\ rq' = "return"
      /\ halBufs' = [halBufs EXCEPT ![frame] = held]
      /\ halMeta' = [halMeta EXCEPT ![frame] = 1]
      /\ UNCHANGED <<frame, pending, want, got, meta, cb, stopper, tries, fault>>
  BY DEF HalAccept, pendVars, stopVars
<1>2. /\ frame \in Frames /\ TypeInv /\ frame \in Nat
      /\ halBufs \in [Frames -> SUBSET Buffers] /\ halMeta \in [Frames -> 0 .. MetaParts]
  BY <1>1, FramesType DEF PendInv, TypeInv, ControlOK, TypeOK, HalTypeOK
<1>3. stopper \notin {"joinResult", "drain", "done"}
  BY <1>1 DEF PendInv, EndInv
<1>4. /\ \A f \in Frames : Unsent(f) => ~Working(f)
      /\ want[frame] = Cardinality(held) /\ got[frame] = 0 /\ meta[frame] = 0
  BY <1>1 DEF PendInv, SubmitInv
<1>5. ~Working(frame) /\ frame \in pending
  <2>1. Unsent(frame) /\ Submitting(frame)
    BY <1>1 DEF Unsent, Submitting
  <2> QED BY <1>2, <1>3, <1>4, <2>1 DEF PendInv, EntriesInv, Entry
<1>6. ASSUME NEW f \in Frames, f = frame PROVE Entry(f)'
  <2>1. ~CallbackOf(f)' /\ ~Submitting(f)' /\ halMeta'[f] = 1 /\ halBufs'[f] = held
    BY <1>1, <1>2, <1>5, <1>6 DEF Working, CallbackOf, Submitting
  <2>2. Outstanding(f)' = Cardinality(held) + 0
    BY <2>1 DEF Outstanding, CallbackOf
  <2>3. Cardinality(held) \in Nat
    BY <1>2, OutstandingSize
  <2>4. want'[f] = Cardinality(held) /\ got'[f] = 0 /\ meta'[f] = 0 /\ f \in pending'
    BY <1>1, <1>4, <1>5, <1>6
  <2> QED BY <2>1, <2>2, <2>3, <2>4 DEF Entry, Working
<1>7. ASSUME NEW f \in Frames PROVE Entry(f)'
  <2>1. CASE f # frame
    <3>1. /\ Submitting(f)' <=> Submitting(f)
          /\ CallbackOf(f)' <=> CallbackOf(f)
      BY <1>1, <2>1 DEF Submitting, CallbackOf
    <3> QED BY <1>1, <1>2, <1>3, <2>1, <3>1, OtherEntry
  <2> QED BY <1>6, <2>1
<1>8. SubmitInv'
  <2>1. ASSUME NEW f \in Frames, Unsent(f)' PROVE ~Working(f)'
    <3>1. f > frame /\ f # frame
      BY <1>1, <1>2, <2>1, FramesType DEF Unsent
    <3>2. ~Working(f)
      BY <1>4, <3>1 DEF Unsent
    <3> QED BY <1>1, <1>2, <3>1, <3>2 DEF Working, CallbackOf
  <2> QED BY <1>1, <2>1 DEF SubmitInv
<1>9. EntriesInv' /\ EndInv' /\ FaultOnlyAfterGivingUp'
  BY <1>1, <1>3, <1>7 DEF EntriesInv, EndInv, PendInv, FaultOnlyAfterGivingUp
<1> QED BY <1>8, <1>9

LEMMA RejectKeepsPend ==
    ASSUME PendInv, HalReject
    PROVE  EntriesInv' /\ SubmitInv' /\ EndInv' /\ FaultOnlyAfterGivingUp'
<1>1. /\ rq = "submit" /\ rq' = "dead" /\ pending' = pending \ {frame}
      /\ UNCHANGED <<frame, halBufs, halMeta, want, got, meta, cb, stopper, tries, fault>>
  BY DEF HalReject, halVars, stopVars
<1>2. frame \in Frames
  BY <1>1 DEF PendInv, TypeInv, ControlOK
<1>3. stopper \notin {"joinResult", "drain", "done"}
  BY <1>1 DEF PendInv, EndInv
<1>4. \A f \in Frames : Unsent(f) => ~Working(f)
  BY DEF PendInv, SubmitInv
<1>5. \A f \in Frames : /\ Working(f)' <=> Working(f)
                        /\ CallbackOf(f)' <=> CallbackOf(f)
                        /\ Unsent(f)' <=> Unsent(f)
  BY <1>1 DEF Working, CallbackOf, Unsent
<1>6. ASSUME NEW f \in Frames PROVE Entry(f)'
  <2>1. CASE f = frame
    <3>1. ~Working(f) /\ f \notin pending'
      BY <1>1, <1>4, <2>1 DEF Unsent
    <3> QED BY <1>1, <1>5, <3>1 DEF Entry, Submitting
  <2>2. CASE f # frame
    <3>1. Submitting(f)' <=> Submitting(f)
      BY <1>1, <2>2 DEF Submitting
    <3> QED BY <1>1, <1>3, <1>5, <2>2, <3>1, OtherEntry
  <2> QED BY <2>1, <2>2
<1>7. SubmitInv'
  BY <1>1, <1>4, <1>5 DEF SubmitInv
<1>8. EntriesInv' /\ EndInv' /\ FaultOnlyAfterGivingUp'
  BY <1>1, <1>3, <1>6 DEF EntriesInv, EndInv, PendInv, FaultOnlyAfterGivingUp
<1> QED BY <1>7, <1>8

LEMMA ReturnKeepsPend ==
    ASSUME PendInv, ReqReturn
    PROVE  EntriesInv' /\ SubmitInv' /\ EndInv' /\ FaultOnlyAfterGivingUp'
<1>1. /\ rq = "return" /\ rq' = "settle" /\ frame' = frame + 1
      /\ UNCHANGED <<pending, halBufs, halMeta, want, got, meta, cb, stopper, tries, fault>>
  BY DEF ReqReturn, pendVars, halVars, stopVars
<1>2. frame \in Nat /\ Frames \subseteq Nat
  BY <1>1, FramesType DEF PendInv, TypeInv, ControlOK
<1>3. stopper \notin {"joinResult", "drain", "done"}
  BY <1>1 DEF PendInv, EndInv
<1>4. ASSUME NEW f \in Frames PROVE Entry(f)'
  <2>1. Submitting(f)' <=> Submitting(f)
    BY <1>1 DEF Submitting
  <2>2. CallbackOf(f)' <=> CallbackOf(f)
    BY <1>1 DEF CallbackOf
  <2> QED BY <1>1, <1>3, <2>1, <2>2, OtherEntry
<1>5. SubmitInv'
  <2>1. ASSUME NEW f \in Frames, Unsent(f)' PROVE ~Working(f)'
    <3>1. f > frame
      BY <1>1, <1>2, <2>1 DEF Unsent
    <3>2. ~Working(f)
      BY <3>1 DEF Unsent, PendInv, SubmitInv
    <3> QED BY <1>1, <3>2 DEF Working, CallbackOf
  <2> QED BY <1>1, <2>1 DEF SubmitInv
<1>6. EntriesInv' /\ EndInv' /\ FaultOnlyAfterGivingUp'
  BY <1>1, <1>3, <1>4 DEF EntriesInv, EndInv, PendInv, FaultOnlyAfterGivingUp
<1> QED BY <1>5, <1>6

LEMMA DeliverKeepsPend ==
    ASSUME MetaParts = 1, PendInv, NEW f \in Frames, HalResult(f)
    PROVE  EntriesInv' /\ SubmitInv' /\ EndInv' /\ FaultOnlyAfterGivingUp'
<1>1. PICK bufs \in SUBSET halBufs[f], m \in 0 .. 1 :
        /\ m <= halMeta[f] /\ (bufs # {} \/ m = 1)
        /\ halBufs' = [halBufs EXCEPT ![f] = @ \ bufs]
        /\ halMeta' = [halMeta EXCEPT ![f] = @ - m]
        /\ cb' = [at |-> IF bufs = {} THEN "account" ELSE "enqueue", frame |-> f,
                  bufs |-> bufs, part |-> m * (MetaParts + 1 - halMeta[f])]
  BY DEF HalResult
<1>2. /\ cb.at = "idle"
      /\ UNCHANGED <<frame, rq, held, pending, want, got, meta, stopper, tries, fault>>
  BY DEF HalResult, reqVars, pendVars, stopVars
<1>3. /\ halBufs \in [Frames -> SUBSET Buffers] /\ halMeta \in [Frames -> 0 .. 1]
      /\ TypeInv
  BY DEF PendInv, TypeInv, TypeOK, HalTypeOK
<1>4. /\ ~CallbackOf(f) /\ CallbackOf(f)' /\ cb'.bufs = bufs /\ cb'.frame = f
      /\ cb'.at # "idle" /\ halBufs'[f] = halBufs[f] \ bufs /\ halMeta'[f] = halMeta[f] - m
  BY <1>1, <1>2, <1>3 DEF CallbackOf
<1>5. cb'.part = m
  <2>1. cb'.part = m * (MetaParts + 1 - halMeta[f]) /\ halMeta[f] \in 0 .. 1
    BY <1>1, <1>3
  <2>2. CASE m = 0
    BY <2>1, <2>2
  <2>3. CASE m = 1
    <3>1. halMeta[f] = 1
      BY <1>1, <2>1, <2>3
    <3> QED BY <2>1, <2>3, <3>1
  <2> QED BY <2>2, <2>3
<1>6. Working(f) /\ Working(f)'
  <2>1. halMeta[f] \in Nat
    BY <1>3
  <2> QED BY <1>1, <1>4, <2>1 DEF Working
<1>7. ~Unsent(f) /\ ~Submitting(f)
  <2>1. ~Unsent(f)
    BY <1>6 DEF PendInv, SubmitInv
  <2> QED BY <2>1 DEF Unsent, Submitting
<1>8. Outstanding(f)' = Outstanding(f)
  <2>1. Outstanding(f) = Cardinality(halBufs[f]) + 0
    BY <1>2 DEF Outstanding
  <2>2. Outstanding(f)' = Cardinality(halBufs[f] \ bufs) + Cardinality(bufs)
    BY <1>4 DEF Outstanding
  <2>3. IsFiniteSet(halBufs[f]) /\ IsFiniteSet(bufs) /\ IsFiniteSet(halBufs[f] \ bufs)
    BY <1>3, OutstandingSize, FS_Subset
  <2>4. /\ Cardinality(halBufs[f]) \in Nat /\ Cardinality(bufs) \in Nat
        /\ Cardinality(halBufs[f] \ bufs) \in Nat
    BY <2>3, FS_CardinalityType
  <2>5. Cardinality(halBufs[f] \ bufs) = Cardinality(halBufs[f]) - Cardinality(bufs)
    <3>1. halBufs[f] \cap bufs = bufs
      BY <1>1
    <3>2. Cardinality(halBufs[f] \ bufs)
            = Cardinality(halBufs[f]) - Cardinality(halBufs[f] \cap bufs)
      BY <2>3, FS_Difference
    <3> QED BY <3>1, <3>2
  <2> QED BY <2>1, <2>2, <2>4, <2>5
<1>9. ASSUME NEW g \in Frames, stopper # "done" PROVE Entry(g)'
  <2>1. CASE g = f
    <3>1. Submitting(f)' <=> Submitting(f)
      BY <1>2 DEF Submitting
    <3>2. Entry(f)
      BY <1>9 DEF PendInv, EntriesInv
    <3>3. got[f] + Outstanding(f) = want[f] /\ meta[f] + halMeta[f] + 0 = 1 /\ f \in pending
      BY <1>4, <1>6, <1>7, <3>2 DEF Entry
    <3>4. meta[f] \in Nat /\ halMeta[f] \in Nat /\ m \in Nat
      BY <1>3, OutstandingSize
    <3>5. meta[f] + (halMeta[f] - m) + m = 1
      BY <3>3, <3>4
    <3>6. /\ got'[f] + Outstanding(f)' = want'[f] /\ f \in pending'
          /\ meta'[f] + halMeta'[f] + cb'.part = 1
      BY <1>2, <1>4, <1>5, <1>8, <3>3, <3>5
    <3>7. Entry(f)'
      BY <1>4, <1>6, <3>6 DEF Entry
    <3> QED BY <2>1, <3>7
  <2>2. CASE g # f
    <3>1. /\ Submitting(g)' <=> Submitting(g)
          /\ (CallbackOf(g)' <=> CallbackOf(g)) /\ ~CallbackOf(g)
      BY <1>2, <1>4, <2>2 DEF Submitting, CallbackOf
    <3>2. halBufs'[g] = halBufs[g] /\ halMeta'[g] = halMeta[g]
      BY <1>1, <1>3, <2>2
    <3>3. /\ g \in pending' <=> g \in pending
          /\ want'[g] = want[g] /\ got'[g] = got[g] /\ meta'[g] = meta[g]
      BY <1>2
    <3> QED BY <1>9, <3>1, <3>2, <3>3, OtherEntry
  <2> QED BY <2>1, <2>2
<1>10. SubmitInv'
  <2>1. ASSUME NEW g \in Frames, Unsent(g)' PROVE ~Working(g)'
    <3>1. Unsent(g) /\ g # f
      BY <1>2, <1>7, <2>1 DEF Unsent
    <3>2. ~Working(g)
      BY <3>1 DEF PendInv, SubmitInv
    <3> QED BY <1>1, <1>2, <1>3, <1>4, <3>1, <3>2 DEF Working, CallbackOf
  <2> QED BY <1>2, <2>1 DEF PendInv, SubmitInv
<1>11. EndInv'
  <2>1. ~(stopper = "done" /\ tries # 0)
    BY <1>6 DEF PendInv, EndInv
  <2> QED BY <1>2, <2>1 DEF PendInv, EndInv
<1>12. EntriesInv' /\ FaultOnlyAfterGivingUp'
  BY <1>2, <1>9 DEF EntriesInv, PendInv, FaultOnlyAfterGivingUp
<1> QED BY <1>10, <1>11, <1>12

LEMMA AccountKeepsPend ==
    ASSUME PendInv, CbAccount
    PROVE  EntriesInv' /\ SubmitInv' /\ EndInv' /\ FaultOnlyAfterGivingUp'
<1>0. PICK f \in Frames : f = cb.frame
  BY DEF CbAccount, PendInv, TypeInv, TypeOK, CallbackTypeOK
<1> DEFINE n == Cardinality(halBufs[f])
           c == Cardinality(cb.bufs)
           done == got[f] + c >= want[f] /\ meta[f] + cb.part > 0
<1>1. /\ cb.at = "account" /\ f \in pending
      /\ got' = [got EXCEPT ![f] = @ + Cardinality(cb.bufs)]
      /\ meta' = [meta EXCEPT ![f] = @ + cb.part]
      /\ pending' = IF done THEN pending \ {f} ELSE pending
      /\ rq' = IF done /\ rq = "waitRoom" THEN "get" ELSE rq
      /\ cb' = IdleCallback
      /\ UNCHANGED <<frame, held, want, halBufs, halMeta, stopper, tries, fault>>
  BY <1>0 DEF CbAccount, CbCompletes, halVars, stopVars
<1>2. /\ f \in Frames /\ TypeInv /\ got \in [Frames -> Nat] /\ meta \in [Frames -> Nat]
      /\ CallbackOf(f) /\ Working(f)
  BY <1>0, <1>1 DEF PendInv, TypeInv, TypeOK, PendTypeOK, CallbackOf, Working
<1>3. \A g \in Frames : ~CallbackOf(g)' /\ (CallbackOf(g) <=> g = f)
  BY <1>0, <1>1 DEF CallbackOf, IdleCallback
<1>4. /\ rq' = "submit" <=> rq = "submit"
      /\ rq' = "return" <=> rq = "return"
      /\ rq \in {"exited", "dead"} => rq' = rq
  BY <1>1
<1>5. /\ \A g \in Frames : Submitting(g)' <=> Submitting(g)
      /\ \A g \in Frames : Unsent(g)' <=> Unsent(g)
      /\ ~Unsent(f) /\ ~Submitting(f)
  <2>1. ~Unsent(f)
    BY <1>2 DEF PendInv, SubmitInv
  <2>2. ~Submitting(f)
    BY <2>1 DEF Unsent, Submitting
  <2> QED BY <1>1, <1>4, <2>1, <2>2 DEF Submitting, Unsent
<1>6. /\ n \in Nat /\ c \in Nat /\ (halBufs[f] = {} <=> n = 0) /\ Outstanding(f) = n + c
      /\ got[f] \in Nat /\ want[f] \in Nat /\ meta[f] \in Nat /\ halMeta[f] \in Nat
      /\ cb.part \in Nat
  BY <1>2, OutstandingSize
<1>7. /\ halBufs'[f] = halBufs[f] /\ halMeta'[f] = halMeta[f] /\ want'[f] = want[f]
      /\ got'[f] = got[f] + c /\ meta'[f] = meta[f] + cb.part
      /\ f \in pending' <=> ~done
      /\ Working(f)' <=> n # 0 \/ halMeta[f] > 0
      /\ Outstanding(f)' = n + 0
  <2>1. Working(f)' <=> n # 0 \/ halMeta[f] > 0
    BY <1>1, <1>6 DEF Working, CallbackOf, IdleCallback
  <2>2. Outstanding(f)' = n + 0
    BY <1>1 DEF Outstanding, IdleCallback
  <2> QED BY <1>1, <1>2, <2>1, <2>2
<1>8. ASSUME NEW g \in Frames, stopper # "done" PROVE Entry(g)'
  <2>1. CASE g = f
    <3>1. Entry(f)
      BY <1>2, <1>8 DEF PendInv, EntriesInv
    <3>2. got[f] + Outstanding(f) = want[f] /\ meta[f] + halMeta[f] + cb.part = 1
      BY <1>1, <1>2, <1>5, <3>1 DEF Entry
    <3>3. done <=> n = 0 /\ halMeta[f] = 0
      <4> HIDE DEF n, c
      <4> QED BY <1>6, <3>2
    <3>4. /\ (got[f] + c) + (n + 0) = want[f]
          /\ (meta[f] + cb.part) + halMeta[f] + 0 = 1
      <4> HIDE DEF n, c
      <4> QED BY <1>6, <3>2
    <3>5. f \in pending' <=> Working(f)'
      <4> HIDE DEF done, n, c
      <4> QED BY <1>6, <1>7, <3>3
    <3>6. /\ g \in pending' <=> Working(g)'
          /\ got'[g] + Outstanding(g)' = want'[g] /\ meta'[g] + halMeta'[g] + 0 = 1
      <4>1. got'[f] + Outstanding(f)' = want'[f] /\ meta'[f] + halMeta'[f] + 0 = 1
        <5> HIDE DEF n, c, done
        <5> QED BY <1>7, <3>4
      <4> QED BY <2>1, <3>5, <4>1, <1>1, <1>6, <1>7
    <3> QED BY <1>3, <1>5, <2>1, <3>6 DEF Entry
  <2>2. CASE g # f
    <3>1. /\ got'[g] = got[g] /\ meta'[g] = meta[g] /\ want'[g] = want[g]
          /\ halBufs'[g] = halBufs[g] /\ halMeta'[g] = halMeta[g]
          /\ g \in pending' <=> g \in pending
      BY <1>1, <1>2, <2>2
    <3>2. /\ (CallbackOf(g)' <=> CallbackOf(g)) /\ ~CallbackOf(g)
          /\ Submitting(g)' <=> Submitting(g)
      BY <1>3, <1>5, <2>2
    <3> QED BY <1>8, <3>1, <3>2, OtherEntry
  <2> QED BY <2>1, <2>2
<1>9. \A g \in Frames : Working(g)' => Working(g)
  BY <1>1, <1>3 DEF Working
<1>10. SubmitInv'
  <2>1. rq' = "submit" => frame' # f
    BY <1>1, <1>4, <1>5 DEF Submitting
  <2>2. rq' = "submit" => got'[frame'] = 0 /\ meta'[frame'] = 0
                          /\ want'[frame'] = Cardinality(held')
    <3>1. rq = "submit" => frame \in Frames
      BY DEF PendInv, TypeInv, ControlOK
    <3> QED BY <1>1, <1>2, <1>4, <2>1, <3>1 DEF PendInv, SubmitInv
  <2> QED BY <1>5, <1>9, <2>2 DEF PendInv, SubmitInv
<1>11. EndInv'
  BY <1>1, <1>4, <1>9 DEF PendInv, EndInv
<1>12. EntriesInv' /\ FaultOnlyAfterGivingUp'
  BY <1>1, <1>8 DEF EntriesInv, PendInv, FaultOnlyAfterGivingUp
<1> QED BY <1>10, <1>11, <1>12

\* The callback meets a missing entry or a deleted thread only if stopStreams
\* gave up.
LEMMA FaultKeepsPend ==
    ASSUME PendInv, CbEnqueueNull \/ CbAccountMissing
    PROVE  EntriesInv' /\ SubmitInv' /\ EndInv' /\ FaultOnlyAfterGivingUp'
<1>1. /\ cb.at # "idle" /\ cb.frame \in Frames
      /\ UNCHANGED <<reqVars, pendVars, halVars, cb, stopVars>>
      /\ stopper # "done" => cb.frame \notin pending
  BY DEF PendInv, TypeInv, TypeOK, CallbackTypeOK, CbEnqueueNull, CbAccountMissing
<1>2. Working(cb.frame)
  BY <1>1 DEF Working, CallbackOf
<1>3. stopper = "done"
  BY <1>1, <1>2 DEF PendInv, EntriesInv, Entry
<1>4. tries = 0
  BY <1>1, <1>2, <1>3 DEF PendInv, EndInv
<1>5. FaultOnlyAfterGivingUp'
  BY <1>1, <1>3, <1>4 DEF FaultOnlyAfterGivingUp, stopVars
<1>6. \A f \in Frames : Working(f)' <=> Working(f)
  BY <1>1 DEF Working, CallbackOf, halVars
<1>7. \A f \in Frames : Unsent(f)' <=> Unsent(f)
  BY <1>1 DEF Unsent, reqVars
<1>8. SubmitInv'
  BY <1>1, <1>6, <1>7 DEF PendInv, SubmitInv, reqVars, pendVars
<1>9. EntriesInv' /\ EndInv'
  BY <1>1, <1>3, <1>4 DEF PendInv, EntriesInv, EndInv, reqVars, stopVars
<1> QED BY <1>5, <1>8, <1>9

\* With nothing in mPendingVector nothing is worked on.
LEMMA FinishKeepsPend ==
    ASSUME PendInv, StopFinish
    PROVE  EntriesInv' /\ SubmitInv' /\ EndInv' /\ FaultOnlyAfterGivingUp'
<1>1. /\ stopper = "drain" /\ stopper' = "done" /\ (pending = {} \/ tries = 0)
      /\ UNCHANGED <<reqVars, want, got, meta, halVars, cb, tries, fault>>
  BY DEF StopFinish
<1>2. \A f \in Frames : Working(f)' <=> Working(f)
  BY <1>1 DEF Working, CallbackOf, halVars
<1>3. \A f \in Frames : Unsent(f)' <=> Unsent(f)
  BY <1>1 DEF Unsent, reqVars
<1>4. SubmitInv'
  BY <1>1, <1>2, <1>3 DEF PendInv, SubmitInv, reqVars
<1>5. tries # 0 => \A f \in Frames : ~Working(f)
  BY <1>1 DEF PendInv, EntriesInv, Entry
<1>6. EndInv'
  BY <1>1, <1>2, <1>5 DEF PendInv, EndInv, reqVars
<1>7. EntriesInv' /\ FaultOnlyAfterGivingUp'
  BY <1>1 DEF PendInv, EntriesInv, FaultOnlyAfterGivingUp
<1> QED BY <1>4, <1>6, <1>7

LEMMA PendInit == Init => PendInv
<1> SUFFICES ASSUME Init PROVE PendInv
  OBVIOUS
<1>1. \A f \in Frames : ~Working(f) /\ ~Submitting(f) /\ f \notin pending
  BY DEF Init, Working, CallbackOf, IdleCallback, Submitting
<1>2. EntriesInv
  BY <1>1 DEF EntriesInv, Entry
<1>3. SubmitInv /\ EndInv /\ FaultOnlyAfterGivingUp
  BY <1>1 DEF Init, SubmitInv, EndInv, FaultOnlyAfterGivingUp
<1> QED BY <1>2, <1>3, TypeInit DEF PendInv

LEMMA PendStep == ASSUME MetaParts = 1
                  PROVE  PendInv /\ [Next]_vars => PendInv'
<1> SUFFICES ASSUME PendInv, [Next]_vars
             PROVE  EntriesInv' /\ SubmitInv' /\ EndInv' /\ FaultOnlyAfterGivingUp'
  BY TypeStep DEF PendInv
<1>0. stopper \in {"joinResult", "drain", "done"} => rq \in {"exited", "dead"}
  BY DEF PendInv, EndInv
<1>1. CASE UNCHANGED vars \/ Over
  BY <1>0, <1>1, PendFrame DEF Over, vars, reqVars, pendVars, halVars, stopVars
<1>2. CASE ReqStop \/ ReqChange \/ ReqCompose \/ ReqAdmit \/ ReqGetBuffer \/ ReqSettle
  BY <1>0, <1>2, PendFrame
  DEF ReqStop, ReqChange, ReqCompose, ReqAdmit, ReqGetBuffer, ReqSettle, pendVars, halVars,
      stopVars
<1>3. CASE CbEnqueue
  <2>1. /\ cb' = [cb EXCEPT !.at = "account"] /\ cb.at = "enqueue"
        /\ UNCHANGED <<reqVars, pendVars, halVars, stopVars, fault>>
    BY <1>3 DEF CbEnqueue
  <2>2. /\ cb'.frame = cb.frame /\ cb'.bufs = cb.bufs /\ cb'.part = cb.part
        /\ cb'.at # "idle" /\ cb.at # "idle"
    BY <2>1 DEF PendInv, TypeInv, TypeOK, CallbackTypeOK
  <2> QED BY <1>0, <2>1, <2>2, PendFrame DEF reqVars, pendVars, halVars, stopVars
<1>4. CASE ResultThread \/ ClientPut \/ Orders
  BY <1>0, <1>4, PendFrame
  DEF ResultThread, ResStop, ResTake, ResPost, ClientPut, Orders, OrderCaptures, reqVars,
      pendVars, halVars, stopVars
<1>5. CASE WaitsExpire \/ SpuriousWakeup
  BY <1>0, <1>5, PendFrame
  DEF WaitsExpire, ReqRoomTimeout, StopDrainTimeout, SpuriousWakeup, ReqRoomSpurious,
      ReqGetSpurious, ResTakeSpurious, reqVars, pendVars, halVars, stopVars
<1>6. CASE StopRequestThread \/ StopResultThread \/ StopDrain
  BY <1>0, <1>6, PendFrame
  DEF StopRequestThread, StopResultThread, StopDrain, reqVars, pendVars, halVars
<1>7. CASE ReqRegister
  BY <1>7, RegisterKeepsPend
<1>8. CASE HalAccept \/ HalReject
  BY <1>8, AcceptKeepsPend, RejectKeepsPend
<1>9. CASE ReqReturn
  BY <1>9, ReturnKeepsPend
<1>10. CASE HalDelivers
  BY <1>10, DeliverKeepsPend DEF HalDelivers
<1>11. CASE CbAccount
  BY <1>11, AccountKeepsPend
<1>12. CASE CbEnqueueNull \/ CbAccountMissing
  BY <1>12, FaultKeepsPend
<1>13. CASE StopFinish
  BY <1>13, FinishKeepsPend
<1> QED
  BY <1>1, <1>2, <1>3, <1>4, <1>5, <1>6, <1>7, <1>8, <1>9, <1>10, <1>11, <1>12, <1>13
  DEF Next, RequestThread, Callback, StopGoesOn

\* The inductive invariant: an entry of mPendingVector accounts for what the HAL
\* and its callback have of a request, for a HAL that sends its metadata in one
\* result; with several, line 205 completes a request at the first of them.
THEOREM PendInvariant ==
    ASSUME MetaParts = 1
    PROVE  SafetySpec => []PendInv
<1>1. PendInv /\ [Next]_vars => PendInv'
  BY PendStep
<1> QED BY PendInit, <1>1, PTL DEF SafetySpec

\* Whatever the HAL delivers in whatever pieces, rejects or keeps back, and however
\* waits end: the callback finds the entry of its request, and no entry stays
\* without a request the HAL works on.
THEOREM PendingAlwaysMatchesHal ==
    ASSUME MetaParts = 1
    PROVE  SafetySpec => []PendingMatchesHal
<1>1. PendInv => PendingMatchesHal
  BY DEF PendInv, EntriesInv, Entry, PendingMatchesHal, Working, Submitting, CallbackOf
<1> QED BY PendInvariant, <1>1, PTL

\* A result meets freed data or a missing entry only after stopStreams used up
\* its tries.
THEOREM FaultsFollowGivingUp ==
    ASSUME MetaParts = 1
    PROVE  SafetySpec => []FaultOnlyAfterGivingUp
<1>1. PendInv => FaultOnlyAfterGivingUp
  BY DEF PendInv
<1> QED BY PendInvariant, <1>1, PTL

\* If no wait of stopStreams expires before the HAL answers, the HAL has no
\* buffer and no callback is running when it frees what they use.
THEOREM AllRequestsComeBack ==
    ASSUME MetaParts = 1, Timeouts = FALSE, StopTries # 0
    PROVE  SafetySpec => []AllRequestsBack
<1> DEFINE TriesLeft == tries # 0
<1>1. Init => TriesLeft
  BY DEF Init
<1>2. TriesLeft /\ [Next]_vars => TriesLeft'
  <2> SUFFICES ASSUME tries # 0, [Next]_vars PROVE tries' # 0
    OBVIOUS
  <2>1. CASE UNCHANGED tries
    BY <2>1
  <2>2. CASE StopDrainTimeout
    BY <2>2 DEF StopDrainTimeout
  <2>3. RequestThread => UNCHANGED tries
    BY DEF RequestThread, ReqStop, ReqChange, ReqCompose, ReqAdmit, ReqGetBuffer, ReqRegister,
           HalAccept, HalReject, ReqReturn, ReqSettle, stopVars
  <2>4. Callback \/ HalDelivers \/ ResultThread => UNCHANGED tries
    BY DEF Callback, CbEnqueue, CbEnqueueNull, CbAccount, CbAccountMissing, HalDelivers,
           HalResult, ResultThread, ResStop, ResTake, ResPost, stopVars
  <2>5. ReqRoomTimeout \/ SpuriousWakeup \/ ClientPut \/ Orders => UNCHANGED tries
    BY DEF ReqRoomTimeout, SpuriousWakeup, ReqRoomSpurious, ReqGetSpurious, ResTakeSpurious,
           ClientPut, Orders, OrderCaptures, stopVars
  <2>6. StopRequestThread \/ StopGoesOn => UNCHANGED tries
    BY DEF StopRequestThread, StopGoesOn, StopResultThread, StopDrain, StopFinish
  <2> QED
    BY <2>1, <2>2, <2>3, <2>4, <2>5, <2>6 DEF Next, Over, WaitsExpire, vars, stopVars
<1>3. PendInv /\ TriesLeft => AllRequestsBack
  <2> SUFFICES ASSUME PendInv, tries # 0, stopper = "done"
               PROVE  cb.at = "idle" /\ \A f \in Frames : halBufs[f] = {} /\ halMeta[f] = 0
    BY DEF AllRequestsBack
  <2>1. \A f \in Frames : ~Working(f)
    BY DEF PendInv, EndInv
  <2>2. /\ cb.at # "idle" => cb.frame \in Frames
        /\ \A f \in Frames : halMeta[f] \in Nat
    BY ConstantsAssumption DEF PendInv, TypeInv, TypeOK, CallbackTypeOK, HalTypeOK
  <2> QED BY <2>1, <2>2 DEF Working, CallbackOf
<1> HIDE DEF TriesLeft
<1> QED BY PendInvariant, <1>1, <1>2, <1>3, PTL DEF SafetySpec

-----------------------------------------------------------------------------
(* The captures that are ordered.                                          *)

\* A stop message orders nothing, a stream that is asked for has something to
\* send, and a counted stream never becomes a repeating one.
CountsOK ==
    /\ \A i \in 1 .. Len(reqQ) : reqQ[i].stop => \A s \in Streams : reqQ[i].delta[s] = 0
    /\ rq \notin {"top", "exited", "dead"} => \A s \in asked : number[s] # 0
    /\ \A s \in Streams : InitialNumber[s] # Unlimited => number[s] # Unlimited

\* What OrdersAccounted says of the captures of s, known of them taken note of.
Accounted(s, known) ==
    IF InitialNumber[s] # Unlimited
    THEN known + InitialNumber[s] = taken[s] + number[s]
           - (IF rq \in {"return", "settle"} /\ s \in asked THEN 1 ELSE 0)
    ELSE (number[s] = Unlimited <=> known = 0) /\ number[s] <= known

OrderInv == TypeInv /\ CountsOK /\ OrdersAccounted

\* A message that is queued orders what it asks for.
LEMMA RunningAppend ==
    ASSUME TypeInv, NEW s \in Streams, NEW m \in ReqMessage, reqQ' = Append(reqQ, m),
           ordered'[s] = ordered[s] + m.delta[s],
           NEW sum \in [0 .. Len(reqQ) -> 0 .. ordered[s]], Running(s, sum)
    PROVE  \E new \in [0 .. Len(reqQ') -> 0 .. ordered'[s]] :
               Running(s, new)' /\ new[0] = sum[0]
<1>1. /\ Len(reqQ) \in Nat /\ Len(reqQ') = Len(reqQ) + 1
      /\ \A i \in 1 .. Len(reqQ) : reqQ'[i] = reqQ[i]
      /\ reqQ'[Len(reqQ) + 1] = m
  BY DEF TypeInv, TypeOK, RequestTypeOK
<1>2. ordered[s] \in Nat /\ m.delta[s] \in Nat
  BY DEF TypeInv, TypeOK, HistoryTypeOK, ReqMessage
<1> PICK new : new = [i \in 0 .. Len(reqQ') |-> IF i = Len(reqQ') THEN ordered'[s] ELSE sum[i]]
  OBVIOUS
<1>3. \A i \in 0 .. Len(reqQ') : i # Len(reqQ') => i \in 0 .. Len(reqQ)
  BY <1>1
<1>4. new \in [0 .. Len(reqQ') -> 0 .. ordered'[s]]
  BY <1>1, <1>2, <1>3
<1>5. new[0] = sum[0] /\ new[Len(reqQ')] = ordered'[s]
  BY <1>1
<1>6. ASSUME NEW i \in 1 .. Len(reqQ') PROVE new[i] = new[i - 1] + reqQ'[i].delta[s]
  <2>1. CASE i = Len(reqQ')
    BY <1>1, <2>1 DEF Running
  <2>2. CASE i # Len(reqQ')
    <3>1. i \in 1 .. Len(reqQ) /\ i - 1 \in 0 .. Len(reqQ') /\ i - 1 # Len(reqQ')
      BY <1>1, <2>2
    <3>2. sum[i] = sum[i - 1] + reqQ[i].delta[s]
      BY <3>1 DEF Running
    <3> QED BY <1>1, <2>2, <3>1, <3>2
  <2> QED BY <2>1, <2>2
<1>7. Running(s, new)'
  BY <1>5, <1>6 DEF Running
<1> QED BY <1>4, <1>5, <1>7

\* A message that is taken adds what it orders to what the request thread knows.
LEMMA RunningTail ==
    ASSUME TypeInv, NEW s \in Streams, reqQ # <<>>, reqQ' = Tail(reqQ),
           ordered'[s] = ordered[s],
           NEW sum \in [0 .. Len(reqQ) -> 0 .. ordered[s]], Running(s, sum)
    PROVE  \E new \in [0 .. Len(reqQ') -> 0 .. ordered'[s]] :
               Running(s, new)' /\ new[0] = sum[0] + Head(reqQ).delta[s]
<1>1. /\ Len(reqQ) \in Nat \ {0} /\ Len(reqQ') = Len(reqQ) - 1
      /\ \A i \in 1 .. Len(reqQ') : reqQ'[i] = reqQ[i + 1]
      /\ Head(reqQ) = reqQ[1]
  BY HeadTailProperties, EmptySeq DEF TypeInv, TypeOK, RequestTypeOK
<1> PICK new : new = [i \in 0 .. Len(reqQ') |-> sum[i + 1]]
  OBVIOUS
<1>2. \A i \in 0 .. Len(reqQ') : i + 1 \in 0 .. Len(reqQ)
  BY <1>1
<1>3. new \in [0 .. Len(reqQ') -> 0 .. ordered'[s]]
  BY <1>2
<1>4. /\ new[0] = sum[1] /\ sum[1] = sum[0] + reqQ[1].delta[s]
      /\ new[Len(reqQ')] = ordered'[s]
  BY <1>1 DEF Running
<1>5. ASSUME NEW i \in 1 .. Len(reqQ') PROVE new[i] = new[i - 1] + reqQ'[i].delta[s]
  <2>1. /\ i + 1 \in 1 .. Len(reqQ) /\ i \in 0 .. Len(reqQ') /\ i - 1 \in 0 .. Len(reqQ')
        /\ (i + 1) - 1 = i /\ (i - 1) + 1 = i
    BY <1>1
  <2>2. sum[i + 1] = sum[i] + reqQ[i + 1].delta[s]
    BY <2>1 DEF Running
  <2> QED BY <1>1, <2>1, <2>2
<1>6. Running(s, new)'
  BY <1>4, <1>5 DEF Running
<1> QED BY <1>1, <1>3, <1>4, <1>6

\* OrdersAccounted, with a name for the part that is not about the queue
LEMMA OrdersByStream ==
    OrdersAccounted <=> \A s \in Streams : \E sum \in [0 .. Len(reqQ) -> 0 .. ordered[s]] :
                            Running(s, sum) /\ Accounted(s, sum[0])
BY DEF OrdersAccounted, Accounted

\* A step that leaves the queue alone keeps what it keeps for every count.
LEMMA OrderFrame ==
    ASSUME OrderInv, UNCHANGED <<reqQ, ordered>>,
           \A s \in Streams, known \in Nat : Accounted(s, known) => Accounted(s, known)'
    PROVE  OrdersAccounted'
<1>1. ASSUME NEW s \in Streams
      PROVE  \E sum \in [0 .. Len(reqQ') -> 0 .. ordered'[s]] :
                 Running(s, sum)' /\ Accounted(s, sum[0])'
  <2>1. PICK sum \in [0 .. Len(reqQ) -> 0 .. ordered[s]] :
               Running(s, sum) /\ Accounted(s, sum[0])
    BY OrdersByStream DEF OrderInv
  <2>2. sum[0] \in Nat
    <3>1. Len(reqQ) \in Nat /\ ordered[s] \in Nat
      BY DEF OrderInv, TypeInv, TypeOK, RequestTypeOK, HistoryTypeOK
    <3> QED BY <3>1
  <2>3. Running(s, sum)'
    BY <2>1 DEF Running
  <2> QED BY <2>1, <2>2, <2>3
<1> QED BY <1>1 DEF OrdersAccounted, Accounted

\* A step that appends a message to the queue and knows of no more captures
LEMMA OrderAppend ==
    ASSUME OrderInv, NEW m \in ReqMessage, reqQ' = Append(reqQ, m),
           \A s \in Streams : ordered'[s] = ordered[s] + m.delta[s],
           UNCHANGED <<taken, number, rq, asked>>,
           m.stop => \A s \in Streams : m.delta[s] = 0
    PROVE  CountsOK' /\ OrdersAccounted'
<1>1. ASSUME NEW s \in Streams
      PROVE  \E new \in [0 .. Len(reqQ') -> 0 .. ordered'[s]] :
                 Running(s, new)' /\ Accounted(s, new[0])'
  <2>1. PICK sum \in [0 .. Len(reqQ) -> 0 .. ordered[s]] :
               Running(s, sum) /\ Accounted(s, sum[0])
    BY OrdersByStream DEF OrderInv
  <2>2. PICK new \in [0 .. Len(reqQ') -> 0 .. ordered'[s]] :
               Running(s, new)' /\ new[0] = sum[0]
    BY <2>1, RunningAppend DEF OrderInv
  <2>3. Accounted(s, sum[0])'
    BY <2>1 DEF Accounted
  <2> QED BY <2>2, <2>3
<1>2. \A i \in 1 .. Len(reqQ') : reqQ'[i].stop => \A s \in Streams : reqQ'[i].delta[s] = 0
  <2>1. /\ Len(reqQ) \in Nat /\ Len(reqQ') = Len(reqQ) + 1
        /\ \A i \in 1 .. Len(reqQ) : reqQ'[i] = reqQ[i]
        /\ reqQ'[Len(reqQ) + 1] = m
    BY DEF OrderInv, TypeInv, TypeOK, RequestTypeOK
  <2>2. \A i \in 1 .. Len(reqQ') : i \in 1 .. Len(reqQ) \/ i = Len(reqQ) + 1
    BY <2>1
  <2> QED BY <2>1, <2>2 DEF OrderInv, CountsOK
<1> QED BY <1>1, <1>2 DEF OrdersAccounted, Accounted, OrderInv, CountsOK

\* The request thread takes a message: START_STOP or REQUEST_CHANGE.
LEMMA OrderTake ==
    ASSUME OrderInv, ReqStop \/ ReqChange
    PROVE  CountsOK' /\ OrdersAccounted'
<1>1. /\ rq = "top" /\ rq' \in {"top", "exited"} /\ reqQ # <<>> /\ reqQ' = Tail(reqQ)
      /\ UNCHANGED <<taken, ordered, asked>>
  BY DEF ReqStop, ReqChange, history
<1>2. /\ Len(reqQ) \in Nat \ {0} /\ Len(reqQ') = Len(reqQ) - 1
      /\ \A i \in 1 .. Len(reqQ') : reqQ'[i] = reqQ[i + 1]
      /\ Head(reqQ) = reqQ[1] /\ Head(reqQ) \in ReqMessage
  BY <1>1, HeadTailProperties, EmptySeq DEF OrderInv, TypeInv, TypeOK, RequestTypeOK
<1>3. \A i \in 1 .. Len(reqQ') : reqQ'[i].stop => \A s \in Streams : reqQ'[i].delta[s] = 0
  <2>1. \A i \in 1 .. Len(reqQ') : i + 1 \in 1 .. Len(reqQ)
    BY <1>2
  <2> QED BY <1>2, <2>1 DEF OrderInv, CountsOK
<1>4. ASSUME NEW s \in Streams
      PROVE  /\ Head(reqQ).delta[s] \in Nat /\ number[s] \in Nat \cup {Unlimited}
             /\ number'[s] = NewNumber(number[s], Head(reqQ).delta[s])
  <2>1. Head(reqQ).delta[s] \in Nat /\ number[s] \in Nat \cup {Unlimited}
    BY <1>2 DEF ReqMessage, OrderInv, TypeInv, TypeOK, RequestTypeOK
  <2>2. CASE ReqChange
    BY <2>1, <2>2 DEF ReqChange
  <2>3. CASE ReqStop
    <3>1. 1 \in 1 .. Len(reqQ) /\ reqQ[1].stop
      BY <1>2, <2>3 DEF ReqStop
    <3>2. Head(reqQ).delta[s] = 0 /\ number' = number
      BY <1>2, <2>3, <3>1 DEF ReqStop, OrderInv, CountsOK
    <3> QED BY <2>1, <3>2 DEF NewNumber
  <2> QED BY <2>1, <2>2, <2>3
<1>5. ASSUME NEW s \in Streams, NEW known \in Nat, Accounted(s, known),
             NEW n, n = Head(reqQ).delta[s]
      PROVE  Accounted(s, known + n)'
  <2>1. /\ n \in Nat /\ number[s] \in Nat \cup {Unlimited}
        /\ number'[s] = NewNumber(number[s], n)
    BY <1>4, <1>5
  <2>2. taken[s] \in Nat /\ taken'[s] = taken[s] /\ InitialNumber[s] \in Nat \cup {Unlimited}
    BY <1>1, ConstantsAssumption DEF OrderInv, TypeInv, TypeOK, HistoryTypeOK
  <2>3. CASE InitialNumber[s] # Unlimited
    <3>1. number[s] # Unlimited
      BY <2>3 DEF OrderInv, CountsOK
    <3>2. number'[s] = number[s] + n /\ number[s] \in Nat
      BY <2>1, <3>1 DEF NewNumber
    <3>3. known + InitialNumber[s] = taken[s] + number[s]
      BY <1>1, <1>5, <2>1, <2>2, <2>3, <3>2 DEF Accounted
    <3>4. (known + n) + InitialNumber[s] = taken'[s] + number'[s] - 0
      BY <2>1, <2>2, <2>3, <3>2, <3>3
    <3> QED BY <1>1, <2>3, <3>4 DEF Accounted
  <2>4. CASE InitialNumber[s] = Unlimited
    <3>1. (number[s] = Unlimited <=> known = 0) /\ number[s] <= known
      BY <1>5, <2>4 DEF Accounted
    <3>2. (number'[s] = Unlimited <=> known + n = 0) /\ number'[s] <= known + n
      BY <2>1, <3>1 DEF NewNumber, Unlimited
    <3> QED BY <2>4, <3>2 DEF Accounted
  <2> QED BY <2>3, <2>4
<1>6. ASSUME NEW s \in Streams
      PROVE  \E new \in [0 .. Len(reqQ') -> 0 .. ordered'[s]] :
                 Running(s, new)' /\ Accounted(s, new[0])'
  <2>1. PICK sum \in [0 .. Len(reqQ) -> 0 .. ordered[s]] :
               Running(s, sum) /\ Accounted(s, sum[0])
    BY OrdersByStream DEF OrderInv
  <2>2. PICK new \in [0 .. Len(reqQ') -> 0 .. ordered'[s]] :
               Running(s, new)' /\ new[0] = sum[0] + Head(reqQ).delta[s]
    BY <1>1, <2>1, RunningTail DEF OrderInv
  <2>3. sum[0] \in Nat
    <3>1. ordered[s] \in Nat
      BY DEF OrderInv, TypeInv, TypeOK, HistoryTypeOK
    <3> QED BY <1>2, <3>1
  <2>4. PICK n : n = Head(reqQ).delta[s]
    OBVIOUS
  <2>5. Accounted(s, sum[0] + n)'
    BY <1>5, <2>1, <2>3, <2>4
  <2> QED BY <2>2, <2>4, <2>5
<1>7. \A s \in Streams : InitialNumber[s] # Unlimited => number'[s] # Unlimited
  BY <1>4 DEF NewNumber, Unlimited, OrderInv, CountsOK
<1> QED BY <1>1, <1>3, <1>6, <1>7 DEF OrdersAccounted, Accounted, CountsOK

\* The countdown after a request: a counted stream that was asked for has one
\* capture less to send, the one that was sent.
LEMMA OrderSettle ==
    ASSUME OrderInv, ReqSettle
    PROVE  CountsOK' /\ OrdersAccounted'
<1>1. /\ rq = "settle" /\ rq' = "top" /\ UNCHANGED <<reqQ, ordered, taken>>
      /\ \A s \in Streams : number'[s] = IF number[s] > 0 /\ s \in asked THEN number[s] - 1
                                                                       ELSE number[s]
  BY DEF ReqSettle, history
<1>2. \A s \in Streams : /\ number[s] \in Nat \cup {Unlimited}
                         /\ s \in asked => number[s] # 0
                         /\ taken[s] \in Nat /\ InitialNumber[s] \in Nat \cup {Unlimited}
  BY <1>1, ConstantsAssumption
  DEF OrderInv, CountsOK, TypeInv, TypeOK, RequestTypeOK, HistoryTypeOK
<1>3. ASSUME NEW s \in Streams, NEW known \in Nat, Accounted(s, known)
      PROVE  Accounted(s, known)'
  <2>1. CASE InitialNumber[s] # Unlimited
    <3>1. number[s] \in Nat /\ (s \in asked => number[s] > 0)
      BY <1>2, <2>1 DEF OrderInv, CountsOK
    <3>2. known + InitialNumber[s] = taken[s] + number[s] - (IF s \in asked THEN 1 ELSE 0)
      BY <1>1, <1>3, <2>1 DEF Accounted
    <3>3. known + InitialNumber[s] = taken'[s] + number'[s] - 0
      <4>1. CASE s \in asked
        BY <1>1, <1>2, <2>1, <3>1, <3>2, <4>1
      <4>2. CASE s \notin asked
        BY <1>1, <1>2, <2>1, <3>1, <3>2, <4>2
      <4> QED BY <4>1, <4>2
    <3> QED BY <1>1, <2>1, <3>3 DEF Accounted
  <2>2. CASE InitialNumber[s] = Unlimited
    <3>1. (number[s] = Unlimited <=> known = 0) /\ number[s] <= known
      BY <1>3, <2>2 DEF Accounted
    <3>2. (number'[s] = Unlimited <=> known = 0) /\ number'[s] <= known
      BY <1>1, <1>2, <3>1 DEF Unlimited
    <3> QED BY <2>2, <3>2 DEF Accounted
  <2> QED BY <2>1, <2>2
<1>4. OrdersAccounted'
  BY <1>1, <1>3, OrderFrame
<1>5. \A s \in Streams : InitialNumber[s] # Unlimited => number'[s] # Unlimited
  BY <1>1, <1>2 DEF OrderInv, CountsOK, Unlimited
<1> QED BY <1>1, <1>4, <1>5 DEF CountsOK, OrderInv

\* The HAL accepts a request: one capture more was sent of each stream of it,
\* and the countdown for it is still to come.
LEMMA OrderAccept ==
    ASSUME OrderInv, HalAccept
    PROVE  CountsOK' /\ OrdersAccounted'
<1>1. /\ rq = "submit" /\ rq' = "return" /\ UNCHANGED <<reqQ, ordered, number, asked>>
      /\ \A s \in Streams : taken'[s] = taken[s] + (IF s \in asked THEN 1 ELSE 0)
  BY DEF HalAccept
<1>2. ASSUME NEW s \in Streams, NEW known \in Nat, Accounted(s, known)
      PROVE  Accounted(s, known)'
  <2>1. CASE InitialNumber[s] # Unlimited
    <3>1. number[s] \in Nat /\ taken[s] \in Nat /\ InitialNumber[s] \in Nat
      BY <2>1, ConstantsAssumption
      DEF OrderInv, CountsOK, TypeInv, TypeOK, RequestTypeOK, HistoryTypeOK
    <3>2. known + InitialNumber[s] = taken[s] + number[s] - 0
      BY <1>1, <1>2, <2>1 DEF Accounted
    <3>3. known + InitialNumber[s] = taken'[s] + number'[s] - (IF s \in asked THEN 1 ELSE 0)
      <4>1. CASE s \in asked
        BY <1>1, <3>1, <3>2, <4>1
      <4>2. CASE s \notin asked
        BY <1>1, <3>1, <3>2, <4>2
      <4> QED BY <4>1, <4>2
    <3> QED BY <1>1, <2>1, <3>3 DEF Accounted
  <2>2. CASE InitialNumber[s] = Unlimited
    BY <1>1, <1>2, <2>2 DEF Accounted
  <2> QED BY <2>1, <2>2
<1>3. OrdersAccounted'
  BY <1>1, <1>2, OrderFrame
<1> QED BY <1>1, <1>3 DEF CountsOK, OrderInv

\* The steps that neither order, take nor send a capture
LEMMA OrderKept ==
    ASSUME OrderInv, UNCHANGED <<reqQ, ordered, taken, number>>,
           rq' \in {"return", "settle"} <=> rq \in {"return", "settle"},
           rq \in {"return", "settle"} => UNCHANGED asked,
           rq' \notin {"top", "exited", "dead"} => \A s \in asked' : number[s] # 0
    PROVE  CountsOK' /\ OrdersAccounted'
<1>1. \A s \in Streams, known \in Nat : Accounted(s, known) => Accounted(s, known)'
  BY DEF Accounted
<1> QED BY <1>1, OrderFrame DEF CountsOK, OrderInv

\* and leave the streams of the request alone
LEMMA OrderStill ==
    ASSUME OrderInv, UNCHANGED <<reqQ, ordered, taken, number, asked>>,
           rq' = rq \/ (rq \notin {"top", "exited", "dead", "return", "settle"}
                        /\ rq' \notin {"return", "settle"})
                    \/ (rq = "return" /\ rq' = "settle")
    PROVE  CountsOK' /\ OrdersAccounted'
BY OrderKept DEF OrderInv, CountsOK

LEMMA OrderInit == Init => OrderInv
<1> SUFFICES ASSUME Init PROVE OrderInv
  OBVIOUS
<1>1. \A s \in Streams : InitialNumber[s] \in Nat \cup {Unlimited}
  BY ConstantsAssumption
<1>2. ASSUME NEW s \in Streams
      PROVE  \E sum \in [0 .. Len(reqQ) -> 0 .. ordered[s]] :
                 Running(s, sum) /\ Accounted(s, sum[0])
  <2> PICK sum : sum = [i \in 0 .. 0 |-> 0]
    OBVIOUS
  <2>1. Len(reqQ) = 0 /\ ordered[s] = 0 /\ taken[s] = 0 /\ number[s] = InitialNumber[s]
    BY DEF Init
  <2>2. sum \in [0 .. Len(reqQ) -> 0 .. ordered[s]] /\ sum[0] = 0
    BY <2>1
  <2>3. Running(s, sum)
    BY <2>1, <2>2 DEF Running
  <2>4. Accounted(s, 0)
    BY <1>1, <2>1 DEF Accounted, Init, Unlimited
  <2> QED BY <2>2, <2>3, <2>4
<1>3. CountsOK
  BY DEF Init, CountsOK
<1> QED BY <1>2, <1>3, TypeInit, OrdersByStream DEF OrderInv

LEMMA OrderStep == OrderInv /\ [Next]_vars => OrderInv'
<1> SUFFICES ASSUME OrderInv, [Next]_vars PROVE CountsOK' /\ OrdersAccounted'
  BY TypeStep DEF OrderInv
<1>1. CASE ReqStop \/ ReqChange
  BY <1>1, OrderTake
<1>2. CASE ReqSettle
  BY <1>2, OrderSettle
<1>3. CASE HalAccept
  BY <1>3, OrderAccept
<1>4. CASE ReqCompose
  BY <1>4, OrderKept DEF ReqCompose, history
<1>5. CASE Orders
  <2> PICK s \in Streams, n \in 1 .. MaxOrders : OrderCaptures(s, n)
    BY <1>5 DEF Orders
  <2> PICK m : m = Change([t \in Streams |-> IF t = s THEN n ELSE 0])
    OBVIOUS
  <2>1. n \in Nat
    BY ConstantsAssumption
  <2>2. m \in ReqMessage /\ ~m.stop /\ \A t \in Streams : m.delta[t] = IF t = s THEN n ELSE 0
    BY <2>1 DEF Change, ReqMessage
  <2>3. /\ reqQ' = Append(reqQ, m) /\ UNCHANGED <<taken, number, rq, asked>>
        /\ ordered' = [ordered EXCEPT ![s] = @ + n]
    BY DEF OrderCaptures
  <2>4. \A t \in Streams : ordered'[t] = ordered[t] + m.delta[t]
    <3>1. \A t \in Streams : ordered[t] \in Nat /\ ordered'[t] = IF t = s THEN ordered[t] + n
                                                                        ELSE ordered[t]
      BY <2>3 DEF OrderInv, TypeInv, TypeOK, HistoryTypeOK
    <3> QED BY <2>2, <3>1
  <2> QED BY <2>2, <2>3, <2>4, OrderAppend
<1>6. CASE StopRequestThread
  <2>1. Stop \in ReqMessage /\ \A s \in Streams : Stop.delta[s] = 0
    BY DEF Stop, ReqMessage
  <2>2. reqQ' = Append(reqQ, Stop) /\ UNCHANGED <<taken, number, rq, asked, ordered>>
    BY <1>6 DEF StopRequestThread, history
  <2>3. \A s \in Streams : ordered'[s] = ordered[s] + Stop.delta[s]
    BY <2>1, <2>2 DEF OrderInv, TypeInv, TypeOK, HistoryTypeOK
  <2> QED BY <2>1, <2>2, <2>3, OrderAppend
<1>7. CASE ReqAdmit \/ ReqGetBuffer \/ ReqRegister \/ HalReject \/ ReqReturn
  BY <1>7, OrderStill DEF ReqAdmit, ReqGetBuffer, ReqRegister, HalReject, ReqReturn, history
<1>8. CASE Callback \/ HalDelivers
  BY <1>8, OrderStill
  DEF Callback, CbEnqueue, CbEnqueueNull, CbAccount, CbAccountMissing, HalDelivers, HalResult,
      reqVars, history
<1>9. CASE ResultThread \/ ClientPut \/ StopGoesOn
  BY <1>9, OrderStill
  DEF ResultThread, ResStop, ResTake, ResPost, ClientPut, StopGoesOn, StopResultThread,
      StopDrain, StopFinish, reqVars, history
<1>10. CASE WaitsExpire \/ SpuriousWakeup
  BY <1>10, OrderStill
  DEF WaitsExpire, ReqRoomTimeout, StopDrainTimeout, SpuriousWakeup, ReqRoomSpurious,
      ReqGetSpurious, ResTakeSpurious, reqVars, history
<1>11. CASE UNCHANGED vars \/ Over
  BY <1>11, OrderStill DEF Over, vars, reqVars, history
<1> QED
  BY <1>1, <1>2, <1>3, <1>4, <1>5, <1>6, <1>7, <1>8, <1>9, <1>10, <1>11
  DEF Next, RequestThread

\* Whatever is ordered of whichever streams, while other requests are sent, fail
\* or are waited for: every capture is sent once or still to be sent, and a
\* stream that repeats does so until the first order for it is taken.
THEOREM OrdersAreAccounted == SafetySpec => []OrdersAccounted
<1>1. OrderInv => OrdersAccounted
  BY DEF OrderInv
<1> QED BY OrderInit, OrderStep, <1>1, PTL DEF SafetySpec
=============================================================================
