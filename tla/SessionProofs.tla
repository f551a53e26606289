--------------------------- MODULE SessionProofs ---------------------------
(***************************************************************************)
(* Proofs about Session for any number of cameras, any list of orders and  *)
(* any number of failures: main() and the handler of a fatal signal stop   *)
(* and close the same cameras, one after the other, one in the middle of   *)
(* the other, or side by side.                                             *)
(***************************************************************************)
EXTENDS Session, TLAPS

SessionSpec == SessionInit /\ [][SessionNext]_sessionVars

-----------------------------------------------------------------------------
(* The inductive invariant.                                                *)

BuildSteps == {"preinit", "open", "init", "start", "threads", "register"}
SetUpSteps == {"load", "initialize", "order"} \cup BuildSteps

\* main() is setting camera c up.
Building(c) == at["main"] \in BuildSteps /\ cam["main"] = c

\* cmd_order holds an order for camera c that can be parsed.
Ordered(c) == c \in DOMAIN orderList /\ Mode(c) \in Modes

\* Where the two actors may be
ControlOK ==
    /\ orderList \in OrderLists
    /\ at \in [Actors -> SetUpSteps \cup StopSteps \cup {"none", "use", "test", "close"}]
    /\ at["main"] # "none" /\ at["handler"] \notin SetUpSteps \cup {"use"}
    /\ (at["handler"] = "none") <=> (host = NoThread)
    /\ host = NoThread => ~interrupted
    /\ \A a \in Actors : at[a] \in StopSteps => Ordered(cam[a])
    /\ at["handler"] = "close" => cam["handler"] \in Slots

SessionInv == SessionTypeOK /\ ControlOK

\* While main() sets the cameras up in order, nobody touches those to come, and
\* the handler is at an earlier one.
BuildInv ==
    at["main"] \in SetUpSteps =>
        /\ at["main"] \in {"load", "initialize"} => cam["main"] = 0
        /\ \A c \in Slots : c >= cam["main"] => c \notin tests
        /\ \A c \in Slots : c >= cam["main"] /\ ~Building(c) => c \notin cameras
        /\ at["main"] \in BuildSteps => cam["main"] \in cameras /\ Ordered(cam["main"])
        /\ at["handler"] \in StopSteps \cup {"close"} => cam["handler"] < cam["main"]

\* The pools of a camera whose stop() is over: freed, but for those without a
\* configured stream.
PoolsFreed(c) ==
    \/ <<c, "stream">> \in failed
    \/ pools[c] = {}
    \/ Mode(c) = "video" /\ orderList[c].hfr = "hfr120" /\ pools[c] = {"snapshot"}

PoolsWhole(c) == pools[c] = Preallocated(c) /\ streams[c] = Configured(c)

\* How far a camera is: what is allocated, opened or running has an owner.
SlotOK(c) ==
    /\ opened[c] \in {"open", "failed"} => c \in cameras
    /\ c \in cameras => \/ opened[c] \in {"open", "failed"}
                        \/ Building(c) /\ at["main"] \in {"preinit", "open"}
    /\ opened[c] = "failed" => failed # {}
    /\ \A k \in Threads :
           thread[c][k] # "none" => c \in tests \/ (Building(c) /\ at["main"] = "register")
    /\ encoder[c] # "none" => c \in tests \/ Building(c)
    /\ c \notin tests /\ ~Building(c) => PoolsFreed(c)
    /\ c \in tests => Ordered(c)
    /\ c \in tests \/ (Building(c) /\ at["main"] \in {"start", "threads", "register"})
           => \/ <<c, "stream">> \in failed
              \/ PoolsWhole(c)
              \/ PoolsFreed(c) /\ streams[c] = {}
    /\ Building(c) /\ at["main"] \in {"open", "init"} => pools[c] = Preallocated(c)
    /\ Building(c) /\ Mode(c) = "video" =>
           encoder[c] = IF at["main"] \in {"threads", "register"} THEN "running" ELSE "made"
    /\ Building(c) /\ at["main"] = "register" => \A k \in Threads : thread[c][k] # "none"

SlotInv == \A c \in Slots : SlotOK(c)

\* What an actor has done of stop() on its way.
StopInv ==
    /\ \A a \in Actors :
        /\ at[a] = "encoder" => kind[a] = "request"
        /\ at[a] \in {"free", "delete"} => \A k \in Threads : thread[cam[a]][k] = "none"
        /\ at[a] \in {"lock", "push", "join"} /\ kind[a] = "result" =>
               thread[cam[a]]["request"] = "none"
        /\ at[a] = "delete" => PoolsFreed(cam[a])
    /\ at["handler"] = "close" => cam["handler"] \notin tests
    /\ at["main"] \in StopSteps \cup {"test"} => \A c \in Slots : c < cam["main"] => c \notin tests
    /\ at["main"] = "close" => tests = {} /\ \A c \in Slots : c < cam["main"] => c \notin cameras

\* When the handler has main()'s thread, main() does nothing any more: the tests
\* it found are the tests it has stopped and those to come.
HandlerInv ==
    host = MainThread =>
        /\ \A c \in Slots : c < cam["handler"] => c \notin tests
        /\ \A c \in Slots : c < cam["handler"] /\ c \notin missed => c \notin cameras
        /\ \A c \in Slots : c >= cam["handler"] /\ c \notin missed =>
               c \in tests \/ (at["handler"] = "close" /\ c = cam["handler"])
        /\ at["main"] \in SetUpSteps => \A c \in Slots : c >= cam["main"] => c \in missed

\* Nobody has begun to stop test c: its threads and its encoder are there.
Whole(c) ==
    /\ \A k \in Threads : thread[c][k] # "none"
    /\ Mode(c) = "video" => encoder[c] = "running"

\* One actor at a time, and none in the middle of stop() of the other: what stop()
\* is about to use is there.
AloneInv ==
    ~interrupted /\ ~Concurrent =>
        /\ host = MainThread => at["main"] \notin StopSteps
        /\ \A c \in tests : (\A a \in Actors : at[a] \in StopSteps => cam[a] # c) => Whole(c)
        /\ \A a \in Actors :
            /\ at[a] = "encoder" => Whole(cam[a]) /\ Mode(cam[a]) = "video"
            /\ at[a] \in {"lock", "push", "join"} =>
                   /\ thread[cam[a]]["result"] # "none"
                   /\ kind[a] = "request" => thread[cam[a]]["request"] # "none"

EndInv == FaultsExplained /\ ReleasedAtExit

LifeInv ==
    SessionInv /\ BuildInv /\ SlotInv /\ StopInv /\ HandlerInv /\ AloneInv /\ EndInv

-----------------------------------------------------------------------------
(* Facts about the threads, the slots and the pools.                       *)

\* The main thread, a thread of the HAL and the threads of the cameras are
\* different threads, and none of them is "no thread".
LEMMA ThreadsDiffer ==
    /\ MainThread # NoThread /\ HalThread # NoThread /\ HalThread # MainThread
    /\ \A c \in Slots, k \in Threads : <<c, k>> # NoThread /\ <<c, k>> # MainThread
<1>1. MaxCamera \notin Slots
  BY SessionAssumption DEF Slots
<1> QED
  BY <1>1 DEF MainThread, NoThread, HalThread

LEMMA SlotsType ==
    /\ MaxCamera \in Nat /\ Slots \subseteq Nat /\ Slots \subseteq 0 .. MaxCamera
    /\ \A c \in Slots : c + 1 \in 0 .. MaxCamera
    /\ \A c \in 0 .. MaxCamera : c # MaxCamera => c \in Slots
BY SessionAssumption DEF Slots

\* Every order is for a slot.
LEMMA OrderType ==
    ASSUME SessionInv
    PROVE  /\ DOMAIN orderList \subseteq Slots
           /\ \A c \in DOMAIN orderList : Mode(c) \in Modes \cup {"none"}
           /\ \A c : Ordered(c) => c \in Slots
BY OrderAssumption DEF SessionInv, ControlOK, Ordered, Mode

\* What stop() leaves of the pools of a camera: nothing, or the third pool of a
\* video camera above 60 frames a second.
LEMMA PoolsLeft ==
    ASSUME NEW c, Ordered(c)
    PROVE  /\ Preallocated(c) \in SUBSET Streams /\ Configured(c) \in SUBSET Streams
           /\ \/ Preallocated(c) \ Configured(c) = {}
              \/ /\ Mode(c) = "video" /\ orderList[c].hfr = "hfr120"
                 /\ Preallocated(c) \ Configured(c) = {"snapshot"}
<1>1. Mode(c) \in Modes
  BY DEF Ordered
<1>2. CASE Mode(c) = "preview"
  BY <1>2 DEF Preallocated, Configured, PreviewPools, PreviewStreams, Streams
<1>3. CASE Mode(c) = "depth"
  BY <1>3 DEF Preallocated, Configured, TofPools, TofStreams, Streams
<1>4. CASE Mode(c) = "snapshot"
  BY <1>4 DEF Preallocated, Configured, SnapshotPools, SnapshotStreams, Streams
<1>5. CASE Mode(c) = "video"
  BY <1>5 DEF Preallocated, Configured, VideoPools, VideoStreams, Streams
<1> QED
  BY <1>1, <1>2, <1>3, <1>4, <1>5 DEF Modes

\* As long as the process lives, nothing is said of its end.
LEMMA AliveEnds == end' = "alive" => EndInv'
BY DEF EndInv, FaultsExplained, ReleasedAtExit

\* The end of the process changes nothing else; what failed stays known.
LEMMA EndKeeps ==
    ASSUME LifeInv, failed \subseteq failed', end' \in {"exited", "killed", "undefined"},
           UNCHANGED <<orderList, where, slotVars, deviceVars, threadVars, signalVars>>,
           EndInv'
    PROVE  LifeInv'
<1> USE DEF where, slotVars, deviceVars, threadVars, signalVars
<1>1. \A c : /\ Building(c)' = Building(c) /\ Ordered(c)' = Ordered(c) /\ Mode(c)' = Mode(c)
             /\ Preallocated(c)' = Preallocated(c) /\ Configured(c)' = Configured(c)
             /\ PoolsFreed(c) => PoolsFreed(c)'
             /\ Whole(c)' = Whole(c)
  BY DEF Building, Ordered, Mode, Preallocated, Configured, VideoStreams, PoolsFreed, Whole
<1>2. SessionInv'
  BY <1>1 DEF LifeInv, SessionInv, SessionTypeOK, ControlOK
<1>3. BuildInv'
  BY <1>1 DEF LifeInv, BuildInv
<1>4. SlotInv'
  BY <1>1 DEF LifeInv, SlotInv, SlotOK, PoolsWhole
<1>5. StopInv'
  BY <1>1 DEF LifeInv, StopInv
<1>6. HandlerInv'
  BY DEF LifeInv, HandlerInv
<1>7. AloneInv'
  BY <1>1 DEF LifeInv, AloneInv, Concurrent
<1> QED
  BY <1>2, <1>3, <1>4, <1>5, <1>6, <1>7 DEF LifeInv

\* A camera without a test that is not being set up and is not in Camera is released.
LEMMA ReleasedSlot ==
    ASSUME LifeInv, NEW c \in Slots, c \notin tests, c \notin cameras, ~Building(c)
    PROVE  /\ opened[c] \notin {"open", "failed"} /\ encoder[c] = "none"
           /\ \A k \in Threads : thread[c][k] = "none"
           /\ PoolsFreed(c)
BY DEF LifeInv, SlotInv, SlotOK

\* The process may exit once that is so of every camera the handler could see.
LEMMA ExitKeeps ==
    ASSUME LifeInv, End("exited"),
           ~Concurrent => \A c \in Slots \ missed : c \notin tests /\ c \notin cameras /\ ~Building(c)
    PROVE  LifeInv'
<1>1. Concurrent' = Concurrent /\ missed' = missed /\ end' = "exited"
  BY DEF End, signalVars, Concurrent
<1>2. ASSUME ~Concurrent, NEW c \in Slots \ missed
      PROVE  /\ opened[c] \notin {"open", "failed"} /\ c \notin cameras /\ encoder[c] = "none"
             /\ \A k \in Threads : thread[c][k] = "none"
             /\ PoolsFreed(c)
  BY <1>2, ReleasedSlot
<1>3. ReleasedAtExit'
  <2>1. /\ opened' = opened /\ cameras' = cameras /\ encoder' = encoder /\ thread' = thread
        /\ failed' = failed /\ pools' = pools /\ orderList' = orderList
    BY DEF End, slotVars, deviceVars, threadVars
  <2>2. ASSUME ~Concurrent, NEW c \in Slots \ missed
        PROVE  \/ <<c, "stream">> \in failed
               \/ pools[c] = {}
               \/ Mode(c) = "video" /\ orderList[c].hfr = "hfr120" /\ pools[c] = {"snapshot"}
    BY <1>2, <2>2 DEF PoolsFreed
  <2>3. \A c : Mode(c)' = Mode(c)
    BY <2>1 DEF Mode
  <2> QED
    BY ZenonT(60), <1>1, <1>2, <2>1, <2>2, <2>3 DEF ReleasedAtExit
<1>4. FaultsExplained'
  BY <1>1 DEF FaultsExplained
<1> QED
  BY <1>1, <1>3, <1>4, EndKeeps DEF End, EndInv

LEMMA LifeInit == SessionInit => LifeInv
<1> SUFFICES ASSUME SessionInit PROVE LifeInv
  OBVIOUS
<1> USE DEF SessionInit, Actors
<1>1. \A c : ~Building(c)
  BY DEF Building, BuildSteps
<1>2. 0 \in 0 .. MaxCamera
  BY SessionAssumption
<1>3. SessionTypeOK
  BY <1>2 DEF SessionTypeOK, Threads
<1>4. ControlOK
  <2>1. at["main"] = "load" /\ at["handler"] = "none"
    OBVIOUS
  <2>2. at \in [Actors -> SetUpSteps \cup StopSteps \cup {"none", "use", "test", "close"}]
    BY DEF SetUpSteps
  <2>3. \A a \in Actors : at[a] \notin StopSteps
    BY <2>1 DEF StopSteps
  <2> QED
    BY <2>1, <2>2, <2>3 DEF ControlOK, SetUpSteps, BuildSteps
<1>5. BuildInv
  <2>1. /\ at["handler"] \notin StopSteps \cup {"close"} /\ at["main"] \notin BuildSteps
        /\ tests = {} /\ cameras = {}
    BY DEF StopSteps, BuildSteps
  <2> QED
    BY <1>1, <2>1 DEF BuildInv
<1>6. SlotInv
  BY <1>1 DEF SlotInv, SlotOK, PoolsFreed
<1>7. StopInv
  BY DEF StopInv, StopSteps
<1>8. HandlerInv
  BY ThreadsDiffer DEF HandlerInv
<1>9. AloneInv
  BY ThreadsDiffer DEF AloneInv, StopSteps
<1>10. EndInv
  BY DEF EndInv, FaultsExplained, ReleasedAtExit
<1> QED
  BY <1>3, <1>4, <1>5, <1>6, <1>7, <1>8, <1>9, <1>10 DEF LifeInv, SessionInv

-----------------------------------------------------------------------------
(* What a step that leaves a camera alone keeps.                           *)

\* Nothing of camera c changes hands.
DeviceSame(c) ==
    /\ opened'[c] = opened[c] /\ pools'[c] = pools[c] /\ streams'[c] = streams[c]
    /\ encoder'[c] = encoder[c] /\ thread'[c] = thread[c]

\* The orders stay what they are.
LEMMA OrdersSame ==
    ASSUME orderList' = orderList
    PROVE  \A c : /\ Mode(c)' = Mode(c) /\ Ordered(c)' = Ordered(c)
                  /\ Preallocated(c)' = Preallocated(c) /\ Configured(c)' = Configured(c)
BY DEF Mode, Ordered, Preallocated, Configured, VideoStreams

\* What was freed stays freed, and what is whole stays whole.
LEMMA DeviceKept ==
    ASSUME orderList' = orderList, failed \subseteq failed', NEW c, DeviceSame(c)
    PROVE  /\ PoolsFreed(c) => PoolsFreed(c)'
           /\ PoolsWhole(c) => PoolsWhole(c)'
           /\ Whole(c)' = Whole(c)
BY OrdersSame DEF DeviceSame, PoolsFreed, PoolsWhole, Whole, Mode

\* A slot is kept if main() is setting up another one, or does not move.
LEMMA SlotKept ==
    ASSUME orderList' = orderList, failed \subseteq failed', NEW c, SlotOK(c), DeviceSame(c),
           c \in cameras' <=> c \in cameras, c \in tests' <=> c \in tests,
           \/ ~Building(c) /\ ~Building(c)'
           \/ at'["main"] = at["main"] /\ cam'["main"] = cam["main"]
    PROVE  SlotOK(c)'
<1>1. Mode(c)' = Mode(c) /\ Ordered(c)' = Ordered(c) /\ Preallocated(c)' = Preallocated(c)
  BY OrdersSame
<1>2. PoolsFreed(c) => PoolsFreed(c)'
  BY DeviceKept
<1>3. PoolsWhole(c) => PoolsWhole(c)'
  BY DeviceKept
<1>4. CASE ~Building(c) /\ ~Building(c)'
  BY <1>1, <1>2, <1>3, <1>4 DEF SlotOK, DeviceSame
<1>5. CASE at'["main"] = at["main"] /\ cam'["main"] = cam["main"]
  <2>1. Building(c)' = Building(c)
    BY <1>5 DEF Building
  <2> QED
    BY <1>1, <1>2, <1>3, <1>5, <2>1 DEF SlotOK, DeviceSame
<1> QED
  BY <1>4, <1>5

\* A step of main()'s set-up that registers no test disturbs only the camera that
\* is being set up, which the handler has not come to.
LEMMA SetUpFrame ==
    ASSUME LifeInv, host # MainThread, end' = "alive", failed \subseteq failed',
           at["main"] \in SetUpSteps, at'["main"] \in SetUpSteps \cup {"use"},
           at'["handler"] = at["handler"], cam'["handler"] = cam["handler"],
           UNCHANGED <<orderList, kind, tests, host, missed, interrupted>>,
           \A c \in Slots : c # cam["main"] => DeviceSame(c)
    PROVE  StopInv' /\ HandlerInv' /\ AloneInv' /\ EndInv'
<1> USE DEF LifeInv, SessionInv, Actors
<1>1. at["main"] \notin StopSteps \cup {"test", "close"} /\ at'["main"] \notin StopSteps \cup {"test", "close"}
  BY DEF SetUpSteps, BuildSteps, StopSteps
<1>2. \A c \in tests : c \in Slots /\ c # cam["main"]
  BY SlotsType DEF BuildInv, SessionTypeOK
<1>3. ASSUME at["handler"] \in StopSteps \cup {"close"}
      PROVE  cam["handler"] \in Slots /\ cam["handler"] # cam["main"]
  BY <1>3, OrderType, SlotsType DEF BuildInv, ControlOK, SessionTypeOK
<1>4. StopInv'
  <2>1. at["handler"] \in StopSteps => DeviceSame(cam["handler"])
                                       /\ (PoolsFreed(cam["handler"]) => PoolsFreed(cam["handler"])')
    BY <1>3, DeviceKept
  <2>2. at["handler"] = "delete" => PoolsFreed(cam["handler"])'
    BY <2>1 DEF StopInv, StopSteps
  <2> QED
    BY <1>1, <2>1, <2>2 DEF StopInv, StopSteps, DeviceSame
<1>5. HandlerInv'
  BY DEF HandlerInv
<1>6. AloneInv'
  <2>1. \A c \in tests : Whole(c)' = Whole(c)
    BY <1>2, DeviceKept
  <2>2. at["handler"] \in StopSteps => /\ DeviceSame(cam["handler"])
                                       /\ Whole(cam["handler"])' = Whole(cam["handler"])
                                       /\ Mode(cam["handler"])' = Mode(cam["handler"])
    BY <1>3, DeviceKept, OrdersSame
  <2> QED
    BY <1>1, <2>1, <2>2 DEF AloneInv, Concurrent, StopSteps, DeviceSame
<1> QED
  BY <1>4, <1>5, <1>6, AliveEnds

\* A step that sets a camera up further keeps the invariant if it keeps the types
\* and what is said of that camera.
LEMMA BuildFrame ==
    ASSUME LifeInv, host # MainThread, end' = "alive", failed \subseteq failed',
           at["main"] \in BuildSteps, NEW to \in BuildSteps, at' = [at EXCEPT !["main"] = to],
           UNCHANGED <<orderList, cam, kind, cameras, tests, host, missed, interrupted>>,
           \A c \in Slots : c # cam["main"] => DeviceSame(c),
           SessionTypeOK', SlotOK(cam["main"])'
    PROVE  LifeInv'
<1> USE DEF LifeInv, SessionInv, Actors
<1>1. at'["main"] = to /\ at'["handler"] = at["handler"]
  BY DEF ControlOK
<1>2. \A c : Building(c)' = Building(c)
  BY <1>1 DEF Building
<1>3. ControlOK'
  BY <1>1, OrdersSame DEF ControlOK, SetUpSteps, BuildSteps, StopSteps
<1>4. BuildInv'
  BY <1>1, <1>2, OrdersSame DEF BuildInv, SetUpSteps, BuildSteps
<1>5. SlotInv'
  <2>1. ASSUME NEW c \in Slots, c # cam["main"] PROVE SlotOK(c)'
    <3>1. ~Building(c) /\ ~Building(c)'
      BY <1>2, <2>1 DEF Building
    <3> QED
      BY <2>1, <3>1, SlotKept DEF SlotInv
  <2> QED
    BY <2>1 DEF SlotInv
<1>6. StopInv' /\ HandlerInv' /\ AloneInv' /\ EndInv'
  BY <1>1, SetUpFrame DEF SetUpSteps
<1> QED
  BY <1>3, <1>4, <1>5, <1>6

-----------------------------------------------------------------------------
(* Signals.                                                                *)

\* The handler begins on the main thread, on one of a camera or on one of the HAL.
LEMMA DeliverKeeps ==
    ASSUME LifeInv, host = NoThread, end = "alive", NEW t, Deliver(t),
           t \in {MainThread, HalThread} \/ \E c \in Slots, k \in Threads : t = <<c, k>>
    PROVE  LifeInv'
<1> USE DEF LifeInv, SessionInv, Actors
<1>1. /\ at'["main"] = at["main"] /\ at["handler"] = "none" /\ at'["handler"] = "test"
      /\ cam'["main"] = cam["main"] /\ cam'["handler"] = 0
      /\ host' = t /\ missed' = Slots \ tests /\ end' = "alive" /\ host # MainThread
      /\ interrupted' = (t = MainThread /\ at["main"] \in StopSteps)
      /\ UNCHANGED <<orderList, kind, cameras, tests, opened, pools, streams, encoder, thread, failed>>
  BY ThreadsDiffer DEF Deliver, ControlOK, SessionTypeOK, slotVars, deviceVars
<1>2. t # NoThread
  BY ThreadsDiffer
<1>3. \A c : Building(c)' = Building(c) /\ DeviceSame(c)
  BY <1>1 DEF Building, DeviceSame
<1>4. "test" \notin StopSteps /\ "none" \notin StopSteps
  BY DEF StopSteps
<1>5. SessionTypeOK'
  <2>1. owner' \in [Slots -> [Locks -> {"nobody", "host"} \cup Actors]]
    <3>1. CASE owner' = owner
      BY <3>1 DEF SessionTypeOK
    <3>2. ASSUME NEW c \in Slots, NEW l \in MayHave(t, c), owner[c][l] = "nobody",
                 owner' = [owner EXCEPT ![c][l] = "host"]
          PROVE  owner' \in [Slots -> [Locks -> {"nobody", "host"} \cup Actors]]
      BY <3>2 DEF SessionTypeOK
    <3> QED
      BY <3>1, <3>2 DEF Deliver
  <2>2. cam' \in [Actors -> 0 .. MaxCamera]
    BY SlotsType DEF Deliver, SessionTypeOK
  <2>3. missed' \subseteq Slots /\ interrupted' \in BOOLEAN
    BY <1>1
  <2> QED
    BY <1>1, <2>1, <2>2, <2>3 DEF SessionTypeOK
<1>6. ControlOK'
  <2>1. at' \in [Actors -> SetUpSteps \cup StopSteps \cup {"none", "use", "test", "close"}]
    BY DEF Deliver, ControlOK
  <2>2. \A a \in Actors : at'[a] \in StopSteps => Ordered(cam[a])' /\ cam'[a] = cam[a]
    BY <1>1, <1>4, OrdersSame DEF ControlOK
  <2>3. \A a \in Actors : at'[a] \in StopSteps => Ordered(cam[a])'
    BY <2>2
  <2> QED
    BY <1>1, <1>2, <1>4, <2>1, <2>3 DEF ControlOK, SetUpSteps, BuildSteps
<1>7. BuildInv'
  BY <1>1, <1>3, <1>4, OrdersSame DEF BuildInv, SetUpSteps
<1>8. SlotInv'
  BY <1>1, <1>3, SlotKept DEF SlotInv
<1>9. StopInv'
  <2>1. at["main"] = "delete" => PoolsFreed(cam["main"])'
    BY <1>1, <1>3, DeviceKept DEF StopInv
  <2> QED
    BY <1>1, <1>4, <2>1 DEF StopInv, StopSteps
<1>10. HandlerInv'
  <2>1. \A c \in Slots : c >= 0
    BY SlotsType
  <2> QED
    BY <1>1, <2>1, SlotsType DEF HandlerInv, BuildInv
<1>11. AloneInv'
  <2>1. ASSUME ~interrupted', ~Concurrent'
        PROVE  ~interrupted /\ ~Concurrent /\ at["main"] \notin StopSteps
    BY <1>1, <1>2, <2>1 DEF Concurrent, ControlOK
  <2>2. \A c : Whole(c)' = Whole(c)
    BY <1>1, <1>3, DeviceKept
  <2> QED
    BY <1>1, <1>4, <2>1, <2>2 DEF AloneInv, StopSteps
<1> QED
  BY <1>1, <1>5, <1>6, <1>7, <1>8, <1>9, <1>10, <1>11, AliveEnds

\* Dereferencing NULL starts the handler, or ends the process: in main() while the
\* handler runs elsewhere, or in the handler, where it has to be explained.
LEMMA SegfaultKeeps ==
    ASSUME LifeInv, NEW a \in Actors, Runs(a), Segfault(a),
           a = "handler" => failed # {} \/ interrupted \/ Concurrent
    PROVE  LifeInv'
<1>1. CASE a = "handler"
  <2>1. End("killed")
    BY <1>1 DEF Segfault
  <2>2. EndInv'
    BY <1>1, <2>1 DEF End, EndInv, FaultsExplained, ReleasedAtExit, Concurrent, signalVars
  <2> QED
    BY <2>1, <2>2, EndKeeps DEF End
<1>2. CASE a = "main" /\ host = NoThread
  BY <1>2, DeliverKeeps DEF Segfault, Runs
<1>3. CASE a = "main" /\ host # NoThread
  <2>1. End("undefined") /\ Concurrent
    BY <1>3 DEF Segfault, Runs, Concurrent
  <2>2. EndInv'
    BY <2>1 DEF End, EndInv, FaultsExplained, ReleasedAtExit, Concurrent, signalVars
  <2> QED
    BY <2>1, <2>2, EndKeeps DEF End
<1> QED
  BY <1>1, <1>2, <1>3 DEF Actors

LEMMA SignalKeeps == LifeInv /\ Signal => LifeInv'
BY DeliverKeeps DEF Signal

-----------------------------------------------------------------------------
(* Set-up.                                                                 *)

\* Before the first order and between two of them main() only moves on.
LEMMA MoveKeeps ==
    ASSUME LifeInv, NEW from, NEW to, Go("main", from, to),
           <<from, to>> \in {<<"load", "initialize">>, <<"initialize", "order">>, <<"order", "use">>},
           UNCHANGED <<orderList, cam, kind, slotVars, deviceVars, threadVars, signalVars, failed, end>>
    PROVE  LifeInv'
<1> USE DEF LifeInv, SessionInv, Actors, slotVars, deviceVars, threadVars, signalVars
<1>1. /\ at["main"] = from /\ at'["main"] = to /\ at'["handler"] = at["handler"]
      /\ host # MainThread /\ end = "alive"
  BY DEF Go, Runs, ControlOK
<1>2. /\ at["main"] \in SetUpSteps /\ at'["main"] \in SetUpSteps \cup {"use"}
      /\ at'["main"] \in {"load", "initialize"} => at["main"] = "load"
  BY <1>1 DEF SetUpSteps
<1>3. \A c : DeviceSame(c) /\ ~Building(c) /\ ~Building(c)'
  BY <1>1 DEF DeviceSame, Building, BuildSteps
<1>4. SessionTypeOK'
  BY DEF SessionTypeOK
<1>5. ControlOK'
  <2>1. at' \in [Actors -> SetUpSteps \cup StopSteps \cup {"none", "use", "test", "close"}]
    BY <1>2 DEF Go, ControlOK
  <2> QED
    BY <1>1, <2>1, OrdersSame DEF ControlOK, StopSteps
<1>6. BuildInv'
  BY <1>1, <1>2, <1>3 DEF BuildInv, BuildSteps
<1>7. SlotInv'
  BY <1>3, SlotKept DEF SlotInv
<1> QED
  BY <1>1, <1>2, <1>3, <1>4, <1>5, <1>6, <1>7, SetUpFrame

LEMMA LoadCameraModuleKeeps == LifeInv /\ LoadCameraModule => LifeInv'
<1> SUFFICES ASSUME LifeInv, LoadCameraModule PROVE LifeInv'
  OBVIOUS
<1>1. CASE Go("main", "load", "initialize") /\ UNCHANGED <<orderList, cam, kind, slotVars, deviceVars,
                                                         threadVars, signalVars, failed, end>>
  BY <1>1, MoveKeeps
<1>2. CASE Runs("main") /\ Segfault("main")
  BY <1>2, SegfaultKeeps DEF Actors
<1>3. CASE /\ end' = "undefined" /\ failed' = failed \cup {<<0, "module">>}
           /\ UNCHANGED <<orderList, where, slotVars, deviceVars, threadVars, signalVars>>
  <2>1. EndInv'
    BY <1>3 DEF EndInv, FaultsExplained, ReleasedAtExit
  <2> QED
    BY <1>3, <2>1, EndKeeps
<1> QED
  BY <1>1, <1>2, <1>3 DEF LoadCameraModule

LEMMA InitializeKeeps == LifeInv /\ Initialize => LifeInv'
<1> SUFFICES ASSUME LifeInv, Initialize PROVE LifeInv'
  OBVIOUS
<1>1. CASE Go("main", "initialize", "order") /\ UNCHANGED <<orderList, cam, kind, slotVars, deviceVars,
                                                          threadVars, signalVars, failed, end>>
  BY <1>1, MoveKeeps
<1>2. CASE Runs("main") /\ at["main"] = "initialize" /\ End("exited")
  <2>1. \A c \in Slots : ~Building(c) /\ c >= 0
    BY <1>2, SlotsType DEF Building, BuildSteps
  <2>2. at["main"] \in SetUpSteps
    BY <1>2 DEF SetUpSteps
  <2>3. cam["main"] = 0
    BY <1>2, <2>2 DEF LifeInv, BuildInv
  <2>4. \A c \in Slots : c \notin tests /\ c \notin cameras /\ ~Building(c)
    BY <2>1, <2>2, <2>3 DEF LifeInv, BuildInv
  <2> QED
    BY <1>2, <2>4, ExitKeeps
<1> QED
  BY <1>1, <1>2 DEF Initialize

LEMMA TakeOrderKeeps == LifeInv /\ TakeOrder => LifeInv'
<1> SUFFICES ASSUME LifeInv, TakeOrder PROVE LifeInv'
  OBVIOUS
<1> USE DEF LifeInv, SessionInv, Actors
<1> DEFINE d == cam["main"]
<1>1. CASE Go("main", "order", "use") /\ UNCHANGED <<orderList, cam, kind, slotVars, deviceVars,
                                                   threadVars, signalVars, failed, end>>
  BY <1>1, MoveKeeps
<1>2. CASE /\ d \in DOMAIN orderList /\ Mode(d) # "none"
           /\ Go("main", "order", "preinit")
           /\ cameras' = cameras \cup {d}
           /\ encoder' = [encoder EXCEPT ![d] = IF Mode(d) = "video" THEN "made" ELSE "none"]
           /\ UNCHANGED <<orderList, cam, kind, tests, opened, pools, streams, threadVars, signalVars,
                          failed, end>>
  <2> USE DEF threadVars, signalVars
  <2>1. /\ at["main"] = "order" /\ at'["main"] = "preinit" /\ at'["handler"] = at["handler"]
        /\ host # MainThread /\ end = "alive"
    BY <1>2 DEF Go, Runs, ControlOK
  <2>2. at["main"] \in SetUpSteps /\ at'["main"] \in BuildSteps /\ at'["main"] \in SetUpSteps
    BY <2>1 DEF SetUpSteps, BuildSteps
  <2>3. Ordered(d) /\ d \in Slots
    BY <1>2, OrderType DEF Ordered
  <2>4. \A c : ~Building(c) /\ (Building(c)' <=> c = d)
    BY <1>2, <2>1 DEF Building, BuildSteps
  <2>5. d \notin tests /\ d \notin cameras
    <3>1. d \in Nat
      BY <2>3, SlotsType
    <3> QED
      BY <2>2, <2>3, <2>4, <3>1 DEF BuildInv
  <2>6. \A c \in Slots : c # d => DeviceSame(c)
    BY <1>2 DEF DeviceSame, SessionTypeOK
  <2>7. SessionTypeOK'
    BY <1>2, <2>3 DEF SessionTypeOK
  <2>8. ControlOK'
    <3>1. at' \in [Actors -> SetUpSteps \cup StopSteps \cup {"none", "use", "test", "close"}]
      BY <1>2, <2>2 DEF Go, ControlOK
    <3> QED
      BY <1>2, <2>1, <3>1, OrdersSame DEF ControlOK, StopSteps
  <2>9. BuildInv'
    BY <1>2, <2>1, <2>2, <2>3, <2>4, <2>5, OrdersSame DEF BuildInv
  <2>10. SlotInv'
    <3>1. ASSUME NEW c \in Slots, c # d PROVE SlotOK(c)'
      BY <1>2, <2>4, <2>6, <3>1, SlotKept DEF SlotInv
    <3>2. SlotOK(d)'
      <4>1. SlotOK(d) /\ encoder'[d] = IF Mode(d) = "video" THEN "made" ELSE "none"
        BY <1>2, <2>3 DEF SlotInv, SessionTypeOK
      <4>2. opened[d] \notin {"open", "failed"}
        BY <2>5, <4>1 DEF SlotOK
      <4> QED
        BY <1>2, <2>1, <2>3, <2>4, <2>5, <4>1, <4>2, OrdersSame DEF SlotOK
    <3> QED
      BY <1>2, <3>1, <3>2 DEF SlotInv
  <2> QED
    BY <1>2, <2>1, <2>2, <2>6, <2>7, <2>8, <2>9, <2>10, SetUpFrame
<1> QED
  BY <1>1, <1>2 DEF TakeOrder

\* The camera that main() is setting up
LEMMA Built ==
    ASSUME LifeInv, at["main"] \in BuildSteps
    PROVE  /\ cam["main"] \in Slots /\ cam["main"] \in cameras /\ Ordered(cam["main"])
           /\ cam["main"] \notin tests /\ Building(cam["main"]) /\ SlotOK(cam["main"])
<1>1. at["main"] \in SetUpSteps
  BY DEF SetUpSteps
<1>2. cam["main"] \in cameras /\ Ordered(cam["main"])
  BY <1>1 DEF LifeInv, BuildInv
<1>3. cam["main"] \in Slots
  BY <1>2, OrderType DEF LifeInv
<1>4. cam["main"] \in Nat
  BY <1>3, SlotsType
<1>5. cam["main"] \notin tests
  BY <1>1, <1>3, <1>4 DEF LifeInv, BuildInv
<1> QED
  BY <1>2, <1>3, <1>5 DEF Building, LifeInv, SlotInv

LEMMA PreinitKeeps == LifeInv /\ Preinit => LifeInv'
<1> SUFFICES ASSUME LifeInv, Preinit PROVE LifeInv'
  OBVIOUS
<1> USE DEF threadVars, signalVars, slotVars
<1> DEFINE d == cam["main"]
<1>1. CASE /\ Go("main", "preinit", "open")
           /\ pools' = [pools EXCEPT ![d] = Preallocated(d)]
           /\ failed' \in {failed} \cup (IF MayFail THEN {failed \cup {<<d, "buffer">>}} ELSE {})
           /\ UNCHANGED <<orderList, cam, kind, slotVars, opened, streams, encoder, threadVars,
                          signalVars, end>>
  <2>1. /\ at["main"] = "preinit" /\ at'["main"] = "open" /\ host # MainThread /\ end' = "alive"
        /\ failed \subseteq failed'
    BY <1>1 DEF Go, Runs, LifeInv, SessionInv, ControlOK, Actors
  <2>2. at["main"] \in BuildSteps /\ "open" \in BuildSteps
    BY <2>1 DEF BuildSteps
  <2>3. \A c \in Slots : c # d => DeviceSame(c)
    BY <1>1 DEF DeviceSame, LifeInv, SessionInv, SessionTypeOK
  <2>4. pools'[d] = Preallocated(d)
    BY <1>1, <2>2, Built DEF LifeInv, SessionInv, SessionTypeOK
  <2>5. SessionTypeOK'
    BY <1>1, <2>2, Built, PoolsLeft DEF LifeInv, SessionInv, SessionTypeOK
  <2>6. SlotOK(d)'
    BY <1>1, <2>1, <2>2, <2>4, Built, OrdersSame DEF SlotOK, Building
  <2> QED
    BY <1>1, <2>1, <2>2, <2>3, <2>5, <2>6, BuildFrame DEF Go
<1>2. CASE /\ end' = "undefined" /\ failed' = failed \cup {<<d, "gralloc">>}
           /\ UNCHANGED <<orderList, where, slotVars, deviceVars, threadVars, signalVars>>
  <2>1. EndInv'
    BY <1>2 DEF EndInv, FaultsExplained, ReleasedAtExit
  <2> QED
    BY <1>2, <2>1, EndKeeps
<1> QED
  BY <1>1, <1>2 DEF Preinit

LEMMA OpenCameraKeeps == LifeInv /\ OpenCamera => LifeInv'
<1> SUFFICES ASSUME LifeInv, OpenCamera PROVE LifeInv'
  OBVIOUS
<1> USE DEF threadVars, signalVars, slotVars
<1> DEFINE d == cam["main"]
<1>1. /\ at["main"] = "open" /\ at'["main"] = "init" /\ host # MainThread /\ end' = "alive"
      /\ failed \subseteq failed' /\ at["main"] \in BuildSteps /\ "init" \in BuildSteps
  BY DEF OpenCamera, Go, Runs, LifeInv, SessionInv, ControlOK, Actors, BuildSteps
<1>2. /\ opened'[d] \in {"open", "failed"} /\ opened' \in [Slots -> {"no", "open", "failed", "closed"}]
      /\ opened'[d] = "failed" => failed' # {}
      /\ \A c \in Slots : c # d => opened'[c] = opened[c]
  BY <1>1, Built DEF OpenCamera, LifeInv, SessionInv, SessionTypeOK
<1>3. \A c \in Slots : c # d => DeviceSame(c)
  BY <1>2 DEF OpenCamera, DeviceSame
<1>4. SessionTypeOK'
  BY <1>2 DEF OpenCamera, LifeInv, SessionInv, SessionTypeOK
<1>5. SlotOK(d)'
  BY <1>1, <1>2, Built, OrdersSame DEF OpenCamera, SlotOK, Building
<1> QED
  BY <1>1, <1>3, <1>4, <1>5, BuildFrame DEF OpenCamera, Go

LEMMA NoSuchStreamKeeps == LifeInv /\ NoSuchStream => LifeInv'
<1> SUFFICES ASSUME LifeInv, NoSuchStream PROVE LifeInv'
  OBVIOUS
<1> USE DEF threadVars, signalVars, slotVars, deviceVars
<1> DEFINE d == cam["main"]
<1>1. /\ at["main"] = "init" /\ at'["main"] = "start" /\ host # MainThread /\ end' = "alive"
      /\ failed \subseteq failed' /\ at["main"] \in BuildSteps /\ "start" \in BuildSteps
  BY DEF NoSuchStream, Go, Runs, LifeInv, SessionInv, ControlOK, Actors, BuildSteps
<1>2. \A c : DeviceSame(c)
  BY DEF NoSuchStream, DeviceSame
<1>3. SessionTypeOK'
  BY DEF NoSuchStream, LifeInv, SessionInv, SessionTypeOK
<1>4. SlotOK(d)'
  BY <1>1, Built, OrdersSame DEF NoSuchStream, SlotOK, Building
<1> QED
  BY <1>1, <1>2, <1>3, <1>4, BuildFrame DEF NoSuchStream, Go

LEMMA ConfigureStreamsKeeps == LifeInv /\ ConfigureStreams => LifeInv'
<1> SUFFICES ASSUME LifeInv, ConfigureStreams PROVE LifeInv'
  OBVIOUS
<1> USE DEF threadVars, signalVars, slotVars
<1> DEFINE d == cam["main"]
<1>1. CASE /\ Go("main", "init", "start") /\ opened[d] = "open"
           /\ streams' = [streams EXCEPT ![d] = Configured(d)]
           /\ UNCHANGED <<orderList, cam, kind, slotVars, opened, pools, encoder, threadVars,
                          signalVars, failed, end>>
  <2>1. /\ at["main"] = "init" /\ at'["main"] = "start" /\ host # MainThread /\ end' = "alive"
        /\ at["main"] \in BuildSteps /\ "start" \in BuildSteps
    BY <1>1 DEF Go, Runs, LifeInv, SessionInv, ControlOK, Actors, BuildSteps
  <2>2. \A c \in Slots : c # d => DeviceSame(c)
    BY <1>1 DEF DeviceSame, LifeInv, SessionInv, SessionTypeOK
  <2>3. streams'[d] = Configured(d)
    BY <1>1, <2>1, Built DEF LifeInv, SessionInv, SessionTypeOK
  <2>4. SessionTypeOK'
    BY <1>1, <2>1, Built, PoolsLeft DEF LifeInv, SessionInv, SessionTypeOK
  <2>5. SlotOK(d)'
    BY <1>1, <2>1, <2>3, Built, OrdersSame DEF SlotOK, Building, PoolsWhole
  <2> QED
    BY <1>1, <2>1, <2>2, <2>4, <2>5, BuildFrame DEF Go
<1>2. CASE at["main"] = "init" /\ opened[d] = "failed" /\ End("undefined")
  <2>1. failed # {}
    BY <1>2, Built DEF BuildSteps, SlotOK
  <2>2. EndInv'
    BY <1>2, <2>1 DEF End, EndInv, FaultsExplained, ReleasedAtExit
  <2> QED
    BY <1>2, <2>2, EndKeeps DEF End
<1> QED
  BY <1>1, <1>2 DEF ConfigureStreams

LEMMA RunEncoderKeeps == LifeInv /\ RunEncoder => LifeInv'
<1> SUFFICES ASSUME LifeInv, RunEncoder PROVE LifeInv'
  OBVIOUS
<1> USE DEF threadVars, signalVars, slotVars
<1> DEFINE d == cam["main"]
<1>1. /\ at["main"] = "start" /\ at'["main"] = "threads" /\ host # MainThread /\ end' = "alive"
      /\ at["main"] \in BuildSteps /\ "threads" \in BuildSteps
  BY DEF RunEncoder, Go, Runs, LifeInv, SessionInv, ControlOK, Actors, BuildSteps
<1>2. \A c \in Slots : c # d => DeviceSame(c)
  BY DEF RunEncoder, DeviceSame, LifeInv, SessionInv, SessionTypeOK
<1>3. encoder'[d] = IF encoder[d] = "made" THEN "running" ELSE encoder[d]
  BY <1>1, Built DEF RunEncoder, LifeInv, SessionInv, SessionTypeOK
<1>4. SessionTypeOK'
  BY <1>1, <1>3, Built DEF RunEncoder, LifeInv, SessionInv, SessionTypeOK
<1>5. SlotOK(d)'
  BY <1>1, <1>3, Built, OrdersSame DEF RunEncoder, SlotOK, Building, PoolsWhole, PoolsFreed, Mode
<1> QED
  BY <1>1, <1>2, <1>4, <1>5, BuildFrame DEF RunEncoder, Go

LEMMA StartThreadsKeeps == LifeInv /\ StartThreads => LifeInv'
<1> SUFFICES ASSUME LifeInv, StartThreads PROVE LifeInv'
  OBVIOUS
<1> USE DEF signalVars, slotVars, deviceVars
<1> DEFINE d == cam["main"]
<1>1. /\ at["main"] = "threads" /\ at'["main"] = "register" /\ host # MainThread /\ end' = "alive"
      /\ at["main"] \in BuildSteps /\ "register" \in BuildSteps
  BY DEF StartThreads, Go, Runs, LifeInv, SessionInv, ControlOK, Actors, BuildSteps
<1>2. \A c \in Slots : c # d => DeviceSame(c)
  BY DEF StartThreads, DeviceSame, LifeInv, SessionInv, SessionTypeOK
<1>3. \A k \in Threads : thread'[d][k] = "running"
  BY <1>1, Built DEF StartThreads, LifeInv, SessionInv, SessionTypeOK
<1>4. SessionTypeOK'
  BY <1>1, Built DEF StartThreads, LifeInv, SessionInv, SessionTypeOK
<1>5. SlotOK(d)'
  BY <1>1, <1>3, Built, OrdersSame DEF StartThreads, SlotOK, Building, PoolsWhole, PoolsFreed, Mode
<1> QED
  BY <1>1, <1>2, <1>4, <1>5, BuildFrame DEF StartThreads, Go

LEMMA RegisterKeeps == LifeInv /\ Register => LifeInv'
<1> SUFFICES ASSUME LifeInv, Register PROVE LifeInv'
  OBVIOUS
<1> USE DEF threadVars, signalVars, deviceVars, LifeInv, SessionInv, Actors
<1> DEFINE d == cam["main"]
<1>1. /\ at["main"] = "register" /\ at'["main"] = "order" /\ at'["handler"] = at["handler"]
      /\ host # MainThread /\ end' = "alive" /\ tests' = tests \cup {d}
      /\ at["main"] \in BuildSteps /\ at["main"] \in SetUpSteps
  BY DEF Register, Go, Runs, ControlOK, BuildSteps, SetUpSteps
<1>2. /\ d \in Slots /\ d \in cameras /\ d \notin tests /\ Ordered(d) /\ Building(d) /\ SlotOK(d)
      /\ d \in Nat /\ d + 1 \in 0 .. MaxCamera
  BY <1>1, Built, SlotsType
<1>3. cam'["main"] = d + 1 /\ cam'["handler"] = cam["handler"] /\ cam' \in [Actors -> 0 .. MaxCamera]
  BY <1>2 DEF Register, SessionTypeOK
<1>4. \A c : DeviceSame(c) /\ ~Building(c)' /\ (Building(c) <=> c = d)
  BY <1>1 DEF Register, DeviceSame, Building, BuildSteps
<1>5. Whole(d)
  BY <1>1, <1>2 DEF SlotOK, Whole
<1>6. at["handler"] \in StopSteps \cup {"close"} => cam["handler"] < d
  BY <1>1 DEF BuildInv
<1>7. SessionTypeOK'
  BY <1>1, <1>2, <1>3 DEF Register, SessionTypeOK
<1>8. ControlOK'
  <2>1. at' \in [Actors -> SetUpSteps \cup StopSteps \cup {"none", "use", "test", "close"}]
    BY DEF Register, Go, ControlOK, SetUpSteps
  <2> QED
    BY <1>1, <1>3, <2>1, OrdersSame DEF Register, ControlOK, StopSteps
<1>9. BuildInv'
  <2>1. \A c \in Slots : c >= d + 1 => c >= d /\ c # d
    BY <1>2, SlotsType
  <2>2. at["handler"] \in StopSteps \cup {"close"} => cam["handler"] < d + 1
    BY <1>2, <1>6, SlotsType DEF SessionTypeOK
  <2> QED
    BY <1>1, <1>3, <1>4, <2>1, <2>2 DEF Register, BuildInv, BuildSteps
<1>10. SlotInv'
  <2>1. ASSUME NEW c \in Slots, c # d PROVE SlotOK(c)'
    BY <1>1, <1>4, <2>1, SlotKept DEF Register, SlotInv
  <2>2. ASSUME NEW c, c = d PROVE SlotOK(c)'
    BY <1>1, <1>2, <1>4, <2>2, OrdersSame, DeviceKept DEF Register, SlotOK, DeviceSame
  <2> QED
    BY <2>1, <2>2 DEF SlotInv
<1>11. StopInv'
  <2>1. at["handler"] = "delete" => PoolsFreed(cam["handler"])'
    BY <1>3, <1>4, DeviceKept DEF Register, StopInv
  <2>2. at["handler"] = "close" => cam["handler"] # d
    BY <1>2, <1>6
  <2> QED
    BY <1>1, <1>3, <2>1, <2>2 DEF Register, StopInv, StopSteps
<1>12. HandlerInv'
  BY <1>1 DEF Register, HandlerInv
<1>13. AloneInv'
  <2>1. \A c : Whole(c)' = Whole(c) /\ Mode(c)' = Mode(c)
    BY <1>4, DeviceKept, OrdersSame DEF Register
  <2> QED
    BY <1>1, <1>3, <1>5, <2>1 DEF Register, AloneInv, StopSteps, Concurrent
<1> QED
  BY <1>1, <1>7, <1>8, <1>9, <1>10, <1>11, <1>12, <1>13, AliveEnds

LEMMA SetUpKeeps == LifeInv /\ SetUp => LifeInv'
BY LoadCameraModuleKeeps, InitializeKeeps, TakeOrderKeeps, PreinitKeeps, OpenCameraKeeps,
   NoSuchStreamKeeps, ConfigureStreamsKeeps, RunEncoderKeeps, StartThreadsKeeps, RegisterKeeps
DEF SetUp

-----------------------------------------------------------------------------
(* The frame loop and the threads of the cameras.                          *)

\* Without both cameras the frame loop dereferences NULL before any stop() begins.
LEMMA UseKeeps == LifeInv /\ Use => LifeInv'
<1> SUFFICES ASSUME LifeInv, Use PROVE LifeInv'
  OBVIOUS
<1>1. CASE Runs("main") /\ Segfault("main")
  BY <1>1, SegfaultKeeps DEF Actors
<1>2. CASE /\ Go("main", "use", "test") /\ cam' = [cam EXCEPT !["main"] = 0]
           /\ UNCHANGED <<orderList, kind, slotVars, deviceVars, threadVars, signalVars, failed, end>>
  <2> USE DEF threadVars, signalVars, slotVars, deviceVars, LifeInv, SessionInv, Actors
  <2>1. /\ at["main"] = "use" /\ at'["main"] = "test" /\ at'["handler"] = at["handler"]
        /\ host # MainThread /\ end' = "alive" /\ cam'["main"] = 0 /\ cam'["handler"] = cam["handler"]
        /\ cam' \in [Actors -> 0 .. MaxCamera]
    BY <1>2, SlotsType DEF Go, Runs, ControlOK, SessionTypeOK
  <2>2. \A c : DeviceSame(c) /\ ~Building(c) /\ ~Building(c)'
    BY <1>2, <2>1 DEF DeviceSame, Building, BuildSteps
  <2>3. SessionTypeOK'
    BY <1>2, <2>1 DEF SessionTypeOK
  <2>4. ControlOK'
    <3>1. at' \in [Actors -> SetUpSteps \cup StopSteps \cup {"none", "use", "test", "close"}]
      BY <1>2 DEF Go, ControlOK
    <3> QED
      BY <1>2, <2>1, <3>1, OrdersSame DEF ControlOK, StopSteps
  <2>5. BuildInv'
    BY <2>1 DEF BuildInv, SetUpSteps, BuildSteps
  <2>6. SlotInv'
    BY <1>2, <2>2, SlotKept DEF SlotInv
  <2>7. StopInv'
    <3>1. at["handler"] = "delete" => PoolsFreed(cam["handler"])'
      BY <1>2, <2>1, <2>2, DeviceKept DEF StopInv
    <3>2. \A c \in Slots : ~(c < 0)
      BY SlotsType
    <3> QED
      BY <1>2, <2>1, <3>1, <3>2 DEF StopInv, StopSteps
  <2>8. HandlerInv'
    BY <1>2, <2>1 DEF HandlerInv
  <2>9. AloneInv'
    <3>1. \A c : Whole(c)' = Whole(c) /\ Mode(c)' = Mode(c)
      BY <1>2, <2>2, DeviceKept, OrdersSame
    <3> QED
      BY <1>2, <2>1, <3>1 DEF AloneInv, StopSteps, Concurrent
  <2> QED
    BY <2>1, <2>3, <2>4, <2>5, <2>6, <2>7, <2>8, <2>9, AliveEnds
<1> QED
  BY <1>1, <1>2 DEF Use

\* A thread that finds the stop message has still to be joined.
LEMMA FindStopKeeps ==
    ASSUME LifeInv, NEW d \in Slots, NEW j \in Threads, FindStop(d, j)
    PROVE  LifeInv'
<1> USE DEF where, signalVars, slotVars, deviceVars, LifeInv, SessionInv, Actors
<1>1. /\ end' = "alive" /\ thread[d][j] = "told"
      /\ UNCHANGED <<orderList, at, cam, kind, cameras, tests, opened, pools, streams, encoder, owner,
                     host, missed, interrupted, failed>>
  BY DEF FindStop
<1>2. \A c \in Slots, k \in Threads : thread'[c][k] = "none" <=> thread[c][k] = "none"
  BY DEF FindStop, SessionTypeOK
<1>3. \A c : /\ Building(c)' = Building(c) /\ Ordered(c)' = Ordered(c) /\ Mode(c)' = Mode(c)
             /\ Preallocated(c)' = Preallocated(c) /\ Configured(c)' = Configured(c)
             /\ PoolsFreed(c)' = PoolsFreed(c)
  BY <1>1, OrdersSame DEF Building, PoolsFreed, Mode
<1>4. \A c \in Slots : Whole(c)' = Whole(c)
  BY <1>1, <1>2, <1>3 DEF Whole
<1>5. \A a \in Actors : at[a] \in StopSteps => cam[a] \in Slots
  BY OrderType DEF ControlOK
<1>6. SessionTypeOK'
  BY <1>1 DEF FindStop, SessionTypeOK
<1>7. ControlOK'
  BY <1>1, <1>3 DEF ControlOK
<1>8. BuildInv'
  BY <1>1, <1>3 DEF BuildInv
<1>9. SlotInv'
  <2>1. \A c : PoolsWhole(c)' = PoolsWhole(c)
    BY <1>1, <1>3 DEF PoolsWhole
  <2>2. ASSUME NEW c \in Slots PROVE SlotOK(c)'
    <3>1. SlotOK(c)
      BY DEF SlotInv
    <3> HIDE DEF LifeInv, SessionInv, where, signalVars, slotVars, deviceVars
    <3> QED
      BY <1>1, <1>2, <1>3, <2>1, <3>1 DEF SlotOK
  <2> QED
    BY <2>2 DEF SlotInv
<1>10. StopInv'
  <2>1. ASSUME NEW a \in Actors, at[a] \in {"free", "delete"}
        PROVE  \A k \in Threads : thread'[cam[a]][k] = "none"
    BY <1>2, <1>5, <2>1 DEF StopInv, StopSteps
  <2>2. ASSUME NEW a \in Actors, at[a] \in {"lock", "push", "join"}, kind[a] = "result"
        PROVE  thread'[cam[a]]["request"] = "none"
    BY <1>2, <1>5, <2>2 DEF StopInv, StopSteps, Threads
  <2> QED
    BY <1>1, <1>3, <2>1, <2>2 DEF StopInv
<1>11. HandlerInv'
  BY <1>1 DEF HandlerInv
<1>12. AloneInv'
  <2>1. tests \subseteq Slots
    BY DEF SessionTypeOK
  <2>2. \A a \in Actors : at[a] \in StopSteps =>
           /\ Whole(cam[a])' = Whole(cam[a])
           /\ \A k \in Threads : thread'[cam[a]][k] = "none" <=> thread[cam[a]][k] = "none"
    BY <1>1, <1>2, <1>3, <1>5 DEF Whole
  <2> QED
    BY <1>1, <1>3, <1>4, <2>1, <2>2 DEF AloneInv, Concurrent, StopSteps, Threads
<1> QED
  BY <1>1, <1>6, <1>7, <1>8, <1>9, <1>10, <1>11, <1>12, AliveEnds

-----------------------------------------------------------------------------
(* stop().                                                                 *)

\* An actor in stop() is not at the camera that is being set up, and if neither
\* interrupts the other or runs beside it, the other is not in stop().
LEMMA Stopping ==
    ASSUME LifeInv, NEW a \in Actors, Runs(a), at[a] \in StopSteps \cup {"test", "close"}
    PROVE  /\ a = "main" => at["main"] \notin SetUpSteps /\ host # MainThread
           /\ at[a] \in StopSteps \cup {"close"} => ~Building(cam[a])
           /\ at[a] \in StopSteps => cam[a] \in Slots /\ Ordered(cam[a])
           /\ ~interrupted /\ ~Concurrent => \A b \in Actors : b # a => at[b] \notin StopSteps
<1> USE DEF LifeInv, SessionInv, Actors
<1>1. a = "main" => at["main"] \notin SetUpSteps /\ host # MainThread
  BY DEF Runs, SetUpSteps, BuildSteps, StopSteps
<1>2. ASSUME at[a] \in StopSteps \cup {"close"}, Building(cam[a]) PROVE FALSE
  <2>1. a = "handler" /\ at["main"] \in SetUpSteps /\ cam["main"] = cam["handler"]
    BY <1>1, <1>2 DEF Building, SetUpSteps
  <2>2. cam["handler"] < cam["main"] /\ cam["main"] \in Nat
    BY <1>2, <2>1 DEF BuildInv, SessionTypeOK
  <2> QED
    BY <2>1, <2>2
<1>3. at[a] \in StopSteps => cam[a] \in Slots /\ Ordered(cam[a])
  BY OrderType DEF ControlOK
<1>4. ASSUME ~interrupted, ~Concurrent, NEW b \in Actors, b # a PROVE at[b] \notin StopSteps
  <2>1. CASE a = "main"
    BY <1>1, <1>4, <2>1 DEF ControlOK, Concurrent, StopSteps
  <2>2. CASE a = "handler"
    BY <1>4, <2>2 DEF AloneInv, Concurrent, Runs
  <2> QED
    BY <2>1, <2>2
<1> QED
  BY <1>1, <1>2, <1>3, <1>4

\* A step of stop() on camera c keeps the invariant if it keeps the types, what is
\* said of that camera, and what is said of the actor.
LEMMA StopFrame ==
    ASSUME LifeInv, NEW a \in Actors, Runs(a), at[a] \in StopSteps,
           NEW to \in StopSteps \ {"encoder"}, at' = [at EXCEPT ![a] = to],
           NEW c \in Slots, cam[a] = c,
           UNCHANGED <<orderList, cam, cameras, tests, opened, host, missed, interrupted, failed, end>>,
           \A b \in Actors : b # a => kind'[b] = kind[b],
           \A d \in Slots : d # c => DeviceSame(d),
           \A k \in Threads : thread[c][k] = "none" => thread'[c][k] = "none",
           PoolsFreed(c) => PoolsFreed(c)',
           SessionTypeOK', SlotOK(c)',
           to \in {"free", "delete"} => \A k \in Threads : thread'[c][k] = "none",
           to \in {"lock", "push", "join"} /\ kind'[a] = "result" => thread'[c]["request"] = "none",
           to = "delete" => PoolsFreed(c)',
           ~interrupted /\ ~Concurrent /\ to \in {"lock", "push", "join"} =>
               /\ thread'[c]["result"] # "none"
               /\ kind'[a] = "request" => thread'[c]["request"] # "none"
    PROVE  LifeInv'
<1> USE DEF LifeInv, SessionInv
<1>1. /\ at'[a] = to /\ \A b \in Actors : b # a => at'[b] = at[b]
      /\ end' = "alive" /\ "main" \in Actors /\ "handler" \in Actors
  BY DEF ControlOK, Runs, Actors
<1>2. at["main"] # at'["main"] => /\ at["main"] \notin SetUpSteps /\ at'["main"] \notin SetUpSteps
                                  /\ a = "main"
  BY <1>1 DEF SetUpSteps, BuildSteps, StopSteps
<1>3. \A d : Building(d)' = Building(d)
  BY <1>1, <1>2 DEF Building, SetUpSteps
<1>4. ControlOK'
  <2>1. at' \in [Actors -> SetUpSteps \cup StopSteps \cup {"none", "use", "test", "close"}]
    BY DEF ControlOK
  <2>2. \A b \in Actors : at'[b] \in StopSteps => Ordered(cam[b])'
    BY <1>1, OrdersSame DEF ControlOK
  <2>3. "none" \notin StopSteps /\ "close" \notin StopSteps
        /\ \A x \in StopSteps : x \notin SetUpSteps \cup {"use"}
    BY DEF StopSteps, SetUpSteps, BuildSteps
  <2> QED
    BY <1>1, <2>1, <2>2, <2>3 DEF ControlOK
<1>5. BuildInv'
  BY <1>1, <1>2, <1>3, OrdersSame DEF BuildInv, SetUpSteps, Actors
<1>6. SlotInv'
  <2>1. ASSUME NEW d \in Slots, d # c PROVE SlotOK(d)'
    <3>1. \/ ~Building(d) /\ ~Building(d)'
          \/ at'["main"] = at["main"] /\ cam'["main"] = cam["main"]
      BY <1>2, <1>3 DEF Building, SetUpSteps
    <3> QED
      BY <2>1, <3>1, SlotKept DEF SlotInv
  <2> QED
    BY <2>1 DEF SlotInv
<1>7. StopInv'
  <2>1. \A b \in Actors : at[b] \in StopSteps => cam[b] \in Slots
    BY OrderType DEF ControlOK
  <2>2. ASSUME NEW b \in Actors, b # a, at[b] \in StopSteps
        PROVE  /\ \A k \in Threads : thread[cam[b]][k] = "none" => thread'[cam[b]][k] = "none"
               /\ PoolsFreed(cam[b]) => PoolsFreed(cam[b])'
    <3>1. CASE cam[b] = c
      BY <3>1 DEF PoolsFreed, Mode
    <3>2. CASE cam[b] # c
      <4>1. DeviceSame(cam[b])
        BY <2>1, <2>2, <3>2
      <4> QED
        BY <4>1 DEF PoolsFreed, Mode, DeviceSame
    <3> QED
      BY <3>1, <3>2
  <2>3. ASSUME NEW b \in Actors, b # a
        PROVE  /\ at'[b] = "encoder" => kind'[b] = "request"
               /\ at'[b] \in {"free", "delete"} => \A k \in Threads : thread'[cam'[b]][k] = "none"
               /\ at'[b] \in {"lock", "push", "join"} /\ kind'[b] = "result" =>
                      thread'[cam'[b]]["request"] = "none"
               /\ at'[b] = "delete" => PoolsFreed(cam[b])'
    BY <1>1, <2>2, <2>3 DEF StopInv, StopSteps, Threads
  <2>4. to = "delete" => PoolsFreed(cam[a])'
    BY DEF PoolsFreed, Mode
  <2> QED
    BY <1>1, <2>3, <2>4 DEF StopInv, StopSteps, Actors
<1>8. HandlerInv'
  <2>1. host = MainThread => a = "handler"
    BY DEF Runs, Actors
  <2>2. at["handler"] # "close" \/ a # "handler"
    BY DEF StopSteps
  <2> QED
    BY <1>1, <1>2, <2>1, <2>2 DEF HandlerInv
<1>9. AloneInv'
  <2> SUFFICES ASSUME ~interrupted, ~Concurrent
               PROVE  AloneInv'
    BY DEF AloneInv, Concurrent
  <2>1. \A b \in Actors : b # a => at'[b] \notin StopSteps
    BY <1>1, Stopping
  <2>2. host = MainThread => at'["main"] \notin StopSteps
    BY <1>1, <2>1 DEF Runs
  <2>3. ASSUME NEW d \in tests, d # c, \A b \in Actors : at'[b] \in StopSteps => cam'[b] # d
        PROVE  Whole(d)'
    <3>1. d \in Slots
      BY DEF SessionTypeOK
    <3>2. \A b \in Actors : at[b] \in StopSteps => cam[b] # d
      BY <1>1, <2>3
    <3>3. Whole(d)
      BY <3>2 DEF AloneInv
    <3> QED
      BY <2>3, <3>1, <3>3, DeviceKept
  <2>4. at'[a] \in StopSteps /\ cam'[a] = c
    BY <1>1
  <2> QED
    BY <1>1, <2>1, <2>2, <2>3, <2>4 DEF AloneInv, Concurrent, StopSteps
<1> QED
  BY <1>1, <1>4, <1>5, <1>6, <1>7, <1>8, <1>9, AliveEnds

\* The encoder is stopped once; only a second stop() of the test finds it stopped.
LEMMA StopEncoderKeeps ==
    ASSUME LifeInv, NEW a \in Actors, StopEncoder(a)
    PROVE  LifeInv'
<1> USE DEF LifeInv, SessionInv, slotVars, threadVars, signalVars
<1>1. Runs(a) /\ at[a] = "encoder" /\ at[a] \in StopSteps /\ "lock" \in StopSteps \ {"encoder"}
  BY DEF StopEncoder, StopSteps
<1>2. PICK c \in Slots : cam[a] = c /\ Ordered(c) /\ ~Building(c)
  BY <1>1, Stopping
<1>3. CASE /\ encoder[c] = "running"
           /\ at' = [at EXCEPT ![a] = "lock"]
           /\ encoder' = [encoder EXCEPT ![c] = "stopped"]
           /\ UNCHANGED <<orderList, cam, kind, slotVars, opened, pools, streams, threadVars,
                          signalVars, failed, end>>
  <2>1. \A d \in Slots : d # c => DeviceSame(d)
    BY <1>3 DEF DeviceSame, SessionTypeOK
  <2>2. SessionTypeOK'
    BY <1>3 DEF SessionTypeOK
  <2>3. ~Building(c)'
    <3>1. at["main"] # at'["main"] => at'["main"] = "lock"
      BY <1>3 DEF ControlOK, Actors
    <3> QED
      BY <1>2, <1>3, <3>1 DEF Building, BuildSteps
  <2>4. SlotOK(c)'
    BY <1>2, <1>3, <2>3, OrdersSame DEF SlotInv, SlotOK, PoolsFreed, PoolsWhole, Mode, SessionTypeOK
  <2>5. kind'[a] = "request"
    BY <1>1, <1>3 DEF StopInv
  <2>6. ~interrupted /\ ~Concurrent => thread'[c]["result"] # "none" /\ thread'[c]["request"] # "none"
    BY <1>1, <1>2, <1>3 DEF AloneInv, Whole, Threads
  <2>7. PoolsFreed(c) => PoolsFreed(c)'
    BY <1>3 DEF PoolsFreed, Mode
  <2> QED
    BY <1>1, <1>2, <1>3, <2>1, <2>2, <2>4, <2>5, <2>6, <2>7, StopFrame
<1>4. CASE encoder[c] # "running"
  <2>1. Segfault(a)
    BY <1>2, <1>4 DEF StopEncoder
  <2>2. interrupted \/ Concurrent
    BY <1>1, <1>2, <1>4 DEF AloneInv, Whole
  <2> QED
    BY <1>1, <2>1, <2>2, SegfaultKeeps
<1>5. CASE (\A b \in Actors : at[b] = "encoder" /\ cam[b] = c) /\ End("undefined")
  <2>1. interrupted \/ Concurrent
    <3>1. at["main"] \in StopSteps /\ at["handler"] # "none"
      BY <1>1, <1>5 DEF Actors, StopSteps
    <3>2. host # NoThread
      BY <3>1 DEF ControlOK
    <3> QED
      BY <3>1, <3>2 DEF AloneInv, Concurrent
  <2>2. EndInv'
    BY <1>5, <2>1 DEF End, EndInv, FaultsExplained, ReleasedAtExit, Concurrent
  <2> QED
    BY <1>5, <2>2, EndKeeps DEF End
<1> QED
  BY <1>2, <1>3, <1>4, <1>5 DEF StopEncoder

\* A thread whose record was deleted is only looked for again if the two actors
\* are in the same stop().
LEMMA LockKeeps ==
    ASSUME LifeInv, NEW a \in Actors, Lock(a)
    PROVE  LifeInv'
<1> USE DEF LifeInv, SessionInv, slotVars, deviceVars, signalVars
<1>1. Runs(a) /\ at[a] = "lock" /\ at[a] \in StopSteps /\ "push" \in StopSteps \ {"encoder"}
  BY DEF Lock, StopSteps
<1>2. PICK c \in Slots : cam[a] = c /\ Ordered(c) /\ ~Building(c)
  BY <1>1, Stopping
<1>3. kind[a] \in Threads
  BY DEF SessionTypeOK
<1>4. ~interrupted /\ ~Concurrent => /\ thread[c]["result"] # "none"
                                     /\ kind[a] = "request" => thread[c]["request"] # "none"
  BY <1>1, <1>2 DEF AloneInv
<1>5. CASE thread[c][kind[a]] # "none"
  <2>1. /\ owner' = [owner EXCEPT ![c][kind[a]] = a] /\ at' = [at EXCEPT ![a] = "push"]
        /\ UNCHANGED <<orderList, cam, kind, slotVars, deviceVars, thread, signalVars, failed, end>>
    BY <1>2, <1>5 DEF Lock
  <2>2. \A d \in Slots : DeviceSame(d)
    BY <2>1 DEF DeviceSame
  <2>3. SessionTypeOK'
    BY <1>3, <2>1 DEF SessionTypeOK
  <2>4. ~Building(c)'
    <3>1. at["main"] # at'["main"] => at'["main"] = "push"
      BY <2>1 DEF ControlOK, Actors
    <3> QED
      BY <1>2, <2>1, <3>1 DEF Building, BuildSteps
  <2>5. SlotOK(c)'
    BY <1>2, <2>1, <2>2, <2>4, SlotKept DEF SlotInv
  <2>6. PoolsFreed(c) => PoolsFreed(c)'
    BY <2>1 DEF PoolsFreed, Mode
  <2>7. kind'[a] = "result" => thread'[c]["request"] = "none"
    BY <1>1, <1>2, <2>1 DEF StopInv
  <2> QED
    BY <1>1, <1>2, <1>4, <2>1, <2>2, <2>3, <2>5, <2>6, <2>7, StopFrame
<1>6. CASE thread[c][kind[a]] = "none"
  <2>1. Segfault(a)
    BY <1>2, <1>6 DEF Lock
  <2>2. interrupted \/ Concurrent
    BY <1>3, <1>4, <1>6 DEF Threads
  <2> QED
    BY <1>1, <2>1, <2>2, SegfaultKeeps
<1> QED
  BY <1>5, <1>6

LEMMA PushKeeps ==
    ASSUME LifeInv, NEW a \in Actors, Push(a)
    PROVE  LifeInv'
<1> USE DEF LifeInv, SessionInv, slotVars, deviceVars, signalVars
<1>1. Runs(a) /\ at[a] = "push" /\ at[a] \in StopSteps /\ "join" \in StopSteps \ {"encoder"}
  BY DEF Push, Go, StopSteps
<1>2. PICK c \in Slots : cam[a] = c /\ Ordered(c) /\ ~Building(c)
  BY <1>1, Stopping
<1>3. PICK k \in Threads : kind[a] = k
  BY DEF SessionTypeOK
<1>4. /\ thread' = [thread EXCEPT ![c][k] = IF @ = "running" THEN "told" ELSE @]
      /\ owner' = [owner EXCEPT ![c][k] = "nobody"] /\ at' = [at EXCEPT ![a] = "join"]
      /\ UNCHANGED <<orderList, cam, kind, slotVars, deviceVars, signalVars, failed, end>>
  BY <1>2, <1>3 DEF Push, Go
<1>5. \A d \in Slots : d # c => DeviceSame(d)
  BY <1>4 DEF DeviceSame, SessionTypeOK
<1>6. \A j \in Threads : thread'[c][j] = "none" <=> thread[c][j] = "none"
  BY <1>4 DEF SessionTypeOK
<1>7. SessionTypeOK'
  BY <1>4 DEF SessionTypeOK
<1>8. ~Building(c)'
  <2>1. at["main"] # at'["main"] => at'["main"] = "join"
    BY <1>4 DEF ControlOK, Actors
  <2> QED
    BY <1>2, <1>4, <2>1 DEF Building, BuildSteps
<1>9. PoolsFreed(c)' = PoolsFreed(c)
  BY <1>4 DEF PoolsFreed, Mode
<1>10. SlotOK(c)'
  BY <1>2, <1>4, <1>6, <1>8, <1>9, OrdersSame DEF SlotInv, SlotOK, PoolsWhole
<1>11. kind'[a] = "result" => thread'[c]["request"] = "none"
  BY <1>1, <1>2, <1>4, <1>6 DEF StopInv, Threads
<1>12. ~interrupted /\ ~Concurrent => /\ thread'[c]["result"] # "none"
                                      /\ kind'[a] = "request" => thread'[c]["request"] # "none"
  BY <1>1, <1>2, <1>4, <1>6 DEF AloneInv, Threads
<1>13. /\ \A j \in Threads : thread[c][j] = "none" => thread'[c][j] = "none"
       /\ PoolsFreed(c) => PoolsFreed(c)'
       /\ "join" \notin {"free", "delete"}
  BY <1>6, <1>9
<1> QED
  BY ZenonT(60), <1>1, <1>2, <1>4, <1>5, <1>7, <1>10, <1>11, <1>12, <1>13, StopFrame

\* The request thread is joined before the result thread, and both before anything
\* of the camera is freed.
LEMMA JoinKeeps ==
    ASSUME LifeInv, NEW a \in Actors, Join(a)
    PROVE  LifeInv'
<1> USE DEF LifeInv, SessionInv, slotVars, deviceVars, signalVars
<1>1. Runs(a) /\ at[a] = "join" /\ at[a] \in StopSteps
  BY DEF Join, Go, StopSteps
<1>2. PICK c \in Slots : cam[a] = c /\ Ordered(c) /\ ~Building(c)
  BY <1>1, Stopping
<1>3. PICK k \in Threads : kind[a] = k
  BY DEF SessionTypeOK
<1> DEFINE to == IF k = "request" THEN "lock" ELSE "free"
<1>4. /\ thread' = [thread EXCEPT ![c][k] = "none"]
      /\ kind' = [kind EXCEPT ![a] = "result"] /\ at' = [at EXCEPT ![a] = to]
      /\ UNCHANGED <<orderList, cam, slotVars, deviceVars, owner, signalVars, failed, end>>
      /\ ~Collides(c, k)
  BY <1>2, <1>3 DEF Join, Go
<1>5. to \in StopSteps \ {"encoder"} /\ kind'[a] = "result"
      /\ \A b \in Actors : b # a => kind'[b] = kind[b]
  BY <1>4 DEF StopSteps, SessionTypeOK
<1>6. \A d \in Slots : d # c => DeviceSame(d)
  BY <1>4 DEF DeviceSame, SessionTypeOK
<1>7. \A j \in Threads : thread'[c][j] = IF j = k THEN "none" ELSE thread[c][j]
  BY <1>4 DEF SessionTypeOK
<1>8. SessionTypeOK'
  BY <1>4 DEF SessionTypeOK, Threads
<1>9. ~Building(c)'
  <2>1. at["main"] # at'["main"] => at'["main"] \in {"lock", "free"}
    BY <1>4 DEF ControlOK, Actors
  <2> QED
    BY <1>2, <1>4, <2>1 DEF Building, BuildSteps
<1>10. PoolsFreed(c)' = PoolsFreed(c)
  BY <1>4 DEF PoolsFreed, Mode
<1>11. SlotOK(c)'
  BY <1>2, <1>4, <1>7, <1>9, <1>10, OrdersSame DEF SlotInv, SlotOK, PoolsWhole
<1>12. thread'[c]["request"] = "none"
  BY <1>1, <1>2, <1>3, <1>7 DEF StopInv, Threads
<1>13. to = "free" => \A j \in Threads : thread'[c][j] = "none"
  BY <1>3, <1>7, <1>12 DEF Threads
<1>14. ~interrupted /\ ~Concurrent /\ to = "lock" => thread'[c]["result"] # "none"
  BY <1>1, <1>2, <1>7 DEF AloneInv, Threads
<1>15. /\ \A j \in Threads : thread[c][j] = "none" => thread'[c][j] = "none"
       /\ PoolsFreed(c) => PoolsFreed(c)'
  BY <1>7, <1>10
<1>16. UNCHANGED <<orderList, cam, cameras, tests, opened, host, missed, interrupted, failed, end>>
  BY <1>4
<1>17. CASE k = "request"
  <2>1. /\ at' = [at EXCEPT ![a] = "lock"] /\ "lock" \in StopSteps \ {"encoder"}
        /\ "lock" \notin {"free", "delete"} /\ kind'[a] # "request"
        /\ ~interrupted /\ ~Concurrent => thread'[c]["result"] # "none"
    BY <1>4, <1>5, <1>14, <1>17
  <2> QED
    BY <1>1, <1>2, <1>5, <1>6, <1>8, <1>11, <1>12, <1>15, <1>16, <2>1, StopFrame
<1>18. CASE k = "result"
  <2>1. /\ at' = [at EXCEPT ![a] = "free"] /\ "free" \in StopSteps \ {"encoder"}
        /\ "free" \notin {"lock", "push", "join", "delete"}
        /\ \A j \in Threads : thread'[c][j] = "none"
    BY <1>4, <1>5, <1>13, <1>18
  <2> QED
    BY ZenonT(60), <1>1, <1>2, <1>5, <1>6, <1>8, <1>11, <1>15, <1>16, <2>1, StopFrame
<1> QED
  BY <1>17, <1>18 DEF Threads

\* Where both actors end the same thread, one runs beside the other or came in the
\* middle of the other's stop().
LEMMA CollisionKeeps ==
    ASSUME LifeInv, NEW a \in Actors, Collision(a)
    PROVE  LifeInv'
<1> USE DEF LifeInv, SessionInv
<1>1. Runs(a) /\ at[a] \in {"push", "join"} /\ at[a] \in StopSteps /\ End("undefined")
      /\ Collides(cam[a], kind[a])
  BY DEF Collision, StopSteps
<1>2. interrupted \/ Concurrent
  <2> SUFFICES ASSUME ~interrupted, ~Concurrent PROVE FALSE
    OBVIOUS
  <2>1. thread[cam[a]][kind[a]] # "none"
    BY <1>1 DEF AloneInv, SessionTypeOK, Threads
  <2>2. \A b \in Actors : b # a => at[b] # "join"
    BY <1>1, Stopping DEF StopSteps
  <2> QED
    BY <1>1, <2>1, <2>2 DEF Collides, Actors
<1>3. EndInv'
  BY <1>1, <1>2 DEF End, EndInv, FaultsExplained, ReleasedAtExit, Concurrent, signalVars
<1> QED
  BY <1>1, <1>3, EndKeeps DEF End

\* The pools of the streams that were configured are freed, now or before.
LEMMA FreeStreamsKeeps ==
    ASSUME LifeInv, NEW a \in Actors, FreeStreams(a)
    PROVE  LifeInv'
<1> USE DEF LifeInv, SessionInv, slotVars, threadVars, signalVars
<1>1. Runs(a) /\ at[a] = "free" /\ at[a] \in StopSteps /\ "delete" \in StopSteps \ {"encoder"}
  BY DEF FreeStreams, Go, StopSteps
<1>2. PICK c \in Slots : cam[a] = c /\ Ordered(c) /\ ~Building(c)
  BY <1>1, Stopping
<1>3. CASE <<c, "buffer">> \in failed /\ End("undefined")
  <2>1. EndInv'
    BY <1>3 DEF End, EndInv, FaultsExplained, ReleasedAtExit
  <2> QED
    BY <1>3, <2>1, EndKeeps DEF End
<1>4. CASE /\ at' = [at EXCEPT ![a] = "delete"]
           /\ pools' = [pools EXCEPT ![c] = @ \ streams[c]]
           /\ streams' = [streams EXCEPT ![c] = {}]
           /\ UNCHANGED <<orderList, cam, kind, slotVars, opened, encoder, threadVars, signalVars,
                          failed, end>>
  <2>1. \A d \in Slots : d # c => DeviceSame(d)
    BY <1>4 DEF DeviceSame, SessionTypeOK
  <2>2. pools'[c] = pools[c] \ streams[c] /\ streams'[c] = {}
    BY <1>4 DEF SessionTypeOK
  <2>3. SessionTypeOK'
    BY <1>4 DEF SessionTypeOK
  <2>4. ~Building(c)'
    <3>1. at["main"] # at'["main"] => at'["main"] = "delete"
      BY <1>4 DEF ControlOK, Actors
    <3> QED
      BY <1>2, <1>4, <3>1 DEF Building, BuildSteps
  <2>5. PoolsFreed(c) => PoolsFreed(c)'
    BY <1>4, <2>2 DEF PoolsFreed, Mode
  <2>6. PoolsFreed(c)'
    <3>1. CASE PoolsWhole(c)
      BY <1>2, <1>4, <2>2, <3>1, PoolsLeft DEF PoolsWhole, PoolsFreed, Mode
    <3> QED
      BY <1>2, <1>4, <2>5, <3>1 DEF SlotInv, SlotOK, PoolsFreed
  <2>7. SlotOK(c)'
    BY <1>2, <1>4, <2>2, <2>4, <2>6, OrdersSame DEF SlotInv, SlotOK
  <2>8. \A k \in Threads : thread'[c][k] = "none"
    BY <1>1, <1>2, <1>4 DEF StopInv
  <2> QED
    BY <1>1, <1>2, <1>4, <2>1, <2>3, <2>5, <2>6, <2>7, <2>8, StopFrame
<1> QED
  BY <1>2, <1>3, <1>4 DEF FreeStreams, Go

\* A slot is looked at once; a test that is found there has to be stopped whole.
LEMMA LookAtTestKeeps ==
    ASSUME LifeInv, NEW a \in Actors, LookAtTest(a)
    PROVE  LifeInv'
<1> USE DEF LifeInv, SessionInv, slotVars, deviceVars, threadVars, signalVars
<1>1. /\ Runs(a) /\ at[a] = "test" /\ end' = "alive" /\ cam[a] < MaxCamera
      /\ UNCHANGED <<orderList, cameras, tests, opened, pools, streams, encoder, thread, owner,
                     host, missed, interrupted, failed>>
  BY DEF LookAtTest, Go, Runs
<1>2. PICK c \in Slots : cam[a] = c
  BY <1>1, SlotsType DEF SessionTypeOK
<1>3. PICK to \in {"encoder", "lock", "test"} :
          /\ at' = [at EXCEPT ![a] = to]
          /\ to = "test" => c \notin tests /\ cam' = [cam EXCEPT ![a] = c + 1] /\ kind' = kind
          /\ to # "test" => c \in tests /\ cam' = cam /\ kind' = [kind EXCEPT ![a] = "request"]
          /\ to = "encoder" => Mode(c) = "video"
  BY <1>2 DEF LookAtTest, Go
<1>4. /\ at'[a] = to /\ \A b \in Actors : b # a => at'[b] = at[b]
      /\ to = "test" => cam'[a] = c + 1
      /\ to # "test" => cam'[a] = c /\ kind'[a] = "request"
      /\ \A b \in Actors : b # a => cam'[b] = cam[b] /\ kind'[b] = kind[b]
      /\ "main" \in Actors /\ "handler" \in Actors
  BY <1>2, <1>3 DEF ControlOK, SessionTypeOK, Actors
<1>5. /\ a = "main" => at["main"] \notin SetUpSteps /\ at'["main"] \notin SetUpSteps /\ host # MainThread
      /\ a # "main" => at'["main"] = at["main"] /\ cam'["main"] = cam["main"]
  BY <1>1, <1>3, <1>4, Stopping DEF SetUpSteps, BuildSteps
<1>6. \A d : DeviceSame(d) /\ Building(d)' = Building(d)
  BY <1>1, <1>5 DEF DeviceSame, Building, SetUpSteps
<1>7. to # "test" => Ordered(c)
  BY <1>3 DEF SlotInv, SlotOK
<1>8. SessionTypeOK'
  BY <1>1, <1>2, <1>3, SlotsType DEF SessionTypeOK, Threads
<1>9. ControlOK'
  <2>1. at' \in [Actors -> SetUpSteps \cup StopSteps \cup {"none", "use", "test", "close"}]
    BY <1>3 DEF ControlOK, StopSteps
  <2>2. ASSUME NEW b \in Actors, at'[b] \in StopSteps PROVE Ordered(cam[b])'
    <3>1. CASE b = a
      BY <1>1, <1>3, <1>4, <1>7, <2>2, <3>1 DEF StopSteps, Ordered, Mode
    <3>2. CASE b # a
      BY <1>1, <1>4, <2>2, <3>2 DEF ControlOK, Ordered, Mode
    <3> QED
      BY <3>1, <3>2
  <2> QED
    BY <1>1, <1>3, <1>4, <1>5, <2>1, <2>2 DEF ControlOK, SetUpSteps, BuildSteps, Actors, Runs
<1>10. BuildInv'
  <2> SUFFICES ASSUME at'["main"] \in SetUpSteps PROVE BuildInv'
    BY DEF BuildInv
  <2>1. a = "handler" /\ at["main"] \in SetUpSteps
    BY <1>5 DEF Actors
  <2>2. to # "test" => c < cam["main"]
    <3>1. c \in Nat /\ cam["main"] \in Nat
      BY SlotsType DEF SessionTypeOK, Actors
    <3> QED
      BY <1>3, <2>1, <3>1 DEF BuildInv
  <2> QED
    BY <1>1, <1>3, <1>4, <1>5, <1>6, <2>1, <2>2, OrdersSame DEF BuildInv, StopSteps
<1>11. SlotInv'
  <2>1. ASSUME NEW d \in Slots PROVE SlotOK(d)'
    <3>1. \/ ~Building(d) /\ ~Building(d)'
          \/ at'["main"] = at["main"] /\ cam'["main"] = cam["main"]
      BY <1>5, <1>6 DEF Building, SetUpSteps
    <3> QED
      BY <1>1, <1>6, <3>1, SlotKept DEF SlotInv
  <2> QED
    BY <2>1 DEF SlotInv
<1>12. StopInv'
  <2>1. ASSUME NEW b \in Actors, b # a, at[b] = "delete" PROVE PoolsFreed(cam[b])'
    BY <1>1, <1>4, <2>1 DEF StopInv, PoolsFreed, Mode
  <2>2. ASSUME a = "main" PROVE \A d \in Slots : d < cam'["main"] => d \notin tests
    <3>1. \A d \in Slots : d < c => d \notin tests
      BY <1>1, <1>2, <2>2 DEF StopInv
    <3> QED
      BY <1>3, <1>4, <2>2, <3>1, SlotsType
  <2> QED
    BY <1>1, <1>3, <1>4, <2>1, <2>2 DEF StopInv, StopSteps, Actors
<1>13. HandlerInv'
  <2> SUFFICES ASSUME host = MainThread PROVE HandlerInv'
    BY <1>1 DEF HandlerInv
  <2>1. a = "handler"
    BY <1>5 DEF Actors
  <2>2. to = "test" => c \in missed
    BY <1>1, <1>2, <1>3, <2>1, SlotsType DEF HandlerInv
  <2>3. \A d \in Slots : d < c + 1 => d < c \/ d = c
    BY <1>2, SlotsType
  <2>4. \A d \in Slots : d >= c + 1 => d >= c
    BY <1>2, SlotsType
  <2> QED
    BY <1>1, <1>2, <1>3, <1>4, <1>5, <2>1, <2>2, <2>3, <2>4 DEF HandlerInv
<1>14. AloneInv'
  <2> SUFFICES ASSUME ~interrupted, ~Concurrent PROVE AloneInv'
    BY <1>1 DEF AloneInv, Concurrent
  <2>1. \A b \in Actors : at[b] \notin StopSteps
    BY <1>1, Stopping DEF StopSteps
  <2>2. \A d \in tests : Whole(d)'
    BY <1>1, <1>6, <2>1, DeviceKept DEF AloneInv
  <2>3. to = "encoder" => Whole(cam[a])' /\ Mode(cam[a])' = "video"
    BY <1>1, <1>3, <1>4, <2>2 DEF Whole, Mode
  <2>4. to = "lock" => thread'[c]["result"] # "none" /\ thread'[c]["request"] # "none"
    BY <1>3, <2>2 DEF Whole, Threads
  <2>5. host = MainThread => a # "main"
    BY <1>5
  <2> QED
    BY <1>1, <1>3, <1>4, <2>1, <2>2, <2>3, <2>4, <2>5 DEF AloneInv, StopSteps
<1> QED
  BY <1>1, <1>8, <1>9, <1>10, <1>11, <1>12, <1>13, <1>14, AliveEnds

\* A test leaves its slot when its threads are joined and its pools are freed.
LEMMA DeleteTestKeeps ==
    ASSUME LifeInv, NEW a \in Actors, DeleteTest(a)
    PROVE  LifeInv'
<1> USE DEF LifeInv, SessionInv, threadVars, signalVars
<1> DEFINE to == IF a = "main" THEN "test" ELSE "close"
<1>1. /\ Runs(a) /\ at[a] = "delete" /\ at[a] \in StopSteps /\ end' = "alive"
      /\ at' = [at EXCEPT ![a] = to]
      /\ UNCHANGED <<orderList, kind, cameras, opened, pools, streams, thread, owner,
                     host, missed, interrupted, failed>>
  BY DEF DeleteTest, Go, Runs, StopSteps
<1>2. PICK c \in Slots : cam[a] = c /\ Ordered(c) /\ ~Building(c)
  BY <1>1, Stopping
<1>3. /\ tests' = tests \ {c} /\ encoder' = [encoder EXCEPT ![c] = "none"]
      /\ cam' = [cam EXCEPT ![a] = IF a = "main" THEN c + 1 ELSE c]
  BY <1>2 DEF DeleteTest
<1>4. /\ at'[a] = to /\ \A b \in Actors : b # a => at'[b] = at[b]
      /\ a = "main" => cam'["main"] = c + 1
      /\ a # "main" => cam'[a] = c /\ cam'["main"] = cam["main"] /\ at'["main"] = at["main"]
      /\ \A b \in Actors : b # a => cam'[b] = cam[b]
      /\ "main" \in Actors /\ "handler" \in Actors /\ encoder'[c] = "none"
  BY <1>1, <1>2, <1>3 DEF ControlOK, SessionTypeOK, Actors
<1>5. a = "main" => at["main"] \notin SetUpSteps /\ at'["main"] \notin SetUpSteps /\ host # MainThread
  BY <1>1, <1>4, Stopping DEF SetUpSteps, BuildSteps
<1>6. \A d : Building(d)' = Building(d)
  BY <1>4, <1>5 DEF Building, SetUpSteps
<1>7. \A d \in Slots : d # c => DeviceSame(d)
  BY <1>1, <1>3 DEF DeviceSame, SessionTypeOK
<1>8. PoolsFreed(c)' /\ \A k \in Threads : thread'[c][k] = "none"
  BY <1>1, <1>2 DEF StopInv, PoolsFreed, Mode
<1>9. SessionTypeOK'
  BY <1>1, <1>2, <1>3, SlotsType DEF SessionTypeOK
<1>10. ControlOK'
  <2>1. at' \in [Actors -> SetUpSteps \cup StopSteps \cup {"none", "use", "test", "close"}]
    BY <1>1 DEF ControlOK
  <2>2. ASSUME NEW b \in Actors, at'[b] \in StopSteps PROVE Ordered(cam[b])'
    BY <1>1, <1>4, <2>2 DEF ControlOK, Ordered, Mode, StopSteps
  <2>3. at'["handler"] = "close" => cam'["handler"] \in Slots
    BY <1>2, <1>4 DEF ControlOK, Actors
  <2> QED
    BY <1>1, <1>4, <1>5, <2>1, <2>2, <2>3 DEF ControlOK, SetUpSteps, BuildSteps, Actors, Runs
<1>11. BuildInv'
  <2> SUFFICES ASSUME at'["main"] \in SetUpSteps PROVE BuildInv'
    BY DEF BuildInv
  <2>1. a = "handler" /\ at["main"] \in SetUpSteps
    BY <1>4, <1>5 DEF Actors
  <2>2. c < cam["main"]
    BY <1>1, <1>2, <2>1 DEF BuildInv
  <2> QED
    BY <1>1, <1>3, <1>4, <1>6, <2>1, <2>2, OrdersSame DEF BuildInv
<1>12. SlotInv'
  <2>1. ASSUME NEW d \in Slots, d # c PROVE SlotOK(d)'
    <3>1. \/ ~Building(d) /\ ~Building(d)'
          \/ at'["main"] = at["main"] /\ cam'["main"] = cam["main"]
      BY <1>4, <1>5, <1>6 DEF Building, SetUpSteps
    <3> QED
      BY <1>1, <1>3, <1>7, <2>1, <3>1, SlotKept DEF SlotInv
  <2>2. SlotOK(c)'
    BY <1>1, <1>2, <1>3, <1>4, <1>6, <1>8 DEF SlotInv, SlotOK
  <2> QED
    BY <2>1, <2>2 DEF SlotInv
<1>13. StopInv'
  <2>1. ASSUME NEW b \in Actors, b # a, at[b] = "delete" PROVE PoolsFreed(cam[b])'
    BY <1>1, <1>4, <2>1 DEF StopInv, PoolsFreed, Mode
  <2>2. ASSUME a = "main" PROVE \A d \in Slots : d < cam'["main"] => d \notin tests'
    <3>1. \A d \in Slots : d < c => d \notin tests
      BY <1>1, <1>2, <2>2 DEF StopInv
    <3> QED
      BY <1>2, <1>3, <1>4, <2>2, <3>1, SlotsType
  <2> QED
    BY <1>1, <1>3, <1>4, <2>1, <2>2 DEF StopInv, StopSteps, Actors
<1>14. HandlerInv'
  <2> SUFFICES ASSUME host = MainThread PROVE HandlerInv'
    BY <1>1 DEF HandlerInv
  <2>1. a = "handler"
    BY <1>5 DEF Actors
  <2> QED
    BY <1>1, <1>2, <1>3, <1>4, <2>1 DEF HandlerInv
<1>15. AloneInv'
  <2> SUFFICES ASSUME ~interrupted, ~Concurrent PROVE AloneInv'
    BY <1>1 DEF AloneInv, Concurrent
  <2>1. \A b \in Actors : at'[b] \notin StopSteps
    <3>1. \A b \in Actors : b # a => at[b] \notin StopSteps
      BY <1>1, Stopping
    <3> QED
      BY <1>1, <1>4, <3>1 DEF StopSteps
  <2>2. ASSUME NEW d \in tests, d # c PROVE Whole(d)'
    <3>1. d \in Slots
      BY DEF SessionTypeOK
    <3>2. \A b \in Actors : at[b] \in StopSteps => cam[b] # d
      BY <1>1, <1>2, <2>2, Stopping
    <3>3. Whole(d)
      BY <3>2 DEF AloneInv
    <3> QED
      BY <1>1, <1>7, <2>2, <3>1, <3>3, DeviceKept
  <2> QED
    BY <1>1, <1>3, <1>4, <2>1, <2>2 DEF AloneInv, StopSteps, Actors
<1> QED
  BY <1>1, <1>9, <1>10, <1>11, <1>12, <1>13, <1>14, <1>15, AliveEnds

-----------------------------------------------------------------------------
(* closeCamera and the end.                                                *)

\* main() closes the cameras when no test is left.
LEMMA BeginClosingKeeps == LifeInv /\ BeginClosing => LifeInv'
<1> SUFFICES ASSUME LifeInv, BeginClosing PROVE LifeInv'
  OBVIOUS
<1> USE DEF LifeInv, SessionInv, slotVars, deviceVars, threadVars, signalVars, Actors
<1>1. /\ at["main"] = "test" /\ at'["main"] = "close" /\ at'["handler"] = at["handler"]
      /\ host # MainThread /\ end' = "alive" /\ cam["main"] = MaxCamera
      /\ cam'["main"] = 0 /\ cam'["handler"] = cam["handler"]
      /\ cam' \in [Actors -> 0 .. MaxCamera]
      /\ UNCHANGED <<orderList, kind, slotVars, deviceVars, threadVars, signalVars, failed, end>>
  BY SlotsType DEF BeginClosing, Go, Runs, ControlOK, SessionTypeOK
<1>2. \A c : DeviceSame(c) /\ ~Building(c) /\ ~Building(c)'
  BY <1>1 DEF DeviceSame, Building, BuildSteps
<1>3. tests = {}
  BY <1>1, SessionAssumption DEF StopInv, SessionTypeOK, Slots
<1>4. SessionTypeOK'
  BY <1>1 DEF SessionTypeOK
<1>5. ControlOK'
  <2>1. at' \in [Actors -> SetUpSteps \cup StopSteps \cup {"none", "use", "test", "close"}]
    BY DEF BeginClosing, Go, ControlOK
  <2> QED
    BY <1>1, <2>1, OrdersSame DEF ControlOK, StopSteps
<1>6. BuildInv'
  BY <1>1 DEF BuildInv, SetUpSteps, BuildSteps
<1>7. SlotInv'
  BY <1>1, <1>2, SlotKept DEF SlotInv
<1>8. StopInv'
  <2>1. at["handler"] = "delete" => PoolsFreed(cam["handler"])'
    BY <1>1, <1>2, DeviceKept DEF StopInv
  <2>2. \A c \in Slots : ~(c < 0)
    BY SlotsType
  <2> QED
    BY <1>1, <1>3, <2>1, <2>2 DEF StopInv, StopSteps
<1>9. HandlerInv'
  BY <1>1 DEF HandlerInv
<1>10. AloneInv'
  <2>1. \A c : Whole(c)' = Whole(c) /\ Mode(c)' = Mode(c)
    BY <1>1, <1>2, DeviceKept, OrdersSame
  <2> QED
    BY <1>1, <2>1 DEF AloneInv, StopSteps, Concurrent
<1> QED
  BY <1>1, <1>4, <1>5, <1>6, <1>7, <1>8, <1>9, <1>10, AliveEnds

\* A camera in its slot is open, or could not be opened; its test is gone.
LEMMA CloseCameraKeeps ==
    ASSUME LifeInv, NEW a \in Actors, CloseCamera(a)
    PROVE  LifeInv'
<1> USE DEF LifeInv, SessionInv, threadVars, signalVars
<1>1. Runs(a) /\ at[a] = "close" /\ cam[a] < MaxCamera
  BY DEF CloseCamera
<1>2. PICK c \in Slots : cam[a] = c /\ ~Building(c)
  BY <1>1, SlotsType, Stopping DEF SessionTypeOK
<1>3. c \notin tests
  BY <1>1, <1>2 DEF StopInv, Actors
<1>4. CASE c \in cameras /\ opened[c] # "open" /\ End("undefined")
  <2>1. failed # {}
    BY <1>2, <1>4 DEF SlotInv, SlotOK
  <2>2. EndInv'
    BY <1>4, <2>1 DEF End, EndInv, FaultsExplained, ReleasedAtExit
  <2> QED
    BY <1>4, <2>2, EndKeeps DEF End
<1> DEFINE to == IF a = "main" THEN "close" ELSE "test"
<1>5. CASE /\ at' = [at EXCEPT ![a] = to]
           /\ opened' = [opened EXCEPT ![c] = IF c \in cameras THEN "closed" ELSE @]
           /\ cameras' = cameras \ {c}
           /\ cam' = [cam EXCEPT ![a] = c + 1]
           /\ UNCHANGED <<orderList, kind, tests, pools, streams, encoder, threadVars, signalVars,
                          failed, end>>
  <2>1. /\ at'[a] = to /\ \A b \in Actors : b # a => at'[b] = at[b]
        /\ cam'[a] = c + 1 /\ \A b \in Actors : b # a => cam'[b] = cam[b]
        /\ "main" \in Actors /\ "handler" \in Actors /\ end' = "alive"
        /\ opened'[c] = IF c \in cameras THEN "closed" ELSE opened[c]
    BY <1>1, <1>5 DEF ControlOK, SessionTypeOK, Actors, Runs
  <2>2. /\ a = "main" => at["main"] \notin SetUpSteps /\ at'["main"] \notin SetUpSteps
                         /\ host # MainThread
        /\ a # "main" => at'["main"] = at["main"] /\ cam'["main"] = cam["main"]
    BY <1>1, <2>1, Stopping DEF SetUpSteps, BuildSteps
  <2>3. \A d : Building(d)' = Building(d)
    BY <2>2 DEF Building, SetUpSteps
  <2>4. \A d \in Slots : d # c => DeviceSame(d)
    BY <1>5 DEF DeviceSame, SessionTypeOK
  <2>5. SessionTypeOK'
    BY <1>2, <1>3, <1>5, SlotsType DEF SessionTypeOK
  <2>6. ControlOK'
    <3>1. at' \in [Actors -> SetUpSteps \cup StopSteps \cup {"none", "use", "test", "close"}]
      BY <1>5 DEF ControlOK
    <3>2. ASSUME NEW b \in Actors, at'[b] \in StopSteps PROVE Ordered(cam[b])'
      BY <1>5, <2>1, <3>2 DEF ControlOK, Ordered, Mode, StopSteps
    <3> QED
      BY <1>1, <1>5, <2>1, <2>2, <3>1, <3>2 DEF ControlOK, SetUpSteps, BuildSteps, Actors, Runs
  <2>7. BuildInv'
    <3> SUFFICES ASSUME at'["main"] \in SetUpSteps PROVE BuildInv'
      BY DEF BuildInv
    <3>1. a = "handler" /\ at["main"] \in SetUpSteps
      BY <2>2 DEF Actors
    <3>2. c < cam["main"] /\ c \in Nat
      BY <1>1, <1>2, <3>1, SlotsType DEF BuildInv
    <3> QED
      BY <1>5, <2>1, <2>2, <2>3, <3>1, <3>2, OrdersSame DEF BuildInv, StopSteps
  <2>8. SlotInv'
    <3>1. ASSUME NEW d \in Slots, d # c PROVE SlotOK(d)'
      <4>1. \/ ~Building(d) /\ ~Building(d)'
            \/ at'["main"] = at["main"] /\ cam'["main"] = cam["main"]
        BY <2>2, <2>3 DEF Building, SetUpSteps
      <4> QED
        BY <1>5, <2>4, <3>1, <4>1, SlotKept DEF SlotInv
    <3>2. SlotOK(c)'
      <4>1. PoolsFreed(c)
        BY <1>2, <1>3 DEF SlotInv, SlotOK
      <4>2. PoolsFreed(c)'
        BY <1>5, <4>1 DEF PoolsFreed, Mode
      <4> QED
        BY <1>2, <1>3, <1>5, <2>1, <2>3, <4>2 DEF SlotInv, SlotOK
    <3> QED
      BY <3>1, <3>2 DEF SlotInv
  <2>9. StopInv'
    <3>1. ASSUME NEW b \in Actors, b # a, at[b] = "delete" PROVE PoolsFreed(cam[b])'
      BY <1>5, <2>1, <3>1 DEF StopInv, PoolsFreed, Mode
    <3>2. ASSUME a = "main" PROVE \A d \in Slots : d < cam'["main"] => d \notin cameras'
      <4>1. \A d \in Slots : d < c => d \notin cameras
        BY <1>1, <1>2, <3>2 DEF StopInv
      <4> QED
        BY <1>2, <1>5, <2>1, <3>2, <4>1, SlotsType
    <3> QED
      BY <1>1, <1>5, <2>1, <3>1, <3>2 DEF StopInv, StopSteps, Actors
  <2>10. HandlerInv'
    <3> SUFFICES ASSUME host = MainThread PROVE HandlerInv'
      BY <1>5 DEF HandlerInv
    <3>1. a = "handler"
      BY <2>2 DEF Actors
    <3>2. \A d \in Slots : d < c + 1 => d < c \/ d = c
      BY <1>2, SlotsType
    <3>3. \A d \in Slots : d >= c + 1 => d >= c /\ d # c
      BY <1>2, SlotsType
    <3> QED
      BY <1>2, <1>3, <1>5, <2>1, <2>2, <3>1, <3>2, <3>3 DEF HandlerInv
  <2>11. AloneInv'
    <3> SUFFICES ASSUME ~interrupted, ~Concurrent PROVE AloneInv'
      BY <1>5 DEF AloneInv, Concurrent
    <3>1. \A d : Whole(d)' = Whole(d) /\ Mode(d)' = Mode(d)
      BY <1>5 DEF Whole, Mode
    <3>2. \A b \in Actors : at[b] \notin StopSteps /\ at'[b] \notin StopSteps
      <4>1. \A b \in Actors : b # a => at[b] \notin StopSteps
        BY <1>1, Stopping
      <4> QED
        BY <1>1, <2>1, <4>1 DEF StopSteps
    <3> QED
      BY <1>5, <2>1, <3>1, <3>2 DEF AloneInv, StopSteps, Actors
  <2> QED
    BY <2>1, <2>5, <2>6, <2>7, <2>8, <2>9, <2>10, <2>11, AliveEnds
<1> QED
  BY <1>2, <1>4, <1>5 DEF CloseCamera, Go

\* Whoever exits has been at every slot.
LEMMA ExitIsReleased ==
    ASSUME LifeInv, NEW a \in Actors, Exit(a)
    PROVE  LifeInv'
<1> USE DEF LifeInv, SessionInv
<1>1. Runs(a) /\ cam[a] = MaxCamera /\ at[a] = (IF a = "main" THEN "close" ELSE "test") /\ End("exited")
  BY DEF Exit
<1>2. \A c \in Slots : c < MaxCamera
  BY SessionAssumption DEF Slots
<1>3. ASSUME ~Concurrent, NEW c \in Slots \ missed
      PROVE  c \notin tests /\ c \notin cameras /\ ~Building(c)
  <2>1. CASE a = "main"
    BY <1>1, <1>2, <2>1 DEF StopInv, Building, BuildSteps
  <2>2. CASE a = "handler"
    <3>1. host = MainThread
      BY <1>1, <1>3, <2>2 DEF Runs, Concurrent
    <3>2. c \notin tests /\ c \notin cameras
      BY <1>1, <1>2, <1>3, <2>2, <3>1 DEF HandlerInv
    <3>3. ASSUME Building(c) PROVE FALSE
      <4>1. at["main"] \in SetUpSteps /\ cam["main"] = c /\ c \in Nat
        BY <3>3, SlotsType DEF Building, SetUpSteps
      <4> QED
        BY <1>3, <3>1, <4>1 DEF HandlerInv
    <3> QED
      BY <3>2, <3>3
  <2> QED
    BY <2>1, <2>2 DEF Actors
<1> QED
  BY <1>1, <1>3, ExitKeeps

-----------------------------------------------------------------------------
(* The theorems.                                                           *)

LEMMA TearDownKeeps ==
    ASSUME LifeInv, NEW a \in Actors, TearDown(a)
    PROVE  LifeInv'
BY LookAtTestKeeps, StopEncoderKeeps, LockKeeps, PushKeeps, JoinKeeps, CollisionKeeps,
   FreeStreamsKeeps, DeleteTestKeeps, CloseCameraKeeps, ExitIsReleased
DEF TearDown, StopTest

LEMMA LifeStep == LifeInv /\ [SessionNext]_sessionVars => LifeInv'
<1> SUFFICES ASSUME LifeInv, [SessionNext]_sessionVars PROVE LifeInv'
  OBVIOUS
<1>1. CASE SessionNext
  BY <1>1, SignalKeeps, SetUpKeeps, UseKeeps, BeginClosingKeeps, TearDownKeeps, FindStopKeeps
  DEF SessionNext
<1>2. CASE UNCHANGED sessionVars
  <2> USE <1>2 DEF sessionVars, where, slotVars, deviceVars, threadVars, signalVars, LifeInv, SessionInv
  <2>1. \A c : /\ Building(c)' = Building(c) /\ Ordered(c)' = Ordered(c) /\ Mode(c)' = Mode(c)
               /\ PoolsFreed(c)' = PoolsFreed(c) /\ Whole(c)' = Whole(c) /\ DeviceSame(c)
    BY OrdersSame DEF Building, PoolsFreed, Whole, DeviceSame, Mode
  <2>2. SessionTypeOK' /\ ControlOK' /\ BuildInv'
    BY <2>1 DEF SessionTypeOK, ControlOK, BuildInv
  <2>3. SlotInv'
    BY <2>1, SlotKept DEF SlotInv
  <2>4. StopInv' /\ HandlerInv'
    BY <2>1 DEF StopInv, HandlerInv
  <2>5. AloneInv'
    BY <2>1 DEF AloneInv, Concurrent
  <2>6. EndInv'
    BY DEF EndInv, FaultsExplained, ReleasedAtExit, Concurrent, Mode
  <2> QED
    BY <2>2, <2>3, <2>4, <2>5, <2>6
<1> QED
  BY <1>1, <1>2

\* The invariant the theorems below rest on: what is allocated, opened or running
\* has an owner, wherever a signal stops main() and on whatever thread it runs.
THEOREM LifeInvariant == SessionSpec => []LifeInv
BY LifeInit, LifeStep, PTL DEF SessionSpec

\* Every variable of the session keeps its type: a test is never registered
\* without its camera.
THEOREM SessionTypes == SessionSpec => []SessionTypeOK
<1>1. LifeInv => SessionTypeOK
  BY DEF LifeInv, SessionInv
<1> QED
  BY <1>1, LifeInvariant, PTL

\* No camera of the HAL is closed before its request and result threads are
\* joined, in whatever order main() and the handler stop and close them.
THEOREM CamerasCloseAfterJoin == SessionSpec => []ClosedAfterJoin
<1>1. ASSUME LifeInv PROVE ClosedAfterJoin
  <2>1. ASSUME NEW c \in Slots, opened[c] = "closed" PROVE \A k \in Threads : thread[c][k] = "none"
    <3>1. Building(c) => c \in cameras /\ c \notin tests
      BY <1>1, Built DEF Building
    <3>2. c \in cameras => Building(c) /\ at["main"] \in {"preinit", "open"}
      BY <1>1, <2>1 DEF LifeInv, SlotInv, SlotOK
    <3>3. c \notin tests
      BY <1>1, <3>1, <3>2 DEF LifeInv, SessionInv, SessionTypeOK
    <3>4. ~(Building(c) /\ at["main"] = "register")
      BY <3>1, <3>2
    <3> QED
      BY <1>1, <3>3, <3>4 DEF LifeInv, SlotInv, SlotOK
  <2> QED
    BY <2>1 DEF ClosedAfterJoin
<1> QED
  BY <1>1, LifeInvariant, PTL

\* Every use of an invalid pointer, second join and closing of a camera that is not
\* open has one of three causes: a failure that was ignored, a signal in the middle
\* of main()'s stop(), or a handler that runs beside main().
THEOREM FaultsAreExplained == SessionSpec => []FaultsExplained
<1>1. LifeInv => FaultsExplained
  BY DEF LifeInv, EndInv
<1> QED
  BY <1>1, LifeInvariant, PTL

\* A process that exits has released every camera the handler could see, unless
\* main() and the handler were at work together.
THEOREM CamerasAreReleased == SessionSpec => []ReleasedAtExit
<1>1. LifeInv => ReleasedAtExit
  BY DEF LifeInv, EndInv
<1> QED
  BY <1>1, LifeInvariant, PTL
=============================================================================
