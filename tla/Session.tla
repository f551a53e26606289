------------------------------ MODULE Session ------------------------------
(***************************************************************************)
(* The life of the program: main() opens a camera for every order, runs    *)
(* the frame loop, and stops and closes what it opened; a fatal signal     *)
(* makes deleteCameraInstance do the latter on whatever thread it is       *)
(* delivered to, and exit.  No result of the set-up is looked at but the   *)
(* one of initialize.                                                      *)
(*                                                                         *)
(* What the cameras do between run() and stop() is CameraDevice and        *)
(* VideoEncoder; here a camera has two threads, and of its mutexes and     *)
(* what else its threads wait for those that stop() and closeCamera need.  *)
(* The i-th order is for camera i, as in cmd_order.  An Add without ZSL    *)
(* makes no snapshot camera (ModeOf in CommandLine), so that path of       *)
(* initSnapshotStreams is left out.                                        *)
(***************************************************************************)
EXTENDS Naturals, FiniteSets

CONSTANTS
    OrderLists,   \* what cmd_order may hold: functions from 0 .. n to
                  \* [mode, hfr], hfr being the class of mFpsRange[1]
    MaxCamera,    \* slots of HAL3Test and Camera
    MaxFailures   \* calls into the HAL or gralloc that may fail

ASSUME SessionAssumption == MaxCamera \in Nat \ {0} /\ MaxFailures \in Nat

Slots == 0 .. MaxCamera - 1
Modes == {"preview", "depth", "snapshot", "video"}

\* There are no more orders than slots; a mode of "none" cannot be parsed.
ASSUME OrderAssumption ==
    \A list \in OrderLists :
        DOMAIN list \subseteq Slots /\ \A c \in DOMAIN list : list[c].mode \in Modes \cup {"none"}

Threads == {"request", "result"}

\* What stop() and closeCamera of a camera may wait for: the mutexes of its two
\* message queues, mPendingLock, what the encoder's stop() takes (mLock,
\* m_inLock, m_outLock, m_stateMutex and the lock of the video pool), what a
\* thread must get before it looks for its next message ("supply": buffers, the
\* lock of a pool or mPendingLock), and what the HAL takes to close ("hal").
Locks == Threads \cup {"pending", "encoder", "supply", "hal"}

Actors == {"main", "handler"}
Streams == {"preview", "depth", "snapshot", "video"}

\* The threads that are not a camera's; NoThread: there is no handler
NoThread == <<MaxCamera, "none">>
MainThread == <<MaxCamera, "main">>
HalThread == <<MaxCamera, "hal">>

VARIABLES
    orderList,   \* cmd_order
    at,          \* at[a]: the step of main() or deleteCameraInstance
    cam,         \* cam[a]: the camera it works on
    kind,        \* kind[a]: the thread stopStreams is ending
    cameras,     \* the slots of Camera that are not NULL
    tests,       \* the slots of HAL3Test that are not NULL
    opened,      \* opened[c]: "no", "open", "failed" (mDevice is garbage) or "closed"
    pools,       \* pools[c]: the streams whose BufferManager exists
    streams,     \* streams[c]: mStreams
    encoder,     \* encoder[c]: "none", "made", "running" or "stopped"
    thread,      \* thread[c][k]: "none" (a NULL pointer), "running", "told" or "ended"
    owner,       \* owner[c][l]: who holds lock l: "nobody", an actor, or "host", the
                 \* thread that runs the handler and had it before
    host,        \* the thread the handler runs on
    missed,      \* history: slots of HAL3Test that were NULL when the handler began
    interrupted, \* history: the handler stopped main() in the middle of stop()
    failed,      \* history: <<c, what>> of a set-up step that failed
    end          \* "alive", "exited", "killed" or "undefined"

where == <<at, cam, kind>>
slotVars == <<cameras, tests>>
deviceVars == <<opened, pools, streams, encoder>>
threadVars == <<thread, owner>>
signalVars == <<host, missed, interrupted>>
sessionVars == <<orderList, where, slotVars, deviceVars, threadVars, signalVars, failed, end>>

SessionInit ==
    /\ orderList \in OrderLists
    /\ at = [a \in Actors |-> IF a = "main" THEN "load" ELSE "none"]
    /\ cam = [a \in Actors |-> 0] /\ kind = [a \in Actors |-> "request"]
    /\ cameras = {} /\ tests = {}
    /\ opened = [c \in Slots |-> "no"] /\ encoder = [c \in Slots |-> "none"]
    /\ pools = [c \in Slots |-> {}] /\ streams = [c \in Slots |-> {}]
    /\ thread = [c \in Slots |-> [k \in Threads |-> "none"]]
    /\ owner = [c \in Slots |-> [l \in Locks |-> "nobody"]]
    /\ host = NoThread /\ missed = {} /\ interrupted = FALSE /\ failed = {} /\ end = "alive"

Runs(a) == end = "alive" /\ IF a = "main" THEN host # MainThread ELSE host # NoThread

\* a is at step from, and goes to step to.
Go(a, from, to) == Runs(a) /\ at[a] = from /\ at' = [at EXCEPT ![a] = to]

Mode(c) == orderList[c].mode

-----------------------------------------------------------------------------
(* Signals                                                                 *)

StopSteps == {"encoder", "lock", "push", "join", "free", "delete"}

\* What thread t may have when the handler stops it, of camera c: main() in the
\* encoder's stop(); a thread of the HAL in ProcessCaptureResult, or with the
\* results it does not deliver any more; the request thread in
\* ProcessOneCaptureRequest; the result thread in CapturePostProcess.
MayHave(t, c) ==
    IF t = MainThread
    THEN IF at["main"] = "encoder" /\ cam["main"] = c THEN {"encoder"} ELSE {}
    ELSE IF t = HalThread
    THEN IF opened[c] # "open" THEN {}
         ELSE {"pending", "supply", "hal"} \cup
                  (IF thread[c]["result"] = "none" THEN {} ELSE {"result"})
    ELSE IF t = <<c, "request">> THEN {"request", "pending", "encoder", "supply", "hal"}
    ELSE IF t = <<c, "result">> THEN {"result", "encoder", "supply"}
    ELSE {}

\* The handler begins on thread t, which does nothing else any more.  One lock
\* is enough: the first of those t has that somebody comes to.
Deliver(t) ==
    /\ host' = t /\ missed' = Slots \ tests
    /\ interrupted' = (t = MainThread /\ at["main"] \in StopSteps)
    /\ at' = [at EXCEPT !["handler"] = "test"] /\ cam' = [cam EXCEPT !["handler"] = 0]
    /\ \/ UNCHANGED owner
       \/ \E c \in Slots : \E l \in MayHave(t, c) :
             owner[c][l] = "nobody" /\ owner' = [owner EXCEPT ![c][l] = "host"]
    /\ UNCHANGED <<orderList, kind, slotVars, deviceVars, thread, failed, end>>

End(how) ==
    /\ end' = how
    /\ UNCHANGED <<orderList, where, slotVars, deviceVars, threadVars, signalVars, failed>>

\* An actor dereferences NULL.  SIGSEGV calls the handler too; a second one, in
\* the handler, finds the same slot and is blocked, so the kernel ends the process.
Segfault(a) ==
    IF a = "handler" THEN End("killed")
    ELSE IF host = NoThread THEN Deliver(MainThread) ELSE End("undefined")

\* One of the fatal signals; a process has one of them delivered to some thread.
\* signal() is called before the HAL is loaded, which has threads of its own.
Signal ==
    /\ end = "alive" /\ host = NoThread
    /\ \/ Deliver(MainThread)
       \/ at["main"] # "load" /\ Deliver(HalThread)
       \/ \E c \in Slots, k \in Threads :
             thread[c][k] \in {"running", "told"} /\ Deliver(<<c, k>>)

-----------------------------------------------------------------------------
(* main(): set-up                                                          *)

MayFail == Cardinality(failed) < MaxFailures

\* Without the library or its symbol CamModule is NULL; if the id is not the one
\* expected the library is closed and CamModule still points into it.
LoadCameraModule ==
    \/ /\ Go("main", "load", "initialize")
       /\ UNCHANGED <<orderList, cam, kind, slotVars, deviceVars, threadVars, signalVars,
                      failed, end>>
    \/ Runs("main") /\ at["main"] = "load" /\ MayFail /\ Segfault("main")
    \/ /\ Runs("main") /\ at["main"] = "load" /\ MayFail
       /\ end' = "undefined" /\ failed' = failed \cup {<<0, "module">>}
       /\ UNCHANGED <<orderList, where, slotVars, deviceVars, threadVars, signalVars>>

\* main() returns -1 if a call on the module fails.
Initialize ==
    \/ /\ Go("main", "initialize", "order")
       /\ UNCHANGED <<orderList, cam, kind, slotVars, deviceVars, threadVars, signalVars,
                      failed, end>>
    \/ Runs("main") /\ at["main"] = "initialize" /\ MayFail /\ End("exited")

\* The streams that Preinit...Streams allocates a pool for, one test at a time
PreviewPools == {"preview"}
TofPools == {"preview", "depth"}
SnapshotPools == {"preview", "snapshot"}
VideoPools == {"preview", "video", "snapshot"}

Preallocated(c) ==
    CASE Mode(c) = "preview" -> PreviewPools [] Mode(c) = "depth" -> TofPools
      [] Mode(c) = "snapshot" -> SnapshotPools [] Mode(c) = "video" -> VideoPools

\* The streams that init...Streams looks for and configures; a video camera above
\* 60 frames a second takes no snapshots.
PreviewStreams == {"preview"}
TofStreams == {"preview", "depth"}
SnapshotStreams == {"preview", "snapshot"}
VideoStreams(c) ==
    {"preview", "video"} \cup (IF orderList[c].hfr = "hfr120" THEN {} ELSE {"snapshot"})

Configured(c) ==
    CASE Mode(c) = "preview" -> PreviewStreams [] Mode(c) = "depth" -> TofStreams
      [] Mode(c) = "snapshot" -> SnapshotStreams [] Mode(c) = "video" -> VideoStreams(c)

\* The next order; one that cannot be parsed ends the set-up.  The test of a
\* video camera makes its encoder.
TakeOrder ==
    LET c == cam["main"] IN
    IF c \notin DOMAIN orderList \/ Mode(c) = "none"
    THEN /\ Go("main", "order", "use")
         /\ UNCHANGED <<orderList, cam, kind, slotVars, deviceVars, threadVars, signalVars, failed,
                        end>>
    ELSE /\ Go("main", "order", "preinit")
         /\ cameras' = cameras \cup {c}
         /\ encoder' = [encoder EXCEPT ![c] = IF Mode(c) = "video" THEN "made" ELSE "none"]
         /\ UNCHANGED <<orderList, cam, kind, tests, opened, pools, streams, threadVars,
                        signalVars, failed, end>>

\* PreAllocateStreams: a buffer that cannot be allocated enters the pool all the
\* same, and what gralloc was to provide is called unseen.
Preinit ==
    LET c == cam["main"] IN
    \/ /\ Go("main", "preinit", "open")
       /\ pools' = [pools EXCEPT ![c] = Preallocated(c)]
       /\ failed' \in {failed} \cup (IF MayFail THEN {failed \cup {<<c, "buffer">>}} ELSE {})
       /\ UNCHANGED <<orderList, cam, kind, slotVars, opened, streams, encoder, threadVars,
                      signalVars, end>>
    \/ /\ MayFail /\ Runs("main") /\ at["main"] = "preinit"
       /\ end' = "undefined" /\ failed' = failed \cup {<<c, "gralloc">>}
       /\ UNCHANGED <<orderList, where, slotVars, deviceVars, threadVars, signalVars>>

OpenCamera ==
    LET c == cam["main"] IN
    /\ Go("main", "open", "init")
    /\ \/ opened' = [opened EXCEPT ![c] = "open"] /\ UNCHANGED failed
       \/ /\ MayFail /\ opened' = [opened EXCEPT ![c] = "failed"]
          /\ failed' = failed \cup {<<c, "open">>}
    /\ UNCHANGED <<orderList, cam, kind, slotVars, pools, streams, encoder, threadVars,
                   signalVars, end>>

\* The camera has no such stream: init...Streams returns -1, which run() ignores.
NoSuchStream ==
    /\ MayFail /\ Go("main", "init", "start")
    /\ failed' = failed \cup {<<cam["main"], "stream">>}
    /\ UNCHANGED <<orderList, cam, kind, slotVars, deviceVars, threadVars, signalVars, end>>

\* The streams are configured, an error of the HAL logged; a camera that could
\* not be opened has no device to configure.
ConfigureStreams ==
    LET c == cam["main"] IN
    \/ /\ Go("main", "init", "start") /\ opened[c] = "open"
       /\ streams' = [streams EXCEPT ![c] = Configured(c)]
       /\ UNCHANGED <<orderList, cam, kind, slotVars, opened, pools, encoder, threadVars,
                      signalVars, failed, end>>
    \/ /\ Runs("main") /\ at["main"] = "init" /\ opened[c] = "failed"
       /\ End("undefined")

\* run() of a video camera starts its encoder first.
RunEncoder ==
    LET c == cam["main"] IN
    /\ Go("main", "start", "threads")
    /\ encoder' = [encoder EXCEPT ![c] = IF @ = "made" THEN "running" ELSE @]
    /\ UNCHANGED <<orderList, cam, kind, slotVars, opened, pools, streams, threadVars, signalVars,
                   failed, end>>

\* Both threads of the camera start.  Without a stream they idle.
StartThreads ==
    LET c == cam["main"] IN
    /\ Go("main", "threads", "register")
    /\ thread' = [thread EXCEPT ![c] = [k \in Threads |-> "running"]]
    /\ UNCHANGED <<orderList, cam, kind, slotVars, deviceVars, owner, signalVars, failed, end>>

\* HAL3Test learns of the test after it runs.
Register ==
    /\ Go("main", "register", "order")
    /\ tests' = tests \cup {cam["main"]}
    /\ cam' = [cam EXCEPT !["main"] = @ + 1]
    /\ UNCHANGED <<orderList, kind, cameras, deviceVars, threadVars, signalVars, failed, end>>

\* The frame loop uses HAL3Test[0] and HAL3Test[1]; it may never end.
Use ==
    IF {0, 1} \subseteq tests
    THEN /\ Go("main", "use", "test") /\ cam' = [cam EXCEPT !["main"] = 0]
         /\ UNCHANGED <<orderList, kind, slotVars, deviceVars, threadVars, signalVars, failed, end>>
    ELSE Runs("main") /\ at["main"] = "use" /\ Segfault("main")

-----------------------------------------------------------------------------
(* stop() of a test, by main() and by the handler                          *)

\* HAL3Test[cam]: is there a test to stop?
LookAtTest(a) ==
    /\ cam[a] < MaxCamera
    /\ IF cam[a] \in tests
       THEN /\ Go(a, "test", IF Mode(cam[a]) = "video" THEN "encoder" ELSE "lock")
            /\ kind' = [kind EXCEPT ![a] = "request"] /\ UNCHANGED cam
       ELSE /\ Go(a, "test", "test")
            /\ cam' = [cam EXCEPT ![a] = @ + 1] /\ UNCHANGED kind
    /\ UNCHANGED <<orderList, slotVars, deviceVars, threadVars, signalVars, failed, end>>

\* stop() of a video camera stops the encoder, once: its queues are deleted then.
\* The other actor may be in the middle of it.
StopEncoder(a) ==
    LET c == cam[a] IN
    /\ Runs(a) /\ at[a] = "encoder"
    /\ IF encoder[c] = "running"
       THEN \/ /\ owner[c]["encoder"] = "nobody"
               /\ at' = [at EXCEPT ![a] = "lock"]
               /\ encoder' = [encoder EXCEPT ![c] = "stopped"]
               /\ UNCHANGED <<orderList, cam, kind, slotVars, opened, pools, streams, threadVars,
                              signalVars, failed, end>>
            \/ (\A b \in Actors : at[b] = "encoder" /\ cam[b] = c) /\ End("undefined")
       ELSE Segfault(a)

\* stopStreams takes the mutex of the thread; the pointer is NULL once it ended.
Lock(a) ==
    LET c == cam[a] k == kind[a] IN
    /\ Runs(a) /\ at[a] = "lock"
    /\ IF thread[c][k] # "none"
       THEN /\ owner[c][k] = "nobody" /\ owner' = [owner EXCEPT ![c][k] = a]
            /\ at' = [at EXCEPT ![a] = "push"]
            /\ UNCHANGED <<orderList, cam, kind, slotVars, deviceVars, thread, signalVars,
                           failed, end>>
       ELSE Segfault(a)

\* The other actor has deleted the record of the thread, or joins the same thread.
Collides(c, k) ==
    thread[c][k] = "none" \/ \A a \in Actors : at[a] = "join" /\ cam[a] = c /\ kind[a] = k

Collision(a) ==
    Runs(a) /\ at[a] \in {"push", "join"} /\ Collides(cam[a], kind[a]) /\ End("undefined")

\* Mutant: the mutex is not released.
PushKeepsMutex(a) ==
    LET c == cam[a] k == kind[a] IN
    /\ Go(a, "push", "join") /\ ~Collides(c, k)
    /\ thread' = [thread EXCEPT ![c][k] = IF @ = "running" THEN "told" ELSE @]
    /\ UNCHANGED <<orderList, cam, kind, slotVars, deviceVars, owner, signalVars, failed, end>>

\* The stop message is queued and the mutex released.
Push(a) ==
    LET c == cam[a] k == kind[a] IN
    /\ Go(a, "push", "join") /\ ~Collides(c, k)
    /\ thread' = [thread EXCEPT ![c][k] = IF @ = "running" THEN "told" ELSE @]
    /\ owner' = [owner EXCEPT ![c][k] = "nobody"]
    /\ UNCHANGED <<orderList, cam, kind, slotVars, deviceVars, signalVars, failed, end>>

\* Mutant: the request thread is not waited for.
JoinNot(a) ==
    LET c == cam[a] k == kind[a] IN
    /\ Runs(a) /\ at[a] = "join" /\ ~Collides(c, k)
    /\ Go(a, "join", IF k = "request" THEN "lock" ELSE "free")
    /\ kind' = [kind EXCEPT ![a] = "result"]
    /\ UNCHANGED <<orderList, cam, slotVars, deviceVars, threadVars, signalVars, failed, end>>

\* The thread has ended, or is the one the handler runs on, whose join fails at
\* once; its record is deleted.
Join(a) ==
    LET c == cam[a] k == kind[a] IN
    /\ Runs(a) /\ at[a] = "join"
    /\ thread[c][k] = "ended" \/ (a = "handler" /\ host = <<c, k>>)
    /\ ~Collides(c, k) /\ Go(a, "join", IF k = "request" THEN "lock" ELSE "free")
    /\ kind' = [kind EXCEPT ![a] = "result"]
    /\ thread' = [thread EXCEPT ![c][k] = "none"]
    /\ UNCHANGED <<orderList, cam, slotVars, deviceVars, owner, signalVars, failed, end>>

\* Mutant: the pools of the streams stay.
FreeStreamsOnly(a) ==
    LET c == cam[a] IN
    /\ Go(a, "free", "delete") /\ owner[c]["pending"] = "nobody"
    /\ streams' = [streams EXCEPT ![c] = {}]
    /\ UNCHANGED <<orderList, cam, kind, slotVars, opened, pools, encoder, threadVars,
                   signalVars, failed, end>>

\* What is pending is given up, under mPendingLock, and the pools of the streams
\* that were configured are freed; one with a buffer
\* that was not allocated unmaps and releases garbage.
FreeStreams(a) ==
    LET c == cam[a] IN
    /\ Runs(a) /\ at[a] = "free" /\ owner[c]["pending"] = "nobody"
    /\ IF <<c, "buffer">> \in failed /\ streams[c] # {} THEN End("undefined")
       ELSE /\ Go(a, "free", "delete")
            /\ pools' = [pools EXCEPT ![c] = @ \ streams[c]]
            /\ streams' = [streams EXCEPT ![c] = {}]
            /\ UNCHANGED <<orderList, cam, kind, slotVars, opened, encoder, threadVars,
                           signalVars, failed, end>>

\* Mutant: the slot of HAL3Test is not set to NULL.
DeleteTestKeepsSlot(a) ==
    LET c == cam[a] IN
    /\ Go(a, "delete", IF a = "main" THEN "test" ELSE "close")
    /\ encoder' = [encoder EXCEPT ![c] = "none"]
    /\ cam' = [cam EXCEPT ![a] = IF a = "main" THEN c + 1 ELSE c]
    /\ UNCHANGED <<orderList, kind, slotVars, opened, pools, streams, threadVars, signalVars,
                   failed, end>>

\* The encoder, the configuration and the test are deleted; main() goes on with
\* the next test, the handler closes the camera first.
DeleteTest(a) ==
    LET c == cam[a] IN
    /\ Go(a, "delete", IF a = "main" THEN "test" ELSE "close")
    /\ tests' = tests \ {c}
    /\ encoder' = [encoder EXCEPT ![c] = "none"]
    /\ cam' = [cam EXCEPT ![a] = IF a = "main" THEN c + 1 ELSE c]
    /\ UNCHANGED <<orderList, kind, cameras, opened, pools, streams, threadVars, signalVars,
                   failed, end>>

StopTest(a) ==
    \/ LookAtTest(a) \/ StopEncoder(a) \/ Lock(a) \/ Push(a) \/ Join(a) \/ Collision(a)
    \/ FreeStreams(a) \/ DeleteTest(a)

-----------------------------------------------------------------------------
(* closeCamera                                                             *)

\* main() has stopped every test and closes the cameras.
BeginClosing ==
    /\ cam["main"] = MaxCamera /\ Go("main", "test", "close")
    /\ cam' = [cam EXCEPT !["main"] = 0]
    /\ UNCHANGED <<orderList, kind, slotVars, deviceVars, threadVars, signalVars, failed, end>>

\* Camera[cam], if there is one, is closed and deleted.
CloseCamera(a) ==
    LET c == cam[a] IN
    /\ Runs(a) /\ at[a] = "close" /\ c < MaxCamera
    /\ IF c \in cameras /\ opened[c] # "open" THEN End("undefined")
       ELSE /\ c \in cameras => owner[c]["hal"] = "nobody"
            /\ Go(a, "close", IF a = "main" THEN "close" ELSE "test")
            /\ opened' = [opened EXCEPT ![c] = IF c \in cameras THEN "closed" ELSE @]
            /\ cameras' = cameras \ {c}
            /\ cam' = [cam EXCEPT ![a] = c + 1]
            /\ UNCHANGED <<orderList, kind, tests, pools, streams, encoder, threadVars,
                           signalVars, failed, end>>

\* return 0 of main(), exit(0) of the handler
Exit(a) ==
    /\ Runs(a) /\ cam[a] = MaxCamera /\ at[a] = IF a = "main" THEN "close" ELSE "test"
    /\ End("exited")

-----------------------------------------------------------------------------
(* The threads of a camera                                                 *)

\* A thread that the handler has not taken, and that gets what it waits for, finds
\* the stop message and ends.
FindStop(c, k) ==
    /\ end = "alive" /\ thread[c][k] = "told" /\ host # <<c, k>>
    /\ owner[c][k] = "nobody" /\ owner[c]["supply"] = "nobody"
    /\ thread' = [thread EXCEPT ![c][k] = "ended"]
    /\ UNCHANGED <<orderList, where, slotVars, deviceVars, owner, signalVars, failed, end>>

-----------------------------------------------------------------------------

SetUp ==
    \/ LoadCameraModule \/ Initialize \/ TakeOrder \/ Preinit \/ OpenCamera
    \/ NoSuchStream \/ ConfigureStreams \/ RunEncoder \/ StartThreads \/ Register

TearDown(a) == StopTest(a) \/ CloseCamera(a) \/ Exit(a)

SessionNext ==
    \/ Signal \/ SetUp \/ Use \/ BeginClosing
    \/ \E a \in Actors : TearDown(a)
    \/ \E c \in Slots, k \in Threads : FindStop(c, k)

\* Threads run on; nobody need send a signal, and the frame loop need not end.
SessionFairness ==
    /\ WF_sessionVars(SetUp) /\ WF_sessionVars(BeginClosing)
    /\ \A a \in Actors : WF_sessionVars(TearDown(a))
    /\ \A c \in Slots, k \in Threads : WF_sessionVars(FindStop(c, k))

-----------------------------------------------------------------------------
(* Properties.                                                             *)

\* The type of every variable of the session.
SessionTypeOK ==
    /\ cam \in [Actors -> 0 .. MaxCamera] /\ kind \in [Actors -> Threads]
    /\ cameras \subseteq Slots /\ tests \subseteq cameras
    /\ opened \in [Slots -> {"no", "open", "failed", "closed"}]
    /\ pools \in [Slots -> SUBSET Streams] /\ streams \in [Slots -> SUBSET Streams]
    /\ encoder \in [Slots -> {"none", "made", "running", "stopped"}]
    /\ thread \in [Slots -> [Threads -> {"none", "running", "told", "ended"}]]
    /\ owner \in [Slots -> [Locks -> {"nobody", "host"} \cup Actors]]
    /\ missed \subseteq Slots /\ interrupted \in BOOLEAN
    /\ end \in {"alive", "exited", "killed", "undefined"}

\* The handler and main() are at work at the same time.
Concurrent == host \notin {NoThread, MainThread}

\* Where the program goes wrong for good something ignored has failed, the
\* handler came in the middle of main()'s stop(), or it runs beside main():
\* set-up, tear-down and a handler on the main thread at any other moment, the
\* one a segmentation fault of main() calls included, never use a pointer that
\* is not valid, end a thread twice or close a camera that is not open.
FaultsExplained ==
    end \in {"killed", "undefined"} => failed # {} \/ interrupted \/ Concurrent

\* When the process has ended, and main() and the handler were not at work
\* together, every camera the handler could see is stopped and closed, its
\* threads have ended and its pools are freed; only a pool without a configured
\* stream is left: the third one of a video camera above 60 frames a second, and
\* those of a camera without the stream that was ordered.
ReleasedAtExit ==
    end = "exited" /\ ~Concurrent =>
        \A c \in Slots \ missed :
            /\ opened[c] \notin {"open", "failed"} /\ c \notin cameras /\ encoder[c] = "none"
            /\ \A k \in Threads : thread[c][k] = "none"
            /\ \/ <<c, "stream">> \in failed
               \/ pools[c] = {}
               \/ Mode(c) = "video" /\ orderList[c].hfr = "hfr120" /\ pools[c] = {"snapshot"}

\* A camera of the HAL is closed only when its request and result threads are
\* joined, although main() and the handler close cameras in different orders.
ClosedAfterJoin ==
    \A c \in Slots : opened[c] = "closed" => \A k \in Threads : thread[c][k] = "none"

\* What the handler waits for at its step
Needs ==
    CASE at["handler"] = "encoder" -> {"encoder"}
      [] at["handler"] = "lock"    -> {kind["handler"]}
      [] at["handler"] = "join"    -> {"supply"}
      [] at["handler"] = "free"    -> {"pending"}
      [] at["handler"] = "close"   -> {"hal"}
      [] OTHER                     -> {}

\* It is something the handler's own thread has, which it stopped: nobody will
\* ever release it.
SelfLocked ==
    \E l \in Needs :
        \/ owner[cam["handler"]][l] = "host"
        \/ host = MainThread /\ owner[cam["handler"]][l] = "main"

\* A fatal signal ends the process, as the handler says it "will exit", unless it
\* came while its own thread had something that stop() or closeCamera needs, for
\* itself or for a thread it joins: then the process hangs in the handler.
HandlerEnds == host # NoThread ~> end # "alive" \/ []SelfLocked
=============================================================================
