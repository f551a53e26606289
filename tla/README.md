# Verification of RB3 Auto Drive

TLA+ modules, TLC configurations and TLAPS proofs about the RB3 Auto Drive
application (`src/`): a program for the Qualcomm RB3 that takes preview and
depth (TOF) frames through the camera HAL3 interface, runs object detection on
them and sends movement commands to a robot.

Paths below are relative to `src/main_application/src/` unless they say otherwise.

## 1. The system

| Component | State it keeps | Operations | Interacts with |
| --- | --- | --- | --- |
| Camera device pipeline (`QCameraHAL3Device`) | two threads and their message queues, `requestNumber`, `frameNumber`, `mPendingVector`, the streams | `processCaptureRequestOn`, `doprocessCaptureRequest`, `ProcessOneCaptureRequest`, `ProcessCaptureResult`, `doCapturePostProcess`, `stopStreams` | HAL (calls and callback), `BufferManager`, the camera tests (callback `CapturePostProcess`) |
| Buffer manager (`BufferManager`) | the free buffers of a stream, their mappings | `GetBuffer`, `PutBuffer`, allocation | request thread, result thread, video encoder |
| Camera tests (`QCameraHAL3TestPreview`, `...TOF`, `...Snapshot`, `...Video`) | streams to open, `mDumpPreviewNum`, the stored frame (`image_data`, `depth_data`) | set-up, `run`, `stop`, `CapturePostProcess`, `HandleMetaData`, `RequestCaptures` | the device, `main()` |
| Frame loop (`QCameraHALTestMain.cpp`) | `lock_f`, `cond_f`, the lap, the frame in work | order a frame of each camera, wait, infer, decide | result threads of two devices, inference, robot |
| Depth and decision (`DepthCalc.cpp`, `main()`) | frequency map, minimum | `getDistance`, `getDepth`, command choice | frame loop |
| Video encoder (`QCameraTestVideoEncoder`, `OMX_Encoder`) | frame queue, OMX buffer headers, component state, two threads | start, enqueue, read, flush, stop, component callbacks | video test, OMX component |
| DLR client and server (`client.cpp`, `src/dlr_server/server.cpp`) | a socket, the request in work | connect, send image, receive masks | frame loop, DLR runtime |
| Calibration of the TOF sensor (`QCameraHAL3TestTOF`, `tl_dev_eeprom.h`) | the EEPROM's values, the exposure, the values to transmit | load, initialise, compute, transmit | EEPROM and kernel, `main()` |
| Start-up, tear-down, signals (`QCameraHALTestMain.cpp`) | `HAL3Test`, `Camera`, the devices and their threads | `initialize`, the orders, `deleteCameraInstance` (signal handler), the end of `main()` | everything |
| Configuration (`QCameraHAL3TestConfig`) | a camera's sizes, modes and settings | four parsers of `name=value` orders | `main()`, the tests |
| Metadata log (`TestLog`, `HandleMetaData`) | the last value of every watched kind, an output stream | compare, print, set path | the HAL's callback, standard error |
| SNPE inference (`src/snpe_shared_library`) | the runtime, two models, result buffers | `loadModel`, `predictSnpe` | frame loop, SNPE |
| Bounding boxes (`BBox.cpp`), image resizing (`src/dlr_server/image_resize.cpp`), robot scripts (`src/bot_py`) | none that outlives a call | | frame loop, DLR server |

What is hard here: five threads per two cameras (request, HAL callback and
result thread per device, plus the application) share buffers, queues and raw
pointers; several waits are not re-checked, not predicated or not under the
mutex of the data; results and metadata come in any order and any number of
parts; a stop runs while results are on the way; and a frame is handed from the
result thread to `main()` through an unprotected pointer and a counter. The
list of hazards with their lines is in `PROJECT.json` (`hazards`).

What makes each component correct:

* device: no buffer lost or in two places; `mPendingVector` tells what the HAL
  works on and is bounded; a stop returns only when everything is back, and
  does return; ordered captures are all taken, once;
* frame loop: `main()` only touches frames that are complete and not freed,
  frees each of them, and runs all its laps;
* decision: the depth of a box is its most frequent depth, the nearest box
  counts, and the robot does not go forward into it;
* encoder: every buffer header and every camera buffer comes back; start, flush
  and stop end; a set-up that failed is not taken for one that worked;
* inference: client and server agree where a frame and an answer end, and the
  robot goes on blindly only when there is nothing in its way;
* snapshot: a picture ordered is a picture written, and the caller hears the truth;
* session: what was opened is stopped, joined, closed and freed, once, in that
  order, also by a signal handler that runs on any thread at any time;
* configuration and log: a camera opens no stream without a size, and the size is one
  the order names; a line shows what the last result held; the exposure the sensor is sent fits into its frame.

## 2. Modules

### `CameraDevice.tla`: the capture pipeline of one device

One action per critical section or per step on data that only one thread
touches. The correspondence with the code, by thread:

| Thread | Actions | Code (`QCameraHAL3Device.cpp`) |
| --- | --- | --- |
| request thread | `ReqStop`, `ReqChange`, `ReqCompose`, `ReqSettle` | `doprocessCaptureRequest` 453-550 |
| | `ReqAdmit`, `ReqRoomTimeout`, `ReqRoomSpurious`, `ReqGetBuffer`, `ReqGetSpurious`, `ReqRegister`, `HalAccept`, `HalReject`, `ReqReturn` | `ProcessOneCaptureRequest` 361-447, `BufferManager.h` 101-117 |
| HAL and callback | `HalResult`, `CbEnqueue`, `CbEnqueueNull`, `CbAccount`, `CbAccountMissing` | `ProcessCaptureResult` 173-213 |
| result thread | `ResStop`, `ResTake`, `ResTakeSpurious`, `ResPost` | `doCapturePostProcess` 122-167 |
| application | `OrderCaptures`, `StopRequestThread`, `StopResultThread`, `StopDrain`, `StopDrainTimeout`, `StopFinish` | `RequestCaptures` (Snapshot, Video), `stopStreams` 605-671 |
| owner of the callback | `ClientPut` | external mode: `QCameraTestVideoEncoder::Read` |

`rq`, `rs`, `cb.at` and `stopper` say where each thread is. `mPendingVector` is
`pending` (its keys) with `want`, `got` and `meta` for the three numbers of a
`RequestPending`. What the HAL owes is `halBufs` and `halMeta`: it delivers any
part of it in any order, one callback at a time. Undefined behaviour the code
can reach (a late result after `mResultThread` became NULL, `editValueAt(-1)`,
`front()` of an empty container) sets `fault`, after which the model stops. The
read of a deleted `RequestPending` is remembered in `freedRead`.

Left out: the request settings and their queue (payload), the order of a
pool's free buffers (no property depends on it), the contents of frames.

### `BufferOwnership.tla` and `CameraDeviceOwnership.tla`: what the pipeline promises

`BufferOwnership` is the pipeline without threads and queues: a buffer has one
owner at a time and goes round pool, request, HAL, result, pool, with a detour
to the client in external mode. A request takes at most one buffer of a pool and
is submitted or refused as a whole; a buffer is lost only after a stop began.
`CameraDeviceOwnership` reads the owner off the variables of `CameraDevice`
(`OwnerOf`) and states the refinement, `ImplementsOwnership`.

### `FrameLoop.tla`: `main()`'s loop and the two result threads that feed it

`pc` walks through lines 456-571 of `QCameraHALTestMain.cpp`; `thread["preview"]`
and `thread["tof"]` through `CapturePostProcess` (Preview 515-555, TOF 116-147).
The counters `mDumpPreviewNum` are written by two threads without a lock:
`+=` and `--` are a read and a write, two actions. Frames are numbered heap
blocks (`unused`, `raw` after malloc, `full` after memcpy, `freed`); the pointers
`data[c]` and `depthImage` only name them, and start as NULL or wild because the
constructors do not set them. The results of the inference and of `getBbox` are
nondeterministic.

`tofTimely`, chosen at the start from `Timings`, restricts the environment when
it is TRUE: the TOF frame of a lap arrives before `main()` is woken.
`pthread_cond_wait` is taken to return only after a signal.

### `FrameHandOver.tla` and `FrameLoopHandOver.tla`: what the loop promises

`FrameHandOver` is the loop without counters, pointers, locks and threads: in
every lap each watched camera is asked for one frame (`Order`), hands it over once
and in full (`Store`) and has it given back once (`Release`), and none is given back
before all frames of the lap are there. `FrameLoopHandOver` reads the stage of a
frame off the heap, the counter, the thread and the position of `main()` (`Stage`)
and states the refinement, `ImplementsHandOver`. The preview is always watched, the
TOF camera if `tofTimely` (`Watched`): a late TOF frame is stored in a later lap, which
is what the run `loop_dangling` is about.

### `DepthDecision.tla`: from depth frame and boxes to a command

The pass of `getDistance` over the pixels of a box, pixel by pixel, `getDepth`'s
minimum, and the thresholds of `main()` (553-568). A box smaller than 20 pixels
is the empty sequence. A depth the frequency map has no element for is
`CountOutside`. `MCDecision` chooses depths on both sides of every threshold.

### `Inference.tla`: from a frame to a segmentation

Either engine, as `main()` uses it (lines 448-532):

| Process | Actions | Code |
| --- | --- | --- |
| `main()`, SNPE | `LoadModel`, `SnpeCrash`, `SnpeFails`, `Classify`, `Segment` | `LoadModel.cpp`, `CheckRuntime.cpp`, `Predict.cpp` |
| `main()`, DLR | `GetFd`, `SendFrame`, `RecvAnswer`, `SocketFails` | `client.cpp` |
| `main()`, either | `ClientLeaves` at any step | `exit(0)` of `deleteCameraInstance` |
| the server | `ServerStart` | `server.cpp`, `main()` |
| its child | `ServerRecv`, `Infer`, `InferThrows`, `ServerSend`, `ChildFails` | `server.cpp`, the forked loop |

The socket is two sequences of units (`up`, `down`), of which a `send` and a
`recv` may carry any part of a chunk; a unit knows the frame it belongs to, the
payload is nothing else. `short` and `split` remember what breaks the protocol:
a `send` cut short, after which the sender's next chunk starts at the wrong
place, and a mark of "no object" that arrives in pieces. A call on a socket whose other
end has left fails only if bytes were left unread or a `send` is made; otherwise `recv`
returns 0, which neither side looks at (`Orphaned` is the child's case).

### `SnapshotCapture.tla`: pictures and who waits for them

`RequestCaptures` of the snapshot test (832-861) and the snapshot branch of its
`CapturePostProcess`. The counter `mSnapshotNum` is written by two threads with
no common mutex, so its decrement is a load (`TakeFrame`) and a store
(`CountDown`). The wait has no predicate; it ends by the signal, its timeout or by
itself. In non-ZSL mode the first frames are skipped.

### `Session.tla`: the life of the program

`at["main"]` walks through `main()` from `loadCameraModule` to its end, `at["handler"]`
through `deleteCameraInstance`; `TearDown(a)` is the same code for both. Per camera
it has the slot tables, the device, the pools, the configured streams, the encoder,
the life of its two threads, and who has what `stop()` and `closeCamera` wait for (`Locks`):

| Lock | In the code | `stop()` or `closeCamera` needs it |
| --- | --- | --- |
| `request`, `result` | `mRequestThread->mutex`, `mResultThread->mutex` | to queue the stop message (`Lock`, 609 and 625), and the thread to find it |
| `pending` | `mPendingLock` | to wait for the requests (`FreeStreams`, 635) |
| `encoder` | `mLock`, `m_inLock`, `m_outLock`, `m_stateMutex`, the video pool's lock | `mVideoEncoder->stop()` (`StopEncoder`) |
| `supply` | what a thread must get before its next message: a buffer, a pool's lock, `mPendingLock` | for the thread it joins (`FindStop`) |
| `hal` | what the HAL takes to close, such as the end of a callback or of a call | `closeCamera` (`CloseCamera`) |

`host` is the thread the handler runs on: `main()`'s, a camera's, the HAL's. A
handler stands still the thread it runs on (`Runs`), with one of the locks that thread may
have had there (`MayHave`, `Deliver`): one is enough, the first that somebody comes to. A
thread that joins itself gets an error at once, which only the handler can do. A call may fail up to
`MaxFailures` times (`failed` names it); the use of an invalid pointer or a thread
ended twice sets `end` to `undefined`. A NULL that `main()` dereferences is one more
fatal signal and runs the handler on `main()`'s thread (`Segfault`); one in the handler
itself ends the process (`killed`).

### `EncoderSetup.tla`: `setConfig` of the OMX encoder

The chain of calls `Calls`, in order, each with what its failure means: returned
(`fatal`), turned into a success by the early `return` (`silent`) or forgotten
(`logged`); then the headers of both ports, one at a time, and the command to
go to Idle. `VideoEncoder` begins where it ends.

### `TofCalibration.tla`: the exposure of the TOF sensor

The five steps `main()` calls, in integers of the widths of the code (16 bits for
what the EEPROM gives, `EepromType`, and the kernel takes). A step that fails leaves
what the step before left, because nobody looks at its result. The code computes
clocks in `float`; the model's quotients are those of the code as long as a float
holds the clocks exactly, below 2^24, and the lines of an exposure fit into an
`int32_t` (`TofAssumption`).

### `CommandLine.tla`: the four parsers

One action per group of options with the same effect (`Add`, `Change`, `MetaDump`,
`MetaUpdate`); an order is any sequence of up to `MaxOptions` of them. The locals
that several options scan their sizes through are state (`scan`), because they
live as long as the parser's call does. A number `sscanf` does not find is `Garbage`, or what
the last size left there. `Opens` are the streams that `Preinit...Streams` of a mode's test opens;
`sizeOptions` remembers the size options of the order.

### `MetadataLog.tla`: `HandleMetaData` and `TestLog`

A result carries some of the `Kinds` with some value; `New` is the comparison the
code has for that kind (a missing entry counts as 0, is not compared, or always
is new; `last` keeps what was compared), `SaidFor` the value the line names. `Stored` is what `mMetaStat` keeps of
a value: the exposure time is an `int64` that is compared with an `int`, so one that fits
into an `int` is not news after one that differs from it by a multiple of 2^32 (`Tells`).
Two logs share standard error.

### `VideoEncoder.tla`: from the camera's video buffers to the encoded file

The threads of the encoder and the two ends that use it:

| Thread | Actions | Code |
| --- | --- | --- |
| application | `Start` (`CreateThreads` to `SetState`), `StopBegin`, `Stop` (`Flush` to `DrainEnd`) | `OMX_Encoder.cpp` 686-827, `QCameraTestVideoEncoder::stop` 126-150, `QCameraHAL3TestVideo::stop` 506-514 |
| in-flight thread | `InTake`, `ReadWait`, `ReadTake`, `ReadTimeout`, `ReadCopy`, `EmptyThisBuffer`, `EmptyRefused` | `inFilghtFunc` 564-614, `Read` 156-210 |
| out-flight thread | `OutTake`, `FillThisBuffer`, `FillRefused` | `outFilghtFunc` 620-680, `Write` |
| component (external) | `CompleteIdle`, `CompleteExecuting`, `CompleteLoaded`, `EmptyBufferDone`, `FillBufferDone` | the callbacks `onOmxEvent`, `onBufEmptyDone`, `onFillBufDone` 856-938 |
| result thread of the camera | `ResultBuffer`, `ResultPutBack`, `EnqueueFrameBuffer` | `QCameraHAL3TestVideo::CapturePostProcess` 142-195, `EnqueueFrameBuffer` 250-257 |

Buffer headers are numbers, the input headers first; messages name the header
they carry. The component completes its commands in order and returns every
header before it is Idle again; that it may refuse a call is `MayRefuse`. Where
the code is undefined the model either chooses (the second `pthread_join` returns or
not) or ends with `fault`: a callback that meets a deleted message queue, a frame
that meets the deleted frame queue. `m_State` starts with any value, because
nothing sets it, and the Idle event of `setConfig` may come after `start()` set
STATE_START (`premature`).

`CameraDevice` sees this module as the client that takes a buffer from
`CapturePostProcess` and returns it (`ClientPut` is `ReadCopy` and `Drain`).

### `FrameQueue.tla` and `VideoEncoderQueue.tla`: what the encoder promises the camera

`FrameQueue` knows no threads, no headers and no component: the result thread has a
buffer in its hand (`hand`) or none, and brings none once a stop began; the buffers it
enqueued stand in a line (`line`) and are put back from its front; the stop ends when
nobody stands there (`closed`). `VideoEncoderQueue` maps `VideoEncoder` to it: the line is
the buffer that `Read` works on and behind it `mBufferQueue`, the stop ends with
`DrainEnd`. It states the refinement, `ImplementsFrameQueue`: frames are encoded in the
order the camera delivered them, and the drain of `stop()` does not overtake `Read`.

### The modules for TLC

`MCCameraDevice` gives `CameraDevice` its streams and pools. `MCDecision`
(`DepthDecision`, `Inference`), `MCConfiguration` (`CommandLine`, `MetadataLog`,
`SnapshotCapture`) and `MCSession` (`Session`, `TofCalibration`, `EncoderSetup`)
each put components side by side that share no state: the variable `part` chooses
at the start which one a behaviour runs, and the others stand still. A state of
such a run is one component's state, nothing is multiplied.

### The modules with the proofs

| Module | Proves about |
| --- | --- |
| `CameraDeviceProofs`, `CameraDeviceBuffers` | `CameraDevice`, and that it implements `BufferOwnership` |
| `FrameLoopProofs` | `FrameLoop`, and that it implements `FrameHandOver` |
| `SessionProofs` | `Session` |
| `VideoEncoderProofs` | `VideoEncoder`, and that it implements `FrameQueue` |
| `ConfigurationProofs` | `CommandLine`, `MetadataLog`, `SnapshotCapture` |
| `DecisionProofs` | `DepthDecision`, `Inference` |
| `SetupProofs` | `EncoderSetup`, `TofCalibration` |

They extend the component's module and are about its own specification (`ParseSpec`,
`LogSpec`, `ShotSpec`, `InferenceSpec`, `SessionSpec`, `SetupSpec`, `TofSpec`: initial states and
steps of that component), which is what a behaviour of `MCDecision`, `MCConfiguration` or
`MCSession` is once `part` has chosen it.

How the components hang together: `CommandLine` shows which modes an order can
start (`ModeOf`) and that their streams have sizes (`StreamsAreSized`), and `Session` starts only those; `Session` runs and stops the
threads whose work is `CameraDevice`, and the encoder whose set-up is `EncoderSetup`
and whose work is `VideoEncoder`; `FrameLoop` is `Session`'s frame loop, its answers of the
inference are those of `Inference`, and its decision is `DepthDecision`; the
captures of `SnapshotCapture` are the orders of `CameraDevice` (`OrderCaptures`).

## 3. What the runs check

| Run | Instance | Shows |
| --- | --- | --- |
| `timely` | 2 streams x 2 buffers, 2 living requests, 3 frames, 1 order, rejects | with a HAL that answers in time: `OrdersAccounted` beside a repeating request, `WaitsAreOwed` (no wait that nobody ends), `LivingRequestsBounded`, `PendingMatchesHal`, `AllRequestsBack` |
| `slow` | 2 streams with 1 and 2 buffers, 2 living requests, 3 frames, 1 order, rejects, expiring and spurious waits, external mode, skip pattern | `EveryBufferInOnePlace`, `ResultQueueDrained`, `FaultOnlyAfterGivingUp` (late results meet freed data only after `stopStreams` gave up), `ImplementsOwnership` with a client |
| `live` | 1 stream, 1 buffer, 2 living, 3 orders | `OrdersAccounted`, `OrdersServed`, `RequestsFlow` |
| `silent` | 1 stream, as many buffers as living requests | `StopCompletes` though the HAL may never answer |
| `freed` (violation) | 1 stream | a `RequestPending` is read after the callback deleted it |
| `loop` | 3 laps, TOF in time or at any time | `ImageReady`: the preview frame is always complete and not freed; `NoFault`: with TOF frames in time no frame is used wrongly; `ImplementsHandOver`: none is left over; `LoopEndsUnlessSignalLost`: only a lost signal hangs the loop |
| `loop_hang` (violation) | 2 laps | the signal can be lost, and `main()` waits for ever |
| `loop_dangling` (violation) | 2 laps, TOF late | the freed depth frame of the previous lap is used |
| `encoder` | 2 input headers, 1 output header, 2 camera buffers, refused calls, expiring waits | `HeadersBackBeforeFree`, `OutputsWritten`, `ImplementsFrameQueue`, `StopEnds`, `BuffersComeBack` |
| `decision` | all lists of at most 2 boxes of 3 pixels, 6 depths; 2 laps of frames and answers of 2 chunks of 3 units, a client that may leave at any step | `NearestBox`, `NeverForwardIntoNear`; `FramesAligned`, `ForwardIsKnown`, `ServerFinishes` |
| `config` | orders of 3 options; 5 kinds of metadata with 4 values; up to 2 orders of 1 or 2 pictures | `StreamsAreSized`; `LastLineIsCurrent`, `ClosedOnce`; `PicturesAccounted`, `ReturnIsHonest`, `RequestReturns` |
| `session` | 3 order lists of two cameras, 3 slots, 1 failure, a signal on any thread at any time, whatever it has; 2592 EEPROMs; 2 buffers per port, a component that asks for 1 or 3 | `FaultsExplained`, `ReleasedAtExit`, `ClosedAfterJoin`, `HandlerEnds`; `TimesFillFrame`; `SetupIsHonest` |

The bounds. Two living requests and two buffers per stream are the least with
which a request can wait for room while another waits for a buffer, and a
result of one request can overtake another; three frames let a third request
reuse the buffers and the room of the first. Code constants (5 living requests,
12 buffers, 5 tries) only lengthen the same behaviours. Two streams are needed
for a result that brings one of two buffers. In `slow` the preview has one
buffer, so that a spurious wakeup can find its pool empty. Three laps of the loop let a stale depth frame of lap 1 meet an order
of lap 2 and its leftovers lap 3. Two boxes show that nothing of the first box
leaks into the second; three pixels are the least with which a depth can lose
its lead and a tie occur. The encoder needs two input headers, for one to be lost
while the other goes round, and two camera buffers, for one to wait in the queue
while the result thread brings the other; its queues never hold more than that,
so no counter is cut off and the run covers every behaviour of its instance.

In `decision` the thresholds are scaled down in the same order; a chunk of three
units can arrive in four ways and hold a mark of two units whole or split, and the
second lap meets what the first left in the socket or in a buffer. In `config` an
option of one stream can come before, between and after those of two others, which is what a local
shared by all sizes takes; `IntRange` is 8, so that the values 9 and 19 do not fit into
an `int`, which keeps a 3 of the 19; five kinds have one of every comparison. Two pictures are the least with
which a decrement overlaps an order. In `session` two cameras of each pair of modes
show both orders of closing (`main()` stops every camera before it closes the first,
the handler takes them one by one), and the third slot is the empty one behind them; one failure at every
place is a failure of each call with all others working. The EEPROM values lie on
both sides of every check of `TofCalExp` and of 2^16.

Fairness. Threads run (weak fairness of each thread's next step): they block
only on the conditions the actions' guards state. `Spec` adds a HAL that answers
every request; `SilentHalSpec` instead only says that timed waits expire.
Nothing obliges the application to call `stopStreams` or to order captures. In
`FrameLoop` both cameras keep delivering frames, which is what their repeating
requests are for. In `VideoEncoder` the component completes commands and returns
each header it holds (one fairness condition per header); the threads run, so a
thread that waits in `Read` is served or times out. Nobody is obliged to stop the
encoder or to deliver frames. In `Inference` (`InferenceFairness`) both processes run
on; what one waits for, the other owes, and nobody need end the client. In `SnapshotCapture` (`ShotFairness`) the
caller's timed wait ends and a callback that began ends; the HAL owes nothing.
In `Session` (`SessionFairness`) the set-up and the tear-down run on and a thread that is told to
stop looks at its queue; nobody need send a signal and the frame loop need not end.

`BuffersComeBack` is conditional for a reason: a `Read` that times out loses its
header (`OMX_Encoder.cpp` 595-597), so a pause of the camera of as many seconds as
there are input headers ends the encoding for good, and `StopEnds` with the buffers
drained is all that is left. The other condition is a component that refused to
go to Executing, which `start()` only logs.

Each module states a type invariant. No configuration names it: every proof below
rests on the type invariant of its module, and those of `CameraDevice`, `FrameLoop`,
`Session` and `VideoEncoder` are theorems of their own. `NoImageLeftOver` and
`NoDepthLeftOver` of `FrameLoop` are theorems as well; the run checks
`ImplementsHandOver`, of which they are a part. So are `BuffersOnce`, `HeadersOnce` and
`StopIsOwed` of `VideoEncoder`; its run checks what they are good for, `ImplementsFrameQueue`,
`HeadersBackBeforeFree` and `StopEnds`.


### Disagreements found

1. `ProcessOneCaptureRequest` reads `pend` after the callback may have deleted it (441; run `freed`).
2. The frame loop orders before it waits, and the signal is sent without the
   mutex: it can be lost (run `loop_hang`).
3. `depth_data` is freed but never reset: the test "No Depth data Found" cannot
   see a late frame (run `loop_dangling`).

### What the models show besides

These are behaviours of the code that no document denies; the properties name them
as the exceptions under which they hold.

* `stopStreams` (`QCameraHAL3Device.cpp` 634-657) waits for all requests, but after
  five expired waits clears the vector and frees what a late result uses
  (`FaultOnlyAfterGivingUp`). The same happens without any timeout when the HAL sends more
  than one metadata result per request (`MetaParts` > 1): line 205 completes a
  request at the first one.
* A box without a measurement, or too small to be looked at, counts as far away;
  `NeverForwardIntoNear` is about measured boxes.
* A `send` of fewer bytes than asked shifts all that follows (`short`), and a mark of
  "no object" that comes in pieces is taken for a segmentation (`split`).
* An inference that failed and a frame without objects are the same empty
  answer, and the robot goes forward on either (`ForwardIsKnown`).
* A child of the server whose client ends while it waits for a frame takes the 0 of `recv`
  for a number of bytes and loops for ever (`src/dlr_server/server.cpp` 207-213; `Orphaned`
  in `ServerFinishes`).
* A size without a width or height takes it from the size before it in the order, which may
  be another stream's, and from the stack if there is none (`StreamsAreSized`).
* A missing entry is logged as a 0, and the value that follows is told again
  (`LastLineIsCurrent`); five kinds are passed over instead.
* A second order of pictures while one is served resets the count, and pictures
  are lost (`overlap` in `PicturesAccounted`).
* The handler runs on a thread that may have what it then waits for, and hangs (`SelfLocked`):
  the mutex of its message queue; on a thread of the HAL `mResultThread->mutex` and `mPendingLock`
  (187-211), or the results without which a thread it joins gets no buffer (`BufferManager.h` 104);
  on the request thread `mPendingLock` (363-374, 420-422) or a call of the HAL (424); on `main()`
  in the encoder's `stop()` any of the encoder's. `HandlerEnds` says that nothing else hangs it.
  It may also run in the middle of `main()`'s own `stop()` (`interrupted`), or beside it.
* `OMX_Init`, the colour format, the memory of the headers and the command to go to
  Idle may fail without an error of `setConfig` (`SetupIsHonest`).
* The first print to a file closes the stream the log had before, which is standard error;
  a second log does it again (`ClosedOnce`).
* An exposure time gets no line when the one before was longer by a multiple of 2^32 ns,
  of which `mMetaStat` keeps the same `int` (`LastLineIsCurrent`, `Tells`).
* A read-out of fewer than 7 lines or an idle time longer than the dummy
  transfer passes every check of `TofCalExp` and gives the sensor times that do not
  fill its frame (`TimesFillFrame`).

## 4. What is proved

Checked by TLAPS, for every value of the constants that the named assumption of
the module allows. Every safety invariant and all three refinements that a passing run checks
are theorems; what is left to TLC is liveness. Where an invariant is not inductive, the proof is about a
conjunction of named parts, of which the first are types and control positions; every
proof has one lemma per action or group of actions, and one step per part under it.

### The capture pipeline

`CameraDeviceProofs`, from `ConstantsAssumption` (finitely many buffers, disjoint
pools, streams numbered by naturals, sizes natural numbers; the limit on living requests
may be 0, since nothing initialises `mLivingRequestExtAppend` of the preview and TOF cameras):

* `TypeCorrect`: `SafetySpec => []TypeOK`. `TypeOK` alone is not inductive: that
  the frame being requested is below the bound and that no buffer is missing
  when a request is submitted is `ControlOK`; `TypeInv` is the conjunction. One
  lemma per thread, one step per action; `TypeFrame` disposes of everything an
  action leaves alone.
* `LivingRequestsAreBounded` (assuming no spurious wakeup):
  `SafetySpec => []LivingRequestsBounded`. The strengthening `RoomInv` says that a
  request thread which passed the test still finds room: between its test and
  its entry others only remove entries. With spurious wakeups the bound is
  false, since the test is not repeated.
* `ResultQueueIsDrained`: `SafetySpec => []ResultQueueDrained`, with no
  assumption on timeouts or wakeups. The strengthening `StopIsLast` says that the
  stop message is the last of the queue as long as the result thread has not
  taken it, and that the stopped flag is set exactly from then on.
* `PendingAlwaysMatchesHal`, `FaultsFollowGivingUp` (assuming `MetaParts = 1`) and
  `AllRequestsComeBack` (assuming also that waits do not expire and `stopStreams` has a
  try at all, `StopTries # 0`): `PendingMatchesHal`, `FaultOnlyAfterGivingUp`, `AllRequestsBack`.
  The strengthening is `PendInv`. `EntriesInv`: as long as the vector has not been
  cleared there is an entry exactly for the requests the HAL or the callback works on
  and the one being handed over, and its counters plus what is outstanding give what
  was asked for. `SubmitInv`: a request not yet handed over is fresh. `EndInv`: nothing is
  submitted once the request thread is joined, and nothing is under way when
  `stopStreams` ends without having used up its tries. With more than one metadata result
  per request the facts are false of the code: `QCameraHAL3Device.cpp` 205 takes the
  first one for the whole, so an entry goes while the HAL still works on its request.

* `OrdersAreAccounted`: `SafetySpec => []OrdersAccounted`. The captures ordered are spread over
  the messages of `reqQ`; a sum over a queue is an induction over data, so the
  property speaks of the running sums instead: a sequence `sum` that grows from message to
  message by what the message orders (`Running`). Queueing a message extends it
  (`RunningAppend`), taking one shifts it (`RunningTail`), and no induction is left.
  `CountsOK` is the strengthening: a stop message orders nothing, and a stream that is
  asked for has something to send.

`CameraDeviceBuffers`, under the same assumption, and but for the last with no other:

* `BuffersAreConserved`: `SafetySpec => []EveryBufferInOnePlace`. `HeldOnce` is the
  property as a prover can use it: some place has the buffer, no two kinds of
  place do, no two frames and no two messages do. It is inductive together with
  `QuietInv`, which says that nothing is overwritten: the HAL holds nothing of a
  frame it was not asked for, the result thread nothing while it waits, and a
  stop message brings no buffers. One lemma per thread; `PutPlaces`,
  `GetPlaces`, `AppendPlaces` and `TailPlaces` say what the operations do to the
  place of one buffer.
* `OwnershipIsImplemented`: `SafetySpec => ImplementsOwnership`. A request's
  buffers are one per stream because GetBuffer was not called for the streams
  still to come (`HeldByStream`), and the stop begins once because of `StopIsLast`.
  Every step is one step of `BufferOwnership` (`PassStep`) or none (`StutterStep`).
* `NoWaitIsForNothing` (assuming `MetaParts = 1` and a limit other than 0): `SafetySpec =>
  []WaitsAreOwed`. This is the part of "no deadlock" that needs no fairness: whatever a
  thread waits for is in somebody's hands. `WaitInv` adds to `PendInv` and the ownership
  invariant that the vector is full as long as the request thread waits for room
  (`FullWhileWaiting`), that a stop message stays queued until it is taken
  (`StopQueued`), and that no result is dropped before the result thread was told to stop
  (`NothingLostYet`). A full vector has an entry, an entry has the HAL or the callback
  at work on it (`PendingIsWorkedOn`), and a buffer that is in no pool, not with the
  waiting thread and not dropped is on its way back (`MissingIsReturning`). With a limit of 0
  it is false: the request thread waits for room before the first request.

### The frame loop

`FrameLoopProofs`, from `LoopAssumption` (any number of laps, any choice of timings),
`LoopInvariant` with `LoopInv == TypeInv /\ ImageInv /\ DepthInv`:

* `LoopTypes`: `TypeOK`; needs `CountsOK`, that a thread takes from a count it saw
  above zero. The preview and the TOF counter behave differently: only the TOF
  camera's `--` can overlap `main()`'s `+=`, which brings served orders back.
* `ImageIsReady`, `NoImageIsLeftOver`: `ImageReady`, `NoImageLeftOver`, whatever the TOF
  camera does. `ImageInv` lists the stages an order of a preview frame passes between the
  two threads: one of them holds while `main()` waits, `There` when it has been woken.
* `NoDepthIsLeftOver`, `NoFaultInTime`: `NoDepthLeftOver`, `NoFault`. `DepthInv` is the same for the
  TOF frame, under `tofTimely`; without it `NoFault` is false (run `loop_dangling`).
* `HandOverIsImplemented`: `SafetySpec => ImplementsHandOver`, with no further hypothesis.
  `ImageStages` and `DepthStages` follow from `LoopInv` and give the stage of a frame for every
  position of `main()`, up to whether the thread has served the order (`There`). A step is
  then one of `FrameHandOver` (`AdvanceStep`) or none (`FramesStutter`), by where it takes `main()`
  and whether it makes a frame there: one lemma for `main()`, one for each thread.

### Start-up, tear-down and the signal handler

`SessionProofs`, from `SessionAssumption` and `OrderAssumption` (no more orders than slots; a mode
is one of the four or cannot be parsed), for any number of cameras, orders and failures.
`LifeInv` has seven parts:

* `SessionInv`: types, and where the two actors can be;
* `BuildInv`: while `main()` sets up camera `c` nothing exists beyond `c`, and a handler
  is at an earlier camera;
* `SlotInv`: what a slot can look like, `main()` in the middle of building it or not;
* `StopInv`: what an actor has done of `stop()` on its way, thread by thread;
* `HandlerInv`: a handler on `main()`'s own thread works alone from then on;
* `AloneInv`: unless both actors work or one broke into the other's `stop()`, what `stop()`
  is about to use is there;
* `EndInv`: the properties.

From it `SessionTypes` (`SessionTypeOK`), `CamerasCloseAfterJoin` (`ClosedAfterJoin`),
`FaultsAreExplained` (`FaultsExplained`), `CamerasAreReleased` (`ReleasedAtExit`).

### The video encoder

`VideoEncoderProofs`, from `EncoderAssumption` (any number of headers of both kinds, any
camera buffers). `EncoderInv == TypeInv /\ BufferInv /\ EndInv /\ WriteInv`:

* `EncoderTypes` (`TypeOK`); `NoExitYet` is the part that a pass over the queue needs.
* `BuffersStayOnce` (`BuffersOnce`): `BufferInv` gives every camera buffer one of four
  places and one position in the queue.
* `HeadersAreBack` (`HeadersBackBeforeFree`): `JoinInv` and `IdleInv`. An Idle event that is not
  that of `setConfig` was ordered by `stop()` after both threads ended, and then the
  component holds nothing and gets nothing.
* `OutputsAreWritten` (`OutputsWritten`): `HeaderInv` gives an output header one place, `OutputInv`
  keeps an unwritten output on its way to the file, ahead of the exit message.
* `FrameQueueIsImplemented`: `SafetySpec => ImplementsFrameQueue`, with no further hypothesis.
  `LineIs` says what the line is with `Read` at work and without; `ReadTake` does not change
  it, `ReadCopy` and `Drain` put its first buffer back, and every other step leaves it
  (`CameraKept`, `BuffersStand`). That `Drain` meets no `Read` at work is `JoinInv`: `stop()` joined
  the in-flight thread.
* `StopWaitsForWhatComes` (`StopIsOwed`): while `stop()` joins a thread, that thread has its exit
  message before it or has taken it; while it waits for the Idle event, the command
  is not completed. `OwedInv` adds that no `m_State` of that time can swallow the event: it
  is never Loaded between `start()` and the last commands of `stop()`.
* `HeadersStayOnce` (`HeadersOnce`): a buffer header is in one of six places (the component,
  the two queues, the hands of the two threads, lost), so no header is given to the
  component twice, and none vanishes while the encoder runs. `PlaceInv` needs which headers
  `start()` has enqueued (`Known`), that a queue names a header once (`OnceIn`), and that the
  in-flight thread comes for its next message with empty hands.

### Configuration, log and snapshots

`ConfigurationProofs`:

* from `ParseAssumption`, `ParseInvariant` for `ParseInv`: types, that every stream with a size option
  so far is sized by the last of them (`SizedBy`), that the shared locals hold what the options up
  to now left in them (`ReadSoFar`), and that only an Add that was read whole gives a camera its
  mode. `StreamsStaySized` (`StreamsAreSized`), for orders of any length;
* from `LogAssumption`, `LogInvariant` for `LogInv`. `StatInv`: `mMetaStat` is what it keeps of what the
  last result held, so a result that prints no line has no news but for the exceptions of the property.
  `CloseInv`: who closed standard error has a file of its own or is gone, so a second closing
  is that of another log. `LinesAreCurrent` (`LastLineIsCurrent`), `StderrClosedOnce` (`ClosedOnce`);
* from `ShotAssumption`, `ShotInvariant` for `ShotInv`. `DueInv`: without overlapping orders the buffers to
  come are the pictures to come and the frames to skip, and the counter never is below the
  pictures to come. `SignalInv`: the count of a non-ZSL order is exact, so its signal comes when all
  is written. `PicturesAreAccounted` (`PicturesAccounted`), `ReturnsAreHonest` (`ReturnIsHonest`).

### Decision and inference

`DecisionProofs`:

* from `DepthAssumption`, `DepthInvariant` for `DepthInv`: the frequency map counts the pixels scanned so far
  (`CountInv`), `minDepth` is the smallest mode of the measured boxes (`MinInv`), the command follows
  the decision (`CommandInv`). `NearestBoxIsTaken` (`NearestBox`), `NeverForward` (`NeverForwardIntoNear`),
  for boxes of any size and number. That one pixel more changes the number of occurrences of
  one depth by one is a lemma about a finite set; no induction is needed, since the scan is a
  behaviour and not a function;
* from `InferenceAssumption` (sizes are multiples of the chunk, a mark fits into one), `InferenceInvariant`
  for `InferInv`. `StreamInv`: as long as no `send` was cut short, nobody answers at all (`NoChild`) or
  client and server are in one of five situations (`Sending`, `Waiting`, `Answering`, `AnswerSent`,
  `BetweenLaps`), in each of which what arrived and what is under way add up to what was sent,
  all of the same lap. A `recv` that takes any part of it stays in the same situation or ends it.
  `FramesStayAligned` (`FramesAligned`), `ForwardsAreKnown` (`ForwardIsKnown`), the latter for both engines.

### Set-up of the encoder and calibration

`SetupProofs`:

* from `SetupAssumption`, `SetupInvariant` for `SetupInv`: the count of a port is at least `BufCount`
  once the call that asks for it is behind (`EnoughBuffers`), headers are allocated up to
  their number before the command (`HeadersInv`), an early return has its reason (`ReturnInv`).
  `SetupStaysHonest` (`SetupIsHonest`);
* from `TofAssumption`, `CalibrationInvariant` for `TofInv`: what was sent is what was computed last, and
  when no call failed the exposure passed every check (`TimesInv`). `TimesStayInFrame` (`TimesFillFrame`),
  for every EEPROM whose fields have their 16 bits. The quotient of the lines and the wrap-around at
  2^16 are lemmas (`Widths`, `Fitting` and those after them).

### Only model-checked

* Liveness under fairness, which TLAPS does not reach: `RequestsFlow`, `OrdersServed`,
  `StopCompletes`, `LoopEndsUnlessSignalLost`, `StopEnds`, `BuffersComeBack`, `RequestReturns`, `ServerFinishes`,
  `HandlerEnds`.
* The three violations: a counterexample is a behaviour, which only TLC gives.

## 5. Not modelled

* `BBox.cpp` and `image_resize.cpp` are calls into OpenCV and arithmetic on
  pixels; the robot scripts publish one message each. SNPE, DLR, OpenCV, the HAL,
  the OMX component and gralloc are external: only what the program does with their answers is modelled.
* The settings of requests: `constructDefaultRequestSettings`, `setCurrentMeta`,
  `updateMetadataForNextRequest` and the queue they fill, and the settings the
  video test derives from the frame rate (`QCameraHAL3TestVideo.cpp` 391-436,
  `selectOpMode`). They are payload that no thread decides on.
* gralloc and ION calls (`BufferManager.cpp`): a failed allocation is a failure in
  `Session`, the mapping itself is not modelled. The code ignores most of these failures.
* A camera is looked up at one index and stored at another (`QCameraHALTestMain.cpp` 391);
  the orders of the program name their cameras in order, so both are the same in `Session`.
* The non-ZSL set-up of the snapshot test (no order reaches it: `ModeOf` makes it a preview), its preview dump,
  `enableMetaMode` (the build defines `DISABLE_META_MODE`) and the setters without a caller.
* `main()`'s copy of the classification buffer (494-500) and the scans of `%d` into 8-bit
  locals of `parseCommandlineMetaUpdate` write beyond their targets; `TofAfeCalculate` has no `return`.
  The models take them to do what they are written for.
* Mutexes that `Session` leaves out: `mSettingMetaLock` (nothing of `stop()` takes it), `lock_f`
  (`main()`'s alone) and `mCaptureSyncMutex` (`RequestCaptures` has no caller in `main()`). The locks
  of a pool and of the encoder are folded into `supply` and `encoder`, and what the HAL waits for
  in `close` is one lock, `hal`.
* A handler on a thread of the encoder, of the OMX component or of SNPE. The library calls of the
  handler that a signal handler may not make (`printf`, `new`, `delete`, `exit`) and the calls into
  the OMX component are taken to return, so a heap lock held by the handler's own thread is
  left out, and a request thread of a video camera gets the buffers that the encoder has.
* The texts of log lines, the frames-per-second display, the contents of images.

## 6. Plan

In this order, the most important first:

1. One more abstract specification, and its refinement proved step by step: the socket of
   `Inference` as a call that returns.
2. Action properties from the invariants there are: an entry of `mPendingVector` leaves
   it only by its last result or by `stopStreams`; a camera closed is not opened again.
3. The settings queue, as a module beside `CameraDevice`.

No module declares a recursive operator, so theorems can be stated about all of them.
