# CameraKiosk: a TLA+ model

CameraKiosk is the firmware of a machine that measures objects on a conveyor
belt. An infrared sensor sees an object, the belt stops, a depth camera
(CubeEye lidar) measures it, a balance weighs it, still cameras photograph it,
and the result goes to one TCP client, or to files if there is none. Then the
belt takes the object away and waits for the next.

This directory models the program: the state machine, the threads around it and
the queues between them, the serial line, the life of the lidar's objects, and
what is computed from the depth frames. TLC checks the models on small
instances; TLAPS proves the safety properties for every value of the constants.

## The system

| Part | Source (below `src/`) | State it keeps | Operations | Module |
|---|---|---|---|---|
| State machine | `src/main.cpp`, `src/KioskHandler.cpp`, `libs/KioskFSM` | next and current state, error count, one filter count per belt state, the future of the weight | `onEnter`, `onEvent` of INIT, MOVE, DETECT, EXTRACT; `update`, `onError`; `exitProcess`, `exitHandler` | `KioskFSM` |
| GPIO | `libs/HwManager/src/GpioDriver.cpp` | the relay, the sensor's level | `gpioSetup`, `runConveyor`, `stopConveyor`, `readIRSensor` | `KioskFSM` |
| Balance, serial port | `libs/HwManager/src/Balancer.cpp`, `SerialDriver.cpp` | `gSerialList` (a `static` in a header: one map per source file), descriptors, the line | `setup`, `setToZero`, `getWeightValue`, `balancerEnd`, `readWithTimeout` | `KioskFSM` (ports), `BalanceLine` (line) |
| Capture service | `libs/GpCamera/src/GpCamera.cpp` | `_cams`, request queue, `_contextMutex` and its condition | `requestCapture`, `stopAsync`, `runCaptureListener`, `createCameras` | `CaptureService`, `KioskFSM` (`createCameras`) |
| Socket service | `libs/Util/src/Socket*.cpp` | `_status`, `_communicator`, its queue, two cancel flags | `handle`, `acceptClient`, `runCommunication`, `sendReqeust`, `exitService` | `SocketService` |
| Lidar objects and properties | `libs/GpCamera/src/CubeEyeDriver.cpp`, `EcCubeEyeProps.cpp` | the global listener and context, the camera and its sink, `_manageProps` | `setReadyCubeEye`, `CameraPrepare`, `CameraRun`, `setDefaultProperties`, `onCubeEyeCameraState`, destructors | `LidarSetup` |
| Lidar frames | `libs/GpCamera/src/CubeEyeDriver.cpp` | `_readFlag`, `_frameCnt`, `mFrameListQ` | `onCubeEyeFrameList`, `setReadFlag`, `getRoiFrameData` | `LidarFrames` |
| Depth image | `libs/GpCamera/src/FrameParser.cpp`, `calcObjectDistance` | the average and its count | average, area, object, width and height | `DepthImage` |
| JSON records | `libs/Json` | none | write one file | `KioskFSM` (`WriteJson`) |
| Thread pool | `libs/Util/src/ThreadPool.cpp` | task queue | nothing constructs it | none |
| Third party | `libs/gtest-1.7.0`, `third-party/CubeEye` | | | none |

How the parts meet:

* `main` loops: a pending `nextState` calls that state's `onEnter`, otherwise
  the current state's `onEvent` runs. The events answer through
  `EventListener::update` (CONTINUE, TRANSITION, ERROR).
* DETECT's `onEnter` sets the lidar's read flag, requests one picture per camera
  in a thread it waits for, and starts the balance thread. It does not wait for
  the pictures: the capture listener takes and sends them one by one, also when
  the belt runs again. Its `onEvent` clears
  the flag, empties the frame queue, measures, waits for the weight and calls
  `sendReqeust`.
* INIT starts a thread that finds and prepares the lidar; every attempt of INIT
  replaces the listener and the context of the attempt before.
* Four kinds of threads run beside `main`: the socket service, the capture
  listener, the lidar's callback and the balance threads. They share the
  `_communicator` pointer and its queue, the capture queue, the frame queue and
  `gSerialList`. Most `lock_guard` statements name no variable: the guard is a
  temporary that is gone at the end of the statement and protects nothing.
* SIGINT runs `exitProcess` inside the signal handler, whatever the threads do.

What is hard about each part, and what makes it correct:

* *State machine*: retries after errors, `_currState` read before it is
  written, early exits of DETECT that leave a balance thread behind. Correct:
  the belt stands still while anything is measured, every object is measured
  once, the machine never gets stuck, and the belt is off at the end.
* *Balance*: a thread with a copied descriptor against `setup` and
  `balancerEnd` on the main thread; answers that come late, in pieces or not at
  all, or to a thread of an object that was given up; a `read()` that nothing
  ends but a byte. Correct: the reading thread has the port to itself, no
  descriptor is lost, what is recorded for an object is its own weight or says
  why not, and the wait for it ends if the object before was not given up.
* *Capture service*: a push outside the mutex, a mutex held during a whole
  picture, a handler that locks. Correct: no lost wake-up, pictures in order and
  once, requests return, the listener ends.
* *Socket service*: a pointer that is deleted and replaced while producers use
  it, check-then-act on the queue, cancellation that relies on a time-out.
  Correct: no message twice or out of order, new requests only to a live
  communicator, bounded queue, the service ends.
* *Lidar objects*: a retried INIT deletes the listener that the previous camera
  still calls, and the SDK keeps listeners that nobody unregisters. Correct:
  the running camera calls the listener that DETECT reads, deleted objects are
  not used, and objects are measured with the default properties.
* *Lidar frames*: a flag and a queue without a lock, a count that only a frame
  between two measurements resets. Correct: an average holds settled frames of
  one measurement, and emptying the queue ends.
* *Depth image*: integer averages that are rounded frame by frame, a corner
  search by the product of the coordinates, boundaries of the pixel loops.
  Correct: averages near the mean, the area is the bounding box of the dark
  pixels, the extents are what the loops say.

`PROJECT.json` lists the hazards at their lines, with the properties that would
notice them.

## Modules

In every module a definition marked "a slip" is a plausible wrong version of
the definition that follows it. Nothing uses it: the mutants of `PROJECT.json`
put it in place of the right one to show that a property notices.

`KioskCycle` is the abstract specification: boot, then move, detect, extract
for ever, or the end. The belt runs until the sensor agreed `FilterLen` times
in a row; the depth camera senses only while the belt stands still.

`KioskFSM` is the state machine with everything `main`'s thread calls. One
action is one whole `onEnter` or `onEvent`, because `main` runs them one after
the other and other threads see only single variables of them. DETECT's
handlers are split where they block: at the assignment to `_fObjWeight`, which
waits for the thread it replaces (`main = "assign"`), and at `get()`
(`main = "weigh"`). The services are there by what they do to the machine:
their outcomes, the pictures that are still due (`pictures`), and the death of
the process in one of their threads (`ServiceCrash`). `Continue`, `TransitionTo`
and `Error` are `update`'s three cases; `Entering` and `Handling` are the loop's
two branches. The balance thread of the current and of the replaced future are
the two `Slots`; a thread whose bytes another one took, or `balancerEnd`
flushed, may be "blocked" in `read()` for as long as nothing comes. Constants
carry what the build leaves open: `FirstCurrState` is the content of the
uninitialised `_currState`, and `FreedNodeIntact` says whether `balancerEnd`,
which reads through an erased iterator, still finds the descriptor. `entered`,
`errors` and `outcome` are histories for the properties. `KioskFSMProps` states
the properties and the two refinements (`Cycle == INSTANCE KioskCycle WITH ...`,
`Turns == INSTANCE WeighingTurns WITH ...`); `MCKioskFSM` gives values to the
constants.

`WeighingTurns` is the contract between the main thread and the threads that
weigh: when the port is open, when a thread is started, joined or left behind,
and when the port is closed under it. A thread is "astray" when it reads a
descriptor the list does not name. `KioskFSM` implements the contract with a
thread that reads in one step and `BalanceLine` with one that reads piece by
piece, so that what `KioskFSM` takes for granted of a reading thread is what the
threads of `BalanceLine` do. In both, `Turn` and `ThreadState` map the states.

`BalanceLine` opens up what `KioskFSM` has as one step, the reading thread. The
line carries the pieces of records, the kernel's buffer holds those that
arrived. Each thread looks the port up, clears, writes the command and reads
until the line is silent, in steps that interleave with a thread that an
abandoned DETECT left behind and with the main thread flushing (`BalancerEnd`),
closing (`Close`) and opening the port. A `read()` that finds the bytes gone
blocks. Closing the descriptor does not wake it, and the line stays open under
it (`LineOpen`) until a piece comes; a `read()` that begins on a closed
descriptor fails, and the null pointer kills the process. The balance answers
late, refuses or stays silent; pieces get lost. What lies behind the buffer of
`serialRead` is noise: it may hold a "+", a digit or a "Z". A weight is the
object that lay on the balance when it answered, "noport" is recorded as -1 and
"short" as 0; `overdue`, `shared`, `noisy`, `failed` and `misled` are histories
of what may go wrong on the way.

`LossyChannel` is the contract of the program's two queues. Each thing is unmade,
offered, queued, taken or lost; nothing promises that it arrives, but none is
taken twice, and each sender's things are taken in the order it made them, with
gaps. Nor does it say when: a picture may be taken after its object has left.
`SocketService` implements it from `sendReqeust` to the client, with one
sender per producer, and `CaptureService` from `requestCapture` to the camera;
in both, `Stage` says how far a thing got, and calls a thing that was taken a
second time "repeated", which is no stage of the channel.

`LidarSetup` names each listener, context and camera by the attempt of INIT
that made it, so that "the sink is not the global listener" is a comparison of
numbers. Preparing, setting properties, running and releasing are steps of
their own because the SDK calls back in each, and because SIGINT may come in
between. Properties are compared and set one at a time: found, refused, set, or
made from a pointer of another type, so that a wrong value may replace a right
one.

`LidarFrames` models the callback in its steps (read the flag; count; push)
against DETECT's (set, clear, look, pop). A frame carries the measurement it
was delivered in. DETECT sets the flag whether or not a frame has come since
the last measurement; `rushed` holds the measurements before which none did. `Lidar` composes the two: frames come while a camera runs,
DETECT measures once INIT succeeded, an attempt of INIT makes the listener and
its queue anew.

`DepthImage` follows one measurement: frames are averaged one after the other,
the area's corners are found by comparing products of coordinates, the object
is what lies in the area, and one axis is measured pixel by pixel. Which
pixels the floating-point calibration puts near the median is left open; equal
pixels come in any order, since `std::sort` is not stable. `MCDepthImage` gives
the region and the frames.

`SocketService` models the service thread by the points where it can be
overtaken (accept, create, recv, reply, push, send, delete), each producer's
`sendReqeust` in the four steps that read or write shared state, `exitService`
in its two, and the client. A step on a deleted communicator either goes
unnoticed or kills the process. So do two uses of the queue that overlap: two
pushes, or a push and the service's own push, `front` or `pop`. A push that is
not alone may leave its message out. Sent messages and messages reported as "not
queued" are histories. `MCSocketService` names the producers.

`CaptureService` models `requestCapture` in four steps (size, push, lock and
notify, unlock) for its three callers, and the listener with the condition
variable taken apart: testing the predicate and going to sleep are two steps,
and a notification reaches only a sleeper.

The proofs are in `KioskFSMProofs`, `BalanceProofs`, `CaptureProofs`,
`SocketProofs`, `LidarProofs` and `DepthImageProofs`; `WeighingTurns` and
`LossyChannel` hold the theorems of their contracts.

## Runs

| Run | Shows |
|---|---|
| `kiosk_safety` | The safety properties of the state machine with every value of `_currState`, through retries, abandoned measurements, SIGINT and death of the process in any thread that DETECT sets to work; the machine and its balance threads keep to `WeighingTurns`. |
| `kiosk_cycle` | `KioskFSM` implements `KioskCycle` if the uninitialised `_currState` is no belt state, even if descriptors are lost. DETECT is left unless `main` waits for a thread that `read()` never lets go; a steady sensor ends MOVE or EXTRACT. |
| `balance` | What is recorded for an object is its own weight, whole, or -1 without a port, or 0 when its question was refused, lost or not answered in time, unless an earlier answer was under way, another thread read the same port or unterminated text was read; none is weighed before the balance was set to zero, unless such text was taken for the answer; the wait for a weight ends unless a `read()` of a thread that was given up, or that such a thread robbed, blocks. Threads that read piece by piece keep to `WeighingTurns`. |
| `socket` | The queue exceeds its limit by at most one per producer; while the status is COMMUNICATION the pointer is live; the service implements `LossyChannel`: no message is sent twice, out of order, or after the communicator that held it was deleted; after `exitService` the service ends, *if* the receive time-out works and clients leave. |
| `capture` | No lost wake-up, bounded queue. Requests and listener implement `LossyChannel`: pictures are taken in order and once, also when SIGINT's own push overlaps. Until SIGINT or the listener's end only a full queue loses one. Requests return, pictures are decided, EXIT ends the listener, SIGINT ends the program unless it meets its own thread's lock. |
| `lidar` | The running camera calls the current listener; deleted listeners are called only after a retry or SIGINT, and missing objects used only after SIGINT or for a property the camera lacks; the defaults are in force, but for what the camera refused or `makeProperty` misread; settled frames only, but in a measurement that no frame preceded, at most one stale frame per average; emptying the queue ends. |
| `depth` | The rounded average stays near the mean and never wraps; the last frame decides what is dark; the area is the bounding box of the dark pixels when its corners are dark; the width is that of the widest row but the last, as `calcObjectDistance` counts it. |

Five runs expect a violation, each of something the repository says:

| Run | Said | What happens |
|---|---|---|
| `kiosk_error_retry` | "Error try again..." | the first error jumps to the uninitialised `_currState` |
| `kiosk_error_limit` | five errors: "program exit" | INIT's `onEnter` clears the count at every retry |
| `socket_timeout` | "set socket receive timeout" | `tv_usec` is never written; with 0 `accept` never returns |
| `socket_failed` | "failed send message" | the message was sent, and its size check came too late |
| `lidar_fresh` | "stop read frame" | a late callback leaves a frame for the next object |

The models have more of this kind in them, which no run is spent on:

* With 0 cameras neither branch of INIT's `onEvent` applies
  (`InitEvent.cpp:147-150` asks for a negative count) and INIT polls in silence.
* EXIT without a camera ends in `std::terminate`, since the listener reads
  `_cams.at(0)` (`Take`, `Joined`).
* "stopped Serial" closes nothing, since `main.cpp` has a `gSerialList` of its
  own (`MainSerialList`).
* A communicator created after `exitService` looked is not cancelled
  (`CancelCommunicator`).
* Pictures requested before SIGINT are still being taken when the handler
  reaches `exit(0)` (`Exit`), and a SIGINT that finds the main thread inside
  `stopAsync` waits for a mutex of its own thread (`Notify`, the exemption in
  `CancelEnds`).
* The test of a record's header is always true (`Balancer.cpp:125`), so that an
  overload is read as a weight (`Weight`).
* `calcObjectDistance` (`DetectEvent.cpp:95`) never compares the last row and
  counts the first pixel of a row with the row before: `WidestEarlierRow` states
  what it computes, which is not the width of the widest row.
* After an abandoned measurement the replaced thread may be blocked in `read()`:
  `balancerEnd` flushed the bytes it had counted (`ReadBlocks`). The assignment
  to `_fObjWeight` then waits until the balance says something
  (`WeighingReturns`, `DetectEnds`).
* A refused or lost question is recorded as a weight of 0, a missing port as -1
  (`FreshWeight`).
* `setToZero` takes a "Z" behind an unterminated buffer for the balance's answer
  (`IsZeroed`, `misled`).
* A picture is named when it is requested and taken when the listener comes to
  it, so that a file may show the next object (`PicturesTaken`).
* If no frame comes between two measurements, the first frames of the second are
  not filtered (`rushed` in `UnsettledDropped`).
* `CameraRun`'s result is ignored (`InitEvent.cpp:142`): INIT may succeed with
  a lidar that does not run, and DETECT then finds no frames.

### Bounds

* State machine: two cameras (one may be listed twice while the other is not),
  three descriptors (one listed, one lost, one to open), filters of two or
  three readings (10 in the code; two already tell "in a row" from "in total"),
  an error limit of five as in the code. All histories saturate.
* Balance: two objects (the thread of the first is still there during the
  second, which is as many as the assignment lets live at once), two attempts
  of INIT, noise picked up once, by `setToZero` or by either object's thread.
* Socket service: two producers, as in the program; a queue limit of 1 or 2
  (10 in the code), so that two stale checks overshoot it; two clients, so that
  a pointer can be deleted and replaced; one or two messages of each producer.
* Capture service: two cameras, four pictures (two measurements), a queue limit
  of 2 (50 in the code), so that it is full while one picture is being taken.
  `_asyncStop`, which is never initialised, is FALSE here; the proofs have it
  either way.
* Lidar: three attempts of INIT (a listener that was replaced twice), three
  measurements, at most three frames (20 in the code), a filter of three (10 in
  the code), two properties, one of them read with another type. The
  frame count saturates one above the filter, which is all the code compares it
  with.
* Depth image: three by three pixels off the axes, three frames; the last takes
  every pattern of dark and lit pixels, the first two are dark or lit all over
  (up to the largest depth) or get deeper across. Three rows are needed for a
  row that is neither first nor last.

`CHECK_DEADLOCK` is off in all but the state machine's runs: there the services
end, the process may exit or crash, and a bounded run is over.

### Fairness

* Threads are scheduled (`WF` on each thread's own steps). `std::async` starts
  real threads here, and none of them waits in a loop on another's variable.
* In `KioskFSM` the balance line falls silent at some time for a thread that is
  not blocked (`WeigherFinish`): without that `readWithTimeout` does not end, and
  neither does DETECT. `BalanceLine` does not assume it: there silence follows
  from the finite answers. In neither is anything assumed that would end a
  blocked `read()`: nothing has to come, and no fairness is stated of
  `WeigherWoken`, `BalanceAnswers` or `PieceArrives`.
* A capture ends and a mutex that stays free is taken. Mutexes are not assumed
  to be fair; a caller can lose the race only finitely often, because the
  requests of a run that is being waited for are finite. The condition variable
  does not wake spuriously for ever.
* Clients leave at some time (`PoliteSpec`): one that stays connected and silent
  is served for ever by design, unless it is cancelled.
* In `Lidar` the main thread is scheduled through a measurement; nothing is
  assumed of the camera, of INIT's attempts or of the callback.
* Nothing is assumed of the sensor, SIGINT, errors, or the services that may
  kill the process.

## Proofs

Every safety property of the passing runs is a theorem for all values of the
constants. The theorems assume only what the modules' `ASSUME`s say of their
constants, and `CycleImplemented` that `_currState` is no belt state at first.
Each follows from an invariant that is proved inductive with one step for each
action.

* `KioskFSMProofs`: `TypeCorrect`, `BeltStill`, `JoinedOrAbandoned`. That the
  error count stays within its limit needs that reaching it makes EXIT the next
  state (`LimitInv`); that a filter count does, that reaching its threshold
  leaves the state (`FilterInv`). `BeltInv` says where the relay must be low:
  when DETECT is next, while it is current or blocked and while the flag is
  set. It also says why no other path reaches DETECT: before INIT's `onEvent`
  made the lidar's listener DETECT's `onEnter` crashes, and after that a retry
  goes to INIT. A service that only DETECT sets to work dies, if it does, while
  the relay is low; the capture listener's deaths are counted with the pictures
  that are due. `BeltIsOff`, `DevicesAreThere`, `DuplicatesNeedRetry` and
  `NothingLeaks` follow from `DeviceInv`: INIT never follows another state
  (`BootInv`), and the list is empty whenever DETECT opens the port
  (`SerialInv`).
  `CycleImplemented` is the first of two refinements: if `_currState` names no
  belt state at the start, every step of the state machine is a step of
  `KioskCycle` or changes nothing the cycle speaks of. `OrderInv` adds what the
  mapping needs: the state that was entered last, and the filter's count when
  it is left. `WeighingImplemented` holds whatever `_currState` is: once INIT
  made the listener the states follow each other (`EnteredInv`), and a slot
  holds a thread only while its object is measured or after that was given up
  (`SlotInv`).
* `WeighingTurns`: `OwnerReads`. Outside the assignment there is one thread, and
  it reads the port of the list or none is open (`TurnInv`). Through the two
  refinements this is `PortIsOwned` in `KioskFSMProofs` and in
  `BalanceProofs`: the thread of the object being measured is alone, and the
  port it reads is open and its own.
* `BalanceProofs`: `TypeCorrect`, `ZeroedFirst`, `FreshWeights`,
  `WeighingImplemented`. `IdleInv` says which threads can be there at each point
  of the main thread; `ClosedInv`, that a line which nobody holds open is empty.
  `ZeroInv` says that before the balance was set to zero nothing on the line
  says so, and that `setToZero` believes it only if it read noise. `AnswerInv`
  follows the one question a thread asked: the line is empty when it asks; then
  either the question is unanswered, or what was read, what is in the buffer and
  what is on its way make up one record at most (`Whole`), of the current
  object. `OwnInv` is the other half: as long as nothing failed, the answer is
  still to come or all of it is there (`Coming`), so that a short one is read
  only after a failure. Both are kept because a thread that is on a port and
  finds `shared` false is alone there, blocked threads included (`PortInv`).
* `LossyChannel`: `DeliveredInOrder`, `DeliveredOnce`. A sender has at most one
  thing in hand, the last it made (`ChannelInv`), so that what it made earlier
  is queued before it or settled.
* `CaptureProofs`: `TypeCorrect`, `WakeupNotLost`, `ChannelImplemented`,
  `PicturesInOrder`, `PicturesOnce`, `AcceptedAreKept`, `StoppedTakesNothing`.
  At most two callers push at once (`RoomInv`); the listener holds the mutex
  from its test to its sleep, so that a push in between is still to be
  announced (`SleepInv`); the accepted pictures are ordered from the one being
  taken to the one being pushed (`OrderInv`, which an overlap of SIGINT's push
  with another does not disturb). Until SIGINT comes, an accepted picture is in
  the queue or in the listener's hands as long as there is a listener
  (`KeptInv`): only refused pictures are lost then. If the uninitialised
  `_asyncStop` is set, none is ever taken (`StoppedTakesNothing`).
* `SocketProofs`: `TypeCorrect`, `PointerIsLive`, `BoundedQueue`,
  `ChannelImplemented`, `MessagesInOrder`, `MessagesOnce`, for finite sets of
  producers. There is never more than one communicator, and the status changes
  around its life (`ServiceInv`); each producer whose test let it push has a
  place, and so has the service's own reply (`BoundInv`, by cardinalities); the messages of a producer grow from
  what was sent through the live queue to what it holds (`OrderInv`). For the
  refinement each action moves at most one message to its next stage, but for
  the deletion, which moves all that is queued (`OneMoves`, `NoneMoves`).
* `LidarProofs`: `TypeCorrect`, `AtMostOneStaleFrame`, `NoUnsettledFrame`,
  `CameraIsHeard`, `ObjectsOutliveUse`, `DefaultsInForce`. `StaleInv` bounds
  the frames that can still be under way when the queue was found empty;
  `SettledInv`, that the count starts from zero in every measurement that a
  frame preceded, so that an unsettled frame is of one that none did (`rushed`);
  `ObjectsInv` lists which listener, context and sink there can be at each
  point; `LinkInv` ties the two halves together.
* `DepthImageProofs`: `TypeCorrect`, `AverageNearby`, `LastFrameDecides`,
  `BoundingBoxFound`, `WidestRowFound`. The average loses less than one unit
  per frame, so that it stays within half the number of frames of the mean; the
  corner of a box that is nearest to the axes has the least product of
  coordinates, so that the search by products finds it. The measuring loop adds
  a pixel a step, so that the pixels of a row are counted by the steps taken
  and not by an induction over data: `LoopInv` says what the counter holds in
  the middle of a row, and `MeasureInv` that the largest is the widest row left
  behind.

Only model-checked: liveness, which the prover does not handle under fairness.

## Not modelled

* The vendored GoogleTest, which is 141,000 of the repository's 146,000 lines
  and which none of its build files link, and the headers of the CubeEye SDK:
  what the SDK, libgphoto2, wiringPi and the kernel do is modelled only as far
  as the program sees it.
* The floating-point calibration, and the digits of a weight.
* Failure to create a thread or to allocate; weak-memory effects other than the
  crash or loss that a data race may cause.
* The terminal settings of the serial line, single bytes of a command, and the
  wire format of a message; TCP reads that merge two commands; partial sends.
* The format of the JSON files; `readJsonFile`, `readPower`, `addInterrupt`,
  `addProperty`, `findProperty`, `CameraStop`, `CameraEnd`, `CameraSetProp` and
  `CameraInitialize`, which have no caller; `captureToFile`, which no request
  asks for.
* An exception in `calcDepthFrameAvg` (`FrameParser.cpp:74`), which DETECT's
  `onEvent` would catch with frames left in the queue. It takes a frame smaller
  than the region, which the camera does not deliver.
* Destruction of the globals by `exit(0)` while threads use them, except the
  lidar's: elsewhere the state the handler leaves behind is modelled, not what
  the destructors then do.
* A failing `openAcceptor`, which ends the program before anything else starts.
* The thread pool, which nothing constructs. Its destructor sets the flag and
  notifies without the mutex (`ThreadPool.h:34`), so a worker between its test
  and its sleep would sleep for ever; that matters once something uses it.

## What is left

A composition of `KioskFSM` with abstract promises of the services: what an
exit leaves running. In `KioskFSM` a service is the outcomes it can give
(`outcome`, `lidar`, the states of a thread's slot).
