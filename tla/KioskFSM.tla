------------------------------- MODULE KioskFSM -------------------------------
(***************************************************************************)
(* The kiosk's state machine: main.cpp's loop, the EventListener that      *)
(* keeps the states, the four registered events (INIT, MOVE, DETECT,       *)
(* EXTRACT), the hardware calls they make, the thread that reads the       *)
(* balance and the SIGINT handler.                                         *)
(*                                                                         *)
(* A step of the main thread is one whole onEnter or onEvent, except where *)
(* the handler blocks on the balance thread: DETECT's onEnter waits for    *)
(* the previous thread (main = "assign") and its onEvent for the current   *)
(* one (main = "weigh").  Frames, captures and messages are left to their  *)
(* own modules: here a measurement is only its outcome, and the services   *)
(* only what they may do to the process, which is to kill it.              *)
(*                                                                         *)
(* A definition marked "a slip" is no part of the model: it is a plausible *)
(* wrong version of the definition that follows it, kept to show that the  *)
(* properties of KioskFSMProps tell the two apart.                         *)
(***************************************************************************)
EXTENDS Integers

CONSTANTS
  IR_FILTER_CNT,     \* equal readings in a row that count as a sighting
  ERR_LIMIT,         \* errors in a row after which the machine exits
  Cameras,           \* cameras that gPhoto may detect
  Ports,             \* file descriptors a serial open may return
  NoPort,            \* no entry in gSerialList
  FirstCurrState,    \* what the uninitialised _currState may hold
  FreedNodeIntact    \* an erased map node still holds its descriptor

Registered == {"INIT", "MOVE", "EXTRACT", "DETECT"}
States == Registered \cup {"NONE", "WAIT", "AUTHENTICATION", "COMMUNICATION", "EXIT"}

ASSUME FilterAssumption == IR_FILTER_CNT \in Nat \ {0}
ASSUME LimitAssumption == ERR_LIMIT \in Nat \ {0}
ASSUME PortAssumption == NoPort \notin Ports
ASSUME FirstAssumption == FirstCurrState \subseteq States \cup {"JUNK"}
ASSUME FreedAssumption == FreedNodeIntact \in BOOLEAN

VARIABLES
  main,          \* where the main thread is
  nextState, currState, errCnt,      \* the EventListener
  entered,       \* history: the state whose onEnter ran last
  errors,        \* history: ERROR notifications so far, up to ERR_LIMIT
  irDetectCnt,   \* _irDetectCnt of MOVE and of EXTRACT
  ir,            \* level of the infrared sensor
  relay,         \* level of the conveyor's relay
  gpioReady,     \* wiringPi drives the pins
  gSerialList,   \* Balancer.cpp's map: the port of AND_DEFAULT_ID
  openPorts,     \* descriptors that are open
  handles,       \* entries of _cams per camera (2 is two or more)
  camCnt,        \* what the last INIT.onEvent got from initGPhoto
  lidar,         \* gCubeEyeContext: none, context made, frames running
  evtListener,   \* gCubeEyeEvtListener exists
  readFlag,      \* its _readFlag: the camera's frames are kept
  weigher,       \* threads in getWeightValue: _fObjWeight's, the replaced one
  outcome,       \* history: how the last measurement ended
  pictures       \* the capture listener has requests that it has not dealt with

listener  == <<nextState, currState, errCnt, errors>>
pins      == <<relay, gpioReady>>
serial    == <<gSerialList, openPorts>>
cameras   == <<handles, camCnt>>
cubeEye   == <<lidar, evtListener, readFlag>>
detection == <<weigher, outcome, pictures>>
vars == <<main, listener, entered, irDetectCnt, ir, pins, serial, cameras,
          cubeEye, detection>>

IRLevels  == {"ENABLE", "DISABLE"}
Slots     == {"fObjWeight", "replaced"}
Threads    == [st : {"none", "started", "reading", "blocked", "done", "threw"},
               port : Ports \cup {NoPort}]
NoWeigher  == [st |-> "none", port |-> NoPort]
NewWeigher == [st |-> "started", port |-> NoPort]
Outcomes  == {"none", "noFrames", "noObject", "noWeight", "queued", "saved", "lost"}
Abandoned == {"noFrames", "noObject"}   \* the balance thread was not waited for

\* The main thread and its EventListener.
LoopTypeOK ==
  /\ main \in {"loop", "assign", "weigh", "joining", "done", "exited", "dead"}
  /\ nextState \in States \cup {"JUNK"}
  /\ currState \in States \cup {"JUNK"}
  /\ errCnt \in 0..ERR_LIMIT
  /\ entered \in Registered \cup {"NONE"}
  /\ errors \in 0..ERR_LIMIT

\* The conveyor, its sensor and the chattering filters.
BeltTypeOK ==
  /\ irDetectCnt \in [{"MOVE", "EXTRACT"} -> 0..IR_FILTER_CNT]
  /\ ir \in IRLevels
  /\ relay \in {"LOW", "HIGH"}
  /\ gpioReady \in BOOLEAN

\* The balance, the cameras and the measurement.
DeviceTypeOK ==
  /\ gSerialList \in Ports \cup {NoPort}
  /\ openPorts \in SUBSET Ports
  /\ handles \in [Cameras -> 0..2]
  /\ camCnt \in {"unset", "negative", "zero", "positive"}
  /\ lidar \in {"none", "context", "running"}
  /\ evtListener \in BOOLEAN
  /\ readFlag \in BOOLEAN
  /\ weigher \in [Slots -> Threads]
  /\ outcome \in Outcomes
  /\ pictures \in BOOLEAN

TypeOK == LoopTypeOK /\ BeltTypeOK /\ DeviceTypeOK

Init ==
  /\ main = "loop"
  /\ nextState = "INIT"
  /\ currState \in FirstCurrState
  /\ errCnt = 0 /\ errors = 0
  /\ entered = "NONE"
  /\ irDetectCnt = [s \in {"MOVE", "EXTRACT"} |-> 0]
  /\ ir \in IRLevels
  /\ relay \in {"LOW", "HIGH"}
  /\ gpioReady = FALSE
  /\ gSerialList = NoPort /\ openPorts = {}
  /\ handles = [c \in Cameras |-> 0] /\ camCnt = "unset"
  /\ lidar = "none" /\ evtListener = FALSE /\ readFlag = FALSE
  /\ weigher = [w \in Slots |-> NoWeigher]
  /\ outcome = "none" /\ pictures = FALSE

Alive == main \notin {"done", "exited", "dead"}

-------------------------------------------------------------------------------
(* EventListener::update: what a handler's notify does to the states. *)

Continue(s) ==
  /\ nextState' = "NONE"
  /\ currState' = s
  /\ errCnt' = 0
  /\ UNCHANGED errors

TransitionForgotten(s) == UNCHANGED listener   \* a slip
TransitionTo(s) ==
  /\ nextState' = s
  /\ errCnt' = 0
  /\ UNCHANGED <<currState, errors>>

Exhausted(count) == count > ERR_LIMIT     \* a slip
GivesUp(count)   == count >= ERR_LIMIT

Error ==
  /\ errCnt' = errCnt + 1
  /\ errors' = IF errors < ERR_LIMIT THEN errors + 1 ELSE errors
  /\ nextState' = IF GivesUp(errCnt') THEN "EXIT" ELSE currState
  /\ UNCHANGED currState

(* The main loop calls onEnter of the next state, or onEvent of the current. *)
Entering(s) == main = "loop" /\ nextState = s
Handling(s) == main = "loop" /\ nextState = "NONE" /\ currState = s

-------------------------------------------------------------------------------
(* HwManager: the pins and the balance's serial port. *)

GpioSetup(ok) ==
  /\ gpioReady' = (gpioReady \/ ok)
  /\ relay' = IF ok THEN "LOW" ELSE relay

\* wiringPi ignores a write, and answers a read with any level, until set up.
Readings == IF gpioReady THEN {ir} ELSE IRLevels
WriteRelay(level) == relay' = IF gpioReady THEN level ELSE relay

RunConveyor == WriteRelay("HIGH") /\ UNCHANGED gpioReady

StopConveyorForgotten == UNCHANGED pins   \* a slip
StopConveyor == WriteRelay("LOW") /\ UNCHANGED gpioReady

\* The chattering filter: a reading of the wrong level starts over.
IRFilter(cnt, agrees) == IF agrees THEN cnt + 1 ELSE 0

\* map::insert keeps the entry that is there; the new port is then nowhere.
SerialOpened(p) ==
  /\ p \in Ports \ openPorts
  /\ openPorts' = openPorts \cup {p}
  /\ gSerialList' = IF gSerialList = NoPort THEN p ELSE gSerialList

SerialSetup(ok) ==
  IF ok THEN \E p \in Ports : SerialOpened(p) ELSE UNCHANGED serial

BalancerLeftOpen == UNCHANGED serial   \* a slip

\* A slip: the port is closed but its entry stays.
BalancerEndKeepsEntry ==
  /\ openPorts' = openPorts \ {gSerialList}
  /\ UNCHANGED gSerialList

\* The entry is erased first and its port is then read from the freed node.
BalancerEnd ==
  /\ gSerialList' = NoPort
  /\ openPorts' = IF FreedNodeIntact THEN openPorts \ {gSerialList} ELSE openPorts

-------------------------------------------------------------------------------
(* INIT *)

SerialIgnored(gpioOk, serialOk) == gpioOk   \* a slip
InitReady(gpioOk, serialOk) == gpioOk /\ serialOk

InitOnEnter ==
  /\ Entering("INIT")
  /\ entered' = "INIT"
  /\ \E gpioOk, serialOk \in BOOLEAN :
       /\ GpioSetup(gpioOk)
       /\ SerialSetup(serialOk)
       /\ IF InitReady(gpioOk, serialOk) THEN Continue("INIT") ELSE Error
  /\ camCnt' = "unset"
  /\ UNCHANGED <<main, irDetectCnt, ir, handles, cubeEye, detection>>

\* createCameras appends the detected cameras to whatever _cams holds.
Appended(found) ==
  [c \in Cameras |-> IF c \in found /\ handles[c] < 2 THEN handles[c] + 1 ELSE handles[c]]

\* -1 stands for every GpException, raised before or after the append.
InitGPhoto(found) ==
  /\ handles' = Appended(found)
  /\ camCnt' \in IF found = {} THEN {"zero", "negative"} ELSE {"positive", "negative"}

InitSucceeds ==
  /\ lidar' \in {"context", "running"}   \* CameraRun's result is not looked at
  /\ BalancerEnd
  /\ TransitionTo("MOVE")

\* No camera, everything else ready: no branch of onEvent applies.
InitUndecided ==
  /\ lidar' = "context"
  /\ UNCHANGED <<serial, listener>>

InitFails ==
  /\ Error
  /\ UNCHANGED serial

InitOnEvent ==
  /\ Handling("INIT")
  /\ evtListener' = TRUE /\ readFlag' = FALSE
  /\ \E found \in SUBSET Cameras : InitGPhoto(found)
  /\ \E zeroed, lidarOk \in BOOLEAN :
       IF camCnt' = "negative" \/ ~zeroed \/ ~lidarOk
         THEN /\ lidar' \in IF lidarOk THEN {"context"} ELSE {"none", "context"}
              /\ InitFails
         ELSE IF camCnt' = "positive" THEN InitSucceeds ELSE InitUndecided
  /\ UNCHANGED <<main, entered, irDetectCnt, ir, pins, detection>>

\* A file-system error or a failed serial read ends the process.
InitOnEventThrows ==
  /\ Handling("INIT")
  /\ main' = "dead"
  /\ UNCHANGED <<listener, entered, irDetectCnt, ir, pins, serial, cameras,
                 cubeEye, detection>>

-------------------------------------------------------------------------------
(* MOVE *)

CountKept(s)  == UNCHANGED irDetectCnt   \* a slip
ResetCount(s) == irDetectCnt' = [irDetectCnt EXCEPT ![s] = 0]

MoveOnEnter ==
  /\ Entering("MOVE")
  /\ entered' = "MOVE"
  /\ ResetCount("MOVE")
  /\ RunConveyor
  /\ Continue("MOVE")
  /\ UNCHANGED <<main, ir, serial, cameras, cubeEye, detection>>

ObjectSeen(level) == level = "ENABLE"

MoveOnEvent ==
  /\ Handling("MOVE")
  /\ \E level \in Readings :
       irDetectCnt' = [irDetectCnt EXCEPT !["MOVE"] = IRFilter(@, ObjectSeen(level))]
  /\ IF irDetectCnt'["MOVE"] >= IR_FILTER_CNT
       THEN StopConveyor /\ TransitionTo("DETECT")
       ELSE UNCHANGED <<pins, listener>>
  /\ UNCHANGED <<main, entered, ir, serial, cameras, cubeEye, detection>>

-------------------------------------------------------------------------------
(* EXTRACT *)

ExtractOnEnter ==
  /\ Entering("EXTRACT")
  /\ entered' = "EXTRACT"
  /\ ResetCount("EXTRACT")
  /\ RunConveyor
  /\ BalancerEnd
  /\ Continue("EXTRACT")
  /\ UNCHANGED <<main, ir, cameras, cubeEye, detection>>

GapMisread(level) == level = "ENABLE"   \* a slip
GapSeen(level)    == level = "DISABLE"

ExtractOnEvent ==
  /\ Handling("EXTRACT")
  /\ \E level \in Readings :
       irDetectCnt' = [irDetectCnt EXCEPT !["EXTRACT"] = IRFilter(@, GapSeen(level))]
  /\ IF irDetectCnt'["EXTRACT"] >= IR_FILTER_CNT
       THEN TransitionTo("MOVE") ELSE UNCHANGED listener
  /\ UNCHANGED <<main, entered, ir, pins, serial, cameras, cubeEye, detection>>

-------------------------------------------------------------------------------
(* DETECT, and the balance thread it starts. *)

InRead(w)   == weigher[w].st \in {"reading", "blocked"}
Running(w)  == weigher[w].st = "started" \/ InRead(w)
Joinable(w) == ~Running(w)

\* A slip: the wait is given up, and the thread lives on.
JoinsOrNot(w) ==
  weigher' = [weigher EXCEPT ![w] = IF Joinable(w) THEN NoWeigher ELSE @]

\* The future is waited for and then empty.
Joins(w) ==
  /\ Joinable(w)
  /\ weigher' = [weigher EXCEPT ![w] = NoWeigher]

LeaveForgotten == UNCHANGED listener   \* a slip
LeaveDetect == TransitionTo("EXTRACT")

\* gCubeEyeEvtListener is dereferenced: without INIT it is a null pointer.
DetectOnEnterCrashes ==
  /\ Entering("DETECT") /\ ~evtListener
  /\ main' = "dead"
  /\ UNCHANGED <<listener, entered, irDetectCnt, ir, pins, serial, cameras,
                 cubeEye, detection>>

\* The captures are asked for and not waited for.  The new balance thread runs
\* before the assignment waits for the one it replaces.
DetectOnEnter ==
  /\ Entering("DETECT") /\ evtListener
  /\ entered' = "DETECT"
  /\ readFlag' = TRUE
  /\ \E ok \in BOOLEAN : SerialSetup(ok)
  /\ weigher' = [w \in Slots |-> IF w = "fObjWeight" THEN NewWeigher
                                                     ELSE weigher["fObjWeight"]]
  /\ outcome' = "none"
  /\ pictures' = (pictures \/ \E c \in Cameras : handles[c] > 0)
  /\ main' = "assign"
  /\ UNCHANGED <<listener, irDetectCnt, ir, pins, cameras, lidar, evtListener>>

DetectAssign ==
  /\ main = "assign"
  /\ Joins("replaced")
  /\ main' = "loop"
  /\ Continue("DETECT")
  /\ UNCHANGED <<entered, irDetectCnt, ir, pins, serial, cameras, cubeEye, outcome, pictures>>

\* onEvent up to the weight: no frames, or no pixel of an object, end it early.
DetectMeasure ==
  /\ Handling("DETECT")
  /\ readFlag' = FALSE
  /\ \E seen \in {"noFrames"} \cup IF lidar = "running" THEN {"noObject", "object"} ELSE {} :
       IF seen = "object"
         THEN main' = "weigh" /\ UNCHANGED <<outcome, listener>>
         ELSE outcome' = seen /\ LeaveDetect /\ UNCHANGED main
  /\ UNCHANGED <<entered, irDetectCnt, ir, pins, serial, cameras, lidar,
                 evtListener, weigher, pictures>>

\* writeJson: without a directory "jsons" the record is lost, and nobody is told.
WriteJson == {"saved", "lost"}

\* The rest of onEvent: get() rethrows, or the record is queued or written.
DetectReport ==
  /\ main = "weigh"
  /\ Joins("fObjWeight")
  /\ outcome' \in IF weigher["fObjWeight"].st = "done"
                    THEN {"queued"} \cup WriteJson ELSE {"noWeight"}
  /\ main' = "loop"
  /\ LeaveDetect
  /\ UNCHANGED <<entered, irDetectCnt, ir, pins, serial, cameras, cubeEye, pictures>>

\* getWeightValue looks up the port; without one it returns -1.
WeigherStart(w) ==
  /\ Alive /\ weigher[w].st = "started"
  /\ weigher' = [weigher EXCEPT ![w] =
       [st |-> IF gSerialList = NoPort THEN "done" ELSE "reading", port |-> gSerialList]]
  /\ UNCHANGED <<main, listener, entered, irDetectCnt, ir, pins, serial, cameras,
                 cubeEye, outcome, pictures>>

\* The thread goes on to st: done has a weight, threw an exception of stof.
Proceeds(w, st) ==
  /\ weigher' = [weigher EXCEPT ![w].st = st]
  /\ UNCHANGED <<main, listener, entered, irDetectCnt, ir, pins, serial, cameras,
                 cubeEye, outcome, pictures>>

\* The line falls silent.
WeigherFinish(w) ==
  /\ Alive /\ weigher[w].st = "reading"
  /\ \E st \in {"done", "threw"} : Proceeds(w, st)

\* The bytes FIONREAD told of may be gone: the port was closed, or opened anew,
\* under the thread, or another one reads the line.
MayFindNothing(w) ==
  weigher[w].port # gSerialList \/ w = "replaced" \/ \E v \in Slots \ {w} : InRead(v)

\* read() has no timeout and is not ended by a close.
WeigherBlocks(w) ==
  /\ Alive /\ weigher[w].st = "reading" /\ MayFindNothing(w)
  /\ Proceeds(w, "blocked")

\* What another thread asked for, or a late answer, ends the read().
WeigherWoken(w) ==
  /\ Alive /\ weigher[w].st = "blocked"
  /\ \E st \in {"done", "threw"} : Proceeds(w, st)

\* A failed read returns a null pointer, which readWithTimeout appends.
WeigherCrash(w) ==
  /\ Alive /\ InRead(w)
  /\ main' = "dead"
  /\ UNCHANGED <<listener, entered, irDetectCnt, ir, pins, serial, cameras,
                 cubeEye, detection>>

-------------------------------------------------------------------------------
(* The services: what CaptureService, SocketService and Lidar model of them. *)

\* The capture listener has taken, or failed to take, what was asked for.
PicturesTaken ==
  /\ Alive /\ pictures
  /\ pictures' = FALSE
  /\ UNCHANGED <<main, listener, entered, irDetectCnt, ir, pins, serial, cameras,
                 cubeEye, weigher, outcome>>

\* The listener's sendReqeust, or that of DETECT's onEvent, uses a communicator
\* that was deleted or that another thread changes (SocketService); the lidar's
\* callback pushes a frame while onEvent empties the queue (LidarFrames).
ServiceCrash ==
  /\ Alive
  /\ pictures \/ Handling("DETECT") \/ (main = "weigh" /\ Joinable("fObjWeight"))
  /\ main' = "dead"
  /\ UNCHANGED <<listener, entered, irDetectCnt, ir, pins, serial, cameras,
                 cubeEye, detection>>

-------------------------------------------------------------------------------
(* The main loop's own steps, the interrupt and the environment. *)

\* handler.at() throws for a state no event is registered for.
NoSuchEvent ==
  /\ main = "loop"
  /\ IF nextState = "NONE" THEN currState \notin Registered
                           ELSE nextState \notin Registered \cup {"EXIT"}
  /\ main' = "dead"
  /\ UNCHANGED <<listener, entered, irDetectCnt, ir, pins, serial, cameras,
                 cubeEye, detection>>

\* gSerialList is a static of a header: main.cpp has a map of its own.
MainSerialList == {}

ExitProcess ==
  /\ StopConveyor
  /\ openPorts' = openPorts \ MainSerialList
  /\ lidar' = "none"
  /\ UNCHANGED <<listener, entered, irDetectCnt, ir, gSerialList, cameras,
                 evtListener, readFlag, detection>>

ExitTransition ==
  /\ Entering("EXIT")
  /\ main' = "joining"
  /\ ExitProcess

\* main waits for the services; the capture listener's future holds the
\* exception of _cams.at(0) if there is no camera, and get() throws it.
Joined ==
  /\ main = "joining"
  /\ main' = IF \A c \in Cameras : handles[c] = 0 THEN "dead" ELSE "done"
  /\ UNCHANGED <<listener, entered, irDetectCnt, ir, pins, serial, cameras,
                 cubeEye, detection>>

Interrupt ==
  /\ Alive
  /\ main' = "exited"
  /\ ExitProcess

SensorChange ==
  /\ Alive
  /\ ir' \in IRLevels \ {ir}
  /\ UNCHANGED <<main, listener, entered, irDetectCnt, pins, serial, cameras,
                 cubeEye, detection>>

Ended == ~Alive /\ UNCHANGED vars

MainStep ==
  \/ InitOnEnter \/ InitOnEvent \/ InitOnEventThrows
  \/ MoveOnEnter \/ MoveOnEvent
  \/ ExtractOnEnter \/ ExtractOnEvent
  \/ DetectOnEnter \/ DetectOnEnterCrashes \/ DetectAssign
  \/ DetectMeasure \/ DetectReport
  \/ NoSuchEvent \/ ExitTransition

WeigherStep(w) == WeigherStart(w) \/ WeigherFinish(w)

WeigherWaits(w) == WeigherBlocks(w) \/ WeigherWoken(w)

Next ==
  \/ MainStep
  \/ \E w \in Slots : WeigherStep(w) \/ WeigherWaits(w) \/ WeigherCrash(w)
  \/ PicturesTaken \/ ServiceCrash
  \/ Joined \/ Interrupt \/ SensorChange \/ Ended

Spec == Init /\ [][Next]_vars

\* Threads are scheduled, and the balance, which answers one question with one
\* record, does not talk for ever: a thread that is not blocked finds the line
\* silent.  Nothing ends a read() that is blocked, and nothing is assumed of the
\* sensor, of SIGINT, or of the services main joins.
Fairness == WF_vars(MainStep) /\ \A w \in Slots : WF_vars(WeigherStep(w))

FairSpec == Spec /\ Fairness
===============================================================================
