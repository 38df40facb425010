---------------------------- MODULE KioskFSMProofs ----------------------------
(***************************************************************************)
(* Safety of the state machine for every value of its constants: any       *)
(* filter length, error limit, set of cameras and of descriptors, any      *)
(* garbage in _currState, and whatever the freed map node holds; and that  *)
(* it implements KioskCycle and WeighingTurns.                             *)
(***************************************************************************)
EXTENDS KioskFSMProps, TLAPS

\* onError has raised the count to the limit only if it also chose EXIT.
LimitInv == errCnt < ERR_LIMIT \/ nextState = "EXIT"

\* A handler of MOVE or EXTRACT runs only below the filter's threshold.
FilterInv ==
  nextState = "NONE" /\ currState \in {"MOVE", "EXTRACT"}
    => irDetectCnt[currState] < IR_FILTER_CNT

\* TypeOK is not inductive: its two bounds rest on the two facts above.
TypeInv == TypeOK /\ LimitInv /\ FilterInv

LEMMA StateNames ==
        /\ "NONE" \in States /\ "EXIT" \in States
        /\ "INIT" \in States /\ "MOVE" \in States
        /\ "EXTRACT" \in States /\ "DETECT" \in States
        /\ "INIT" \in Registered /\ "MOVE" \in Registered
        /\ "EXTRACT" \in Registered /\ "DETECT" \in Registered
  BY DEF States, Registered

LEMMA ThreadTypes ==
  /\ NoWeigher \in Threads /\ NewWeigher \in Threads
  /\ \A t \in Threads, st \in {"none", "started", "reading", "blocked", "done", "threw"} :
       [t EXCEPT !.st = st] \in Threads
  BY DEF NoWeigher, NewWeigher, Threads

\* The initial state is typed, whatever _currState holds.
LEMMA InitTypeInv == Init => TypeInv
<1> SUFFICES ASSUME Init PROVE TypeInv
    OBVIOUS
<1> USE DEF Init
<1>1. weigher \in [Slots -> Threads]
  BY ThreadTypes
<1>2. irDetectCnt \in [{"MOVE", "EXTRACT"} -> 0..IR_FILTER_CNT]
  BY FilterAssumption
<1>3. handles \in [Cameras -> 0..2]
  OBVIOUS
<1>4. errCnt \in 0..ERR_LIMIT /\ errors \in 0..ERR_LIMIT /\ LimitInv
  BY LimitAssumption DEF LimitInv
<1>5. FilterInv
  BY DEF FilterInv
<1> QED
  BY <1>1, <1>2, <1>3, <1>4, <1>5, FirstAssumption
  DEF TypeInv, TypeOK, LoopTypeOK, BeltTypeOK, DeviceTypeOK, States, Registered, Outcomes

\* Every step keeps the types and the two bounds.
LEMMA TypeInvStep == TypeInv /\ [Next]_vars => TypeInv'
<1> SUFFICES ASSUME TypeInv, [Next]_vars PROVE TypeInv'
    OBVIOUS
<1> USE FilterAssumption, LimitAssumption, StateNames
    DEF TypeInv, TypeOK, LoopTypeOK, BeltTypeOK, DeviceTypeOK, LimitInv, FilterInv
<1>1. CASE InitOnEnter
  BY <1>1 DEF InitOnEnter, Entering, GpioSetup, SerialSetup, SerialOpened,
     InitReady, Continue, Error, GivesUp, cubeEye, detection, serial
<1>2. CASE InitOnEvent
  <2>1. DeviceTypeOK'
    <3>1. /\ handles' \in [Cameras -> 0..2]
          /\ camCnt' \in {"unset", "negative", "zero", "positive"}
      BY <1>2 DEF InitOnEvent, InitGPhoto, Appended
    <3>2. /\ lidar' \in {"none", "context", "running"}
          /\ gSerialList' \in Ports \cup {NoPort} /\ openPorts' \in SUBSET Ports
      BY <1>2 DEF InitOnEvent, InitSucceeds, InitFails, InitUndecided, BalancerEnd, serial
    <3> QED
      BY <1>2, <3>1, <3>2 DEF InitOnEvent, detection
  <2>2. BeltTypeOK' /\ UNCHANGED <<main, entered, irDetectCnt>>
    BY <1>2 DEF InitOnEvent, pins
  <2>3. CASE InitSucceeds
    BY <2>1, <2>2, <2>3 DEF InitSucceeds, TransitionTo
  <2>4. CASE InitFails
    BY <1>2, <2>1, <2>2, <2>4 DEF InitOnEvent, Handling, InitFails, Error, GivesUp
  <2>5. CASE InitUndecided
    BY <2>1, <2>2, <2>5 DEF InitUndecided, listener
  <2> QED
    BY <1>2, <2>3, <2>4, <2>5 DEF InitOnEvent
<1>3. CASE MoveOnEnter
  BY <1>3 DEF MoveOnEnter, Entering, ResetCount, RunConveyor, WriteRelay, Continue,
     serial, cameras, cubeEye, detection
<1>4. CASE MoveOnEvent
  BY <1>4 DEF MoveOnEvent, Handling, IRFilter, StopConveyor, WriteRelay, TransitionTo,
     listener, pins, serial, cameras, cubeEye, detection
<1>5. CASE ExtractOnEnter
  BY <1>5 DEF ExtractOnEnter, Entering, ResetCount, RunConveyor, WriteRelay, BalancerEnd,
     Continue, cameras, cubeEye, detection
<1>6. CASE ExtractOnEvent
  BY <1>6 DEF ExtractOnEvent, Handling, IRFilter, TransitionTo, listener, pins, serial,
     cameras, cubeEye, detection
<1>7. CASE DetectOnEnter
  BY <1>7, ThreadTypes DEF DetectOnEnter, Entering, SerialSetup, SerialOpened, Slots,
     listener, pins, cameras, serial, Outcomes
<1>8. CASE DetectAssign
  <2>1. BeltTypeOK' /\ DeviceTypeOK'
    BY <1>8, ThreadTypes DEF DetectAssign, Joins, pins, serial, cameras, cubeEye
  <2> QED
    BY <1>8, <2>1 DEF DetectAssign, Continue
<1>9. CASE DetectMeasure
  <2>1. BeltTypeOK' /\ DeviceTypeOK'
    BY ZenonT(60), <1>9 DEF DetectMeasure, pins, serial, cameras, Outcomes
  <2> QED
    BY <1>9, <2>1 DEF DetectMeasure, LeaveDetect, TransitionTo, listener
<1>10. CASE DetectReport
  <2>1. BeltTypeOK' /\ DeviceTypeOK'
    BY <1>10, ThreadTypes DEF DetectReport, WriteJson, Joins, pins, serial, cameras, cubeEye, Outcomes
  <2> QED
    BY <1>10, <2>1 DEF DetectReport, LeaveDetect, TransitionTo
<1>11. CASE InitOnEventThrows \/ DetectOnEnterCrashes \/ NoSuchEvent
  BY <1>11 DEF InitOnEventThrows, DetectOnEnterCrashes, NoSuchEvent, listener, pins,
     serial, cameras, cubeEye, detection
<1>12. CASE ExitTransition \/ Interrupt
  BY <1>12 DEF ExitTransition, Interrupt, ExitProcess, StopConveyor, WriteRelay,
     MainSerialList, listener, cameras, detection
<1>13. CASE \E w \in Slots : WeigherStep(w) \/ WeigherWaits(w) \/ WeigherCrash(w)
  <2> PICK w \in Slots : WeigherStep(w) \/ WeigherWaits(w) \/ WeigherCrash(w)
    BY <1>13
  <2>1. CASE WeigherStart(w)
    <3>1. [st |-> IF gSerialList = NoPort THEN "done" ELSE "reading",
           port |-> gSerialList] \in Threads
      BY DEF Threads
    <3> QED
      BY <2>1, <3>1 DEF WeigherStart, listener, pins, serial, cameras, cubeEye
  <2>2. ASSUME NEW st \in {"blocked", "done", "threw"}, Proceeds(w, st)
        PROVE  TypeInv'
    <3>1. [weigher[w] EXCEPT !.st = st] \in Threads
      BY ThreadTypes
    <3>2. weigher' \in [Slots -> Threads]
      BY <2>2, <3>1 DEF Proceeds
    <3> QED
      BY <2>2, <3>2 DEF Proceeds, listener, pins, serial, cameras, cubeEye
  <2>3. CASE WeigherCrash(w)
    BY <2>3 DEF WeigherCrash, listener, pins, serial, cameras, cubeEye, detection
  <2> QED
    BY <2>1, <2>2, <2>3 DEF WeigherStep, WeigherWaits, WeigherFinish, WeigherBlocks, WeigherWoken
<1>14. CASE Joined \/ SensorChange
  BY <1>14 DEF Joined, SensorChange, listener, pins, serial, cameras, cubeEye, detection
<1>16. CASE PicturesTaken
  <2>1. pictures' \in BOOLEAN
    BY <1>16 DEF PicturesTaken
  <2>2. UNCHANGED <<main, listener, entered, irDetectCnt, ir, pins, serial, cameras, cubeEye,
                    weigher, outcome>>
    BY <1>16 DEF PicturesTaken
  <2> QED
    BY <2>1, <2>2 DEF listener, pins, serial, cameras, cubeEye
<1>17. CASE ServiceCrash
  BY <1>17 DEF ServiceCrash, listener, pins, serial, cameras, cubeEye, detection
<1>15. CASE UNCHANGED vars
  BY <1>15 DEF vars, listener, pins, serial, cameras, cubeEye, detection
<1> QED
  BY <1>1, <1>2, <1>3, <1>4, <1>5, <1>6, <1>7, <1>8, <1>9, <1>10, <1>11, <1>12,
     <1>13, <1>14, <1>15, <1>16, <1>17 DEF Next, MainStep, Ended

\* The state machine's variables stay in their ranges: the error count never
\* passes its limit, nor a filter count its threshold (KioskInterface.cpp's
\* update, MoveEvent.cpp's and ExtractEvent.cpp's onEvent).
THEOREM TypeCorrect == Spec => []TypeOK
<1>1. Spec => []TypeInv
  BY InitTypeInv, TypeInvStep, PTL DEF Spec
<1> QED
  BY <1>1, PTL DEF TypeInv
-------------------------------------------------------------------------------
(***************************************************************************)
(* The belt stands still while an object is measured.  The invariant       *)
(* follows the cycle: the pins are configured before there is a listener   *)
(* for frames (GpioInv), a retry of INIT stays in INIT once there is one   *)
(* (RetryInv), so DETECT is entered from MOVE, which has stopped the belt  *)
(* (StoppedInv), and is left only after the frames are off (DetectInv).    *)
(***************************************************************************)
InDetect == nextState = "NONE" /\ currState = "DETECT"

GpioInv ==
  /\ evtListener => gpioReady
  /\ nextState = "NONE" /\ currState = "INIT" => gpioReady

RetryInv == evtListener /\ nextState = "INIT" => currState = "INIT"

StoppedInv == evtListener /\ nextState = "DETECT" => relay = "LOW"

DetectInv ==
  /\ readFlag => relay = "LOW" /\ (main = "loop" => InDetect)
  /\ main \in {"assign", "weigh"} \/ InDetect => relay = "LOW" /\ evtListener
  /\ main = "weigh" => ~readFlag

\* A balance thread that runs on its own was abandoned by DETECT's onEvent.
ThreadInv ==
  /\ \A w \in Slots : Running(w) => gpioReady
  /\ main \in {"loop", "weigh", "joining"} => ~Running("replaced")
  /\ main = "loop" /\ Running("fObjWeight") => outcome \in Abandoned \/ InDetect

BeltInv ==
  GpioInv /\ RetryInv /\ StoppedInv /\ DetectInv /\ ThreadInv /\ JoinedBeforeBelt

LEMMA InitBeltInv == Init => BeltInv
<1> SUFFICES ASSUME Init PROVE BeltInv
    OBVIOUS
<1>1. \A w \in Slots : ~Running(w)
  BY DEF Init, Running, InRead, NoWeigher
<1> QED
  BY <1>1 DEF Init, BeltInv, GpioInv, RetryInv, StoppedInv, DetectInv, ThreadInv,
     JoinedBeforeBelt, InDetect, Slots

\* Every step keeps the belt invariant.
LEMMA BeltInvStep == TypeInv /\ BeltInv /\ [Next]_vars => BeltInv'
<1> SUFFICES ASSUME TypeInv, BeltInv, [Next]_vars PROVE BeltInv'
    OBVIOUS
<1> USE DEF BeltInv, GpioInv, RetryInv, StoppedInv, DetectInv, ThreadInv,
        JoinedBeforeBelt, InDetect
<1>0. gpioReady \in BOOLEAN /\ readFlag \in BOOLEAN /\ evtListener \in BOOLEAN
      /\ weigher \in [Slots -> Threads] /\ relay \in {"LOW", "HIGH"}
  BY DEF TypeInv, TypeOK, BeltTypeOK, DeviceTypeOK
<1>1. CASE InitOnEnter
  BY <1>0, <1>1 DEF InitOnEnter, Entering, GpioSetup, InitReady, Continue, Error, GivesUp,
     cubeEye, detection, Running, InRead
<1>2. CASE InitOnEvent
  BY <1>0, <1>2 DEF InitOnEvent, Handling, InitSucceeds, InitFails, InitUndecided,
     TransitionTo, Error, GivesUp, listener, pins, detection, Running, InRead
<1>3. CASE MoveOnEnter
  BY <1>0, <1>3 DEF MoveOnEnter, Entering, RunConveyor, WriteRelay, Continue, cubeEye,
     detection, Slots, Running, InRead
<1>4. CASE MoveOnEvent
  BY <1>0, <1>4 DEF MoveOnEvent, Handling, StopConveyor, WriteRelay, TransitionTo,
     listener, pins, cubeEye, detection, Running, InRead
<1>5. CASE ExtractOnEnter
  BY <1>0, <1>5 DEF ExtractOnEnter, Entering, RunConveyor, WriteRelay, Continue, cubeEye,
     detection, Slots, Running, InRead
<1>6. CASE ExtractOnEvent
  BY <1>0, <1>6 DEF ExtractOnEvent, Handling, TransitionTo, listener, pins, cubeEye,
     detection, Running, InRead
<1>7. CASE DetectOnEnter
  BY <1>0, <1>7 DEF DetectOnEnter, Entering, listener, pins, Slots, Running, InRead
<1>8. CASE DetectAssign
  BY <1>0, <1>8 DEF DetectAssign, Joins, Joinable, Continue, pins, cubeEye, NoWeigher,
     Slots, Running, InRead
<1>9. CASE DetectMeasure
  BY <1>0, <1>9 DEF DetectMeasure, Handling, LeaveDetect, TransitionTo, listener, pins,
     Abandoned, Running, InRead
<1>10. CASE DetectReport
  BY <1>0, <1>10 DEF DetectReport, Joins, Joinable, LeaveDetect, TransitionTo, pins, cubeEye,
     NoWeigher, Slots, Running, InRead
<1>11. CASE InitOnEventThrows \/ DetectOnEnterCrashes \/ NoSuchEvent
  BY <1>11 DEF InitOnEventThrows, DetectOnEnterCrashes, NoSuchEvent, listener, pins,
     cubeEye, detection, Running, InRead
<1>12. CASE ExitTransition \/ Interrupt
  BY <1>0, <1>12 DEF ExitTransition, Interrupt, Entering, ExitProcess, StopConveyor, WriteRelay,
     listener, detection, Running, InRead
<1>13. CASE \E w \in Slots : WeigherStep(w) \/ WeigherWaits(w) \/ WeigherCrash(w)
  <2> PICK w \in Slots : WeigherStep(w) \/ WeigherWaits(w) \/ WeigherCrash(w)
    BY <1>13
  <2>1. \A v \in Slots : Running(v)' => Running(v)
    BY <1>0 DEF WeigherStep, WeigherStart, WeigherFinish, WeigherWaits, WeigherBlocks, WeigherWoken,
       WeigherCrash, Proceeds, detection, Running, InRead
  <2>2. UNCHANGED <<listener, pins, cubeEye, outcome>> /\ main' \in {main, "dead"}
    BY DEF WeigherStep, WeigherStart, WeigherFinish, WeigherWaits, WeigherBlocks, WeigherWoken,
       WeigherCrash, Proceeds, detection
  <2> QED
    BY <2>1, <2>2 DEF listener, pins, cubeEye, Slots
<1>14. CASE Joined \/ SensorChange \/ PicturesTaken \/ ServiceCrash
  BY <1>14 DEF Joined, SensorChange, PicturesTaken, ServiceCrash, listener, pins, cubeEye,
     detection, Running, InRead
<1>15. CASE UNCHANGED vars
  BY <1>15 DEF vars, listener, pins, cubeEye, detection, Running, InRead
<1> QED
  BY <1>1, <1>2, <1>3, <1>4, <1>5, <1>6, <1>7, <1>8, <1>9, <1>10, <1>11, <1>12,
     <1>13, <1>14, <1>15 DEF Next, MainStep, Ended

LEMMA Inductive == Spec => [](TypeInv /\ BeltInv)
  BY InitTypeInv, InitBeltInv, TypeInvStep, BeltInvStep, PTL DEF Spec

\* No object is measured on a moving belt (MoveEvent.cpp stops it before DETECT
\* turns the frames on, ExtractEvent.cpp restarts it after they are off).
THEOREM BeltStill == Spec => []BeltStandsStill
<1>1. BeltInv => BeltStandsStill
  BY DEF BeltInv, DetectInv, BeltStandsStill
<1> QED
  BY <1>1, Inductive, PTL

\* A balance thread alive while the belt runs was left behind by an early exit
\* of DetectEvent.cpp's onEvent, and by nothing else.
THEOREM JoinedOrAbandoned == Spec => []JoinedBeforeBelt
<1>1. BeltInv => JoinedBeforeBelt
  BY DEF BeltInv
<1> QED
  BY <1>1, Inductive, PTL
-------------------------------------------------------------------------------
(***************************************************************************)
(* What the handlers may rely on, and what they leave behind: the belt is  *)
(* off at the end, the balance's port and the lidar are there when they    *)
(* are used, no descriptor is lost once INIT is over, and no camera is     *)
(* opened twice.                                                           *)
(***************************************************************************)
\* INIT is entered, or is being tried.
InInit == nextState = "INIT" \/ (nextState = "NONE" /\ currState = "INIT")

\* INIT never follows another state, and DETECT's handlers block in their state.
BootInv ==
  /\ nextState = "INIT" => entered \in {"NONE", "INIT"}
  /\ nextState = "NONE" /\ currState = "INIT" => entered = "INIT"
  /\ main = "assign" => nextState = "DETECT"
  /\ main = "weigh"  => nextState = "NONE" /\ currState = "DETECT"

\* Once the pins are driven the belt runs in MOVE and EXTRACT only.
LowInv ==
  /\ gpioReady =>
       \/ relay = "LOW"
       \/ nextState \in {"MOVE", "EXTRACT"}
       \/ nextState = "NONE" /\ currState \in {"MOVE", "EXTRACT"}
  /\ main = "joining" => nextState = "EXIT"

\* The lidar's context exists as soon as INIT has been left with a listener.
LidarInv ==
  main \in {"loop", "assign", "weigh"} /\ evtListener = TRUE
    => lidar # "none" \/ InInit \/ nextState = "EXIT"

\* The entry of gSerialList is open, it is there in INIT's onEvent, and it is
\* gone when DETECT opens the port anew.
SerialInv ==
  /\ gSerialList = NoPort \/ gSerialList \in openPorts
  /\ nextState = "NONE" /\ currState = "INIT" => gSerialList # NoPort
  /\ /\ main = "loop" /\ evtListener = TRUE
     /\ \/ nextState \in {"MOVE", "DETECT"}
        \/ nextState = "NONE" /\ currState \in {"MOVE", "EXTRACT"}
     => gSerialList = NoPort

\* Before the first error no camera was opened when INIT's onEvent begins.
CameraInv ==
  errors = 0 => /\ \A c \in Cameras : handles[c] # 2
                /\ InInit => \A c \in Cameras : handles[c] = 0

DeviceInv ==
  BootInv /\ LowInv /\ LidarInv /\ SerialInv /\ CameraInv /\ BeltOffAtEnd

LEMMA InitDeviceInv == Init => DeviceInv
<1> SUFFICES ASSUME Init PROVE DeviceInv
    OBVIOUS
<1>1. CameraInv
  BY DEF Init, CameraInv
<1> QED
  BY <1>1 DEF Init, DeviceInv, BootInv, LowInv, LidarInv, SerialInv, BeltOffAtEnd, InInit
-------------------------------------------------------------------------------
(* The induction, one step for each action. *)

LEMMA DeviceInvStep == TypeInv /\ BeltInv /\ DeviceInv /\ [Next]_vars => DeviceInv'
<1> SUFFICES ASSUME TypeInv, BeltInv, DeviceInv, [Next]_vars PROVE DeviceInv'
    OBVIOUS
<1> USE LimitAssumption, PortAssumption
    DEF DeviceInv, BootInv, LowInv, LidarInv, SerialInv, CameraInv, BeltOffAtEnd, InInit
<1>0. /\ gpioReady \in BOOLEAN /\ evtListener \in BOOLEAN /\ relay \in {"LOW", "HIGH"}
      /\ weigher \in [Slots -> Threads] /\ errors \in 0..ERR_LIMIT
      /\ handles \in [Cameras -> 0..2] /\ gSerialList \in Ports \cup {NoPort}
  BY DEF TypeInv, TypeOK, LoopTypeOK, BeltTypeOK, DeviceTypeOK
<1>b. /\ evtListener => gpioReady
      /\ evtListener /\ nextState = "INIT" => currState = "INIT"
      /\ evtListener /\ nextState = "DETECT" => relay = "LOW"
      /\ nextState = "NONE" /\ currState = "DETECT" => relay = "LOW" /\ evtListener
      /\ main \in {"assign", "weigh"} => relay = "LOW" /\ evtListener
  BY DEF BeltInv, GpioInv, RetryInv, StoppedInv, DetectInv, InDetect
<1>1. CASE InitOnEnter
  BY <1>0, <1>b, <1>1 DEF InitOnEnter, Entering, GpioSetup, SerialSetup, SerialOpened,
     InitReady, Continue, Error, GivesUp, cubeEye, detection, serial
<1>2. CASE InitOnEvent
  BY <1>0, <1>b, <1>2 DEF InitOnEvent, Handling, InitGPhoto, Appended, InitSucceeds, InitFails,
     InitUndecided, BalancerEnd, TransitionTo, Error, GivesUp, listener, pins, serial, detection
<1>3. CASE MoveOnEnter
  <2>1. /\ main = "loop" /\ nextState = "MOVE" /\ entered' = "MOVE"
        /\ nextState' = "NONE" /\ currState' = "MOVE"
        /\ UNCHANGED <<main, errors, serial, cameras, cubeEye, detection>>
    BY <1>3 DEF MoveOnEnter, Entering, Continue
  <2>2. BootInv' /\ LowInv' /\ LidarInv' /\ BeltOffAtEnd'
    BY <1>0, <2>1 DEF serial, cameras, cubeEye, detection
  <2>3. SerialInv'
    BY <1>0, <2>1 DEF serial, cubeEye
  <2>4. CameraInv'
    BY <1>0, <2>1 DEF cameras
  <2> QED
    BY <2>2, <2>3, <2>4
<1>4. CASE MoveOnEvent
  BY <1>0, <1>b, <1>4 DEF MoveOnEvent, Handling, StopConveyor, WriteRelay, TransitionTo,
     listener, pins, serial, cameras, cubeEye, detection
<1>5. CASE ExtractOnEnter
  BY <1>0, <1>b, <1>5 DEF ExtractOnEnter, Entering, RunConveyor, WriteRelay, BalancerEnd,
     Continue, cameras, cubeEye, detection
<1>6. CASE ExtractOnEvent
  BY <1>0, <1>b, <1>6 DEF ExtractOnEvent, Handling, TransitionTo, listener, pins, serial,
     cameras, cubeEye, detection
<1>7. CASE DetectOnEnter
  BY <1>0, <1>b, <1>7 DEF DetectOnEnter, Entering, SerialSetup, SerialOpened, NewWeigher, Slots,
     listener, pins, cameras, serial
<1>8. CASE DetectAssign
  <2>1. /\ main = "assign" /\ main' = "loop"
        /\ nextState' = "NONE" /\ currState' = "DETECT"
        /\ weigher'["fObjWeight"] = weigher["fObjWeight"]
        /\ UNCHANGED <<errors, entered, pins, serial, cameras, cubeEye>>
    BY <1>0, <1>8 DEF DetectAssign, Joins, Continue, Slots
  <2>2. BootInv' /\ LowInv' /\ LidarInv' /\ BeltOffAtEnd'
    BY <1>0, <1>b, <2>1 DEF pins, cubeEye
  <2>3. SerialInv'
    BY <1>0, <2>1 DEF serial, cubeEye
  <2>4. CameraInv'
    BY <1>0, <2>1 DEF cameras
  <2> QED
    BY <2>2, <2>3, <2>4
<1>9. CASE DetectMeasure
  BY <1>0, <1>b, <1>9 DEF DetectMeasure, Handling, LeaveDetect, TransitionTo, listener, pins,
     serial, cameras
<1>10. CASE DetectReport
  <2>1. /\ main = "weigh" /\ main' = "loop" /\ nextState' = "EXTRACT"
        /\ weigher'["fObjWeight"].st # "reading"
        /\ UNCHANGED <<currState, errors, entered, pins, serial, cameras, cubeEye>>
    BY <1>0, <1>10 DEF DetectReport, Joins, NoWeigher, Slots, LeaveDetect, TransitionTo
  <2>2. BootInv' /\ LowInv' /\ LidarInv' /\ BeltOffAtEnd'
    BY <1>0, <1>b, <2>1 DEF pins, cubeEye
  <2>3. SerialInv'
    BY <1>0, <2>1 DEF serial, cubeEye
  <2>4. CameraInv'
    BY <1>0, <2>1 DEF cameras
  <2> QED
    BY <2>2, <2>3, <2>4
<1>11. CASE InitOnEventThrows \/ DetectOnEnterCrashes \/ NoSuchEvent
  BY <1>0, <1>b, <1>11 DEF InitOnEventThrows, DetectOnEnterCrashes, NoSuchEvent, Entering, Handling,
     Registered, listener, pins, serial, cameras, cubeEye, detection
<1>12. CASE ExitTransition \/ Interrupt
  BY <1>0, <1>b, <1>12 DEF ExitTransition, Interrupt, Entering, ExitProcess, StopConveyor, WriteRelay,
     MainSerialList, listener, cameras, detection
<1>13. CASE \E w \in Slots : WeigherStep(w) \/ WeigherWaits(w) \/ WeigherCrash(w)
  <2> PICK w \in Slots : WeigherStep(w) \/ WeigherWaits(w) \/ WeigherCrash(w)
    BY <1>13
  <2>1. /\ UNCHANGED <<listener, entered, pins, serial, cameras, cubeEye, outcome>>
        /\ main \notin {"done", "exited", "dead"} /\ main' \in {main, "dead"}
    BY DEF WeigherStep, WeigherStart, WeigherFinish, WeigherWaits, WeigherBlocks, WeigherWoken,
       WeigherCrash, Proceeds, detection, Alive
  <2>2. BootInv' /\ LowInv' /\ LidarInv' /\ SerialInv' /\ CameraInv'
    BY <2>1 DEF listener, pins, serial, cameras, cubeEye
  <2>3. BeltOffAtEnd'
    <3>1. CASE main' = "dead"
      <4>1. InRead(w) /\ weigher' = weigher
        BY <2>1, <3>1 DEF WeigherStep, WeigherStart, WeigherFinish, WeigherWaits, WeigherBlocks,
           WeigherWoken, WeigherCrash, Proceeds, detection
      <4>2. relay = "HIGH" => outcome \in Abandoned
        BY <4>1 DEF BeltInv, JoinedBeforeBelt, Running
      <4> QED
        BY <2>1, <3>1, <4>1, <4>2 DEF pins, InRead
    <3>2. CASE main' = main /\ main # "dead"
      BY <2>1, <3>2 DEF pins
    <3> QED
      BY <2>1, <3>1, <3>2
  <2> QED
    BY <2>2, <2>3
<1>14. CASE Joined \/ SensorChange \/ PicturesTaken
  BY <1>0, <1>14 DEF Joined, SensorChange, PicturesTaken, Alive, listener, pins, serial, cameras,
     cubeEye, detection
<1>15. CASE ServiceCrash
  <2>1. UNCHANGED <<listener, entered, pins, serial, cameras, cubeEye, detection>> /\ main' = "dead"
    BY <1>15 DEF ServiceCrash
  <2>2. BootInv' /\ LowInv' /\ LidarInv' /\ SerialInv' /\ CameraInv'
    BY <2>1 DEF listener, pins, serial, cameras, cubeEye
  <2>3. pictures = TRUE \/ relay = "LOW"
    BY <1>b, <1>15 DEF ServiceCrash, Handling, TypeInv, TypeOK, DeviceTypeOK
  <2>4. BeltOffAtEnd'
    BY <2>1, <2>3 DEF pins, detection
  <2> QED
    BY <2>2, <2>4
<1>16. CASE UNCHANGED vars
  BY <1>0, <1>16 DEF vars, listener, pins, serial, cameras, cubeEye, detection, InRead
<1> QED
  BY <1>1, <1>2, <1>3, <1>4, <1>5, <1>6, <1>7, <1>8, <1>9, <1>10, <1>11, <1>12,
     <1>13, <1>14, <1>15, <1>16 DEF Next, MainStep, Ended

LEMMA DeviceInductive == Spec => [](TypeInv /\ BeltInv /\ DeviceInv)
  BY InitTypeInv, InitBeltInv, InitDeviceInv, TypeInvStep, BeltInvStep, DeviceInvStep,
     PTL DEF Spec

-------------------------------------------------------------------------------
\* Whichever way the program ends in order, main.cpp's exitProcess has stopped
\* the belt; with the belt running it dies only in an abandoned balance thread or
\* while GpCamera.cpp's listener has pictures to take and send.
THEOREM BeltIsOff == Spec => []BeltOffAtEnd
  BY DeviceInductive, PTL DEF DeviceInv

\* INIT's and DETECT's onEvent find the entry, the listener and the context
\* they dereference without a test (InitEvent.cpp, DetectEvent.cpp).
THEOREM DevicesAreThere == Spec => []HandlersFindTheirDevices
<1>1. BeltInv /\ DeviceInv => HandlersFindTheirDevices
  BY DEF BeltInv, DetectInv, InDetect, DeviceInv, SerialInv, LidarInv, InInit, Handling,
     HandlersFindTheirDevices
<1> QED
  BY <1>1, DeviceInductive, PTL

\* A camera that is in _cams twice was detected again after an error
\* (GpCamera.cpp's createCameras appends).
THEOREM DuplicatesNeedRetry == Spec => []DuplicateOnlyAfterRetry
<1>1. TypeInv /\ DeviceInv => DuplicateOnlyAfterRetry
  BY DEF TypeInv, TypeOK, LoopTypeOK, DeviceInv, CameraInv, DuplicateOnlyAfterRetry
<1> QED
  BY <1>1, DeviceInductive, PTL

\* Past INIT no descriptor gets lost: whenever Balancer.cpp's setup opens a
\* port, the list is empty, if the freed node still names the port to close.
THEOREM NothingLeaks == Spec => NoLeakAfterInit
<1> DEFINE Kept == FreedNodeIntact /\ entered \notin {"NONE", "INIT"} => Leaked' \subseteq Leaked
<1>1. TypeInv /\ BeltInv /\ DeviceInv /\ [Next]_vars => Kept
  <2> SUFFICES ASSUME TypeInv, BeltInv, DeviceInv, [Next]_vars,
                      FreedNodeIntact, entered \notin {"NONE", "INIT"}
               PROVE  Leaked' \subseteq Leaked
    OBVIOUS
  <2>1. CASE DetectOnEnter
    <3>1. gSerialList = NoPort
      <4>1. main = "loop" /\ evtListener = TRUE /\ nextState = "DETECT"
        BY <2>1 DEF DetectOnEnter, Entering, TypeInv, TypeOK, DeviceTypeOK
      <4> QED
        BY <4>1 DEF DeviceInv, SerialInv
    <3>2. \/ UNCHANGED <<gSerialList, openPorts>>
          \/ \E p \in Ports : openPorts' = openPorts \cup {p} /\ gSerialList' = p
      BY <2>1, <3>1 DEF DetectOnEnter, SerialSetup, SerialOpened, serial
    <3> QED
      BY <3>1, <3>2, PortAssumption DEF Leaked, TypeInv, TypeOK, DeviceTypeOK
  <2>2. CASE ExtractOnEnter
    BY <2>2 DEF ExtractOnEnter, BalancerEnd, Leaked
  <2>3. CASE InitOnEnter \/ InitOnEvent
    BY <2>3 DEF InitOnEnter, InitOnEvent, Entering, Handling, DeviceInv, BootInv
  <2>4. CASE ExitTransition \/ Interrupt
    BY <2>4 DEF ExitTransition, Interrupt, ExitProcess, MainSerialList, Leaked
  <2>5. CASE ~(DetectOnEnter \/ ExtractOnEnter \/ InitOnEnter \/ InitOnEvent
               \/ ExitTransition \/ Interrupt)
    <3>1. UNCHANGED serial
      BY <2>5 DEF Next, MainStep, InitOnEventThrows, MoveOnEnter, MoveOnEvent, ExtractOnEvent,
         DetectOnEnterCrashes, DetectAssign, DetectMeasure, DetectReport, NoSuchEvent,
         WeigherStep, WeigherStart, WeigherFinish, WeigherWaits, WeigherBlocks, WeigherWoken,
         WeigherCrash, Proceeds, PicturesTaken, ServiceCrash, Joined, SensorChange, Ended, vars
    <3> QED
      BY <3>1 DEF serial, Leaked
  <2> QED
    BY <2>1, <2>2, <2>3, <2>4, <2>5
<1>2. TypeInv /\ BeltInv /\ DeviceInv /\ [Next]_vars => [Kept]_vars
  BY <1>1
<1> QED
  BY <1>2, DeviceInductive, PTL DEF Spec, NoLeakAfterInit
-------------------------------------------------------------------------------
(***************************************************************************)
(* The state machine implements its two abstract specifications: the belt  *)
(* cycle of KioskCycle, if what _currState holds before it is written      *)
(* names none of the states that drive the belt, and WeighingTurns,        *)
(* whatever it holds.                                                      *)
(***************************************************************************)
BeltStates == {"MOVE", "DETECT", "EXTRACT"}

OffBeltStart == FirstCurrState \cap BeltStates = {}

\* Which state was entered last, and which reading of the filter it ended with,
\* follows from the state that is next.
OrderInv ==
  /\ entered \in {"NONE", "INIT"} => currState \notin BeltStates
  /\ entered \in BeltStates => gpioReady = TRUE
  /\ nextState = "NONE" /\ currState \in BeltStates => entered = currState
  /\ nextState = "MOVE" =>
       /\ gpioReady = TRUE
       /\ \/ entered = "INIT"
          \/ entered = "EXTRACT" /\ irDetectCnt["EXTRACT"] >= IR_FILTER_CNT
  /\ nextState = "DETECT" =>
       \/ main # "loop" /\ entered = "DETECT"
       \/ entered = "MOVE" /\ irDetectCnt["MOVE"] >= IR_FILTER_CNT
  /\ main \in {"assign", "weigh"} => entered = "DETECT"
  /\ nextState = "EXTRACT" => entered = "DETECT"
  /\ main = "loop" /\ nextState = "NONE" /\ currState = "MOVE" => relay = "HIGH"

CycleInv == TypeInv /\ BeltInv /\ DeviceInv /\ OrderInv

LEMMA InitOrderInv == Init /\ OffBeltStart => OrderInv
  BY DEF Init, OffBeltStart, BeltStates, OrderInv

LEMMA OrderInvStep == CycleInv /\ [Next]_vars => OrderInv'
<1> SUFFICES ASSUME CycleInv, [Next]_vars PROVE OrderInv'
    OBVIOUS
<1> USE DEF OrderInv, BeltStates
<1>0. /\ OrderInv
      /\ gpioReady \in BOOLEAN
      /\ irDetectCnt \in [{"MOVE", "EXTRACT"} -> 0..IR_FILTER_CNT]
  BY DEF CycleInv, TypeInv, TypeOK, BeltTypeOK
<1>b. /\ nextState = "INIT" => entered \in {"NONE", "INIT"}
      /\ nextState = "NONE" /\ currState = "INIT" => entered = "INIT" /\ gpioReady = TRUE
  BY <1>0 DEF CycleInv, DeviceInv, BootInv, BeltInv, GpioInv
<1>1. CASE InitOnEnter
  BY <1>0, <1>b, <1>1 DEF InitOnEnter, Entering, Continue, Error
<1>2. CASE InitOnEvent
  BY <1>0, <1>b, <1>2 DEF InitOnEvent, Handling, InitSucceeds, InitFails, InitUndecided,
     TransitionTo, Error, listener, pins
<1>3. CASE MoveOnEnter
  BY <1>0, <1>3 DEF MoveOnEnter, Entering, RunConveyor, WriteRelay, Continue
<1>4. CASE MoveOnEvent
  <2>1. /\ main = "loop" /\ nextState = "NONE" /\ currState = "MOVE"
        /\ UNCHANGED <<main, entered, currState, gpioReady>>
        /\ \/ irDetectCnt'["MOVE"] >= IR_FILTER_CNT /\ nextState' = "DETECT"
           \/ UNCHANGED <<relay, nextState>>
    BY <1>4 DEF MoveOnEvent, Handling, StopConveyor, TransitionTo, listener, pins
  <2> QED
    BY <1>0, <2>1
<1>5. CASE ExtractOnEnter
  BY <1>0, <1>5 DEF ExtractOnEnter, Entering, RunConveyor, Continue
<1>6. CASE ExtractOnEvent
  BY <1>0, <1>6 DEF ExtractOnEvent, Handling, TransitionTo, listener, pins
<1>7. CASE DetectOnEnter \/ DetectAssign \/ DetectMeasure \/ DetectReport
  BY <1>0, <1>7 DEF DetectOnEnter, DetectAssign, DetectMeasure, DetectReport, Entering, Handling,
     Continue, LeaveDetect, TransitionTo, listener, pins, CycleInv, DeviceInv, BootInv
<1>8. CASE InitOnEventThrows \/ DetectOnEnterCrashes \/ NoSuchEvent
  BY <1>0, <1>8 DEF InitOnEventThrows, DetectOnEnterCrashes, NoSuchEvent, Entering, listener, pins
<1>9. CASE ExitTransition \/ Interrupt
  BY <1>0, <1>9 DEF ExitTransition, Interrupt, Entering, ExitProcess, StopConveyor, listener
<1>10. CASE \E w \in Slots : WeigherStep(w) \/ WeigherWaits(w) \/ WeigherCrash(w)
  BY <1>0, <1>10 DEF WeigherStep, WeigherStart, WeigherFinish, WeigherWaits, WeigherBlocks,
     WeigherWoken, WeigherCrash, Proceeds, listener, pins
<1>11. CASE Joined \/ SensorChange \/ PicturesTaken \/ ServiceCrash \/ UNCHANGED vars
  BY <1>0, <1>11 DEF Joined, SensorChange, PicturesTaken, ServiceCrash, vars, listener, pins
<1> QED
  BY <1>1, <1>2, <1>3, <1>4, <1>5, <1>6, <1>7, <1>8, <1>9, <1>10, <1>11
  DEF Next, MainStep, Ended

-------------------------------------------------------------------------------
(* Each step is a step of the cycle, or changes nothing it speaks of. *)

LEMMA CycleInit == Init => Cycle!Init
  BY DEF Init, Cycle!Init, Phase, Steady

LEMMA CycleStep == CycleInv /\ [Next]_vars => [Cycle!Next]_(Cycle!vars)
<1> SUFFICES ASSUME CycleInv, [Next]_vars PROVE Cycle!Next \/ UNCHANGED Cycle!vars
    OBVIOUS
<1> USE DEF Phase, Steady
<1>0. /\ OrderInv
      /\ gpioReady \in BOOLEAN /\ readFlag \in BOOLEAN /\ relay \in {"LOW", "HIGH"}
      /\ irDetectCnt \in [{"MOVE", "EXTRACT"} -> 0..IR_FILTER_CNT]
      /\ entered \in Registered \cup {"NONE"}
  BY DEF CycleInv, TypeInv, TypeOK, BeltTypeOK, DeviceTypeOK, LoopTypeOK
<1>b. /\ nextState = "INIT" => entered \in {"NONE", "INIT"}
      /\ nextState = "NONE" /\ currState = "INIT" => entered = "INIT"
  BY DEF CycleInv, DeviceInv, BootInv
<1>d. main = "loop" /\ ~(nextState = "NONE" /\ currState = "DETECT") => readFlag = FALSE
  BY <1>0 DEF CycleInv, BeltInv, DetectInv, InDetect
<1>1. CASE InitOnEnter
  <2>1. /\ main = "loop" /\ main' = "loop" /\ entered \in {"NONE", "INIT"} /\ entered' = "INIT"
        /\ relay' \in {"LOW", relay} /\ readFlag' = readFlag
    BY <1>b, <1>1 DEF InitOnEnter, Entering, GpioSetup, cubeEye
  <2> QED
    BY <2>1 DEF Cycle!Next, Cycle!Boot, Cycle!vars
<1>2. CASE InitOnEvent
  <2>1. /\ main = "loop" /\ entered = "INIT" /\ readFlag' = readFlag
        /\ UNCHANGED <<main, entered, irDetectCnt, relay>>
    BY <1>b, <1>d, <1>2 DEF InitOnEvent, Handling, pins
  <2> QED
    BY <2>1 DEF Cycle!vars
<1>3. CASE MoveOnEnter
  <2>1. /\ main = "loop" /\ nextState = "MOVE" /\ main' = "loop" /\ entered' = "MOVE"
        /\ relay' = "HIGH" /\ irDetectCnt'["MOVE"] = 0 /\ readFlag' = readFlag
    BY <1>0, <1>3 DEF OrderInv, MoveOnEnter, Entering, ResetCount, RunConveyor, WriteRelay, cubeEye
  <2>2. CASE entered = "INIT"
    BY <2>1, <2>2 DEF Cycle!Next, Cycle!Begin
  <2>3. CASE entered = "EXTRACT" /\ irDetectCnt["EXTRACT"] >= IR_FILTER_CNT
    BY <2>1, <2>3 DEF Cycle!Next, Cycle!Resume
  <2> QED
    BY <1>0, <2>1, <2>2, <2>3 DEF OrderInv
<1>4. CASE MoveOnEvent
  <2>1. /\ main = "loop" /\ nextState = "NONE" /\ currState = "MOVE"
        /\ UNCHANGED <<main, entered, readFlag>>
    BY <1>4 DEF MoveOnEvent, Handling, cubeEye
  <2>2. /\ entered = "MOVE" /\ relay = "HIGH" /\ gpioReady = TRUE
        /\ irDetectCnt["MOVE"] < IR_FILTER_CNT
    BY <1>0, <2>1 DEF OrderInv, BeltStates, CycleInv, TypeInv, FilterInv
  <2>3. \E agrees \in BOOLEAN :
          irDetectCnt'["MOVE"] = IF agrees THEN irDetectCnt["MOVE"] + 1 ELSE 0
    <3> PICK level \in Readings :
          irDetectCnt' = [irDetectCnt EXCEPT !["MOVE"] = IRFilter(@, ObjectSeen(level))]
      BY <1>4 DEF MoveOnEvent
    <3>1. ObjectSeen(level) \in BOOLEAN
      BY DEF ObjectSeen
    <3> QED
      BY <1>0, <3>1 DEF IRFilter
  <2>4. relay' = IF irDetectCnt'["MOVE"] >= IR_FILTER_CNT THEN "LOW" ELSE "HIGH"
    BY <1>4, <2>2 DEF MoveOnEvent, StopConveyor, WriteRelay, pins
  <2> QED
    BY <2>1, <2>2, <2>3, <2>4 DEF Cycle!Next, Cycle!LookForObject, Cycle!Count
<1>5. CASE ExtractOnEnter
  <2>1. /\ main = "loop" /\ nextState = "EXTRACT" /\ main' = "loop" /\ entered' = "EXTRACT"
        /\ irDetectCnt'["EXTRACT"] = 0 /\ readFlag' = readFlag
    BY <1>0, <1>5 DEF ExtractOnEnter, Entering, ResetCount, cubeEye
  <2>2. entered = "DETECT" /\ relay' = "HIGH" /\ readFlag = FALSE
    BY <1>0, <1>d, <1>5, <2>1 DEF OrderInv, BeltStates, ExtractOnEnter, RunConveyor, WriteRelay
  <2> QED
    BY <2>1, <2>2 DEF Cycle!Next, Cycle!Eject
<1>6. CASE ExtractOnEvent
  <2>1. /\ main = "loop" /\ nextState = "NONE" /\ currState = "EXTRACT"
        /\ UNCHANGED <<main, entered, readFlag, relay>>
    BY <1>6 DEF ExtractOnEvent, Handling, cubeEye, pins
  <2>2. entered = "EXTRACT" /\ irDetectCnt["EXTRACT"] < IR_FILTER_CNT
    BY <1>0, <2>1 DEF OrderInv, BeltStates, CycleInv, TypeInv, FilterInv
  <2>3. \E agrees \in BOOLEAN :
          irDetectCnt'["EXTRACT"] = IF agrees THEN irDetectCnt["EXTRACT"] + 1 ELSE 0
    <3> PICK level \in Readings :
          irDetectCnt' = [irDetectCnt EXCEPT !["EXTRACT"] = IRFilter(@, GapSeen(level))]
      BY <1>6 DEF ExtractOnEvent
    <3>1. GapSeen(level) \in BOOLEAN
      BY DEF GapSeen
    <3> QED
      BY <1>0, <3>1 DEF IRFilter
  <2> QED
    BY <2>1, <2>2, <2>3 DEF Cycle!Next, Cycle!LookForGap, Cycle!Count
<1>7. CASE DetectOnEnter
  <2>1. /\ main = "loop" /\ nextState = "DETECT" /\ main' = "assign" /\ entered' = "DETECT"
        /\ readFlag' = TRUE /\ UNCHANGED <<irDetectCnt, relay>>
    BY <1>7 DEF DetectOnEnter, Entering, pins
  <2>2. relay = "LOW"
    BY <1>0, <1>7 DEF DetectOnEnter, Entering, CycleInv, BeltInv, StoppedInv
  <2> QED
    BY <1>0, <2>1, <2>2 DEF OrderInv, Cycle!Next, Cycle!Measure
<1>8. CASE DetectAssign \/ DetectReport
  <2>1. /\ main \in {"assign", "weigh"} /\ main' = "loop"
        /\ UNCHANGED <<entered, readFlag, relay>>
    BY <1>8 DEF DetectAssign, DetectReport, cubeEye, pins
  <2> QED
    BY <1>0, <2>1 DEF OrderInv, Cycle!vars
<1>9. CASE DetectMeasure
  <2>1. /\ main = "loop" /\ main' \in {"loop", "weigh"} /\ nextState = "NONE"
        /\ currState = "DETECT" /\ readFlag' = FALSE
        /\ UNCHANGED <<entered, relay>>
    BY <1>9 DEF DetectMeasure, Handling, pins
  <2>2. entered = "DETECT"
    BY <1>0, <2>1 DEF OrderInv, BeltStates
  <2> QED
    BY <1>0, <2>1, <2>2 DEF Cycle!Next, Cycle!Sensed, Cycle!vars
<1>10. CASE InitOnEventThrows \/ DetectOnEnterCrashes \/ NoSuchEvent
  <2>1. main = "loop" /\ main' = "dead" /\ UNCHANGED <<relay, readFlag>>
    BY <1>10 DEF InitOnEventThrows, DetectOnEnterCrashes, NoSuchEvent, Entering, Handling,
       pins, cubeEye
  <2> QED
    BY <1>0, <2>1 DEF Cycle!Next, Cycle!End
<1>11. CASE ExitTransition \/ Interrupt
  <2>1. /\ main' \in {"joining", "exited"} /\ UNCHANGED readFlag
        /\ relay' = (IF gpioReady THEN "LOW" ELSE relay)
        /\ main \notin {"done", "exited", "dead"}
    BY <1>11 DEF ExitTransition, Interrupt, ExitProcess, StopConveyor, WriteRelay, Entering, Alive
  <2>2. main = "joining" /\ gpioReady = TRUE => relay = "LOW"
    BY DEF CycleInv, DeviceInv, BeltOffAtEnd
  <2>3. relay' \in {"LOW", relay} /\ (main = "joining" => relay' = relay)
    BY <1>0, <2>1, <2>2
  <2> QED
    BY <1>0, <2>1, <2>3 DEF Cycle!Next, Cycle!End, Cycle!vars
<1>12. CASE \/ PicturesTaken \/ ServiceCrash
            \/ \E w \in Slots : WeigherStep(w) \/ WeigherWaits(w) \/ WeigherCrash(w)
  <2>1. /\ main \notin {"done", "exited", "dead"} /\ main' \in {main, "dead"}
        /\ UNCHANGED <<entered, irDetectCnt, relay, readFlag>>
    BY <1>12 DEF WeigherStep, WeigherStart, WeigherFinish, WeigherWaits, WeigherBlocks,
       WeigherWoken, WeigherCrash, Proceeds, PicturesTaken, ServiceCrash, pins, cubeEye, Alive
  <2> QED
    BY <1>0, <2>1 DEF Cycle!Next, Cycle!End, Cycle!vars
<1>13. CASE Joined
  <2>1. main = "joining" /\ main' \in {"dead", "done"} /\ UNCHANGED <<relay, readFlag>>
    BY <1>13 DEF Joined, pins, cubeEye
  <2> QED
    BY <2>1 DEF Cycle!vars
<1>14. CASE SensorChange \/ UNCHANGED vars
  <2>1. UNCHANGED <<main, entered, irDetectCnt, relay, readFlag>>
    BY <1>14 DEF SensorChange, vars, pins, cubeEye
  <2> QED
    BY <2>1 DEF Cycle!vars
<1> QED
  BY <1>1, <1>2, <1>3, <1>4, <1>5, <1>6, <1>7, <1>8, <1>9, <1>10, <1>11, <1>12, <1>13, <1>14
  DEF Next, MainStep, Ended

\* The kiosk repeats the belt cycle (main.cpp's loop with all onEnter and
\* onEvent): no object is measured twice, and none while the belt moves.
THEOREM CycleImplemented == OffBeltStart /\ Spec => CycleSpec
<1>1. Spec => [](TypeInv /\ BeltInv /\ DeviceInv)
  BY DeviceInductive
<1>2. TypeInv /\ BeltInv /\ DeviceInv /\ OrderInv /\ [Next]_vars
        => OrderInv' /\ [Cycle!Next]_(Cycle!vars)
  BY OrderInvStep, CycleStep DEF CycleInv
<1> QED
  BY <1>1, <1>2, InitOrderInv, CycleInit, PTL DEF Spec, CycleSpec, Cycle!Spec

-------------------------------------------------------------------------------
(***************************************************************************)
(* The turns of the main thread and the balance threads.  Before there is  *)
(* a listener a belt state may run for no reason, but DETECT crashes, so   *)
(* that there is no thread; from then on the state entered last follows    *)
(* from the state that is next (EnteredInv), and the slots from both       *)
(* (SlotInv).                                                              *)
(***************************************************************************)
EnteredInv ==
  /\ evtListener = TRUE =>
       /\ nextState = "MOVE"    => entered \in {"INIT", "EXTRACT"}
       /\ nextState = "EXTRACT" => entered = "DETECT"
       /\ nextState = "DETECT"  => entered = "MOVE" \/ main # "loop"
       /\ nextState = "NONE" /\ currState \in BeltStates => entered = currState
  /\ main \in {"assign", "weigh"} => entered = "DETECT"

\* The slots are filled by DETECT's onEnter, and emptied by who joins their thread.
SlotInv ==
  /\ evtListener = FALSE \/ entered \in {"NONE", "INIT"} =>
       \A w \in Slots : weigher[w].st = "none"
  /\ main \in {"loop", "weigh", "joining"} => weigher["replaced"].st = "none"
  /\ entered = "DETECT" /\ nextState # "EXTRACT" /\ evtListener = TRUE =>
       weigher["fObjWeight"].st # "none"

TurnsInv == EnteredInv /\ SlotInv

LEMMA InitTurnsInv == Init => TurnsInv
  BY DEF Init, TurnsInv, EnteredInv, SlotInv, NoWeigher, Slots, BeltStates

\* A step of a thread replaces a slot that is not empty by one that is not.
LEMMA SlotStep ==
  ASSUME TypeInv, NEW w \in Slots, WeigherStep(w) \/ WeigherWaits(w) \/ WeigherCrash(w)
  PROVE  weigher' = weigher \/ \E t \in Threads :
           t.st # "none" /\ weigher[w].st # "none" /\ weigher' = [weigher EXCEPT ![w] = t]
<1>0. weigher \in [Slots -> Threads] /\ gSerialList \in Ports \cup {NoPort}
  BY DEF TypeInv, TypeOK, DeviceTypeOK
<1>1. CASE WeigherStart(w)
  <2>1. [st |-> IF gSerialList = NoPort THEN "done" ELSE "reading", port |-> gSerialList] \in Threads
    BY <1>0 DEF Threads
  <2> QED
    BY <1>1, <2>1 DEF WeigherStart
<1>2. CASE WeigherFinish(w) \/ WeigherWaits(w)
  <2> PICK st \in {"blocked", "done", "threw"} : InRead(w) /\ Proceeds(w, st)
    BY <1>2 DEF WeigherFinish, WeigherWaits, WeigherBlocks, WeigherWoken, InRead
  <2>1. [weigher[w] EXCEPT !.st = st] \in Threads /\ [weigher[w] EXCEPT !.st = st].st # "none"
    BY <1>0 DEF Threads
  <2> QED
    BY <2>1 DEF Proceeds, InRead
<1>3. CASE WeigherCrash(w)
  BY <1>3 DEF WeigherCrash, detection
<1> QED
  BY <1>1, <1>2, <1>3 DEF WeigherStep

LEMMA TurnsInvStep == TypeInv /\ BeltInv /\ DeviceInv /\ TurnsInv /\ [Next]_vars => TurnsInv'
<1> SUFFICES ASSUME TypeInv, BeltInv, DeviceInv, TurnsInv, [Next]_vars PROVE TurnsInv'
    OBVIOUS
<1> USE DEF TurnsInv, EnteredInv, SlotInv, BeltStates
<1>0. evtListener \in BOOLEAN /\ weigher \in [Slots -> Threads]
  BY DEF TypeInv, TypeOK, DeviceTypeOK
<1>b. /\ nextState = "INIT" => entered \in {"NONE", "INIT"}
      /\ nextState = "NONE" /\ currState = "INIT" => entered = "INIT"
      /\ evtListener = TRUE /\ nextState = "INIT" => currState = "INIT"
      /\ nextState = "NONE" /\ currState = "DETECT" => evtListener = TRUE
      /\ main = "assign" => nextState = "DETECT" /\ evtListener = TRUE
      /\ main = "weigh" => nextState = "NONE" /\ currState = "DETECT" /\ evtListener = TRUE
  BY <1>0 DEF DeviceInv, BootInv, BeltInv, RetryInv, DetectInv, InDetect
<1>1. CASE InitOnEnter
  BY <1>0, <1>b, <1>1 DEF InitOnEnter, Entering, InitReady, Continue, Error, GivesUp, cubeEye, detection
<1>2. CASE InitOnEvent
  BY <1>0, <1>b, <1>2 DEF InitOnEvent, Handling, InitSucceeds, InitFails, InitUndecided,
     TransitionTo, Error, GivesUp, listener, detection
<1>3. CASE MoveOnEnter \/ ExtractOnEnter
  BY <1>0, <1>b, <1>3 DEF MoveOnEnter, ExtractOnEnter, Entering, Continue, cubeEye, detection
<1>4. CASE MoveOnEvent \/ ExtractOnEvent
  BY <1>0, <1>b, <1>4 DEF MoveOnEvent, ExtractOnEvent, Handling, TransitionTo, listener, cubeEye, detection
<1>5. CASE DetectOnEnter
  BY <1>0, <1>b, <1>5 DEF DetectOnEnter, Entering, listener, NewWeigher, Slots
<1>6. CASE DetectAssign
  BY <1>0, <1>b, <1>6 DEF DetectAssign, Joins, Continue, cubeEye, NoWeigher, Slots
<1>7. CASE DetectMeasure
  BY <1>0, <1>b, <1>7 DEF DetectMeasure, Handling, LeaveDetect, TransitionTo, listener
<1>8. CASE DetectReport
  BY <1>0, <1>b, <1>8 DEF DetectReport, Joins, LeaveDetect, TransitionTo, cubeEye, NoWeigher, Slots
<1>9. CASE InitOnEventThrows \/ DetectOnEnterCrashes \/ NoSuchEvent \/ ExitTransition \/ Interrupt
  BY <1>0, <1>9 DEF InitOnEventThrows, DetectOnEnterCrashes, NoSuchEvent, ExitTransition,
     Interrupt, Entering, ExitProcess, listener, cubeEye, detection
<1>10. CASE \E w \in Slots : WeigherStep(w) \/ WeigherWaits(w) \/ WeigherCrash(w)
  <2> PICK w \in Slots : WeigherStep(w) \/ WeigherWaits(w) \/ WeigherCrash(w)
    BY <1>10
  <2>1. UNCHANGED <<listener, entered, evtListener>> /\ main' \in {main, "dead"}
    BY DEF WeigherStep, WeigherStart, WeigherFinish, WeigherWaits, WeigherBlocks, WeigherWoken,
       WeigherCrash, Proceeds, cubeEye
  <2>2. \A v \in Slots : weigher'[v].st = "none" <=> weigher[v].st = "none"
    <3>1. weigher' = weigher \/ \E t \in Threads :
            t.st # "none" /\ weigher[w].st # "none" /\ weigher' = [weigher EXCEPT ![w] = t]
      BY SlotStep
    <3> QED
      BY <1>0, <3>1
  <2> QED
    BY <1>0, <2>1, <2>2 DEF listener, Slots
<1>11. CASE Joined \/ SensorChange \/ PicturesTaken \/ ServiceCrash \/ UNCHANGED vars
  BY <1>0, <1>11 DEF Joined, SensorChange, PicturesTaken, ServiceCrash, vars, listener, cubeEye,
     detection
<1> QED
  BY <1>1, <1>2, <1>3, <1>4, <1>5, <1>6, <1>7, <1>8, <1>9, <1>10, <1>11
  DEF Next, MainStep, Ended

LEMMA TurnsInit == Init => Turns!Init
  BY PortAssumption DEF Init, Turns!Init, Turn, Listed, ThreadState, InRead, NoWeigher, Slots

\* Only DETECT's handlers and the threads write a slot, only INIT, DETECT's onEnter
\* and EXTRACT's onEnter the list, so that most steps are seen by nobody.
LEMMA Unseen ==
  ASSUME UNCHANGED <<entered, nextState, evtListener, serial, weigher>>
  PROVE  UNCHANGED Turns!vars
  BY DEF serial, Turns!vars, Turn, Listed, ThreadState, InRead

LEMMA TurnsStep ==
  TypeInv /\ BeltInv /\ DeviceInv /\ TurnsInv /\ [Next]_vars => [Turns!Next]_(Turns!vars)
<1> SUFFICES ASSUME TypeInv, BeltInv, DeviceInv, TurnsInv, [Next]_vars
             PROVE  Turns!Next \/ UNCHANGED Turns!vars
    OBVIOUS
<1> DEFINE old == ThreadState("replaced")
           new == ThreadState("fObjWeight")
<1>0. /\ evtListener \in BOOLEAN /\ weigher \in [Slots -> Threads]
      /\ gSerialList \in Ports \cup {NoPort} /\ openPorts \in SUBSET Ports
      /\ EnteredInv /\ SlotInv
  BY DEF TypeInv, TypeOK, DeviceTypeOK, TurnsInv
<1>p. Listed <=> gSerialList # NoPort
  BY <1>0, PortAssumption DEF Listed, DeviceInv, SerialInv
<1>q. gSerialList' \in Ports \cup {NoPort} /\ (Listed' <=> gSerialList' # NoPort)
  BY TypeInvStep, DeviceInvStep, PortAssumption
  DEF TypeInv, TypeOK, DeviceTypeOK, Listed, DeviceInv, SerialInv
<1>b. /\ nextState = "INIT" => entered \in {"NONE", "INIT"}
      /\ nextState = "NONE" /\ currState = "INIT" => entered = "INIT"
      /\ nextState = "NONE" /\ currState = "DETECT" => evtListener = TRUE
      /\ main = "assign" => nextState = "DETECT" /\ evtListener = TRUE
      /\ main = "weigh" => nextState = "NONE" /\ currState = "DETECT" /\ evtListener = TRUE
  BY <1>0 DEF DeviceInv, BootInv, BeltInv, RetryInv, DetectInv, InDetect
<1>1. CASE Turn = "boot" /\ Turn' = "boot" /\ weigher' = weigher
  <2>1. \A w \in Slots : weigher[w].st = "none"
    BY <1>0, <1>1 DEF SlotInv, Turn
  <2>2. UNCHANGED <<new, old>>
    BY <1>1, <2>1 DEF ThreadState, Slots
  <2>3. Listed' \in BOOLEAN
    BY DEF Listed
  <2> QED
    BY <1>1, <2>2, <2>3 DEF Turns!Next, Turns!Boot
<1>2. CASE InitOnEnter \/ InitOnEvent
  <2>1. entered \in {"NONE", "INIT"} /\ entered' = "INIT" /\ weigher' = weigher
    BY <1>b, <1>2 DEF InitOnEnter, InitOnEvent, Entering, Handling, detection
  <2>2. Turn = "boot" /\ Turn' = "boot"
    BY <2>1 DEF Turn
  <2> QED
    BY <1>1, <2>1, <2>2
<1>3. CASE MoveOnEnter
  <2>1. /\ main = "loop" /\ nextState = "MOVE" /\ entered' = "MOVE" /\ nextState' = "NONE"
        /\ UNCHANGED <<evtListener, serial, weigher>>
    BY <1>3 DEF MoveOnEnter, Entering, Continue, cubeEye, detection
  <2>2. UNCHANGED <<Listed, new, old>>
    BY <2>1 DEF serial, Listed, ThreadState, InRead
  <2>3. CASE evtListener = FALSE
    BY <1>1, <2>1, <2>3 DEF Turn
  <2>4. CASE evtListener = TRUE /\ entered = "EXTRACT"
    BY <2>1, <2>2, <2>4 DEF Turn, Turns!vars
  <2>5. CASE evtListener = TRUE /\ entered = "INIT"
    <3>1. Turn = "boot" /\ Turn' = "away"
      BY <2>1, <2>5 DEF Turn
    <3>2. gSerialList = NoPort
      BY <2>1, <2>5 DEF DeviceInv, SerialInv
    <3>3. Listed' = FALSE
      BY Zenon, <1>p, <2>2, <3>2
    <3> QED
      BY <2>2, <3>1, <3>3 DEF Turns!Next, Turns!Booted
  <2> QED
    BY <1>0, <2>1, <2>3, <2>4, <2>5 DEF EnteredInv
<1>4. CASE MoveOnEvent \/ ExtractOnEvent
  <2>1. /\ nextState = "NONE" /\ currState \in {"MOVE", "EXTRACT"}
        /\ UNCHANGED <<entered, evtListener, serial, weigher>>
    BY <1>4 DEF MoveOnEvent, ExtractOnEvent, Handling, cubeEye, detection
  <2>2. UNCHANGED <<Listed, new, old>>
    BY <2>1 DEF serial, Listed, ThreadState, InRead
  <2>3. evtListener = FALSE \/ entered \in {"MOVE", "EXTRACT"}
    BY <1>0, <2>1 DEF EnteredInv, BeltStates
  <2>4. UNCHANGED Turn
    BY <2>1, <2>3 DEF Turn
  <2> QED
    BY <2>2, <2>4 DEF Turns!vars
<1>5. CASE ExtractOnEnter
  <2>1. /\ main = "loop" /\ nextState = "EXTRACT" /\ entered' = "EXTRACT" /\ nextState' = "NONE"
        /\ gSerialList' = NoPort /\ UNCHANGED <<evtListener, weigher>>
    BY <1>5 DEF ExtractOnEnter, Entering, Continue, BalancerEnd, cubeEye, detection
  <2>2. CASE evtListener = FALSE
    BY <1>1, <2>1, <2>2 DEF Turn
  <2>3. CASE evtListener = TRUE
    <3>1. Turn = "leaving" /\ Turn' = "away"
      BY <1>0, <2>1, <2>3 DEF Turn, EnteredInv
    <3>2. Listed' = FALSE
      BY <1>q, <2>1 DEF Listed
    <3>3. UNCHANGED old
      BY <1>0, <2>1 DEF SlotInv, ThreadState, InRead
    <3>4. new' = IF new = "reading" THEN "astray" ELSE new
      BY <2>1, <3>2 DEF ThreadState, InRead
    <3> QED
      BY <3>1, <3>2, <3>3, <3>4 DEF Turns!Next, Turns!Closed
  <2> QED
    BY <1>0, <2>2, <2>3
<1>6. CASE DetectOnEnter
  <2>1. /\ main = "loop" /\ nextState = "DETECT" /\ nextState' = "DETECT" /\ entered' = "DETECT"
        /\ evtListener = TRUE /\ evtListener' = TRUE
        /\ weigher'["fObjWeight"] = NewWeigher /\ weigher'["replaced"] = weigher["fObjWeight"]
    BY <1>0, <1>6 DEF DetectOnEnter, Entering, listener, Slots
  <2>2. entered = "MOVE"
    BY <1>0, <2>1 DEF EnteredInv
  <2>3. Turn = "away" /\ Turn' = "replacing"
    BY <2>1, <2>2 DEF Turn
  <2>4. new' = "started"
    BY <2>1 DEF ThreadState, NewWeigher, InRead
  <2>5. Listed = FALSE
    <3>1. gSerialList = NoPort
      BY <2>1 DEF DeviceInv, SerialInv
    <3> QED
      BY Zenon, <1>p, <3>1
  <2>6. old' \in {new} \cup IF new = "astray" /\ Listed' THEN {"reading"} ELSE {}
    <3>1. CASE InRead("fObjWeight")
      <4>1. new = "astray"
        BY <2>5, <3>1 DEF ThreadState, InRead
      <4>2. old' = "astray" \/ (old' = "reading" /\ Listed')
        BY <2>1, <3>1 DEF ThreadState, InRead
      <4> QED
        BY <4>1, <4>2
    <3>2. CASE ~InRead("fObjWeight")
      BY <2>1, <3>2 DEF ThreadState, InRead
    <3> QED
      BY <3>1, <3>2
  <2>7. Listed' \in BOOLEAN
    BY DEF Listed
  <2> QED
    BY <2>3, <2>4, <2>6, <2>7 DEF Turns!Next, Turns!Stopped
<1>7. CASE DetectAssign
  <2>1. /\ main = "assign" /\ nextState' = "NONE" /\ Joinable("replaced")
        /\ weigher'["replaced"] = NoWeigher /\ weigher'["fObjWeight"] = weigher["fObjWeight"]
        /\ UNCHANGED <<entered, evtListener, serial>>
    BY <1>0, <1>7 DEF DetectAssign, Joins, Continue, cubeEye, Slots
  <2>2. Turn = "replacing" /\ Turn' = "measuring"
    BY <1>0, <1>b, <2>1 DEF Turn, EnteredInv
  <2>3. UNCHANGED <<Listed, new>>
    BY <2>1 DEF serial, Listed, ThreadState, InRead
  <2>4. old \in {"none", "done"} /\ old' = "none"
    BY <1>0, <2>1 DEF Joinable, Running, InRead, ThreadState, NoWeigher, Threads, Slots
  <2> QED
    BY <2>2, <2>3, <2>4 DEF Turns!Next, Turns!Replaced
<1>8. CASE DetectMeasure
  <2>1. /\ nextState = "NONE" /\ currState = "DETECT" /\ nextState' \in {"NONE", "EXTRACT"}
        /\ UNCHANGED <<entered, evtListener, serial, weigher>>
    BY <1>8 DEF DetectMeasure, Handling, LeaveDetect, TransitionTo, listener
  <2>2. Turn = "measuring" /\ Turn' = IF nextState' = "NONE" THEN "measuring" ELSE "leaving"
    BY <1>0, <1>b, <2>1 DEF Turn, EnteredInv, BeltStates
  <2>3. UNCHANGED <<Listed, new, old>>
    BY <2>1 DEF serial, Listed, ThreadState, InRead
  <2> QED
    BY <2>2, <2>3 DEF Turns!Next, Turns!GivenUp, Turns!vars
<1>9. CASE DetectReport
  <2>1. /\ main = "weigh" /\ nextState' = "EXTRACT" /\ Joinable("fObjWeight")
        /\ weigher'["fObjWeight"] = NoWeigher /\ weigher'["replaced"] = weigher["replaced"]
        /\ UNCHANGED <<entered, evtListener, serial>>
    BY <1>0, <1>9 DEF DetectReport, Joins, LeaveDetect, TransitionTo, cubeEye, Slots
  <2>2. entered = "DETECT" /\ Turn = "measuring" /\ Turn' = "leaving"
    BY <1>0, <1>b, <2>1 DEF Turn, EnteredInv
  <2>3. UNCHANGED <<Listed, old>>
    BY <2>1 DEF serial, Listed, ThreadState, InRead
  <2>4. weigher["fObjWeight"].st \in {"done", "threw"}
    BY <1>0, <1>b, <2>1, <2>2 DEF Joinable, Running, InRead, SlotInv, Threads, Slots
  <2>5. new = "done" /\ new' = "none"
    BY <2>1, <2>4 DEF ThreadState, NoWeigher, InRead
  <2> QED
    BY <2>2, <2>3, <2>5 DEF Turns!Next, Turns!Weighed
<1>10. CASE \E w \in Slots : WeigherStep(w) \/ WeigherWoken(w)
  <2> PICK w \in Slots : WeigherStep(w) \/ WeigherWoken(w)
    BY <1>10
  <2>1. UNCHANGED <<entered, nextState, evtListener, serial>>
    BY DEF WeigherStep, WeigherStart, WeigherFinish, WeigherWoken, Proceeds, listener, cubeEye
  <2>2. UNCHANGED <<Turn, Listed>>
    BY <2>1 DEF Turn, Listed, serial
  <2>3. Turns!Proceeds(ThreadState(w), ThreadState(w)')
    <3>1. CASE WeigherStart(w)
      <4>1. /\ weigher[w].st = "started" /\ weigher'[w].port = gSerialList
            /\ weigher'[w].st = IF gSerialList = NoPort THEN "done" ELSE "reading"
        BY <1>0, <3>1 DEF WeigherStart
      <4>2. ThreadState(w) = "started"
        BY <4>1 DEF ThreadState, InRead
      <4>3. ThreadState(w)' = IF Listed THEN "reading" ELSE "done"
        BY <1>p, <2>1, <2>2, <4>1 DEF ThreadState, InRead, serial
      <4> QED
        BY <4>2, <4>3 DEF Turns!Proceeds
    <3>2. CASE WeigherFinish(w) \/ WeigherWoken(w)
      <4>1. InRead(w) /\ weigher'[w].st \in {"done", "threw"}
        <5> PICK st \in {"done", "threw"} : Proceeds(w, st)
          BY <3>2 DEF WeigherFinish, WeigherWoken
        <5> QED
          BY <1>0, <3>2 DEF WeigherFinish, WeigherWoken, Proceeds, InRead, Threads
      <4>2. ThreadState(w) \in {"reading", "astray"} /\ ThreadState(w)' = "done"
        BY <4>1 DEF ThreadState, InRead
      <4> QED
        BY <4>2 DEF Turns!Proceeds
    <3> QED
      BY <3>1, <3>2 DEF WeigherStep
  <2>4. \A v \in Slots : v # w => weigher'[v] = weigher[v]
    BY <1>0 DEF WeigherStep, WeigherStart, WeigherFinish, WeigherWoken, Proceeds
  <2>5. CASE w = "fObjWeight"
    <3>1. UNCHANGED old
      BY <2>1, <2>2, <2>4, <2>5 DEF ThreadState, InRead, Slots, serial
    <3> QED
      BY <2>2, <2>3, <2>5, <3>1 DEF Turns!Next, Turns!ThreadStep
  <2>6. CASE w = "replaced"
    <3>1. UNCHANGED new
      BY <2>1, <2>2, <2>4, <2>6 DEF ThreadState, InRead, Slots, serial
    <3> QED
      BY <2>2, <2>3, <2>6, <3>1 DEF Turns!Next, Turns!ThreadStep
  <2> QED
    BY <2>5, <2>6 DEF Slots
<1>11. CASE \E w \in Slots : WeigherBlocks(w)
  <2> PICK w \in Slots : WeigherBlocks(w)
    BY <1>11
  <2>1. UNCHANGED <<entered, nextState, evtListener, serial>>
    BY DEF WeigherBlocks, Proceeds, listener, cubeEye
  <2>2. /\ weigher'[w].st = "blocked" /\ weigher'[w].port = weigher[w].port
        /\ weigher[w].st = "reading" /\ \A v \in Slots \ {w} : weigher'[v] = weigher[v]
    BY <1>0 DEF WeigherBlocks, Proceeds, Threads
  <2>3. \A v \in Slots : UNCHANGED ThreadState(v)
    BY <2>1, <2>2 DEF ThreadState, InRead, Listed, serial
  <2> QED
    BY <2>1, <2>3 DEF Turns!vars, Turn, Listed, serial, Slots
<1>12. CASE \/ InitOnEventThrows \/ DetectOnEnterCrashes \/ NoSuchEvent \/ ExitTransition
            \/ Interrupt \/ Joined \/ SensorChange \/ PicturesTaken \/ ServiceCrash
            \/ UNCHANGED vars \/ \E w \in Slots : WeigherCrash(w)
  <2>1. UNCHANGED <<entered, nextState, evtListener, serial, weigher>>
    BY <1>12 DEF InitOnEventThrows, DetectOnEnterCrashes, NoSuchEvent, ExitTransition, Interrupt,
       Joined, SensorChange, PicturesTaken, ServiceCrash, WeigherCrash, ExitProcess, MainSerialList, vars, listener, cubeEye, detection, serial
  <2> QED
    BY <2>1, Unseen
<1> QED
  BY <1>2, <1>3, <1>4, <1>5, <1>6, <1>7, <1>8, <1>9, <1>10, <1>11, <1>12
  DEF Next, MainStep, Ended, WeigherWaits

\* Every step of the state machine is a turn of WeighingTurns or changes nothing of
\* it: a thread for each measurement (DetectEvent.cpp), joined by the next, the
\* port closed under it by ExtractEvent.cpp, whatever _currState held at first.
THEOREM WeighingImplemented == Spec => WeighingSpec
<1>1. TypeInv /\ BeltInv /\ DeviceInv /\ TurnsInv /\ [Next]_vars
        => TurnsInv' /\ [Turns!Next]_(Turns!vars)
  BY TurnsInvStep, TurnsStep
<1> QED
  BY <1>1, DeviceInductive, InitTurnsInv, TurnsInit, PTL DEF Spec, WeighingSpec, Turns!Spec

\* While Balancer.cpp's thread weighs the object of the current measurement, it
\* reads the open port of the list, and no older thread is left.
THEOREM PortIsOwned == Spec => []Turns!PortOwned
  BY WeighingImplemented, Turns!OwnerReads, PTL DEF WeighingSpec
===============================================================================
