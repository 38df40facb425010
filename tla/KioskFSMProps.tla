---------------------------- MODULE KioskFSMProps -----------------------------
(***************************************************************************)
(* What must be true of the state machine of KioskFSM.  The last group     *)
(* states what the repository says of the program and the code does not    *)
(* keep; each is checked by a run that expects TLC to refute it.           *)
(***************************************************************************)
EXTENDS KioskFSM

\* The conveyor stands still from the moment DETECT turns the depth frames on
\* until the measurement ends: a moving object would be measured wrongly.
BeltStandsStill ==
  readFlag \/ main \in {"assign", "weigh"} => relay = "LOW"

\* DetectEvent.cpp: a balance thread is alive while the belt runs only if the
\* measurement was abandoned by one of the two early exits of onEvent, which
\* return without waiting for _fObjWeight.
JoinedBeforeBelt ==
  relay = "HIGH" /\ (\E w \in Slots : Running(w)) => outcome \in Abandoned

\* Descriptors that are open but that no entry of gSerialList leads to.
Leaked == openPorts \ {gSerialList}

\* Balancer.cpp: setup() opens a second port when one is listed, and leaks it.
\* Only a retried INIT gets there: past INIT every setup finds the list empty.
NoLeakAfterInit ==
  [][FreedNodeIntact /\ entered \notin {"NONE", "INIT"} => Leaked' \subseteq Leaked]_vars

\* main.cpp: whichever way the program ends in order, the belt has been stopped.
\* It can die with the belt running only in a balance thread that outlived an
\* abandoned measurement (SerialDriver.cpp's null pointer), or while the capture
\* listener still has pictures to take and send (GpCamera.cpp, SocketHandler.cpp).
BeltOffAtEnd ==
  gpioReady =>
    /\ main \in {"joining", "done", "exited"} => relay = "LOW"
    /\ main = "dead" /\ relay = "HIGH" =>
         pictures \/ (outcome \in Abandoned /\ \E w \in Slots : InRead(w))

\* GpCamera.cpp: _cams holds a camera twice only if INIT reported an error and
\* was tried again (createCameras appends to what the last attempt left).
DuplicateOnlyAfterRetry ==
  (\E c \in Cameras : handles[c] = 2) => errors > 0

\* InitEvent.cpp's setToZero dereferences the list's entry even when there is
\* none, DetectEvent.cpp dereferences the listener and the lidar context: each
\* onEvent finds what it needs, whatever _currState held at the start.
HandlersFindTheirDevices ==
  /\ Handling("INIT") => gSerialList # NoPort
  /\ Handling("DETECT") => evtListener /\ lidar # "none"

\* The state machine implements the belt cycle of KioskCycle.
Phase ==
  IF main \in {"joining", "done", "exited", "dead"} THEN "ended"
  ELSE IF entered = "MOVE"    THEN "move"
  ELSE IF entered = "DETECT"  THEN "detect"
  ELSE IF entered = "EXTRACT" THEN "extract"
  ELSE "boot"

Steady == IF Phase \in {"move", "extract"} THEN irDetectCnt[entered] ELSE 0

Cycle == INSTANCE KioskCycle
           WITH FilterLen <- IR_FILTER_CNT, phase <- Phase, belt <- relay,
                steady <- Steady, sensing <- readFlag

\* Between two measurements the belt has run until the sensor was clear
\* IR_FILTER_CNT times in a row and then blocked as often: no object is
\* measured twice, and none while the belt moves (main.cpp's loop, all onEnter
\* and onEvent).  It needs a first _currState that is no belt state.
CycleSpec == Cycle!Spec

\* The state machine and its balance threads keep to WeighingTurns.  A thread that
\* threw is done: get() finds an exception in the place of a weight.  One that is
\* blocked is reading, and may be for ever.
Listed == gSerialList \in openPorts

Turn ==
  IF ~evtListener \/ entered \in {"NONE", "INIT"} THEN "boot"
  ELSE IF entered # "DETECT"    THEN "away"
  ELSE IF nextState = "DETECT"  THEN "replacing"
  ELSE IF nextState = "EXTRACT" THEN "leaving"
  ELSE "measuring"

ThreadState(w) ==
  CASE weigher[w].st = "threw" -> "done"
    [] InRead(w) -> IF Listed /\ weigher[w].port = gSerialList THEN "reading" ELSE "astray"
    [] OTHER -> weigher[w].st

Turns == INSTANCE WeighingTurns
           WITH turn <- Turn, port <- Listed,
                thread <- ThreadState("fObjWeight"), former <- ThreadState("replaced")

\* DetectEvent.cpp, ExtractEvent.cpp, Balancer.cpp: every measurement has a thread
\* of its own, started before and joined after the one it replaces; the weight is
\* taken from a thread that is done; EXTRACT closes the port under one that is
\* not; and no port is open when the next measurement opens one.
WeighingSpec == Turns!Spec

\* main.cpp: the loop serves DETECT to its end.  Once an object has stopped, it is
\* sent on to EXTRACT, or the program ends, whatever the cameras and the sensor do,
\* unless main waits for ever for a thread that is stuck in SerialDriver.cpp's
\* read(): in the assignment for the old thread, in get() for the new one.
StuckFor(at, w) == main = at /\ weigher[w].st = "blocked"

DetectEnds ==
  \/ <>[]StuckFor("assign", "replaced")
  \/ <>[]StuckFor("weigh", "fObjWeight")
  \/ nextState = "DETECT" ~>
       nextState = "EXTRACT" \/ main \notin {"loop", "assign", "weigh"}

\* MoveEvent.cpp, ExtractEvent.cpp: the filter cannot starve.  With a beam that
\* stays blocked MOVE is left for good, with one that stays clear EXTRACT is.
BeltPhaseEnds ==
  /\ <>[](ir = "ENABLE")  => <>[](Phase # "move")
  /\ <>[](ir = "DISABLE") => <>[](Phase # "extract")

-------------------------------------------------------------------------------
(* Said by the repository, not kept by the code. *)

\* KioskInterface.cpp logs "Error try again..." for the state that failed: what
\* is tried after an error is that state, or nothing any more.
ErrorTriesAgain ==
  [][errCnt' > errCnt => nextState' \in {entered', "EXIT"}]_vars

\* KioskInterface.cpp marks the limit of five errors as the program's exit: the
\* machine never meets its ERR_LIMIT-th failure and carries on in INIT.
GivesUpAtLimit ==
  errors = ERR_LIMIT /\ entered = "INIT" => nextState = "EXIT" \/ main # "loop"
===============================================================================
