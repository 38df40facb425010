---------------------------------- MODULE Lidar --------------------------------
(***************************************************************************)
(* The lidar's objects and its frames together: frames arrive while the    *)
(* camera runs, DETECT reads them while the machine does, and the end of   *)
(* the program may come at any moment of either.  release() waits for the  *)
(* callback that is under way; while the callback thread still has it, the *)
(* context stays.                                                          *)
(***************************************************************************)
EXTENDS LidarFrames, LidarSetup

lidarVars == <<vars, setupVars>>

LidarTypeOK == TypeOK /\ SetupTypeOK

LidarInit == Init /\ SetupInit

\* A new EventListener is empty, and so is one whose camera has been prepared.
EmptyListener ==
  /\ mFrameListQ' = <<>> /\ frameCnt' = 0
  /\ UNCHANGED <<main, round, offered, pauses, callback, arriving, average, dead>>

InitStep ==
  \/ NewAttempt /\ readFlag' = FALSE /\ EmptyListener
  \/ Prepared /\ UNCHANGED readFlag /\ EmptyListener
  \/ InitSucceeds /\ readFlag' = FALSE
     /\ UNCHANGED <<main, round, offered, pauses, frames, mFrameListQ, average, dead>>
  \/ /\ \/ MakeContext \/ TestContext \/ ContextGone \/ AddSink \/ PrepareFailed
        \/ \E p \in Props : PropertyMissing(p) \/ PropertySet(p)
        \/ InitFails
     /\ UNCHANGED vars

MeasureStep ==
  /\ Measured \/ (Measure /\ main = "belt" /\ round > 0)
  /\ UNCHANGED vars

ExitStep ==
  /\ Exit \/ ListenerDestroyed \/ ((ExitReset \/ ContextDestroyed) /\ callback = "idle")
  /\ UNCHANGED vars

FrameStep ==
  /\ camera = "running"
  /\ Callback
  /\ UNCHANGED setupVars

DetectStep ==
  /\ setup = "ready" /\ exit = "none"
  /\ Detect
  /\ UNCHANGED setupVars

LidarNext ==
  /\ ~dead /\ ~crashed /\ exit # "gone"
  /\ InitStep \/ MeasureStep \/ ExitStep \/ FrameStep \/ DetectStep

LidarSpec == LidarInit /\ [][LidarNext]_lidarVars

\* The main thread is scheduled, INIT is not tried for ever; nothing is assumed
\* of the lidar.
FairLidarSpec ==
  /\ LidarSpec
  /\ WF_lidarVars(~dead /\ ~crashed /\ DetectStep /\ (StopRead \/ Drain \/ Average))

-------------------------------------------------------------------------------
(* Properties. *)

\* getRoiFrameData loops until the queue is empty: however fast the frames come,
\* the callback cannot feed it for ever, since the flag has been cleared.
DrainEnds == main = "drain" ~> main = "belt" \/ dead \/ exit # "none"
===============================================================================
