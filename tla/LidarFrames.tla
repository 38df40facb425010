------------------------------ MODULE LidarFrames ------------------------------
(***************************************************************************)
(* The depth frames of one measurement: the lidar's callback thread        *)
(* (onCubeEyeFrameList) puts frames on mFrameListQ while _readFlag is set; *)
(* DETECT sets the flag, waits, clears it and then empties the queue into  *)
(* an average.  No lock is taken on either side, so the callback that has  *)
(* read the flag may push after it was cleared.                            *)
(*                                                                         *)
(* A frame is only the measurement it was delivered in and whether that    *)
(* measurement had been offered more than FILTER_CNT frames by then.       *)
(* _frameCnt counts on in the code; here it stops at FILTER_CNT + 1, which *)
(* the code cannot tell from more.  A pop that meets a push does anything. *)
(* MaxRounds bounds the run; the program has no such bound.                *)
(* A definition marked "a slip" is a plausible wrong version of the next.  *)
(***************************************************************************)
EXTENDS Integers, Sequences

CONSTANTS
  FILTER_CNT,      \* frames dropped at the start of a measurement
  MAX_FRAME_CNT,   \* frames the queue accepts
  MaxRounds        \* measurements of one run

ASSUME FilterCntAssumption == FILTER_CNT \in Nat
ASSUME MaxFrameAssumption == MAX_FRAME_CNT \in Nat \ {0}
ASSUME RoundAssumption == MaxRounds \in Nat

VARIABLES
  main,          \* where DETECT is
  readFlag,      \* _readFlag
  round,         \* history: measurements begun
  offered,       \* history: frames of this measurement, up to FILTER_CNT + 1
  idled,         \* history: a frame has come since the last measurement
  rushed,        \* history: measurements that began without one
  callback,      \* where the callback thread is
  frameCnt,      \* _frameCnt
  arriving,      \* the frame that the callback is about to push
  mFrameListQ,
  stale,         \* history: frames of earlier measurements in this one's average
  unsettled,     \* history: measurements of whose first FILTER_CNT frames it holds one
  dead           \* a data race has crashed the process

pauses  == <<idled, rushed>>
frames  == <<callback, frameCnt, arriving>>
average == <<stale, unsettled>>
vars == <<main, readFlag, round, offered, pauses, frames, mFrameListQ, average, dead>>

Frames  == [round : 0..MaxRounds, settled : BOOLEAN]
NoFrame == [round |-> 0, settled |-> FALSE]
Counted(cnt) == IF cnt > FILTER_CNT THEN cnt ELSE cnt + 1

TypeOK ==
  /\ main \in {"belt", "collect", "drain", "pop"}
  /\ readFlag \in BOOLEAN
  /\ round \in 0..MaxRounds
  /\ offered \in 0..(FILTER_CNT + 1)
  /\ idled \in BOOLEAN
  /\ callback \in {"idle", "off", "on", "push"}
  /\ frameCnt \in 0..(FILTER_CNT + 1)
  /\ arriving \in Frames
  /\ mFrameListQ \in Seq(Frames) /\ Len(mFrameListQ) <= MAX_FRAME_CNT
  /\ stale \in 0..2
  /\ rushed \subseteq 0..MaxRounds /\ unsettled \subseteq 0..MaxRounds
  /\ dead \in BOOLEAN

Init ==
  /\ main = "belt" /\ readFlag = FALSE /\ round = 0 /\ offered = 0
  /\ idled = TRUE /\ rushed = {}
  /\ callback = "idle" /\ frameCnt = 0 /\ arriving = NoFrame
  /\ mFrameListQ = <<>> /\ stale = 0 /\ unsettled = {}
  /\ dead = FALSE

-------------------------------------------------------------------------------
(* onCubeEyeFrameList, on the lidar's thread. *)

NeverRead == TRUE   \* a slip: the callback does not look at the flag
Wanted == readFlag

\* The test of the flag.
FrameArrives ==
  /\ callback = "idle"
  /\ callback' = IF Wanted THEN "on" ELSE "off"
  /\ arriving' = [round |-> round, settled |-> offered >= FILTER_CNT]
  /\ UNCHANGED <<main, readFlag, round, offered, pauses, frameCnt, mFrameListQ, average, dead>>

ResetForgotten == frameCnt   \* a slip: the count goes on from measurement to measurement
ResetCount == 0

FrameDropped ==
  /\ callback = "off"
  /\ frameCnt' = ResetCount
  /\ idled' = TRUE
  /\ callback' = "idle" /\ arriving' = NoFrame
  /\ UNCHANGED <<main, readFlag, round, offered, rushed, mFrameListQ, average, dead>>

TakenFrom(cnt) == cnt >= FILTER_CNT   \* a slip
Settled(cnt)   == cnt > FILTER_CNT

FullLate(size) == size <= MAX_FRAME_CNT   \* a slip
HasRoom(size)  == size < MAX_FRAME_CNT

FrameCounted ==
  /\ callback = "on"
  /\ frameCnt' = Counted(frameCnt)
  /\ offered' = IF arriving.round = round THEN Counted(offered) ELSE offered
  /\ IF Settled(frameCnt') /\ HasRoom(Len(mFrameListQ))
       THEN callback' = "push" /\ UNCHANGED arriving
       ELSE callback' = "idle" /\ arriving' = NoFrame
  /\ UNCHANGED <<main, readFlag, round, pauses, mFrameListQ, average, dead>>

FramePushed ==
  /\ callback = "push"
  /\ \/ mFrameListQ' = Append(mFrameListQ, arriving) /\ UNCHANGED dead
     \/ main = "pop" /\ mFrameListQ' = mFrameListQ /\ UNCHANGED dead
     \/ main = "pop" /\ dead' = TRUE /\ UNCHANGED mFrameListQ
  /\ callback' = "idle" /\ arriving' = NoFrame
  /\ UNCHANGED <<main, readFlag, round, offered, pauses, frameCnt, average>>

-------------------------------------------------------------------------------
(* DETECT, on the main thread. *)

\* onEnter, whether or not a frame came while the belt ran.
StartRead ==
  /\ main = "belt" /\ round < MaxRounds
  /\ readFlag' = TRUE
  /\ round' = round + 1
  /\ rushed' = IF idled THEN rushed ELSE rushed \cup {round'}
  /\ offered' = 0 /\ stale' = 0 /\ unsettled' = {}
  /\ main' = "collect"
  /\ UNCHANGED <<idled, frames, mFrameListQ, dead>>

KeepReading == TRUE   \* a slip: the flag stays set while the queue is emptied
StoppedFlag == FALSE

StopRead ==
  /\ main = "collect"
  /\ readFlag' = StoppedFlag
  /\ idled' = FALSE
  /\ main' = "drain"
  /\ UNCHANGED <<round, offered, rushed, frames, mFrameListQ, average, dead>>

\* getRoiFrameData, to the first time it finds the queue empty.
Drain ==
  /\ main = "drain"
  /\ main' = IF mFrameListQ = <<>> THEN "belt" ELSE "pop"
  /\ UNCHANGED <<readFlag, round, offered, pauses, frames, mFrameListQ, average, dead>>

\* front and pop.  The frames of a lidar are larger than the region that is read.
Average ==
  /\ main = "pop"
  /\ LET frame == Head(mFrameListQ) IN
       /\ stale' = IF frame.round # round /\ stale < 2 THEN stale + 1 ELSE stale
       /\ unsettled' = IF frame.settled THEN unsettled ELSE unsettled \cup {frame.round}
  /\ mFrameListQ' = Tail(mFrameListQ)
  /\ main' = "drain"
  /\ UNCHANGED <<readFlag, round, offered, pauses, frames, dead>>

-------------------------------------------------------------------------------
Callback == FrameArrives \/ FrameDropped \/ FrameCounted \/ FramePushed
Detect   == StartRead \/ StopRead \/ Drain \/ Average

Next == ~dead /\ (Callback \/ Detect)
Spec == Init /\ [][Next]_vars

-------------------------------------------------------------------------------
(* Properties. *)

\* The flag is read and the frame pushed in two steps, but there is one callback
\* thread: whenever it happens, at most one frame of an earlier measurement gets
\* into an average.
AtMostOneStale == stale <= 1

\* The lidar settles in the first FILTER_CNT frames of a measurement: none of them
\* is averaged, in this measurement or the next and in whatever order flag and count
\* are written, unless the measurement had begun without a frame since the one before.
UnsettledDropped == unsettled \subseteq rushed

\* DetectEvent.cpp, "// stop read frame": no frame that was delivered during one
\* measurement is averaged into the next.
FramesFresh == stale = 0
===============================================================================
