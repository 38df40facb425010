------------------------------- MODULE LidarProofs -----------------------------
(***************************************************************************)
(* Safety of the lidar for every filter and queue length, every number of  *)
(* measurements and attempts, and every set of properties.                 *)
(***************************************************************************)
EXTENDS Lidar, TLAPS

FlagTypes ==
  readFlag \in BOOLEAN /\ idled \in BOOLEAN /\ dead \in BOOLEAN

DataTypes ==
  /\ main \in {"belt", "collect", "drain", "pop"}
  /\ round \in 0..MaxRounds
  /\ offered \in 0..(FILTER_CNT + 1)
  /\ callback \in {"idle", "off", "on", "push"}
  /\ frameCnt \in 0..(FILTER_CNT + 1)
  /\ arriving \in Frames
  /\ mFrameListQ \in Seq(Frames) /\ Len(mFrameListQ) <= MAX_FRAME_CNT
  /\ stale \in 0..2
  /\ rushed \subseteq 0..MaxRounds /\ unsettled \subseteq 0..MaxRounds

FlagInv == readFlag = (main = "collect")

Pending == callback \in {"on", "push"}

\* What bounds the stale frames: the flag is set exactly while frames are
\* collected, and there is one callback.  A frame that is under way from an earlier
\* measurement meets an empty queue, so that it is the only one and the first.
StaleInv ==
  /\ Pending /\ arriving.round # round => Len(mFrameListQ) = 0 /\ stale = 0
  /\ main = "pop" => mFrameListQ # <<>>
  /\ callback = "push" => Len(mFrameListQ) < MAX_FRAME_CNT
  /\ main = "belt" => Len(mFrameListQ) = 0 \/ (Len(mFrameListQ) = 1 /\ ~Pending)
  /\ main # "belt" => \A i \in 2..Len(mFrameListQ) : mFrameListQ[i].round = round
  /\ main # "belt" /\ stale = 1 =>
       \A i \in 1..Len(mFrameListQ) : mFrameListQ[i].round = round
  /\ stale <= 1

\* What keeps the first frames out: a frame that was dropped after a measurement has
\* reset the count, and none is under way; after that the code's count is never ahead
\* of the number of frames that the current measurement was offered.
Excused(frame) == frame.settled = TRUE \/ frame.round \in rushed

SettledInv ==
  /\ main # "collect" /\ idled = TRUE => ~Pending /\ frameCnt = 0
  /\ \A r \in rushed : r <= round
  /\ round \notin rushed => frameCnt <= offered
  /\ round \notin rushed /\ Pending => arriving.round = round
  /\ callback = "on" => Excused(arriving) \/ frameCnt < FILTER_CNT
  /\ callback = "push" => Excused(arriving)
  /\ \A i \in 1..Len(mFrameListQ) : Excused(mFrameListQ[i])
  /\ unsettled \subseteq rushed

SetupFlags == cancelled \in BOOLEAN /\ dangling \in BOOLEAN /\ crashed \in BOOLEAN

SetupData ==
  /\ setup \in {"idle", "search", "test", "prepare", "preparing", "props", "failed", "ready",
                "measure"}
  /\ attempt \in Attempts
  /\ evtListener \in Attempts /\ context \in Attempts /\ sink \in Attempts
  /\ camera \in {"none", "created", "prepared", "running"}
  /\ registered \subseteq Attempts
  /\ todo \subseteq Props /\ refused \subseteq Props
  /\ props \in [Props -> {"missing", "other", "typed", "misread", "default"}]
  /\ exit \in {"none", "handling", "reset", "listenerGone", "gone"}

\* Which listener, context and sink there can be at each point of INIT and of the
\* end of the program.
ObjectsInv ==
  /\ evtListener = IF exit \in {"listenerGone", "gone"} THEN 0 ELSE attempt
  /\ context <= attempt /\ sink <= attempt /\ \A l \in registered : l <= attempt
  /\ setup \in {"prepare", "preparing", "props", "ready", "measure"} /\ exit = "none" => context # 0
  /\ setup \in {"preparing", "props", "ready", "measure"} => sink = attempt
  /\ camera = "running" => setup \in {"ready", "measure"}

\* A thread uses the lidar while the program ends only if SIGINT came then.
ExitInv ==
  /\ exit = "none" => cancelled = FALSE
  /\ exit # "none" /\ cancelled = FALSE => setup \in {"idle", "ready"}
  /\ exit \in {"reset", "listenerGone", "gone"} /\ cancelled = FALSE => context = 0

AtDefault(p) == props[p] = "default" \/ (p \in MisreadProps /\ props[p] = "misread")

PropsInv ==
  /\ setup = "props" => \A p \in (Props \ todo) \ refused : AtDefault(p)
  /\ setup \in {"ready", "measure"} => \A p \in Props \ refused : AtDefault(p)

OutcomeInv == DeletedObjectsUnused

\* Frames come, and are read, only after INIT.
LinkInv ==
  /\ main # "belt" => setup = "ready"
  /\ callback # "idle" => setup \in {"ready", "measure"}

FramesInv == FlagTypes /\ DataTypes /\ FlagInv /\ StaleInv /\ SettledInv
SetupInv  == SetupFlags /\ SetupData /\ ObjectsInv /\ ExitInv /\ PropsInv /\ OutcomeInv
IInv == FramesInv /\ SetupInv /\ LinkInv

-------------------------------------------------------------------------------
(* The frames. *)

LEMMA FrameTypes ==
  /\ NoFrame \in Frames
  /\ \A frame \in Frames : frame.round \in 0..MaxRounds /\ frame.settled \in BOOLEAN
  /\ \A cnt \in 0..(FILTER_CNT + 1) : Counted(cnt) \in 0..(FILTER_CNT + 1)
  BY FilterCntAssumption, RoundAssumption DEF NoFrame, Frames, Counted

LEMMA TypeParts == TypeOK <=> FlagTypes /\ DataTypes
  BY DEF TypeOK, FlagTypes, DataTypes

LEMMA FramesInit == Init => FramesInv
<1> SUFFICES ASSUME Init PROVE FramesInv
  OBVIOUS
<1> USE FilterCntAssumption, MaxFrameAssumption, RoundAssumption, FrameTypes
<1>1. FlagTypes
  BY Zenon DEF Init, FlagTypes
<1>2. DataTypes
  BY DEF Init, DataTypes
<1>3. FlagInv
  BY Zenon DEF Init, FlagInv
<1>4. StaleInv
  BY DEF Init, StaleInv, Pending
<1>5. SettledInv
  BY DEF Init, SettledInv, Pending
<1> QED
  BY <1>1, <1>2, <1>3, <1>4, <1>5 DEF FramesInv

LEMMA FrameArrivesInv == FramesInv /\ FrameArrives => FramesInv'
<1> SUFFICES ASSUME FramesInv, FrameArrives PROVE FramesInv'
  OBVIOUS
<1> USE FilterCntAssumption DEF FramesInv, FrameArrives, pauses, average
<1>1. FlagTypes' /\ FlagInv'
  BY Zenon DEF FlagTypes, FlagInv
<1>2. round \in 0..MaxRounds /\ (offered >= FILTER_CNT) \in BOOLEAN
  BY DEF DataTypes
<1>3. arriving' \in Frames /\ arriving'.round = round
      /\ (offered >= FILTER_CNT => arriving'.settled = TRUE)
  BY <1>2 DEF Frames
<1>4. DataTypes'
  BY <1>3 DEF DataTypes
<1>5. Wanted => main = "collect"
  BY Zenon DEF Wanted, FlagInv
<1>6. StaleInv'
  BY <1>3, <1>5 DEF StaleInv, Pending
<1>7. Excused(arriving)' \/ frameCnt < FILTER_CNT
  BY <1>3 DEF SettledInv, Excused, DataTypes
<1>8. SettledInv'
  BY <1>3, <1>5, <1>7 DEF SettledInv, Excused, Pending
<1> QED
  BY <1>1, <1>4, <1>6, <1>8

LEMMA FrameDroppedInv == FramesInv /\ FrameDropped => FramesInv'
<1> SUFFICES ASSUME FramesInv, FrameDropped PROVE FramesInv'
  OBVIOUS
<1> USE FilterCntAssumption, FrameTypes DEF FramesInv, FrameDropped, ResetCount, average
<1>1. FlagTypes' /\ FlagInv'
  BY Zenon DEF FlagTypes, FlagInv
<1>2. DataTypes'
  BY DEF DataTypes
<1>3. StaleInv'
  BY DEF StaleInv, Pending
<1>4. SettledInv'
  BY DEF SettledInv, DataTypes, Excused, Pending
<1> QED
  BY <1>1, <1>2, <1>3, <1>4

LEMMA FrameCountedInv == FramesInv /\ FrameCounted => FramesInv'
<1> SUFFICES ASSUME FramesInv, FrameCounted PROVE FramesInv'
  OBVIOUS
<1> USE FilterCntAssumption, FrameTypes DEF FramesInv, FrameCounted, pauses, average
<1>1. FlagTypes' /\ FlagInv'
  BY Zenon DEF FlagTypes, FlagInv
<1>2. DataTypes'
  BY DEF DataTypes
<1>3. StaleInv'
  BY DEF StaleInv, Pending, HasRoom
<1>4. /\ frameCnt' = Counted(frameCnt)
      /\ offered' = IF arriving.round = round THEN Counted(offered) ELSE offered
  OBVIOUS
<1>5. round \notin rushed => frameCnt' <= offered'
  BY <1>4 DEF DataTypes, SettledInv, Pending, Counted
<1>6. callback' = "push" => Excused(arriving)'
  BY <1>4 DEF DataTypes, SettledInv, Excused, Counted, Settled, pauses
<1>7. SettledInv'
  BY <1>5, <1>6 DEF SettledInv, Excused, Pending, pauses
<1> QED
  BY <1>1, <1>2, <1>3, <1>7

LEMMA FramePushedInv == FramesInv /\ FramePushed => FramesInv'
<1> SUFFICES ASSUME FramesInv, FramePushed PROVE FramesInv'
  OBVIOUS
<1> USE FilterCntAssumption, MaxFrameAssumption, FrameTypes DEF FramesInv, pauses, average
<1>1. FlagTypes' /\ FlagInv'
  BY Zenon DEF FramePushed, FlagTypes, FlagInv
<1>2. /\ callback = "push" /\ callback' = "idle" /\ arriving' = NoFrame
      /\ UNCHANGED <<main, round, offered, frameCnt, stale, idled, rushed, unsettled>>
      /\ mFrameListQ' \in {mFrameListQ, Append(mFrameListQ, arriving)}
  BY Zenon DEF FramePushed
<1>3. /\ arriving \in Frames /\ Excused(arriving)
      /\ arriving.round = round \/ (Len(mFrameListQ) = 0 /\ stale = 0)
  BY <1>2 DEF DataTypes, StaleInv, SettledInv, Pending
<1>4. mFrameListQ \in Seq(Frames) /\ Len(mFrameListQ) < MAX_FRAME_CNT
  BY <1>2 DEF DataTypes, StaleInv
<1>5. CASE mFrameListQ' = mFrameListQ
  <2>1. DataTypes'
    BY <1>2, <1>5 DEF DataTypes
  <2>2. StaleInv'
    BY <1>2, <1>5 DEF StaleInv, Pending
  <2>3. SettledInv'
    BY <1>2, <1>5 DEF SettledInv, Excused, Pending
  <2> QED
    BY <1>1, <2>1, <2>2, <2>3
<1>6. CASE mFrameListQ' = Append(mFrameListQ, arriving)
  <2>1. /\ Len(mFrameListQ') = Len(mFrameListQ) + 1
        /\ \A i \in 1..Len(mFrameListQ) : mFrameListQ'[i] = mFrameListQ[i]
        /\ mFrameListQ'[Len(mFrameListQ) + 1] = arriving
        /\ mFrameListQ' \in Seq(Frames)
    BY <1>3, <1>4, <1>6
  <2>2. DataTypes'
    BY <1>2, <1>4, <2>1 DEF DataTypes
  <2>3. \A i \in 1..Len(mFrameListQ') :
          i = Len(mFrameListQ) + 1 \/ i \in 1..Len(mFrameListQ)
    BY <1>4, <2>1
  <2>4. main # "belt" => \A i \in 2..Len(mFrameListQ') : mFrameListQ'[i].round = round
    <3> SUFFICES ASSUME main # "belt", NEW i \in 2..Len(mFrameListQ')
                 PROVE mFrameListQ'[i].round = round
      OBVIOUS
    <3>1. i = Len(mFrameListQ) + 1 \/ i \in 2..Len(mFrameListQ)
      BY <1>4, <2>1
    <3>2. CASE i = Len(mFrameListQ) + 1
      BY <1>3, <1>4, <2>1, <3>2
    <3>3. CASE i \in 2..Len(mFrameListQ)
      <4>1. mFrameListQ[i].round = round
        BY <3>3 DEF StaleInv
      <4>2. mFrameListQ'[i] = mFrameListQ[i]
        BY <1>4, <2>1, <3>3
      <4> QED
        BY <4>1, <4>2
    <3> QED
      BY <3>1, <3>2, <3>3
  <2>5. main # "belt" /\ stale = 1 =>
          \A i \in 1..Len(mFrameListQ') : mFrameListQ'[i].round = round
    <3> SUFFICES ASSUME main # "belt", stale = 1, NEW i \in 1..Len(mFrameListQ')
                 PROVE  mFrameListQ'[i].round = round
      OBVIOUS
    <3>1. arriving.round = round
      BY <1>3
    <3> QED
      BY <2>1, <2>3, <3>1 DEF StaleInv
  <2>6. StaleInv'
    BY <1>2, <1>4, <2>1, <2>4, <2>5 DEF StaleInv, Pending
  <2>7. \A i \in 1..Len(mFrameListQ') : Excused(mFrameListQ'[i])
    BY <1>3, <2>1, <2>3 DEF SettledInv
  <2>8. SettledInv'
    BY <1>2, <2>7 DEF SettledInv, Excused, Pending
  <2> QED
    BY <1>1, <2>2, <2>6, <2>8
<1> QED
  BY <1>2, <1>5, <1>6

LEMMA StartReadInv == FramesInv /\ StartRead => FramesInv'
<1> SUFFICES ASSUME FramesInv, StartRead PROVE FramesInv'
  OBVIOUS
<1> USE FilterCntAssumption, RoundAssumption DEF FramesInv
<1>1. FlagTypes' /\ FlagInv'
  BY Zenon DEF StartRead, FlagTypes, FlagInv
<1>2. /\ main = "belt" /\ main' = "collect" /\ round < MaxRounds /\ round' = round + 1
      /\ offered' = 0 /\ stale' = 0 /\ unsettled' = {}
      /\ UNCHANGED <<callback, frameCnt, arriving, mFrameListQ>>
  BY DEF StartRead, frames
<1>3. rushed' = (IF idled = TRUE THEN rushed ELSE rushed \cup {round + 1})
  BY Zenon, <1>2 DEF StartRead, FlagTypes
<1>4. round \in 0..MaxRounds /\ round + 1 \in 0..MaxRounds
  BY <1>2 DEF DataTypes
<1>5. mFrameListQ \in Seq(Frames) /\ (Len(mFrameListQ) = 0 \/ Len(mFrameListQ) = 1)
  BY Zenon, <1>2 DEF StaleInv, DataTypes
<1>6. DataTypes'
  BY <1>2, <1>3, <1>4 DEF DataTypes
<1>7. \A i \in 2..Len(mFrameListQ') : FALSE
  <2>1. mFrameListQ' = mFrameListQ
    BY Zenon, <1>2
  <2>2. CASE Len(mFrameListQ) = 0
    BY <2>1, <2>2
  <2>3. CASE Len(mFrameListQ) = 1
    BY <2>1, <2>3
  <2> QED
    BY Zenon, <1>5, <2>2, <2>3
<1>8. Pending => Len(mFrameListQ) = 0
  BY <1>2 DEF StaleInv
<1>9. callback' = "push" => Len(mFrameListQ') < MAX_FRAME_CNT
  BY <1>2 DEF StaleInv
<1>10. StaleInv'
  BY <1>2, <1>7, <1>8, <1>9 DEF StaleInv, Pending
<1>11. round' \notin rushed' => idled = TRUE /\ ~Pending /\ frameCnt = 0
  BY <1>2, <1>3 DEF SettledInv
<1>12. \A r \in rushed' : r <= round'
  BY <1>2, <1>3, <1>4 DEF SettledInv, DataTypes
<1>13. \A frame : Excused(frame) => frame.settled = TRUE \/ frame.round \in rushed'
  BY <1>3 DEF Excused
<1>14. SettledInv'
  BY <1>2, <1>11, <1>12, <1>13 DEF SettledInv, Excused, Pending
<1> QED
  BY <1>1, <1>6, <1>10, <1>14

LEMMA StopReadInv == FramesInv /\ StopRead => FramesInv'
<1> SUFFICES ASSUME FramesInv, StopRead PROVE FramesInv'
  OBVIOUS
<1> USE DEF FramesInv
<1>1. FlagTypes' /\ FlagInv'
  BY Zenon DEF StopRead, StoppedFlag, FlagTypes, FlagInv
<1>2. idled' = FALSE
  BY Zenon DEF StopRead
<1>3. /\ main = "collect" /\ main' = "drain"
      /\ UNCHANGED <<round, offered, rushed, callback, frameCnt, arriving, mFrameListQ, stale, unsettled>>
  BY DEF StopRead, frames, average
<1>4. DataTypes'
  BY <1>3 DEF DataTypes
<1>5. StaleInv'
  BY <1>3 DEF StaleInv, Pending
<1>6. SettledInv'
  BY <1>2, <1>3 DEF SettledInv, Excused, Pending
<1> QED
  BY <1>1, <1>4, <1>5, <1>6

LEMMA DrainInv == FramesInv /\ Drain => FramesInv'
<1> SUFFICES ASSUME FramesInv, Drain PROVE FramesInv'
  OBVIOUS
<1> USE DEF FramesInv
<1>1. FlagTypes' /\ FlagInv'
  BY Zenon DEF Drain, pauses, FlagTypes, FlagInv
<1>2. /\ main = "drain" /\ main' = IF mFrameListQ = <<>> THEN "belt" ELSE "pop"
      /\ UNCHANGED <<round, offered, idled, rushed, callback, frameCnt, arriving, mFrameListQ>>
      /\ UNCHANGED <<stale, unsettled>>
  BY DEF Drain, frames, average, pauses
<1>3. DataTypes'
  BY <1>2 DEF DataTypes
<1>4. StaleInv'
  BY <1>2 DEF StaleInv, Pending
<1>5. SettledInv'
  BY <1>2 DEF SettledInv, Excused, Pending
<1> QED
  BY <1>1, <1>3, <1>4, <1>5

LEMMA AverageInv == FramesInv /\ Average => FramesInv'
<1> SUFFICES ASSUME FramesInv, Average PROVE FramesInv'
  OBVIOUS
<1> USE MaxFrameAssumption DEF FramesInv
<1>1. /\ main = "pop" /\ main' = "drain" /\ mFrameListQ' = Tail(mFrameListQ)
      /\ UNCHANGED <<round, offered, idled, rushed, callback, frameCnt, arriving>>
      /\ stale' = IF Head(mFrameListQ).round # round /\ stale < 2 THEN stale + 1 ELSE stale
  BY DEF Average, frames, pauses
<1>2. /\ Len(mFrameListQ') = Len(mFrameListQ) - 1
      /\ \A i \in 1..Len(mFrameListQ') : mFrameListQ'[i] = mFrameListQ[i + 1]
      /\ mFrameListQ' \in Seq(Frames)
      /\ Head(mFrameListQ) = mFrameListQ[1] /\ mFrameListQ[1] \in Frames
      /\ Len(mFrameListQ) \in Nat \ {0}
  BY <1>1 DEF DataTypes, StaleInv
<1>3. Excused(mFrameListQ[1]) /\ mFrameListQ[1].settled \in BOOLEAN
  BY <1>2, FrameTypes DEF SettledInv
<1>4. FlagTypes' /\ FlagInv'
  BY Zenon DEF Average, pauses, FlagTypes, FlagInv
<1>5. /\ \A i \in 1..Len(mFrameListQ') : mFrameListQ'[i].round = round
      /\ stale' \in {0, 1}
  BY <1>1, <1>2 DEF StaleInv, DataTypes
<1>6. unsettled' \in {unsettled, unsettled \cup {mFrameListQ[1].round}}
  BY Zenon, <1>2 DEF Average
<1>7. unsettled' \subseteq rushed
  <2>1. CASE mFrameListQ[1].settled = TRUE
    <3>1. unsettled' = unsettled
      BY Zenon, <1>2, <2>1 DEF Average
    <3> QED
      BY <3>1 DEF SettledInv
  <2>2. CASE mFrameListQ[1].settled # TRUE
    BY <1>3, <1>6, <2>2 DEF SettledInv, Excused
  <2> QED
    BY <2>1, <2>2
<1>8. DataTypes'
  BY <1>1, <1>2, <1>5, <1>7 DEF DataTypes
<1>9. StaleInv'
  BY <1>1, <1>2, <1>5 DEF StaleInv, Pending
<1>10. SettledInv'
  BY <1>1, <1>2, <1>7 DEF SettledInv, Excused, Pending
<1> QED
  BY <1>4, <1>8, <1>9, <1>10

LEMMA EmptyListenerInv ==
  FramesInv /\ main = "belt" /\ callback = "idle" /\ EmptyListener /\ readFlag' = FALSE
    => FramesInv'
<1> SUFFICES ASSUME FramesInv, main = "belt", callback = "idle", EmptyListener,
                    readFlag' = FALSE
             PROVE FramesInv'
  OBVIOUS
<1> USE FilterCntAssumption, MaxFrameAssumption DEF FramesInv
<1>1. FlagTypes' /\ FlagInv'
  BY Zenon DEF EmptyListener, pauses, FlagTypes, FlagInv
<1>2. /\ mFrameListQ' = <<>> /\ frameCnt' = 0
      /\ UNCHANGED <<main, round, offered, idled, rushed, callback, arriving, stale, unsettled>>
  BY DEF EmptyListener, average, pauses
<1>3. DataTypes'
  BY <1>2 DEF DataTypes
<1>4. StaleInv'
  BY <1>2 DEF StaleInv, Pending
<1>5. SettledInv'
  BY <1>2 DEF SettledInv, DataTypes, Excused, Pending
<1> QED
  BY <1>1, <1>3, <1>4, <1>5

LEMMA FramesSame == FramesInv /\ UNCHANGED vars => FramesInv'
<1> SUFFICES ASSUME FramesInv, UNCHANGED vars PROVE FramesInv'
  OBVIOUS
<1>1. FlagTypes' /\ FlagInv'
  BY Zenon DEF vars, pauses, frames, average, FramesInv, FlagTypes, FlagInv
<1>2. DataTypes' /\ StaleInv' /\ SettledInv'
  BY DEF vars, pauses, frames, average, FramesInv, DataTypes, StaleInv, SettledInv, Excused,
         Pending
<1> QED
  BY <1>1, <1>2 DEF FramesInv

-------------------------------------------------------------------------------
(* The objects and the properties. *)

SetupStep ==
  \/ NewAttempt \/ MakeContext \/ TestContext \/ ContextGone \/ AddSink \/ Prepared
  \/ PrepareFailed
  \/ \E p \in Props : PropertyMissing(p)
  \/ \E p \in Props : PropertySet(p)
  \/ InitSucceeds \/ InitFails \/ Measure \/ Measured
  \/ Exit \/ ExitReset \/ ListenerDestroyed \/ ContextDestroyed

LEMMA SetupTypeParts == SetupTypeOK <=> SetupFlags /\ SetupData
  BY DEF SetupTypeOK, SetupFlags, SetupData

LEMMA SetupInitInv == SetupInit => SetupInv
<1> SUFFICES ASSUME SetupInit PROVE SetupInv
  OBVIOUS
<1>1. SetupFlags
  BY Zenon DEF SetupInit, SetupFlags
<1>2. SetupData /\ ObjectsInv
  BY AttemptAssumption DEF SetupInit, SetupData, ObjectsInv, Attempts
<1>3. ExitInv /\ PropsInv
  BY DEF SetupInit, ExitInv, PropsInv
<1>4. OutcomeInv
  BY Zenon DEF SetupInit, OutcomeInv, DeletedObjectsUnused, DanglingOnlyAfterRetry, CrashOnlyOnCancel
<1> QED
  BY <1>1, <1>2, <1>3, <1>4 DEF SetupInv

LEMMA SetupFlagsStep == SetupInv /\ SetupStep => SetupFlags'
<1> SUFFICES ASSUME SetupInv, SetupStep PROVE SetupFlags'
  OBVIOUS
<1> USE DEF SetupInv, SetupFlags, objects, settings, outcome
<1>1. CASE NewAttempt
  BY Zenon, <1>1 DEF NewAttempt
<1>2. CASE MakeContext
  BY Zenon, <1>2 DEF MakeContext, Released
<1>3. CASE TestContext
  BY Zenon, <1>3 DEF TestContext, NoContext
<1>4. CASE ContextGone
  BY Zenon, <1>4 DEF ContextGone
<1>5. CASE AddSink
  BY Zenon, <1>5 DEF AddSink, NewSink
<1>6. CASE Prepared
  BY Zenon, <1>6 DEF Prepared, Deleted
<1>7. CASE PrepareFailed
  BY Zenon, <1>7 DEF PrepareFailed
<1>8. CASE \E p \in Props : PropertyMissing(p)
  BY Zenon, <1>8 DEF PropertyMissing
<1>9. CASE \E p \in Props : PropertySet(p)
  BY Zenon, <1>9 DEF PropertySet, Made
<1>10. CASE InitSucceeds
  BY Zenon, <1>10 DEF InitSucceeds
<1>11. CASE InitFails
  BY Zenon, <1>11 DEF InitFails
<1>12. CASE Measure
  BY Zenon, <1>12 DEF Measure
<1>13. CASE Measured
  BY Zenon, <1>13 DEF Measured
<1>14. CASE Exit
  BY Zenon, <1>14 DEF Exit
<1>15. CASE ExitReset
  BY Zenon, <1>15 DEF ExitReset, Released, ContextReset
<1>16. CASE ListenerDestroyed
  BY Zenon, <1>16 DEF ListenerDestroyed
<1>17. CASE ContextDestroyed
  BY Zenon, <1>17 DEF ContextDestroyed, Released
<1> QED
  BY <1>1, <1>2, <1>3, <1>4, <1>5, <1>6, <1>7, <1>8, <1>9, <1>10, <1>11, <1>12, <1>13, <1>14, <1>15, <1>16, <1>17 DEF SetupStep

LEMMA SetupDataStep == SetupInv /\ SetupStep => SetupData'
<1> SUFFICES ASSUME SetupInv, SetupStep PROVE SetupData'
  OBVIOUS
<1> USE AttemptAssumption DEF SetupInv, SetupData, Attempts, objects, settings, outcome
<1>1. CASE NewAttempt
  BY <1>1 DEF NewAttempt
<1>2. CASE MakeContext
  BY <1>2 DEF MakeContext, Released
<1>3. CASE TestContext
  BY <1>3 DEF TestContext, NoContext
<1>4. CASE ContextGone
  BY <1>4 DEF ContextGone
<1>5. CASE AddSink
  BY <1>5 DEF AddSink, NewSink
<1>6. CASE Prepared
  BY <1>6 DEF Prepared, Deleted
<1>7. CASE PrepareFailed
  BY <1>7 DEF PrepareFailed
<1>8. CASE \E p \in Props : PropertyMissing(p)
  BY <1>8 DEF PropertyMissing
<1>9. CASE \E p \in Props : PropertySet(p)
  BY <1>9 DEF PropertySet, Made
<1>10. CASE InitSucceeds
  BY <1>10 DEF InitSucceeds
<1>11. CASE InitFails
  BY <1>11 DEF InitFails
<1>12. CASE Measure
  BY <1>12 DEF Measure
<1>13. CASE Measured
  BY <1>13 DEF Measured
<1>14. CASE Exit
  BY <1>14 DEF Exit
<1>15. CASE ExitReset
  BY <1>15 DEF ExitReset, Released, ContextReset
<1>16. CASE ListenerDestroyed
  BY <1>16 DEF ListenerDestroyed
<1>17. CASE ContextDestroyed
  BY <1>17 DEF ContextDestroyed, Released
<1> QED
  BY <1>1, <1>2, <1>3, <1>4, <1>5, <1>6, <1>7, <1>8, <1>9, <1>10, <1>11, <1>12, <1>13, <1>14, <1>15, <1>16, <1>17 DEF SetupStep

LEMMA ObjectsStep == SetupInv /\ SetupStep => ObjectsInv'
<1> SUFFICES ASSUME SetupInv, SetupStep PROVE ObjectsInv'
  OBVIOUS
<1> USE AttemptAssumption DEF SetupInv, SetupData, Attempts, ObjectsInv, objects, settings, outcome
<1>1. CASE NewAttempt
  BY <1>1 DEF NewAttempt
<1>2. CASE MakeContext
  BY <1>2 DEF MakeContext, Released
<1>3. CASE TestContext
  BY <1>3 DEF TestContext, NoContext
<1>4. CASE ContextGone
  BY <1>4 DEF ContextGone
<1>5. CASE AddSink
  BY <1>5 DEF AddSink, NewSink
<1>6. CASE Prepared
  BY <1>6 DEF Prepared, Deleted
<1>7. CASE PrepareFailed
  BY <1>7 DEF PrepareFailed
<1>8. CASE \E p \in Props : PropertyMissing(p)
  BY <1>8 DEF PropertyMissing
<1>9. CASE \E p \in Props : PropertySet(p)
  BY <1>9 DEF PropertySet, Made
<1>10. CASE InitSucceeds
  BY <1>10 DEF InitSucceeds
<1>11. CASE InitFails
  BY <1>11 DEF InitFails
<1>12. CASE Measure
  BY <1>12 DEF Measure
<1>13. CASE Measured
  BY <1>13 DEF Measured
<1>14. CASE Exit
  BY <1>14 DEF Exit
<1>15. CASE ExitReset
  BY <1>15 DEF ExitReset, Released, ContextReset
<1>16. CASE ListenerDestroyed
  BY <1>16 DEF ListenerDestroyed
<1>17. CASE ContextDestroyed
  BY <1>17 DEF ContextDestroyed, Released
<1> QED
  BY <1>1, <1>2, <1>3, <1>4, <1>5, <1>6, <1>7, <1>8, <1>9, <1>10, <1>11, <1>12, <1>13, <1>14, <1>15, <1>16, <1>17 DEF SetupStep

LEMMA ExitStepInv == SetupInv /\ SetupStep => ExitInv'
<1> SUFFICES ASSUME SetupInv, SetupStep PROVE ExitInv'
  OBVIOUS
<1> USE DEF SetupInv, ExitInv, objects, settings, outcome
<1>1. CASE NewAttempt
  BY <1>1 DEF NewAttempt
<1>2. CASE MakeContext
  BY <1>2 DEF MakeContext, Released
<1>3. CASE TestContext
  BY <1>3 DEF TestContext, NoContext
<1>4. CASE ContextGone
  BY <1>4 DEF ContextGone
<1>5. CASE AddSink
  BY <1>5 DEF AddSink, NewSink
<1>6. CASE Prepared
  BY <1>6 DEF Prepared, Deleted
<1>7. CASE PrepareFailed
  BY <1>7 DEF PrepareFailed
<1>8. CASE \E p \in Props : PropertyMissing(p)
  BY <1>8 DEF PropertyMissing
<1>9. CASE \E p \in Props : PropertySet(p)
  BY <1>9 DEF PropertySet, Made
<1>10. CASE InitSucceeds
  BY <1>10 DEF InitSucceeds
<1>11. CASE InitFails
  BY <1>11 DEF InitFails
<1>12. CASE Measure
  BY <1>12 DEF Measure
<1>13. CASE Measured
  BY <1>13 DEF Measured
<1>14. CASE Exit
  BY <1>14 DEF Exit
<1>15. CASE ExitReset
  BY <1>15 DEF ExitReset, Released, ContextReset
<1>16. CASE ListenerDestroyed
  BY <1>16 DEF ListenerDestroyed
<1>17. CASE ContextDestroyed
  BY <1>17 DEF ContextDestroyed, Released
<1> QED
  BY <1>1, <1>2, <1>3, <1>4, <1>5, <1>6, <1>7, <1>8, <1>9, <1>10, <1>11, <1>12, <1>13, <1>14, <1>15, <1>16, <1>17 DEF SetupStep

LEMMA PropsStep == SetupInv /\ SetupStep => PropsInv'
<1> SUFFICES ASSUME SetupInv, SetupStep PROVE PropsInv'
  OBVIOUS
<1> USE DEF SetupInv, SetupData, PropsInv, AtDefault, objects, settings, outcome
<1>1. CASE NewAttempt
  BY <1>1 DEF NewAttempt
<1>2. CASE MakeContext
  BY <1>2 DEF MakeContext, Released
<1>3. CASE TestContext
  BY <1>3 DEF TestContext, NoContext
<1>4. CASE ContextGone
  BY <1>4 DEF ContextGone
<1>5. CASE AddSink
  BY <1>5 DEF AddSink, NewSink
<1>6. CASE Prepared
  BY <1>6 DEF Prepared, Deleted
<1>7. CASE PrepareFailed
  BY <1>7 DEF PrepareFailed
<1>8. CASE \E p \in Props : PropertyMissing(p)
  BY <1>8 DEF PropertyMissing
<1>9. CASE \E p \in Props : PropertySet(p)
  BY <1>9 DEF PropertySet, Differs, Made
<1>10. CASE InitSucceeds
  BY <1>10 DEF InitSucceeds
<1>11. CASE InitFails
  BY <1>11 DEF InitFails
<1>12. CASE Measure
  BY <1>12 DEF Measure
<1>13. CASE Measured
  BY <1>13 DEF Measured
<1>14. CASE Exit
  BY <1>14 DEF Exit
<1>15. CASE ExitReset
  BY <1>15 DEF ExitReset, Released, ContextReset
<1>16. CASE ListenerDestroyed
  BY <1>16 DEF ListenerDestroyed
<1>17. CASE ContextDestroyed
  BY <1>17 DEF ContextDestroyed, Released
<1> QED
  BY <1>1, <1>2, <1>3, <1>4, <1>5, <1>6, <1>7, <1>8, <1>9, <1>10, <1>11, <1>12, <1>13, <1>14, <1>15, <1>16, <1>17 DEF SetupStep

\* A camera that is released has a sink that was deleted only after a retry.
LEMMA LateRelease ==
  SetupInv /\ context # 0 /\ Deleted(sink) => attempt > 1 \/ cancelled = TRUE
<1> SUFFICES ASSUME SetupInv, context # 0, Deleted(sink), cancelled = FALSE PROVE attempt > 1
  BY Zenon DEF SetupInv, SetupFlags
<1>1. exit \in {"none", "handling"}
  BY DEF SetupInv, SetupData, ExitInv
<1>2. evtListener = attempt
  BY <1>1 DEF SetupInv, ObjectsInv
<1> QED
  BY <1>2, AttemptAssumption DEF SetupInv, SetupData, ObjectsInv, Attempts, Deleted

\* So does a camera that is prepared.
LEMMA LatePrepared ==
  SetupInv /\ setup = "preparing" /\ (\E l \in registered : Deleted(l))
    => attempt > 1 \/ cancelled = TRUE
<1> SUFFICES ASSUME SetupInv, setup = "preparing", NEW l \in registered, Deleted(l),
                    cancelled = FALSE
             PROVE attempt > 1
  BY Zenon DEF SetupInv, SetupFlags
<1>1. exit = "none"
  BY DEF SetupInv, ExitInv
<1>2. evtListener = attempt
  BY <1>1 DEF SetupInv, ObjectsInv
<1> QED
  BY <1>2, AttemptAssumption DEF SetupInv, SetupData, ObjectsInv, Attempts, Deleted

LEMMA DanglingStep == SetupInv /\ SetupStep => DanglingOnlyAfterRetry'
<1> SUFFICES ASSUME SetupInv, SetupStep, dangling' PROVE attempt' > 1 \/ cancelled'
  BY DEF DanglingOnlyAfterRetry
<1> USE DEF SetupInv, OutcomeInv, DeletedObjectsUnused, DanglingOnlyAfterRetry, objects, settings, outcome
<1>1. CASE NewAttempt
  <2>1. cancelled = FALSE /\ dangling
    BY Zenon, <1>1 DEF NewAttempt, ExitInv
  <2>2. attempt > 1
    BY Zenon, <2>1
  <2>3. attempt' = attempt + 1 /\ attempt \in Nat
    BY <1>1, AttemptAssumption DEF NewAttempt, SetupData, Attempts
  <2> QED
    BY <2>2, <2>3
<1>2. CASE MakeContext
  BY Zenon, <1>2, LateRelease DEF MakeContext, Released
<1>3. CASE Prepared
  BY Zenon, <1>3, LatePrepared DEF Prepared
<1>4. CASE Exit
  <2>1. cancelled = FALSE /\ dangling /\ attempt' = attempt
    BY Zenon, <1>4 DEF Exit, ExitInv
  <2> QED
    BY Zenon, <2>1
<1>5. CASE ExitReset
  BY Zenon, <1>5, LateRelease DEF ExitReset, Released
<1>6. CASE ContextDestroyed
  BY Zenon, <1>6, LateRelease DEF ContextDestroyed, Released
<1>7. CASE TestContext \/ ContextGone \/ AddSink \/ PrepareFailed \/ ListenerDestroyed
  BY Zenon, <1>7 DEF TestContext, ContextGone, AddSink, PrepareFailed, ListenerDestroyed
<1>8. CASE InitSucceeds \/ InitFails \/ Measure \/ Measured
  BY Zenon, <1>8 DEF InitSucceeds, InitFails, Measure, Measured
<1>9. CASE \E p \in Props : PropertyMissing(p) \/ PropertySet(p)
  <2>1. UNCHANGED <<attempt, cancelled, dangling>>
    BY <1>9 DEF PropertyMissing, PropertySet
  <2> QED
    BY Zenon, <2>1
<1> QED
  BY Zenon, <1>1, <1>2, <1>3, <1>4, <1>5, <1>6, <1>7, <1>8, <1>9 DEF SetupStep

LEMMA CrashStep == SetupInv /\ SetupStep /\ ~crashed => CrashOnlyOnCancel'
<1> SUFFICES ASSUME SetupInv, SetupStep, ~crashed, crashed'
             PROVE cancelled' \/ \E p \in todo' : props'[p] = "missing"
  BY DEF CrashOnlyOnCancel
<1> USE DEF objects, settings, outcome
<1>1. CASE ContextGone
  <2>1. exit # "none"
    BY <1>1 DEF ContextGone, SetupInv, ObjectsInv
  <2>2. cancelled # FALSE
    BY <1>1, <2>1 DEF ContextGone, SetupInv, ExitInv
  <2> QED
    BY Zenon, <1>1, <2>2 DEF ContextGone, SetupInv, SetupFlags
<1>2. CASE \E p \in Props : PropertyMissing(p)
  BY Zenon, <1>2 DEF PropertyMissing
<1>3. CASE ~ContextGone /\ ~\E p \in Props : PropertyMissing(p)
  BY Zenon, <1>3 DEF SetupStep, NewAttempt, MakeContext, TestContext, AddSink, Prepared,
     PrepareFailed, PropertySet, InitSucceeds, InitFails, Measure, Measured, Exit, ExitReset,
     ListenerDestroyed, ContextDestroyed
<1> QED
  BY <1>1, <1>2, <1>3

LEMMA SetupStepInv == SetupInv /\ SetupStep /\ ~crashed => SetupInv'
  BY SetupFlagsStep, SetupDataStep, ObjectsStep, ExitStepInv, PropsStep, DanglingStep, CrashStep
  DEF SetupInv, OutcomeInv, DeletedObjectsUnused

LEMMA SetupSame == SetupInv /\ UNCHANGED setupVars => SetupInv'
<1> SUFFICES ASSUME SetupInv, UNCHANGED setupVars PROVE SetupInv'
  OBVIOUS
<1> USE DEF SetupInv, setupVars, objects, settings, outcome
<1>1. SetupFlags' /\ OutcomeInv'
  BY Zenon DEF SetupFlags, OutcomeInv, DeletedObjectsUnused, DanglingOnlyAfterRetry, CrashOnlyOnCancel
<1>2. SetupData' /\ ObjectsInv' /\ ExitInv' /\ PropsInv'
  BY DEF SetupData, ObjectsInv, ExitInv, PropsInv, AtDefault
<1> QED
  BY <1>1, <1>2

-------------------------------------------------------------------------------
(* The lidar. *)

LEMMA InitStepInv == IInv /\ InitStep /\ ~crashed => IInv'
<1> SUFFICES ASSUME IInv, InitStep, ~crashed PROVE IInv'
  OBVIOUS
<1> USE DEF IInv
<1>1. SetupInv'
  <2>1. SetupStep
    BY Zenon DEF InitStep, SetupStep
  <2> QED
    BY <2>1, SetupStepInv
<1>2. CASE NewAttempt /\ readFlag' = FALSE /\ EmptyListener
  <2>1. main = "belt" /\ callback = "idle"
    BY <1>2 DEF NewAttempt, LinkInv
  <2>2. FramesInv'
    BY <1>2, <2>1, EmptyListenerInv
  <2>3. LinkInv'
    BY <1>2, <2>1 DEF EmptyListener, LinkInv
  <2> QED
    BY <1>1, <2>2, <2>3
<1>3. CASE Prepared /\ UNCHANGED readFlag /\ EmptyListener
  <2>1. main = "belt" /\ callback = "idle"
    BY <1>3 DEF Prepared, LinkInv
  <2>2. readFlag' = FALSE
    BY Zenon, <1>3, <2>1 DEF FramesInv, FlagInv
  <2>3. FramesInv'
    BY <1>3, <2>1, <2>2, EmptyListenerInv
  <2>4. LinkInv'
    BY <1>3, <2>1 DEF EmptyListener, LinkInv
  <2> QED
    BY <1>1, <2>3, <2>4
<1>4. CASE InitSucceeds /\ readFlag' = FALSE
           /\ UNCHANGED <<main, round, offered, pauses, frames, mFrameListQ, average, dead>>
  <2>1. main = "belt" /\ callback = "idle"
    BY <1>4 DEF InitSucceeds, LinkInv
  <2>2. readFlag = FALSE
    BY Zenon, <2>1 DEF FramesInv, FlagInv
  <2>3. UNCHANGED vars
    BY Zenon, <1>4, <2>2 DEF vars
  <2>4. FramesInv'
    BY <2>3, FramesSame
  <2>5. LinkInv'
    BY <2>1, <2>3 DEF LinkInv, vars, frames
  <2> QED
    BY <1>1, <2>4, <2>5
<1>5. CASE /\ \/ MakeContext \/ TestContext \/ ContextGone \/ AddSink \/ PrepareFailed
              \/ \E p \in Props : PropertyMissing(p) \/ PropertySet(p)
              \/ InitFails
           /\ UNCHANGED vars
  <2>1. setup \notin {"ready", "measure"} \/ setup' = setup
    BY <1>5 DEF MakeContext, TestContext, ContextGone, AddSink, PrepareFailed, PropertyMissing,
                PropertySet, InitFails
  <2>2. LinkInv'
    BY <1>5, <2>1 DEF LinkInv, vars, frames
  <2> QED
    BY <1>1, <1>5, <2>2, FramesSame
<1> QED
  BY Zenon, <1>2, <1>3, <1>4, <1>5 DEF InitStep

LEMMA MeasureStepInv == IInv /\ MeasureStep /\ ~crashed => IInv'
<1> SUFFICES ASSUME IInv, MeasureStep, ~crashed PROVE IInv'
  OBVIOUS
<1>1. SetupInv' /\ FramesInv'
  <2>1. SetupStep /\ UNCHANGED vars
    BY Zenon DEF MeasureStep, SetupStep
  <2> QED
    BY <2>1, SetupStepInv, FramesSame DEF IInv
<1>2. LinkInv'
  BY DEF IInv, LinkInv, MeasureStep, Measure, Measured, vars, frames, average
<1> QED
  BY <1>1, <1>2 DEF IInv

LEMMA ExitStepsInv == IInv /\ ExitStep /\ ~crashed => IInv'
<1> SUFFICES ASSUME IInv, ExitStep, ~crashed PROVE IInv'
  OBVIOUS
<1>1. SetupInv' /\ FramesInv'
  <2>1. SetupStep /\ UNCHANGED vars
    BY Zenon DEF ExitStep, SetupStep
  <2> QED
    BY <2>1, SetupStepInv, FramesSame DEF IInv
<1>2. LinkInv'
  BY DEF IInv, LinkInv, ExitStep, Exit, ListenerDestroyed, ExitReset, ContextDestroyed,
         vars, frames
<1> QED
  BY <1>1, <1>2 DEF IInv

LEMMA FrameStepInv == IInv /\ FrameStep => IInv'
<1> SUFFICES ASSUME IInv, FrameStep PROVE IInv'
  OBVIOUS
<1>1. SetupInv'
  BY SetupSame DEF IInv, FrameStep
<1>2. FramesInv'
  BY FrameArrivesInv, FrameDroppedInv, FrameCountedInv, FramePushedInv
  DEF IInv, FrameStep, Callback
<1>3. setup \in {"ready", "measure"}
  BY DEF FrameStep, IInv, SetupInv, ObjectsInv
<1>4. setup' = setup
  BY DEF FrameStep, setupVars
<1>5. main' = main
  BY Zenon DEF FrameStep, Callback, FrameArrives, FrameDropped, FrameCounted, FramePushed
<1>6. LinkInv'
  BY <1>3, <1>4, <1>5 DEF IInv, LinkInv
<1> QED
  BY <1>1, <1>2, <1>6 DEF IInv

LEMMA DetectStepInv == IInv /\ DetectStep => IInv'
<1> SUFFICES ASSUME IInv, DetectStep PROVE IInv'
  OBVIOUS
<1>1. SetupInv'
  BY SetupSame DEF IInv, DetectStep
<1>2. FramesInv'
  BY StartReadInv, StopReadInv, DrainInv, AverageInv DEF IInv, DetectStep, Detect
<1>3. setup = "ready" /\ setup' = setup
  BY DEF DetectStep, setupVars
<1>4. LinkInv'
  BY <1>3 DEF LinkInv
<1> QED
  BY <1>1, <1>2, <1>4 DEF IInv

LEMMA Invariant == LidarSpec => []IInv
<1>1. LidarInit => IInv
  BY FramesInit, SetupInitInv DEF LidarInit, IInv, LinkInv, Init
<1>2. IInv /\ [LidarNext]_lidarVars => IInv'
  <2> SUFFICES ASSUME IInv, [LidarNext]_lidarVars PROVE IInv'
    OBVIOUS
  <2>1. CASE LidarNext
    BY <2>1, InitStepInv, MeasureStepInv, ExitStepsInv, FrameStepInv, DetectStepInv
    DEF LidarNext
  <2>2. CASE UNCHANGED lidarVars
    <3>1. UNCHANGED vars /\ UNCHANGED setupVars
      BY Zenon, <2>2 DEF lidarVars
    <3>2. LinkInv'
      BY <3>1 DEF IInv, LinkInv, vars, frames, setupVars
    <3> QED
      BY <3>1, <3>2, FramesSame, SetupSame DEF IInv
  <2> QED
    BY <2>1, <2>2
<1> QED
  BY <1>1, <1>2, PTL DEF LidarSpec

-------------------------------------------------------------------------------
(* Theorems. *)

\* Both halves keep their types: above all, a queue that the callback thread
\* tests and fills in two steps never holds more than MAX_FRAME_CNT frames.
THEOREM TypeCorrect == LidarSpec => []LidarTypeOK
<1>1. IInv => LidarTypeOK
  BY TypeParts, SetupTypeParts DEF IInv, FramesInv, SetupInv, LidarTypeOK
<1> QED
  BY <1>1, Invariant, PTL

\* onCubeEyeFrameList tests the flag and pushes in two steps without a lock: an
\* average holds at most one frame of an earlier measurement, for every length
\* of the queue and of the filter.
THEOREM AtMostOneStaleFrame == LidarSpec => []AtMostOneStale
<1>1. IInv => AtMostOneStale
  BY DEF IInv, FramesInv, StaleInv, AtMostOneStale
<1> QED
  BY <1>1, Invariant, PTL

\* ... and none of the first FILTER_CNT frames of a measurement, be it this one or
\* an earlier one, that began after a frame since the measurement before it.
THEOREM NoUnsettledFrame == LidarSpec => []UnsettledDropped
<1>1. IInv => UnsettledDropped
  BY DEF IInv, FramesInv, SettledInv, UnsettledDropped
<1> QED
  BY <1>1, Invariant, PTL

\* However many attempts INIT took, the camera that runs calls the listener that
\* DETECT reads.
THEOREM CameraIsHeard == LidarSpec => []FramesHeard
<1>1. IInv => FramesHeard
  BY DEF IInv, SetupInv, ObjectsInv, FramesHeard
<1> QED
  BY <1>1, Invariant, PTL

\* A listener that an attempt of INIT or exit has deleted is called only after a
\* retry or after SIGINT; a context or a camera that an attempt left null is used
\* only after SIGINT or with a camera that does not know a property.
THEOREM ObjectsOutliveUse == LidarSpec => []DeletedObjectsUnused
<1>1. IInv => DeletedObjectsUnused
  BY Zenon DEF IInv, SetupInv, OutcomeInv
<1> QED
  BY <1>1, Invariant, PTL

\* Objects are measured with the default properties, whichever of them a camera
\* of an earlier attempt had or refused.
THEOREM DefaultsInForce == LidarSpec => []DefaultsHold
<1>1. IInv => DefaultsHold
  BY DEF IInv, SetupInv, PropsInv, AtDefault, DefaultsHold
<1> QED
  BY <1>1, Invariant, PTL
===============================================================================
