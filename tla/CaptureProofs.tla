------------------------------ MODULE CaptureProofs ----------------------------
(***************************************************************************)
(* Safety of the capture service for every number of cameras, of requests  *)
(* and of places in the queue, and whatever _asyncStop holds.              *)
(***************************************************************************)
EXTENDS CaptureService, TLAPS

FlagTypes == notified \in BOOLEAN /\ dead \in BOOLEAN

DataTypes ==
  /\ listener \in {"lock", "test", "block", "waiting", "take", "capture", "send",
                   "ended", "threw"}
  /\ picture \in 0..MaxRequests
  /\ mEventQ \in Seq(0..MaxRequests)
  /\ contextMutex \in Callers \cup {"free", "listener"}
  /\ pc \in [Callers -> {"idle", "begun", "pushing", "notify", "unlock", "returned", "gone"}]
  /\ made \in 0..MaxRequests
  /\ fate \in [Pictures -> {"none", "accepted", "refused", "failed", "sent", "saved", "lost"}]

\* Every caller that is pushing still has a place: the main thread is only in
\* one of its two calls, so that at most two callers push at once.
Push(c) == IF pc[c] = "pushing" THEN 1 ELSE 0

RoomInv ==
  /\ Len(mEventQ) + Push("detect") + Push("exit") + Push("sigint") <= MAX_Q_SIZE + 1
  /\ pc["exit"] # "idle" => made = 0 /\ pc["detect"] = "idle"

\* The listener keeps the mutex from its test to the end of a picture; meanwhile
\* nobody notifies, so that a push after the test is still to be notified when
\* the listener sleeps.
SleepInv ==
  /\ contextMutex = "listener" <=> listener \in {"test", "block", "take", "capture", "send"}
  /\ listener = "take" => mEventQ # <<>>
  /\ mEventQ # <<>> /\ (listener = "block" \/ (listener = "waiting" /\ notified = FALSE))
       => \E c \in Callers : pc[c] = "notify"

\* The pictures in the queue were accepted, one after the other, and wait behind the
\* one being taken and before the one being pushed, whatever SIGINT's request does.
Queued(n) == \E i \in 1..Len(mEventQ) : mEventQ[i] = n
Busy      == listener \in {"capture", "send"}

OrderInv ==
  /\ \A n \in Pictures : n > made <=> fate[n] = "none"
  /\ pc["detect"] = "pushing" => made # 0 /\ fate[made] = "accepted"
  /\ \A i \in 1..Len(mEventQ) :
       mEventQ[i] # EXIT =>
         /\ fate[mEventQ[i]] = "accepted" /\ mEventQ[i] <= made
         /\ pc["detect"] = "pushing" => mEventQ[i] < made
         /\ Busy => picture < mEventQ[i]
  /\ \A i, j \in 1..Len(mEventQ) :
       i < j /\ mEventQ[i] # EXIT /\ mEventQ[j] # EXIT => mEventQ[i] < mEventQ[j]
  /\ Busy => /\ picture # EXIT /\ fate[picture] = "accepted" /\ picture <= made
             /\ pc["detect"] = "pushing" => picture < made

\* While SIGINT has not come, an accepted picture is somewhere.
KeptInv ==
  pc["sigint"] = "idle" =>
    \A n \in Pictures :
      fate[n] = "accepted" =>
        \/ listener \in {"ended", "threw"} \/ Queued(n)
        \/ (Busy /\ n = picture)
        \/ (pc["detect"] = "pushing" /\ n = made)

IInv == FlagTypes /\ DataTypes /\ RoomInv /\ SleepInv /\ OrderInv /\ KeptInv

-------------------------------------------------------------------------------
LEMMA InitInv == Init => IInv
<1> SUFFICES ASSUME Init PROVE IInv
  OBVIOUS
<1> USE QueueAssumption, RequestAssumption
<1>1. FlagTypes
  BY Zenon DEF Init, FlagTypes
<1>2. DataTypes
  BY DEF Init, DataTypes, EXIT, Callers
<1>3. RoomInv
  BY DEF Init, RoomInv, Push, Callers
<1>4. SleepInv
  BY DEF Init, SleepInv
<1>5. OrderInv /\ KeptInv
  BY DEF Init, OrderInv, KeptInv, Busy, EXIT, Callers, Pictures
<1> QED
  BY <1>1, <1>2, <1>3, <1>4, <1>5 DEF IInv

-------------------------------------------------------------------------------
(* requestCapture. *)

LEMMA BeginRoundInv ==
  ASSUME IInv, BeginRound PROVE IInv'
<1> USE DEF IInv
<1>1. FlagTypes'
  BY Zenon DEF BeginRound, sync, FlagTypes
<1>2. /\ UNCHANGED <<listener, picture, mEventQ, contextMutex, notified, made, fate>>
      /\ pc["detect"] = "idle" /\ pc["exit"] = "idle"
      /\ pc' = [pc EXCEPT !["detect"] = "begun"]
  BY DEF BeginRound, sync
<1>3. /\ pc'["detect"] = "begun" /\ pc'["exit"] = "idle"
      /\ \A c \in Callers : c # "detect" => pc'[c] = pc[c]
  BY <1>2 DEF DataTypes, Callers
<1>4. DataTypes'
  BY <1>2 DEF DataTypes
<1>5. RoomInv'
  BY <1>2, <1>3 DEF RoomInv, Push, Callers
<1>6. SleepInv'
  <2>1. \A c \in Callers : pc[c] = "notify" => pc'[c] = "notify"
    BY <1>2, <1>3
  <2> QED
    BY <1>2, <2>1 DEF SleepInv
<1>7. OrderInv' /\ KeptInv'
  BY <1>2, <1>3 DEF OrderInv, KeptInv, Queued, Busy, Callers
<1> QED
  BY <1>1, <1>4, <1>5, <1>6, <1>7

LEMMA BeginPushInv ==
  ASSUME NEW c \in Callers, IInv, BeginPush(c) PROVE IInv'
<1> USE QueueAssumption, RequestAssumption DEF IInv
<1>1. FlagTypes'
  BY Zenon DEF BeginPush, sync, FlagTypes
<1>2. /\ pc[c] \in {"idle", "begun"} /\ MayRequest(c)
      /\ made' = IF c = "detect" THEN made + 1 ELSE made
      /\ UNCHANGED <<listener, picture, mEventQ, contextMutex, notified>>
  BY DEF BeginPush, MayRequest, Callers, sync
<1>a. c = "detect" => made < MaxRequests /\ pc["exit"] = "idle"
  BY <1>2 DEF MayRequest
<1>b. c = "exit" => made = 0 /\ pc["detect"] = "idle"
  BY <1>2 DEF MayRequest
<1>3. /\ made \in 0..MaxRequests /\ made' \in 0..MaxRequests
      /\ c = "detect" => made' \in Pictures
  BY <1>2, <1>a DEF DataTypes, Pictures
<1>4. \/ /\ HasRoom(Len(mEventQ)) /\ pc' = [pc EXCEPT ![c] = "pushing"]
         /\ fate' = IF c = "detect" THEN [fate EXCEPT ![made'] = "accepted"] ELSE fate
      \/ /\ pc' = [pc EXCEPT ![c] = Returned(c)]
         /\ fate' = IF c = "detect" THEN [fate EXCEPT ![made'] = "refused"] ELSE fate
  BY Zenon DEF BeginPush, Judged
<1>5. DataTypes'
  BY <1>2, <1>3, <1>4 DEF DataTypes, Returned
<1>6. RoomInv'
  <2>1. Len(mEventQ) \in Nat /\ \A d \in Callers : d # c => pc'[d] = pc[d]
    BY <1>4 DEF DataTypes
  <2>2. /\ pc'["exit"] # "idle" => made' = 0 /\ pc'["detect"] = "idle"
        /\ pc["detect"] = "pushing" => pc["exit"] # "pushing"
    BY <1>2, <1>a, <1>b, <2>1 DEF RoomInv, Callers
  <2>3. CASE HasRoom(Len(mEventQ)) /\ pc' = [pc EXCEPT ![c] = "pushing"]
    <3>1. pc'[c] = "pushing" /\ Len(mEventQ') <= MAX_Q_SIZE - 1 /\ Len(mEventQ') \in Nat
      BY <1>2, <2>1, <2>3 DEF DataTypes, HasRoom
    <3>2. \A d \in Callers : Push(d)' \in {0, 1}
      BY DEF Push
    <3>3. Push("detect")' = 0 \/ Push("exit")' = 0
      BY <2>2 DEF Push
    <3> QED
      BY <2>2, <3>1, <3>2, <3>3 DEF RoomInv, Callers
  <2>4. CASE pc' = [pc EXCEPT ![c] = Returned(c)]
    BY <1>2, <2>1, <2>2, <2>4 DEF RoomInv, DataTypes, Push, Callers, Returned
  <2> QED
    BY <1>4, <2>3, <2>4
<1>7. SleepInv'
  BY <1>2, <1>4 DEF SleepInv, DataTypes, Returned
<1>8. \A d \in Callers : d # c => pc'[d] = pc[d]
  BY <1>4 DEF DataTypes
<1>9. CASE c # "detect"
  <2>1. pc'["detect"] = pc["detect"] /\ fate' = fate /\ made' = made
    BY <1>2, <1>4, <1>8, <1>9 DEF Callers
  <2>2. OrderInv'
    BY <1>2, <2>1 DEF OrderInv, Busy
  <2>3. pc'["sigint"] = "idle" => pc["sigint"] = "idle"
    BY <1>4, <1>8, <1>9 DEF DataTypes, Callers, Returned
  <2>4. KeptInv'
    BY <1>2, <2>1, <2>3 DEF KeptInv, Queued, Busy
  <2> QED
    BY <1>1, <1>5, <1>6, <1>7, <2>2, <2>4
<1>10. CASE c = "detect"
  <2>1. /\ made' = made + 1 /\ fate[made'] = "none"
        /\ \A n \in Pictures : n # made' => fate'[n] = fate[n]
        /\ fate'[made'] \in {"accepted", "refused"}
        /\ pc'["detect"] = "pushing" => fate'[made'] = "accepted"
        /\ pc'["detect"] # "pushing" => fate'[made'] = "refused"
    BY <1>2, <1>3, <1>4, <1>10 DEF DataTypes, OrderInv, Returned
  <2>2. \A i \in 1..Len(mEventQ) : mEventQ[i] \in 0..MaxRequests
    BY DEF DataTypes
  <2>3. OrderInv'
    BY SMTT(30), <1>2, <1>3, <2>1, <2>2 DEF DataTypes, OrderInv, Busy, EXIT, Pictures
  <2>4. pc'["sigint"] = pc["sigint"] /\ pc["detect"] # "pushing"
    BY <1>2, <1>8, <1>10 DEF Callers
  <2>5. KeptInv'
    BY <1>2, <1>3, <2>1, <2>4 DEF KeptInv, Queued, Busy
  <2> QED
    BY <1>1, <1>5, <1>6, <1>7, <2>3, <2>5
<1> QED
  BY <1>9, <1>10

LEMMA EndPushInv ==
  ASSUME NEW c \in Callers, IInv, EndPush(c) PROVE IInv'
<1> USE QueueAssumption, RequestAssumption DEF IInv
<1>1. FlagTypes'
  BY Zenon DEF EndPush, sync, FlagTypes
<1>2. /\ pc[c] = "pushing"
      /\ UNCHANGED <<listener, picture, contextMutex, notified, made, fate>>
      /\ \/ /\ mEventQ' = Append(mEventQ, Request(c)) \/ (mEventQ' = mEventQ /\ Pushing # {c})
            /\ pc' = [pc EXCEPT ![c] = "notify"]
         \/ mEventQ' = mEventQ /\ pc' = pc
  BY Zenon DEF EndPush, sync
<1>3. Request(c) \in 0..MaxRequests /\ mEventQ \in Seq(0..MaxRequests)
  BY DEF Request, EXIT, DataTypes
<1>4. /\ mEventQ' \in Seq(0..MaxRequests) /\ Len(mEventQ) \in Nat
      /\ \/ mEventQ' = mEventQ
         \/ /\ Len(mEventQ') = Len(mEventQ) + 1 /\ mEventQ'[Len(mEventQ) + 1] = Request(c)
            /\ \A i \in 1..Len(mEventQ) : mEventQ'[i] = mEventQ[i]
  <2>1. CASE mEventQ' = mEventQ
    BY <1>3, <2>1
  <2>2. CASE mEventQ' = Append(mEventQ, Request(c))
    BY <1>3, <2>2
  <2> QED
    BY Zenon, <1>2, <2>1, <2>2
<1>5. DataTypes'
  BY <1>2, <1>4 DEF DataTypes
<1>6. RoomInv'
  <2>1. CASE mEventQ' = mEventQ /\ pc' = pc
    BY <1>2, <2>1 DEF RoomInv, Push
  <2>2. CASE pc' = [pc EXCEPT ![c] = "notify"] /\ Len(mEventQ') <= Len(mEventQ) + 1
    <3>1. Len(mEventQ') \in Nat /\ pc'[c] = "notify" /\ \A d \in Callers : d # c => pc'[d] = pc[d]
      BY <1>4, <2>2 DEF DataTypes
    <3>2. pc'["exit"] # "idle" => made' = 0 /\ pc'["detect"] = "idle"
      BY <1>2, <3>1 DEF RoomInv, Callers
    <3> QED
      <4>1. Push(c) = 1 /\ Push(c)' = 0 /\ \A d \in Callers : d # c => Push(d)' = Push(d)
        BY <1>2, <3>1 DEF Push
      <4>2. \A d \in Callers : Push(d) \in {0, 1}
        BY DEF Push
      <4>3. Push("detect")' + Push("exit")' + Push("sigint")' + 1
              = Push("detect") + Push("exit") + Push("sigint")
        BY <4>1, <4>2 DEF Callers
      <4>4. Push("detect")' \in {0, 1} /\ Push("exit")' \in {0, 1} /\ Push("sigint")' \in {0, 1}
        BY <4>1, <4>2 DEF Callers
      <4>5. Push("detect") \in {0, 1} /\ Push("exit") \in {0, 1} /\ Push("sigint") \in {0, 1}
        BY <4>2 DEF Callers
      <4>6. Len(mEventQ) + Push("detect") + Push("exit") + Push("sigint") <= MAX_Q_SIZE + 1
        BY DEF RoomInv
      <4>7. Len(mEventQ') + Push("detect")' + Push("exit")' + Push("sigint")' <= MAX_Q_SIZE + 1
        <5> DEFINE more == Push("detect") + Push("exit") + Push("sigint")
                   less == Push("detect")' + Push("exit")' + Push("sigint")'
        <5>1. more \in Int /\ less \in Int /\ less + 1 = more
          BY <4>3, <4>4, <4>5
        <5>2. /\ Len(mEventQ) \in Int /\ Len(mEventQ') \in Int
              /\ Len(mEventQ') <= Len(mEventQ) + 1
          BY <1>4, <2>2, <3>1
        <5>3. Len(mEventQ) + more <= MAX_Q_SIZE + 1
          BY <4>5, <4>6, <5>2
        <5>4. Len(mEventQ') + less <= MAX_Q_SIZE + 1
          <6> HIDE DEF more, less
          <6> QED
            BY <5>1, <5>2, <5>3
        <5> QED
          BY <4>4, <5>2, <5>4
      <4> QED
        BY <3>2, <4>7 DEF RoomInv
  <2> QED
    BY <1>2, <1>4, <2>1, <2>2
<1>7. SleepInv'
  BY <1>2, <1>4 DEF SleepInv, DataTypes
<1>8. CASE mEventQ' = mEventQ /\ pc' = pc
  <2>1. OrderInv' /\ KeptInv'
    BY <1>2, <1>8 DEF OrderInv, KeptInv, Queued, Busy
  <2> QED
    BY <1>1, <1>5, <1>6, <1>7, <2>1
<1>9. CASE pc' = [pc EXCEPT ![c] = "notify"]
  <2>1. /\ pc'[c] = "notify" /\ \A d \in Callers : d # c => pc'[d] = pc[d]
        /\ pc'["detect"] = "pushing" => pc["detect"] = "pushing" /\ c # "detect"
        /\ pc'["sigint"] = "idle" => pc["sigint"] = "idle" /\ c # "sigint"
    BY <1>9 DEF DataTypes, Callers
  <2>2. \A i \in 1..Len(mEventQ') : i \in 1..Len(mEventQ) \/ i = Len(mEventQ) + 1
    BY <1>4
  <2>3. CASE mEventQ' = mEventQ
    <3>1. OrderInv'
      BY <1>2, <2>1, <2>3 DEF OrderInv, Busy
    <3>2. KeptInv'
      <4> SUFFICES ASSUME pc'["sigint"] = "idle" PROVE KeptInv'
        BY DEF KeptInv
      <4>1. mEventQ' = Append(mEventQ, Request(c)) \/ Pushing # {c}
        BY <1>2, <1>9, <2>1
      <4>2. mEventQ' # Append(mEventQ, Request(c))
        BY <1>3, <2>3
      <4>3. pc["detect"] = "pushing" /\ pc["exit"] = "pushing"
        BY <1>2, <2>1, <4>1, <4>2 DEF Pushing, Callers
      <4> QED
        BY <4>3 DEF RoomInv
    <3> QED
      BY <1>1, <1>5, <1>6, <1>7, <3>1, <3>2
  <2>4. CASE mEventQ' # mEventQ
    <3>1. /\ Len(mEventQ') = Len(mEventQ) + 1 /\ mEventQ'[Len(mEventQ) + 1] = Request(c)
          /\ \A i \in 1..Len(mEventQ) : mEventQ'[i] = mEventQ[i]
      BY <1>4, <2>4
    <3>2. Request(c) # EXIT => /\ c = "detect" /\ Request(c) = made /\ made # 0
                               /\ fate[made] = "accepted" /\ pc["detect"] = "pushing"
                               /\ pc'["detect"] = "notify"
      BY <1>2, <2>1 DEF Request, OrderInv, EXIT
    <3>3. \A i \in 1..Len(mEventQ') :
            mEventQ'[i] # EXIT =>
              /\ fate[mEventQ'[i]] = "accepted" /\ mEventQ'[i] <= made
              /\ pc'["detect"] = "pushing" => mEventQ'[i] < made
              /\ Busy => picture < mEventQ'[i]
      BY <2>1, <2>2, <3>1, <3>2 DEF OrderInv, DataTypes
    <3>4. \A i, j \in 1..Len(mEventQ') :
            i < j /\ mEventQ'[i] # EXIT /\ mEventQ'[j] # EXIT => mEventQ'[i] < mEventQ'[j]
      <4> SUFFICES ASSUME NEW i \in 1..Len(mEventQ'), NEW j \in 1..Len(mEventQ'), i < j,
                          mEventQ'[i] # EXIT, mEventQ'[j] # EXIT
                   PROVE  mEventQ'[i] < mEventQ'[j]
        OBVIOUS
      <4>1. i \in 1..Len(mEventQ) /\ mEventQ'[i] = mEventQ[i]
        BY <1>4, <3>1
      <4>2. CASE j \in 1..Len(mEventQ)
        BY <3>1, <4>1, <4>2 DEF OrderInv
      <4>3. CASE j = Len(mEventQ) + 1
        BY <3>1, <3>2, <4>1, <4>3 DEF OrderInv
      <4> QED
        BY <2>2, <4>2, <4>3
    <3>5. OrderInv'
      BY <1>2, <2>1, <3>3, <3>4 DEF OrderInv, Busy
    <3>6. \A n : Queued(n) => Queued(n)'
      BY <1>4, <3>1 DEF Queued
    <3>7. c = "detect" => Queued(made)'
      BY <1>2, <1>4, <3>1 DEF Queued, Request
    <3>8. KeptInv'
      BY <1>2, <2>1, <3>6, <3>7 DEF KeptInv, Busy, Callers
    <3> QED
      BY <1>1, <1>5, <1>6, <1>7, <3>5, <3>8
  <2> QED
    BY <2>3, <2>4
<1> QED
  BY <1>2, <1>8, <1>9

\* The steps of a request after its push, and the handler's exit(0).
LEMMA RequestEndInv ==
  ASSUME IInv, (\E c \in Callers : Notify(c) \/ Unlock(c)) \/ Exit PROVE IInv'
<1> USE DEF IInv
<1>1. FlagTypes'
  BY Zenon DEF Notify, Unlock, Exit, sync, FlagTypes
<1>2. PICK c \in Callers :
        /\ pc[c] \in {"notify", "unlock", "returned"}
        /\ pc' = [pc EXCEPT ![c] = "unlock"] \/ pc' = [pc EXCEPT ![c] = Returned(c)]
           \/ (pc' = [pc EXCEPT ![c] = "gone"] /\ c = "sigint")
  BY DEF Notify, Unlock, Exit, Callers
<1>3. UNCHANGED <<listener, picture, mEventQ, made, fate>>
  BY DEF Notify, Unlock, Exit, sync
<1>4. contextMutex' \in Callers \cup {"free", "listener"}
  BY DEF Notify, Unlock, Exit, sync, DataTypes
<1>5. DataTypes'
  BY <1>2, <1>3, <1>4 DEF DataTypes, Returned
<1>6. /\ \A d \in Callers : pc[d] = "pushing" <=> pc'[d] = "pushing"
      /\ pc["detect"] = "idle" => pc'["detect"] = "idle"
      /\ pc["exit"] = "idle" => pc'["exit"] = "idle"
      /\ pc'["sigint"] = "idle" => pc["sigint"] = "idle"
  BY <1>2 DEF DataTypes, Returned, Callers
<1>7. RoomInv'
  <2>1. \A d \in Callers : Push(d)' = Push(d)
    BY <1>6 DEF Push
  <2>2. Push("detect")' = Push("detect") /\ Push("exit")' = Push("exit")
        /\ Push("sigint")' = Push("sigint")
    BY <2>1 DEF Callers
  <2> QED
    BY <1>3, <1>6, <2>2 DEF RoomInv
<1>8. SleepInv'
  <2>1. CASE \E d \in Callers : Notify(d)
    BY <1>3, <2>1 DEF SleepInv, Notify, MutexFree, Callers
  <2>2. CASE \E d \in Callers : Unlock(d)
    <3>1. \A d \in Callers : pc[d] = "notify" => pc'[d] = "notify"
      BY <2>2 DEF Unlock, DataTypes
    <3> QED
      BY <1>3, <2>2, <3>1 DEF SleepInv, Unlock, Callers
  <2>3. CASE Exit
    <3>1. \A d \in Callers : pc[d] = "notify" => pc'[d] = "notify"
      BY <2>3 DEF Exit, DataTypes
    <3> QED
      BY <1>3, <2>3, <3>1 DEF SleepInv, Exit, sync
  <2> QED
    BY <2>1, <2>2, <2>3
<1>9. OrderInv' /\ KeptInv'
  <2>1. pc["detect"] = "pushing" <=> pc'["detect"] = "pushing"
    BY <1>6 DEF Callers
  <2> QED
    BY <1>3, <1>6, <2>1 DEF OrderInv, KeptInv, Queued, Busy
<1> QED
  BY <1>1, <1>5, <1>7, <1>8, <1>9

-------------------------------------------------------------------------------
(* The listener. *)

LEMMA WaitingInv ==
  ASSUME IInv, Lock \/ Test \/ Block \/ Wake \/ SpuriousWake PROVE IInv'
<1> USE DEF IInv
<1>1. FlagTypes'
  BY Zenon DEF Lock, Test, Block, Wake, SpuriousWake, sync, FlagTypes
<1>2. /\ UNCHANGED <<picture, mEventQ, pc, made, fate>>
      /\ listener \in {"lock", "test", "block", "waiting"}
      /\ listener' \in {"lock", "test", "block", "waiting", "take"}
      /\ contextMutex' \in {contextMutex, "listener", "free"}
  BY DEF Lock, Test, Block, Wake, SpuriousWake, sync
<1>3. DataTypes'
  BY <1>2 DEF DataTypes
<1>4. RoomInv'
  BY <1>2 DEF RoomInv, Push
<1>5. SleepInv'
  <2>1. CASE Lock
    BY <2>1 DEF Lock, SleepInv
  <2>2. CASE Test
    BY <2>2 DEF Test, sync, SleepInv, HasWork
  <2>3. CASE Block
    BY <2>3 DEF Block, SleepInv
  <2>4. CASE Wake
    BY <2>4 DEF Wake, SleepInv
  <2>5. CASE SpuriousWake
    BY <2>5 DEF SpuriousWake, sync, SleepInv
  <2> QED
    BY <2>1, <2>2, <2>3, <2>4, <2>5
<1>6. OrderInv' /\ KeptInv'
  BY <1>2 DEF OrderInv, KeptInv, Queued, Busy
<1> QED
  BY <1>1, <1>3, <1>4, <1>5, <1>6

LEMMA TakeInv ==
  ASSUME IInv, Take PROVE IInv'
<1> USE RequestAssumption, QueueAssumption DEF IInv
<1>1. FlagTypes'
  BY Zenon DEF Take, Turn, sync, FlagTypes
<1>2. CASE UNCHANGED <<listener, picture, mEventQ, sync, pc, made, fate>>
  <2>1. DataTypes' /\ RoomInv' /\ SleepInv'
    BY <1>2 DEF DataTypes, RoomInv, SleepInv, Push, sync
  <2>2. OrderInv' /\ KeptInv'
    BY <1>2 DEF OrderInv, KeptInv, Queued, Busy
  <2> QED
    BY <1>1, <2>1, <2>2
<1>3. CASE /\ picture' = Oldest(mEventQ)
           /\ mEventQ' = IF mEventQ = <<>> THEN <<>> ELSE Tail(mEventQ)
           /\ Turn(IF Cams = 0 THEN "threw"
                   ELSE IF picture' = EXIT \/ AsyncStop THEN "ended"
                   ELSE IF picture' = NO_EVENT THEN "lock" ELSE "capture")
           /\ UNCHANGED <<pc, made, fate>>
  <2>1. /\ mEventQ # <<>> /\ mEventQ \in Seq(0..MaxRequests) /\ contextMutex = "listener"
        /\ listener = "take"
    BY DEF Take, DataTypes, SleepInv
  <2>2. /\ picture' = mEventQ[1] /\ picture' \in 0..MaxRequests
        /\ mEventQ' \in Seq(0..MaxRequests) /\ Len(mEventQ') = Len(mEventQ) - 1
        /\ Len(mEventQ) \in Nat \ {0}
        /\ \A i \in 1..Len(mEventQ') : mEventQ'[i] = mEventQ[i + 1]
    BY <1>3, <2>1 DEF Oldest
  <2>3. /\ listener' \in {"threw", "ended", "capture"}
        /\ listener' = "capture" => picture' # EXIT
        /\ contextMutex' = IF listener' = "capture" THEN "listener" ELSE "free"
    <3>1. picture' # NO_EVENT
      BY <2>2 DEF NO_EVENT
    <3>2. listener' \in {"threw", "ended", "capture"}
          /\ (listener' = "capture" => picture' # EXIT)
      BY Zenon, <1>3, <3>1 DEF Turn
    <3>3. contextMutex' = AfterTurn(listener')
      BY Zenon, <1>3 DEF Turn
    <3> QED
      BY <2>1, <3>2, <3>3 DEF AfterTurn
  <2>4. DataTypes'
    BY <1>3, <2>2, <2>3 DEF DataTypes
  <2>5. RoomInv'
    <3>1. Push("detect")' = Push("detect") /\ Push("exit")' = Push("exit")
          /\ Push("sigint")' = Push("sigint")
      BY <1>3 DEF Push
    <3>2. \A d \in Callers : Push(d) \in {0, 1}
      BY DEF Push
    <3>3. Push("detect") \in {0, 1} /\ Push("exit") \in {0, 1} /\ Push("sigint") \in {0, 1}
      BY <3>2 DEF Callers
    <3> QED
      BY <1>3, <2>2, <3>1, <3>3 DEF RoomInv
  <2>6. SleepInv'
    BY <2>3 DEF SleepInv
  <2>7. OrderInv' /\ KeptInv'
    <3>1. 1 \in 1..Len(mEventQ) /\ ~Busy
      BY <2>1, <2>2 DEF Busy
    <3>2. Busy' => listener' = "capture"
      BY <2>3 DEF Busy
    <3>3. \A n : Queued(n) => Queued(n)' \/ n = picture'
      <4> SUFFICES ASSUME NEW n, NEW i \in 1..Len(mEventQ), mEventQ[i] = n, n # picture'
                   PROVE Queued(n)'
        BY DEF Queued
      <4>1. i - 1 \in 1..Len(mEventQ') /\ mEventQ'[i - 1] = n
        BY <2>2
      <4> QED
        BY <4>1 DEF Queued
    <3>4. \A i \in 1..Len(mEventQ') : i + 1 \in 1..Len(mEventQ) /\ 1 < i + 1
      BY <2>2
    <3>a. \A i, j \in 1..Len(mEventQ) :
            i < j /\ mEventQ[i] # EXIT /\ mEventQ[j] # EXIT => mEventQ[i] < mEventQ[j]
      BY DEF OrderInv
    <3>5. \A i \in 1..Len(mEventQ') :
            mEventQ'[i] # EXIT =>
              /\ fate[mEventQ'[i]] = "accepted" /\ mEventQ'[i] <= made
              /\ pc["detect"] = "pushing" => mEventQ'[i] < made
              /\ Busy' => picture' < mEventQ'[i]
      <4> SUFFICES ASSUME NEW i \in 1..Len(mEventQ'), mEventQ'[i] # EXIT
                   PROVE  /\ fate[mEventQ'[i]] = "accepted" /\ mEventQ'[i] <= made
                          /\ pc["detect"] = "pushing" => mEventQ'[i] < made
                          /\ Busy' => picture' < mEventQ'[i]
        OBVIOUS
      <4>1. mEventQ'[i] = mEventQ[i + 1] /\ i + 1 \in 1..Len(mEventQ) /\ 1 < i + 1
        BY <2>2, <3>4
      <4>2. /\ fate[mEventQ[i + 1]] = "accepted" /\ mEventQ[i + 1] <= made
            /\ pc["detect"] = "pushing" => mEventQ[i + 1] < made
        BY <4>1 DEF OrderInv
      <4>3. Busy' => mEventQ[1] < mEventQ[i + 1]
        BY <2>2, <2>3, <3>1, <3>2, <3>a, <4>1
      <4> QED
        BY <2>2, <4>1, <4>2, <4>3
    <3>6. \A i, j \in 1..Len(mEventQ') :
            i < j /\ mEventQ'[i] # EXIT /\ mEventQ'[j] # EXIT => mEventQ'[i] < mEventQ'[j]
      <4> SUFFICES ASSUME NEW i \in 1..Len(mEventQ'), NEW j \in 1..Len(mEventQ'), i < j,
                          mEventQ'[i] # EXIT, mEventQ'[j] # EXIT
                   PROVE mEventQ'[i] < mEventQ'[j]
        OBVIOUS
      <4>1. /\ mEventQ'[i] = mEventQ[i + 1] /\ i + 1 \in 1..Len(mEventQ)
            /\ mEventQ'[j] = mEventQ[j + 1] /\ j + 1 \in 1..Len(mEventQ)
            /\ i + 1 < j + 1
        BY <2>2, <3>4
      <4> QED
        BY <3>a, <4>1
    <3>7. Busy' => /\ picture' # EXIT /\ fate[picture'] = "accepted" /\ picture' <= made
                   /\ pc["detect"] = "pushing" => picture' < made
      BY <2>2, <2>3, <3>1, <3>2 DEF OrderInv
    <3>8. KeptInv'
      BY <1>3, <2>1, <2>3, <3>1, <3>3 DEF KeptInv, Busy
    <3>9. /\ \A n \in Pictures : n > made <=> fate[n] = "none"
          /\ pc["detect"] = "pushing" => made # 0 /\ fate[made] = "accepted"
      BY DEF OrderInv
    <3>b. UNCHANGED <<pc, made, fate>>
      BY <1>3
    <3>c. OrderInv'
      BY <3>5, <3>6, <3>7, <3>9, <3>b DEF OrderInv
    <3> QED
      BY <3>8, <3>c
  <2> QED
    BY <1>1, <2>4, <2>5, <2>6, <2>7
<1> QED
  BY Zenon, <1>2, <1>3 DEF Take

LEMMA PictureInv ==
  ASSUME IInv, Capture \/ Send PROVE IInv'
<1> USE RequestAssumption DEF IInv
<1>1. FlagTypes'
  BY Zenon DEF Capture, Send, Turn, FlagTypes
<1>2. UNCHANGED <<picture, mEventQ, pc, made, notified>> /\ Busy /\ contextMutex = "listener"
  BY DEF Capture, Send, Turn, Busy, SleepInv
<1>3. \/ listener' = "send" /\ contextMutex' = "listener" /\ fate' = fate
      \/ /\ listener' \in {"lock", "threw"} /\ contextMutex' = "free"
         /\ \E what \in {"failed", "sent", "saved", "lost"} :
              fate' = [fate EXCEPT ![picture] = what]
  BY <1>2 DEF Capture, Send, Turn, AfterTurn, Fate
<1>4. DataTypes'
  BY <1>2, <1>3 DEF DataTypes
<1>5. RoomInv'
  BY <1>2 DEF RoomInv, Push
<1>6. SleepInv'
  BY <1>2, <1>3 DEF SleepInv
<1>7. CASE listener' = "send" /\ fate' = fate
  <2>1. Busy'
    BY <1>7 DEF Busy
  <2>2. OrderInv' /\ KeptInv'
    BY <1>2, <1>7, <2>1 DEF OrderInv, KeptInv, Queued, Busy
  <2> QED
    BY <1>1, <1>4, <1>5, <1>6, <2>2
<1>8. CASE /\ listener' \in {"lock", "threw"}
           /\ \E what \in {"failed", "sent", "saved", "lost"} :
                fate' = [fate EXCEPT ![picture] = what]
  <2>1. ~Busy' /\ listener \notin {"ended", "threw"}
    BY <1>2, <1>8 DEF Busy
  <2>2. /\ picture \in Pictures /\ picture <= made /\ fate[picture] = "accepted"
        /\ pc["detect"] = "pushing" => picture < made
        /\ made \in 0..MaxRequests
    BY <1>2 DEF OrderInv, DataTypes, Pictures, EXIT
  <2>3. /\ \A n \in Pictures : n # picture => fate'[n] = fate[n]
        /\ fate'[picture] \in {"failed", "sent", "saved", "lost"}
    BY <1>8, <2>2 DEF DataTypes
  <2>4. \A i \in 1..Len(mEventQ) : mEventQ[i] # EXIT =>
          mEventQ[i] \in Pictures /\ picture < mEventQ[i]
    BY <1>2, <2>2 DEF OrderInv, DataTypes, Pictures, EXIT
  <2>5. \A i \in 1..Len(mEventQ) : mEventQ[i] # EXIT => fate'[mEventQ[i]] = fate[mEventQ[i]]
    BY <2>2, <2>3, <2>4 DEF Pictures
  <2>6. /\ \A n \in Pictures : n > made <=> fate'[n] = "none"
        /\ pc["detect"] = "pushing" => made # 0 /\ fate'[made] = "accepted"
    BY <2>2, <2>3 DEF OrderInv, Pictures
  <2>7. OrderInv'
    BY <1>2, <2>1, <2>5, <2>6 DEF OrderInv
  <2>8. KeptInv'
    BY <1>2, <2>1, <2>3 DEF KeptInv, Queued
  <2> QED
    BY <1>1, <1>4, <1>5, <1>6, <2>7, <2>8
<1> QED
  BY <1>3, <1>7, <1>8

LEMMA Invariant == Spec => []IInv
<1>1. IInv /\ [Next]_vars => IInv'
  <2> SUFFICES ASSUME IInv, [Next]_vars PROVE IInv'
    OBVIOUS
  <2>1. CASE Next
    <3>1. CASE \E c \in Callers : BeginPush(c) \/ EndPush(c)
      BY <3>1, BeginPushInv, EndPushInv
    <3>2. CASE (\E c \in Callers : Notify(c) \/ Unlock(c)) \/ Exit
      BY <3>2, RequestEndInv
    <3>3. CASE Lock \/ Test \/ Block \/ Wake \/ SpuriousWake
      BY <3>3, WaitingInv
    <3>4. CASE Take
      BY <3>4, TakeInv
    <3>5. CASE Capture \/ Send
      BY <3>5, PictureInv
    <3>6. CASE BeginRound
      BY <3>6, BeginRoundInv
    <3> QED
      BY Zenon, <2>1, <3>1, <3>2, <3>3, <3>4, <3>5, <3>6 DEF Next, ListenerStep, Finish
  <2>2. CASE UNCHANGED vars
    <3>1. FlagTypes'
      BY Zenon, <2>2 DEF vars, sync, IInv, FlagTypes
    <3>2. DataTypes' /\ RoomInv' /\ SleepInv'
      BY <2>2 DEF vars, sync, IInv, DataTypes, RoomInv, SleepInv, Push
    <3>3. OrderInv' /\ KeptInv'
      BY <2>2 DEF vars, IInv, OrderInv, KeptInv, Queued, Busy
    <3> QED
      BY <3>1, <3>2, <3>3 DEF IInv
  <2> QED
    BY <2>1, <2>2
<1> QED
  BY <1>1, InitInv, PTL DEF Spec

-------------------------------------------------------------------------------
(* Theorems. *)

\* eventPush looks at the size and pushes later: the queue passes its limit by
\* at most one request, and the listener never handles an empty one.
THEOREM TypeCorrect == Spec => []TypeOK
<1>1. IInv => TypeOK
  <2> SUFFICES ASSUME IInv PROVE TypeOK
    OBVIOUS
  <2>1. Len(mEventQ) <= MAX_Q_SIZE + 1
    <3>1. Push("detect") \in {0, 1} /\ Push("exit") \in {0, 1} /\ Push("sigint") \in {0, 1}
      BY DEF Push
    <3>2. Len(mEventQ) \in Nat
      BY DEF IInv, DataTypes
    <3> QED
      BY <3>1, <3>2, QueueAssumption DEF IInv, RoomInv
  <2> QED
    BY Zenon, <2>1 DEF IInv, FlagTypes, DataTypes, TypeOK
<1> QED
  BY <1>1, Invariant, PTL

\* The push is outside the mutex and the notification inside: for every number of
\* requests and cameras the listener never sleeps on a request that nobody is
\* still to announce.
THEOREM WakeupNotLost == Spec => []NoLostWakeup
<1>1. IInv => NoLostWakeup
  BY Zenon DEF IInv, FlagTypes, SleepInv, NoLostWakeup
<1> QED
  BY <1>1, Invariant, PTL

-------------------------------------------------------------------------------
(* Each step takes one picture further in the channel, or none. *)

Thing(n) == [by |-> "detect", no |-> n]

LEMMA OneMoves ==
  ASSUME NEW n \in Pictures, NEW s, Stage(n)' = s,
         \A m \in Pictures : m # n => Stage(m)' = Stage(m)
  PROVE  Channel!Becomes(Thing(n), s)
<1>1. /\ Thing(n) \in Wanted /\ Thing(n).no = n
      /\ \A t \in Wanted : t.no \in Pictures /\ (t # Thing(n) => t.no # n)
  BY DEF Wanted, Thing
<1>2. \A t \in Wanted : Stage(t.no)' = IF t = Thing(n) THEN s ELSE Stage(t.no)
  BY <1>1
<1> QED
  BY <1>1, <1>2 DEF Stages, Channel!Becomes

LEMMA NoneMoves ==
  ASSUME \A n \in Pictures : Stage(n)' = Stage(n)
  PROVE  UNCHANGED Stages
<1>1. \A t \in Wanted : t.no \in Pictures
  BY DEF Wanted
<1> QED
  BY <1>1 DEF Stages

LEMMA ChannelInit == Init => Channel!Init
<1> SUFFICES ASSUME Init PROVE Channel!Init
  OBVIOUS
<1>1. \A n \in Pictures : Stage(n) = "unmade"
  BY RequestAssumption DEF Init, Stage, Taking, Pictures, Undecided
<1>2. \A t \in Wanted : t.no \in Pictures
  BY DEF Wanted
<1> QED
  BY <1>1, <1>2 DEF Stages, Channel!Init

\* What a picture's stage is, once nothing is taken twice.
Decided(n)   == fate[n] \in {"failed", "sent", "saved", "lost"}
InPush(n)    == n = made /\ pc["detect"] = "pushing"

Placed(n) ==
  /\ Stage(n) = IF Taking(n) \/ Decided(n) THEN "taken"
                ELSE IF Queued(n) THEN "queued"
                ELSE IF n > made THEN "unmade"
                ELSE IF InPush(n) THEN "offered"
                ELSE "lost"
  /\ Queued(n) \/ InPush(n) => ~Taking(n) /\ ~Decided(n)
  /\ n > made => ~Taking(n) /\ ~Decided(n) /\ ~Queued(n)
  /\ InPush(n) => ~Queued(n)

AllPlaced == \A n \in Pictures : Placed(n)

LEMMA StageIs == IInv => AllPlaced
<1> SUFFICES ASSUME IInv, NEW n \in Pictures PROVE Placed(n)
  BY DEF AllPlaced
<1>1. n \in Nat \ {0} /\ n # EXIT /\ made \in Nat
  BY RequestAssumption DEF Pictures, EXIT, IInv, DataTypes
<1>2. Taking(n) => /\ fate[n] = "accepted" /\ n <= made
                   /\ pc["detect"] = "pushing" => n < made
                   /\ ~Queued(n)
  BY <1>1 DEF IInv, OrderInv, Busy, Taking, Queued, DataTypes
<1>3. Queued(n) => fate[n] = "accepted" /\ n <= made /\ (pc["detect"] = "pushing" => n < made)
  BY <1>1 DEF IInv, OrderInv, Queued, DataTypes
<1>4. /\ n > made => fate[n] = "none"
      /\ n = made /\ pc["detect"] = "pushing" => fate[n] = "accepted"
  BY DEF IInv, OrderInv
<1>5. Queued(n) <=> \E i \in DOMAIN mEventQ : mEventQ[i] = n
  BY DEF IInv, DataTypes, Queued
<1>6. Taking(n) => Undecided(n)
  BY <1>2 DEF Undecided
<1> QED
  BY <1>1, <1>2, <1>3, <1>4, <1>5, <1>6 DEF Stage, Placed, Decided, InPush

LEMMA ChannelStep == IInv /\ IInv' /\ [Next]_vars => [Channel!Next]_Stages
<1>a. (IInv => AllPlaced)'
  BY StageIs, PTL
<1> SUFFICES ASSUME IInv, IInv', [Next]_vars PROVE Channel!Next \/ UNCHANGED Stages
  OBVIOUS
<1>1. \A n \in Pictures : Placed(n)
  BY StageIs DEF AllPlaced
<1>2. \A n \in Pictures : Placed(n)'
  BY <1>a DEF AllPlaced
<1>3. /\ \A n \in Pictures : n \in Nat \ {0} /\ n # EXIT /\ Thing(n) \in Wanted
      /\ made \in Nat /\ (made' \in Nat)
  BY RequestAssumption DEF Pictures, EXIT, IInv, DataTypes, Wanted, Thing
<1>4. ASSUME NEW c \in Callers, BeginPush(c) PROVE Channel!Next \/ UNCHANGED Stages
  <2>1. /\ pc[c] \in {"idle", "begun"} /\ MayRequest(c)
        /\ made' = IF c = "detect" THEN made + 1 ELSE made
        /\ UNCHANGED <<listener, picture, mEventQ>>
        /\ \/ /\ pc' = [pc EXCEPT ![c] = "pushing"]
              /\ fate' = IF c = "detect" THEN [fate EXCEPT ![made'] = "accepted"] ELSE fate
           \/ /\ pc' = [pc EXCEPT ![c] = Returned(c)]
              /\ fate' = IF c = "detect" THEN [fate EXCEPT ![made'] = "refused"] ELSE fate
    <3>1. pc[c] \in {"idle", "begun"}
      BY <1>4 DEF BeginPush, MayRequest, Callers
    <3> QED
      BY Zenon, <1>4, <3>1 DEF BeginPush, Judged
  <2>2. CASE c # "detect"
    <3>1. pc'["detect"] = pc["detect"] /\ fate' = fate /\ made' = made
      BY <2>1, <2>2 DEF IInv, DataTypes, Callers
    <3>2. \A n \in Pictures : Stage(n)' = Stage(n)
      BY <2>1, <3>1 DEF Stage, Taking, Undecided
    <3> QED
      BY <3>2, NoneMoves
  <2>3. CASE c = "detect"
    <3>1. PICK n \in Pictures : n = made + 1
      BY <2>1, <2>3, RequestAssumption DEF MayRequest, Pictures, IInv, DataTypes
    <3>2. /\ made' = n /\ \A m \in Pictures : m # n => fate'[m] = fate[m]
          /\ \A m \in Pictures : Queued(m)' = Queued(m) /\ Taking(m)' = Taking(m)
          /\ pc'["detect"] = "pushing" => fate'[n] = "accepted"
          /\ pc'["detect"] # "pushing" => fate'[n] = "refused"
      BY <2>1, <2>3, <3>1 DEF IInv, DataTypes, Returned, Queued, Taking
    <3>3. pc["detect"] # "pushing" /\ \A m \in Pictures : ~InPush(m)
      BY <2>1, <2>3 DEF InPush
    <3>4. Stage(n) = "unmade" /\ \A m \in Pictures : m < n => Stage(m) \notin {"unmade", "offered"}
      BY <1>1, <1>3, <3>1, <3>3 DEF Placed
    <3>5. Stage(n)' \in {"offered", "lost"}
      BY <1>1, <1>2, <1>3, <3>1, <3>2 DEF Placed, InPush, Decided
    <3>6. ASSUME NEW m \in Pictures, m # n PROVE Stage(m)' = Stage(m)
      <4>1. (m > made') <=> (m > made)
        BY <1>3, <3>1, <3>2, <3>6
      <4>2. ~InPush(m)' /\ Decided(m)' = Decided(m)
        BY <3>2, <3>6 DEF InPush, Decided
      <4> QED
        BY <1>1, <1>2, <3>2, <3>3, <4>1, <4>2 DEF Placed
    <3>7. Channel!Make(Thing(n))
      <4>1. \A u \in Wanted : Channel!Earlier(u, Thing(n)) =>
              Stages[u] \notin {"unmade", "offered"}
        BY <1>3, <3>4 DEF Wanted, Thing, Stages, Channel!Earlier
      <4>2. Stages[Thing(n)] = "unmade"
        BY <1>3, <3>4 DEF Thing, Stages
      <4>3. Channel!Becomes(Thing(n), "offered") \/ Channel!Becomes(Thing(n), "lost")
        BY <3>5, <3>6, OneMoves
      <4> QED
        BY <4>1, <4>2, <4>3 DEF Channel!Make
    <3> QED
      BY <1>3, <3>7 DEF Channel!Next
  <2> QED
    BY <2>2, <2>3
<1>5. ASSUME NEW c \in Callers, EndPush(c) PROVE Channel!Next \/ UNCHANGED Stages
  <2>1. /\ pc[c] = "pushing" /\ UNCHANGED <<listener, picture, made, fate>>
        /\ \/ /\ mEventQ' \in {mEventQ, Append(mEventQ, Request(c))}
              /\ pc' = [pc EXCEPT ![c] = "notify"]
           \/ mEventQ' = mEventQ /\ pc' = pc
    BY Zenon, <1>5 DEF EndPush, sync
  <2>2. mEventQ \in Seq(0..MaxRequests) /\ Request(c) \in 0..MaxRequests
    BY RequestAssumption DEF IInv, DataTypes, Request, EXIT
  <2>3. mEventQ' \in {mEventQ, Append(mEventQ, Request(c))}
    BY <2>1
  <2>4. \A n \in Pictures : /\ Queued(n) => Queued(n)'
                            /\ Queued(n)' => Queued(n) \/ n = Request(c)
    BY <2>2, <2>3 DEF Queued
  <2>5. \A n \in Pictures : Taking(n)' = Taking(n) /\ Decided(n)' = Decided(n)
    BY <2>1 DEF Taking, Decided
  <2>6. CASE c # "detect" \/ pc' = pc
    <3>1. pc'["detect"] = pc["detect"]
      BY <2>1, <2>6 DEF IInv, DataTypes, Callers
    <3>2. \A n \in Pictures : InPush(n)' <=> InPush(n)
      BY <2>1, <3>1 DEF InPush
    <3>3. \A n \in Pictures : Queued(n)' <=> Queued(n)
      <4>1. mEventQ' = mEventQ \/ Request(c) = EXIT
        BY <2>1, <2>6 DEF Request, IInv, DataTypes
      <4> QED
        BY <1>3, <2>4, <4>1 DEF Queued
    <3>4. \A n \in Pictures : Stage(n)' = Stage(n)
      BY <1>1, <1>2, <2>1, <2>5, <3>2, <3>3 DEF Placed
    <3> QED
      BY <3>4, NoneMoves
  <2>7. CASE c = "detect" /\ pc' = [pc EXCEPT ![c] = "notify"]
    <3>1. PICK n \in Pictures : n = made
      BY <2>1, <2>7, RequestAssumption DEF IInv, OrderInv, DataTypes, Pictures
    <3>2. /\ pc["detect"] = "pushing" /\ pc'["detect"] = "notify" /\ made' = n
          /\ Request(c) = n
      BY <2>1, <2>7, <3>1 DEF IInv, DataTypes, Request
    <3>3. /\ InPush(n) /\ \A m \in Pictures : ~InPush(m)' /\ (InPush(m) => m = n)
      BY <3>1, <3>2 DEF InPush
    <3>4. Stage(n) = "offered" /\ Stage(n)' \in {"queued", "lost"}
      BY <1>1, <1>2, <1>3, <2>5, <3>1, <3>2, <3>3 DEF Placed
    <3>5. \A m \in Pictures : m # n => Stage(m)' = Stage(m)
      BY <1>1, <1>2, <2>1, <2>4, <2>5, <3>2, <3>3 DEF Placed
    <3>6. Channel!Becomes(Thing(n), "queued") \/ Channel!Becomes(Thing(n), "lost")
      BY <3>4, <3>5, OneMoves
    <3>7. Stages[Thing(n)] = "offered"
      BY <1>3, <3>4 DEF Thing, Stages
    <3> QED
      BY <1>3, <3>6, <3>7 DEF Channel!Next, Channel!Enqueue
  <2> QED
    BY <2>1, <2>6, <2>7
<1>6. CASE Take
  <2>1. UNCHANGED <<pc, made, fate>> /\ listener = "take"
    BY <1>6 DEF Take
  <2>2. \A n \in Pictures : /\ Decided(n)' = Decided(n) /\ (InPush(n)' <=> InPush(n))
                            /\ ~Taking(n)
    BY <2>1 DEF Decided, InPush, Taking
  <2>3. CASE UNCHANGED <<listener, picture, mEventQ>>
    <3>1. \A n \in Pictures : Stage(n)' = Stage(n)
      BY <2>1, <2>3 DEF Stage, Taking, Undecided
    <3> QED
      BY <3>1, NoneMoves
  <2>4. CASE picture' = Oldest(mEventQ) /\ mEventQ' = Tail(mEventQ) /\ mEventQ # <<>>
    <3>1. mEventQ \in Seq(0..MaxRequests) /\ mEventQ # <<>>
      BY <2>4 DEF IInv, DataTypes
    <3>2. /\ picture' = mEventQ[1] /\ 1 \in 1..Len(mEventQ)
          /\ Len(mEventQ') = Len(mEventQ) - 1 /\ Len(mEventQ) \in Nat
          /\ \A i \in 1..Len(mEventQ') : mEventQ'[i] = mEventQ[i + 1]
      BY <2>4, <3>1 DEF Oldest
    <3>3. \A n \in Pictures : Queued(n)' => Queued(n)
      BY <3>2 DEF Queued
    <3>4. \A n \in Pictures : Queued(n) => Queued(n)' \/ n = picture'
      <4> SUFFICES ASSUME NEW n \in Pictures, NEW i \in 1..Len(mEventQ), mEventQ[i] = n,
                          n # picture'
                   PROVE Queued(n)'
        BY DEF Queued
      <4>1. i - 1 \in 1..Len(mEventQ') /\ mEventQ'[i - 1] = n
        BY <3>2
      <4> QED
        BY <4>1 DEF Queued
    <3>5. CASE picture' \notin Pictures
      <4>1. \A n \in Pictures : ~Taking(n)' /\ (Queued(n)' <=> Queued(n))
        BY <3>3, <3>4, <3>5 DEF Taking
      <4>2. \A n \in Pictures : Stage(n)' = Stage(n)
        BY <1>1, <1>2, <2>1, <2>2, <4>1 DEF Placed
      <4> QED
        BY <4>2, NoneMoves
    <3>6. CASE picture' \in Pictures
      <4>1. PICK n \in Pictures : n = picture'
        BY <3>6
      <4>2. Queued(n) /\ \A m \in Pictures : Queued(m) => m >= n
        BY <1>3, <3>2, <4>1 DEF Queued, IInv, OrderInv, DataTypes
      <4>3. \A m \in Pictures : m # n => ~Taking(m)' /\ (Queued(m)' <=> Queued(m))
        BY <3>3, <3>4, <4>1 DEF Taking
      <4>4. ~Queued(n)' \/ Taking(n)'
        <5> SUFFICES ASSUME NEW i \in 1..Len(mEventQ'), mEventQ'[i] = n PROVE FALSE
          BY DEF Queued
        <5>1. mEventQ[i + 1] = n /\ i + 1 \in 1..Len(mEventQ) /\ 1 < i + 1 /\ mEventQ[1] = n
          BY <3>2, <4>1
        <5>2. n < n
          BY <1>3, <3>2, <5>1 DEF IInv, OrderInv
        <5> QED
          BY <1>3, <5>2
      <4>5. Stage(n) = "queued" /\ Stage(n)' \in {"taken", "lost"}
        BY <1>1, <1>2, <1>3, <2>1, <2>2, <4>2, <4>4 DEF Placed
      <4>6. \A m \in Pictures : m # n => Stage(m)' = Stage(m)
        BY <1>1, <1>2, <2>1, <2>2, <4>3 DEF Placed
      <4>7. \A m \in Pictures : m < n => Stage(m) # "queued"
        BY <1>1, <1>3, <4>2 DEF Placed
      <4>8. Channel!Becomes(Thing(n), "taken") \/ Channel!Becomes(Thing(n), "lost")
        BY <4>5, <4>6, OneMoves
      <4>9. \A u \in Wanted : Channel!Earlier(u, Thing(n)) => Stages[u] # "queued"
        BY <1>3, <4>7 DEF Wanted, Thing, Stages, Channel!Earlier
      <4>10. Stages[Thing(n)] = "queued"
        BY <1>3, <4>5 DEF Thing, Stages
      <4> QED
        BY <1>3, <4>8, <4>9, <4>10 DEF Channel!Next, Channel!Dequeue
    <3> QED
      BY <3>5, <3>6
  <2>5. mEventQ # <<>>
    BY <2>1 DEF IInv, SleepInv
  <2> QED
    BY Zenon, <1>6, <2>3, <2>4, <2>5 DEF Take, sync
<1>7. CASE Capture \/ Send
  <2>1. UNCHANGED <<picture, mEventQ, pc, made>> /\ listener \in {"capture", "send"}
    BY <1>7 DEF Capture, Send, Turn
  <2>2. \/ listener' \in {"capture", "send"} /\ fate' = fate
        \/ /\ listener' \notin {"capture", "send"}
           /\ \E what \in {"failed", "sent", "saved", "lost"} :
                fate' = [fate EXCEPT ![picture] = what]
    BY <1>7 DEF Capture, Send, Turn, Fate
  <2>3. \A n \in Pictures :
          (Taking(n) \/ Decided(n))' <=> Taking(n) \/ Decided(n)
    BY <2>1, <2>2 DEF Taking, Decided, IInv, DataTypes
  <2>4. \A n \in Pictures : (Queued(n)' <=> Queued(n)) /\ (InPush(n)' <=> InPush(n))
    BY <2>1 DEF Queued, InPush
  <2>5. \A n \in Pictures : Stage(n)' = Stage(n)
    BY <1>1, <1>2, <2>1, <2>3, <2>4 DEF Placed
  <2> QED
    BY <2>5, NoneMoves
<1>8. CASE \/ \E c \in Callers : Notify(c) \/ Unlock(c)
           \/ BeginRound \/ Exit \/ Lock \/ Test \/ Block \/ Wake \/ SpuriousWake \/ UNCHANGED vars
  <2>1. UNCHANGED <<picture, mEventQ, made, fate>>
    BY <1>8 DEF Notify, Unlock, BeginRound, Exit, Lock, Test, Block, Wake, SpuriousWake, vars
  <2>2. pc'["detect"] = pc["detect"] \/ (pc["detect"] # "pushing" /\ pc'["detect"] # "pushing")
    BY <1>8 DEF Notify, Unlock, BeginRound, Exit, Lock, Test, Block, Wake, SpuriousWake, vars, Returned,
       IInv, DataTypes, Callers
  <2>3. listener' = listener \/ {listener, listener'} \cap {"capture", "send"} = {}
    BY <1>8 DEF Notify, Unlock, BeginRound, Exit, Lock, Test, Block, Wake, SpuriousWake, vars
  <2>4. \A n \in Pictures : Stage(n)' = Stage(n)
    BY <2>1, <2>2, <2>3 DEF Stage, Taking, Undecided
  <2> QED
    BY <2>4, NoneMoves
<1> QED
  BY Zenon, <1>4, <1>5, <1>6, <1>7, <1>8 DEF Next, ListenerStep, Finish

\* No overlap of pushes without SIGINT, no early exit of the listener's loop and no
\* failing camera loses a picture that eventPush accepted.
THEOREM AcceptedAreKept == Spec => []OnlyRefusedAreLost
<1>1. IInv => OnlyRefusedAreLost
  <2> SUFFICES ASSUME IInv, pc["sigint"] = "idle", listener \notin {"ended", "threw"},
                      NEW n \in Pictures, Stage(n) = "lost"
               PROVE  fate[n] = "refused"
    BY DEF OnlyRefusedAreLost
  <2>1. Placed(n)
    BY StageIs DEF AllPlaced
  <2>2. ~Taking(n) /\ ~Decided(n) /\ ~Queued(n) /\ ~(n > made) /\ ~InPush(n)
    BY <2>1 DEF Placed
  <2>3. fate[n] # "accepted"
    BY <2>2 DEF IInv, KeptInv, Busy, Taking, InPush
  <2>4. fate[n] # "none"
    BY <2>2 DEF IInv, OrderInv
  <2>5. fate[n] \in {"none", "accepted", "refused", "failed", "sent", "saved", "lost"}
    BY DEF IInv, DataTypes
  <2> QED
    BY <2>2, <2>3, <2>4, <2>5 DEF Decided
<1> QED
  BY <1>1, Invariant, PTL

\* GpCamera.cpp's event queue is a LossyChannel from requestCapture to the camera,
\* for every number of pictures and places, whatever _asyncStop holds and whenever
\* SIGINT comes: no picture is taken twice or before an older one, and before
\* SIGINT only a full queue or the listener's end loses one.
THEOREM ChannelImplemented == Spec => ChannelSpec
<1>1. IInv /\ IInv' /\ [Next]_vars => [Channel!Next]_Stages
  BY ChannelStep
<1>2. Spec => Channel!Spec
  BY <1>1, Invariant, ChannelInit, PTL DEF Spec, Channel!Spec
<1> QED
  BY <1>2, AcceptedAreKept, PTL DEF ChannelSpec

\* Once a picture has been taken, every older one was taken or is lost for good.
THEOREM PicturesInOrder == Spec => []Channel!InOrder
  BY ChannelImplemented, Channel!DeliveredInOrder, PTL DEF ChannelSpec

\* No picture is taken a second time, and none turns up after it was lost.
THEOREM PicturesOnce == Spec => Channel!SettledForGood
  BY ChannelImplemented, Channel!DeliveredOnce, PTL DEF ChannelSpec

\* What _asyncStop, which nothing initialises, does when it happens to be set.
NothingTaken == \A n \in Pictures : Stage(n) # "taken"

StoppedInv ==
  /\ ~Busy
  /\ \A n \in Pictures : fate[n] \in {"none", "accepted", "refused"}

\* GpCamera.cpp, runCaptureListener: if the uninitialised _asyncStop is set, no
\* picture is ever taken, although requests are accepted until the queue is full.
THEOREM StoppedTakesNothing ==
  ASSUME AsyncStop PROVE Spec => []NothingTaken
<1>1. Init => StoppedInv
  BY DEF Init, StoppedInv, Busy
<1>2. IInv /\ StoppedInv /\ [Next]_vars => StoppedInv'
  <2> SUFFICES ASSUME IInv, StoppedInv, [Next]_vars PROVE StoppedInv'
    OBVIOUS
  <2> USE DEF StoppedInv, Busy
  <2>1. ASSUME NEW c \in Callers, BeginPush(c) PROVE StoppedInv'
    <3>1. listener' = listener /\ fate' \in {fate, [fate EXCEPT ![made'] = "accepted"],
                                              [fate EXCEPT ![made'] = "refused"]}
      BY <2>1 DEF BeginPush, Judged
    <3>2. fate \in [Pictures -> {"none", "accepted", "refused"}]
      BY DEF IInv, DataTypes
    <3> QED
      BY <3>1, <3>2
  <2>2. ASSUME NEW c \in Callers, Finish(c) PROVE StoppedInv'
    BY <2>1, <2>2 DEF Finish, EndPush, Notify, Unlock
  <2>3. CASE Take
    <3>1. fate' = fate /\ listener' \in {listener, "threw", "ended"}
      BY <2>3 DEF Take, Turn
    <3> QED
      BY <3>1
  <2>4. CASE Lock \/ Test \/ Block \/ Wake \/ SpuriousWake
    BY <2>4 DEF Lock, Test, Block, Wake, SpuriousWake
  <2>5. CASE Capture \/ Send
    BY <2>5 DEF Capture, Send
  <2>6. CASE BeginRound \/ Exit \/ UNCHANGED vars
    BY <2>6 DEF BeginRound, Exit, vars
  <2> QED
    BY Zenon, <2>1, <2>2, <2>3, <2>4, <2>5, <2>6 DEF Next, ListenerStep
<1>3. StoppedInv => NothingTaken
  BY DEF StoppedInv, NothingTaken, Stage, Busy, Taking
<1> QED
  BY <1>1, <1>2, <1>3, Invariant, PTL DEF Spec
===============================================================================
