------------------------------ MODULE LossyChannel -----------------------------
(***************************************************************************)
(* What the program's two queues promise, the socket service's             *)
(* sendMessageQ and the capture service's mEventQ.  Neither promises that  *)
(* anything arrives: a thing is lost when the queue is full, when two      *)
(* pushes overlap, or when the connection or the listener is gone.  What   *)
(* they promise is that nothing is taken that was not made, nothing twice, *)
(* and that each sender's things are taken in the order it made them.      *)
(*                                                                         *)
(* SocketService and CaptureService implement this module.                 *)
(***************************************************************************)
EXTENDS Integers, TLAPS

CONSTANT Things   \* what there is to send: [by |-> the sender, no |-> 1, 2, ...]

VARIABLE stage    \* how far each thing got

Stages == {"unmade", "offered", "queued", "taken", "lost"}

TypeOK == stage \in [Things -> Stages]

Earlier(t, u) == t.by = u.by /\ t.no \in 1..(u.no - 1)

Settled(t) == stage[t] \in {"taken", "lost"}

Becomes(t, s) == stage' = [stage EXCEPT ![t] = s]

Init == stage = [t \in Things |-> "unmade"]

\* A sender makes one thing after the other, and may be refused at once.
Make(t) ==
  /\ stage[t] = "unmade"
  /\ \A u \in Things : Earlier(u, t) => stage[u] \notin {"unmade", "offered"}
  /\ Becomes(t, "offered") \/ Becomes(t, "lost")

\* The queue may have filled up meanwhile, or be the queue of nobody.
Enqueue(t) ==
  /\ stage[t] = "offered"
  /\ Becomes(t, "queued") \/ Becomes(t, "lost")

\* What leaves the queue may be lost on its way out.
Dequeue(t) ==
  /\ stage[t] = "queued"
  /\ \A u \in Things : Earlier(u, t) => stage[u] # "queued"
  /\ Becomes(t, "taken") \/ Becomes(t, "lost")

\* A queue goes with all that is in it.
Close == stage' = [t \in Things |-> IF stage[t] = "queued" THEN "lost" ELSE stage[t]]

Next == Close \/ \E t \in Things : Make(t) \/ Enqueue(t) \/ Dequeue(t)

Spec == Init /\ [][Next]_stage

\* Whatever was made before a thing that has been taken will never be taken.
InOrder ==
  \A t, u \in Things : Earlier(t, u) /\ stage[u] = "taken" => Settled(t)

\* What was taken is not taken again, and what was lost does not turn up.
SettledForGood == [][\A t \in Things : Settled(t) => stage'[t] = stage[t]]_stage
-------------------------------------------------------------------------------
\* A sender has at most one thing in hand, the last it made.
ChannelInv ==
  /\ TypeOK
  /\ \A t, u \in Things :
       Earlier(t, u) /\ stage[u] # "unmade" => stage[t] \notin {"unmade", "offered"}
  /\ InOrder

LEMMA ChannelStep == ChannelInv /\ [Next]_stage => ChannelInv'
<1> SUFFICES ASSUME ChannelInv, [Next]_stage PROVE ChannelInv'
  OBVIOUS
<1> USE DEF ChannelInv, TypeOK, Stages, Earlier, InOrder, Settled
<1>1. CASE Close
  BY <1>1 DEF Close
<1>2. ASSUME NEW t \in Things, Make(t) PROVE ChannelInv'
  BY <1>2 DEF Make, Becomes
<1>3. ASSUME NEW t \in Things, Enqueue(t) PROVE ChannelInv'
  BY <1>3 DEF Enqueue, Becomes
<1>4. ASSUME NEW t \in Things, Dequeue(t) PROVE ChannelInv'
  BY <1>4 DEF Dequeue, Becomes
<1>5. CASE UNCHANGED stage
  BY <1>5
<1> QED
  BY <1>1, <1>2, <1>3, <1>4, <1>5 DEF Next

\* Whatever keeps to this channel delivers what each sender made in order, with
\* gaps (SocketCommunicator.cpp's queue, GpCamera.cpp's events).
THEOREM DeliveredInOrder == Spec => [](TypeOK /\ InOrder)
<1>1. Init => ChannelInv
  BY DEF Init, ChannelInv, TypeOK, Stages, InOrder, Settled
<1>2. ChannelInv => TypeOK /\ InOrder
  BY DEF ChannelInv
<1> QED
  BY <1>1, <1>2, ChannelStep, PTL DEF Spec

\* Whatever keeps to this channel delivers nothing twice, and nothing after it was
\* given up.
THEOREM DeliveredOnce == Spec => SettledForGood
<1>1. Init => ChannelInv
  BY DEF Init, ChannelInv, TypeOK, Stages, InOrder, Settled
<1>2. ChannelInv /\ [Next]_stage => [\A t \in Things : Settled(t) => stage'[t] = stage[t]]_stage
  BY DEF ChannelInv, TypeOK, Settled, Next, Make, Enqueue, Dequeue, Close, Becomes
<1> QED
  BY <1>1, <1>2, ChannelStep, PTL DEF Spec, SettledForGood
===============================================================================
