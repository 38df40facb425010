------------------------------ MODULE SocketProofs -----------------------------
(***************************************************************************)
(* Safety of the socket service for every finite set of producers, every   *)
(* limit of the queue and every number of clients and messages, whether or *)
(* not the receive timeout works.                                          *)
(***************************************************************************)
EXTENDS SocketService, FiniteSetTheorems, TLAPS

FlagTypes ==
  /\ cancelled \in [Clients -> BOOLEAN] /\ acceptorCancelled \in BOOLEAN
  /\ backlog \in BOOLEAN /\ dead \in BOOLEAN

DataTypes ==
  /\ svc \in {"accept", "create", "recv", "reply", "push", "send", "delete", "ended"}
  /\ status \in {"IDLE", "ACCEPT_CLIENT", "COMMUNICATION", "EXIT"}
  /\ communicator \in 0..MaxClients
  /\ life \in [Clients -> {"unborn", "live", "deleted"}]
  /\ sendMessageQ \in [Clients -> Seq(Messages \cup {Reply})]
  /\ peer \in {"none", "talking", "gone", "reset"}
  /\ inbox \in {"none", "ACK", "exit"}
  /\ pc \in [Producers -> {"idle", "size", "push", "result"}]
  /\ target \in [Producers -> 0..MaxClients]
  /\ before \in [Producers -> Nat]
  /\ made \in [Producers -> Nat] /\ \A p \in Producers : made[p] <= MaxMessages[p]
  /\ sent \in Seq(Messages)
  /\ saved \in SUBSET Messages
  /\ exitStep \in {"none", "acceptor", "done"}

\* The status changes before the delete and after the new, and there is never
\* more than one communicator.
ServiceInv ==
  /\ status = "COMMUNICATION" <=> svc \in {"recv", "reply", "push", "send"}
  /\ svc \in {"recv", "reply", "push", "send", "delete"} =>
       communicator # 0 /\ life[communicator] = "live"
  /\ \A k \in Clients :
       /\ life[k] = "live" =>
            k = communicator /\ svc \in {"recv", "reply", "push", "send", "delete"}
       /\ life[k] = "unborn" => sendMessageQ[k] = <<>>

ProducerInv ==
  \A p \in Producers :
    /\ pc[p] # "idle" => made[p] # 0 /\ communicator # 0
    /\ pc[p] \in {"push", "result"} => target[p] # 0

\* Everybody whose check allowed a push still has a place.
Replying(k) == IF svc = "push" /\ communicator = k THEN 1 ELSE 0

BoundInv ==
  \A k \in Clients :
    Len(sendMessageQ[k]) + Cardinality(Pushing(k)) + Replying(k)
      <= SEND_LIMIT + Cardinality(Producers)

\* A producer has made what is queued or sent, and one thing more if it is about
\* to push.
Known(msg) ==
  /\ msg.no <= made[msg.by]
  /\ pc[msg.by] \in {"size", "push"} => msg.no < made[msg.by]

SentInOrder ==
  \A i, j \in DOMAIN sent :
    i < j /\ sent[i].by = sent[j].by => sent[i].no < sent[j].no

OrderInv ==
  /\ \A i \in DOMAIN sent : Known(sent[i])
  /\ \A k \in Clients : \A i \in DOMAIN sendMessageQ[k] :
       sendMessageQ[k][i] # Reply => Known(sendMessageQ[k][i])
  /\ \A k \in Clients : \A i, j \in DOMAIN sendMessageQ[k] :
       /\ i < j /\ sendMessageQ[k][i] # Reply /\ sendMessageQ[k][j] # Reply
       /\ sendMessageQ[k][i].by = sendMessageQ[k][j].by
       => sendMessageQ[k][i].no < sendMessageQ[k][j].no
  /\ \A k \in Clients : life[k] = "live" =>
       \A i \in DOMAIN sent, j \in DOMAIN sendMessageQ[k] :
         sendMessageQ[k][j] # Reply /\ sent[i].by = sendMessageQ[k][j].by
           => sent[i].no < sendMessageQ[k][j].no
  /\ SentInOrder

IInv == FlagTypes /\ DataTypes /\ ServiceInv /\ ProducerInv /\ BoundInv /\ OrderInv

-------------------------------------------------------------------------------
LEMMA MessageFacts ==
  /\ Reply \notin Messages
  /\ \A msg \in Messages : msg.by \in Producers /\ msg.no \in Nat \ {0}
  /\ DataTypes => \A p \in Producers : made[p] # 0 => Current(p) \in Messages
<1>1. Reply \notin Messages /\ \A msg \in Messages : msg.by \in Producers /\ msg.no \in Nat \ {0}
  BY BoundsAssumption DEF Messages, Reply
<1>2. ASSUME NEW p \in Producers, made[p] # 0, DataTypes PROVE Current(p) \in Messages
  <2>1. made[p] \in 1..MaxMessages[p]
    BY <1>2, BoundsAssumption DEF DataTypes
  <2>2. Current(p) \in [by : {p}, no : 1..MaxMessages[p]]
    BY <2>1 DEF Current
  <2> QED
    BY <2>2 DEF Messages
<1> QED
  BY <1>1, <1>2

LEMMA PusherFacts ==
  \A k : /\ IsFiniteSet(Pushing(k)) /\ Cardinality(Pushing(k)) \in Nat
         /\ Cardinality(Producers) \in Nat
         /\ Cardinality(Pushing(k)) <= Cardinality(Producers)
<1> TAKE k
<1>1. Pushing(k) \subseteq Producers
  BY DEF Pushing
<1> QED
  BY <1>1, ProducersAssumption, FS_Subset, FS_CardinalityType

LEMMA InitInv == Init => IInv
<1> SUFFICES ASSUME Init PROVE IInv
  OBVIOUS
<1> USE BoundsAssumption, SendLimitAssumption DEF Init
<1>1. FlagTypes
  BY Zenon DEF FlagTypes
<1>2. DataTypes
  BY DEF DataTypes
<1>3. ServiceInv /\ ProducerInv
  BY DEF ServiceInv, ProducerInv
<1>4. BoundInv
  BY PusherFacts DEF BoundInv, Replying
<1>5. OrderInv
  BY DEF OrderInv, SentInOrder
<1> QED
  BY <1>1, <1>2, <1>3, <1>4, <1>5 DEF IInv

-------------------------------------------------------------------------------
(* Steps that touch no queue. *)

LEMMA BoundKept ==
  ASSUME BoundInv, DataTypes, sendMessageQ' = sendMessageQ,
         \A k \in Clients : Pushing(k)' \subseteq Pushing(k),
         svc' = "push" => svc = "push" /\ communicator' = communicator
  PROVE  BoundInv'
<1> SUFFICES ASSUME NEW k \in Clients
             PROVE Len(sendMessageQ[k]) + Cardinality(Pushing(k)') + Replying(k)'
                     <= SEND_LIMIT + Cardinality(Producers)
  BY DEF BoundInv
<1>1. Cardinality(Pushing(k)') <= Cardinality(Pushing(k)) /\ Cardinality(Pushing(k)') \in Nat
  BY PusherFacts, FS_Subset, FS_CardinalityType
<1>2. Len(sendMessageQ[k]) \in Nat
  BY DEF DataTypes
<1>3. Replying(k) \in {0, 1} /\ Replying(k)' \in {0, Replying(k)}
  BY DEF Replying
<1> QED
  BY <1>1, <1>2, <1>3, PusherFacts, SendLimitAssumption DEF BoundInv

LEMMA OrderKept ==
  ASSUME OrderInv, DataTypes, ServiceInv, sendMessageQ' = sendMessageQ, sent' = sent,
         \A k \in Clients : life'[k] = "live" => life[k] \in {"live", "unborn"},
         \A msg \in Messages : Known(msg) => Known(msg)'
  PROVE  OrderInv'
<1>1. /\ \A i \in DOMAIN sent : sent[i] \in Messages
      /\ \A k \in Clients : \A i \in DOMAIN sendMessageQ[k] :
           sendMessageQ[k][i] # Reply => sendMessageQ[k][i] \in Messages
  BY DEF DataTypes
<1>2. \A k \in Clients : life'[k] = "live" => life[k] = "live" \/ DOMAIN sendMessageQ[k] = {}
  BY DEF ServiceInv
<1>3. SentInOrder'
  BY DEF OrderInv, SentInOrder
<1> QED
  BY <1>1, <1>2, <1>3 DEF OrderInv

LEMMA ServiceStepInv ==
  ASSUME IInv,
         AcceptClient \/ AcceptCancelled \/ CreateCommunicator \/ Recv \/ DeleteCommunicator
  PROVE  IInv'
<1> USE BoundsAssumption DEF IInv
<1>1. FlagTypes'
  BY Zenon DEF AcceptClient, AcceptCancelled, CreateCommunicator, Recv, DeleteCommunicator,
     Leave, comms, client, history, exiting, handler, FlagTypes
<1>2. UNCHANGED <<producer, sent, saved, sendMessageQ, exitStep>>
  BY DEF AcceptClient, AcceptCancelled, CreateCommunicator, Recv, DeleteCommunicator,
     Leave, comms, history, exiting
<1>3. DataTypes'
  <2> USE DEF DataTypes, producer
  <2>1. CASE AcceptClient
    BY <1>2, <2>1 DEF AcceptClient, comms
  <2>2. CASE AcceptCancelled
    BY <1>2, <2>2 DEF AcceptCancelled, comms, client
  <2>3. CASE CreateCommunicator
    BY <1>2, <2>3 DEF CreateCommunicator, client, Clients
  <2>4. CASE Recv
    BY <1>2, <2>4 DEF Recv, Leave, comms
  <2>5. CASE DeleteCommunicator
    BY <1>2, <2>5 DEF DeleteCommunicator, handler
  <2> QED
    BY <2>1, <2>2, <2>3, <2>4, <2>5
<1>4. ServiceInv'
  <2> USE DEF DataTypes, ServiceInv, Clients
  <2>1. CASE AcceptClient
    BY <1>2, <2>1 DEF AcceptClient, comms
  <2>2. CASE AcceptCancelled
    BY <1>2, <2>2 DEF AcceptCancelled, comms
  <2>3. CASE CreateCommunicator
    BY SMTT(30), <1>2, <2>3 DEF CreateCommunicator
  <2>4. CASE Recv
    BY <1>2, <2>4 DEF Recv, Leave, comms
  <2>5. CASE DeleteCommunicator
    BY <1>2, <2>5 DEF DeleteCommunicator, handler
  <2> QED
    BY <2>1, <2>2, <2>3, <2>4, <2>5
<1>5. communicator # 0 => communicator' # 0
  BY DEF AcceptClient, AcceptCancelled, CreateCommunicator, Recv, DeleteCommunicator, handler,
         Clients
<1>6. ProducerInv'
  BY <1>2, <1>5 DEF ProducerInv, producer
<1>7. BoundInv'
  <2>1. svc' # "push"
    BY DEF AcceptClient, AcceptCancelled, CreateCommunicator, Recv, Leave, DeleteCommunicator
  <2> QED
    BY <1>2, <2>1, BoundKept DEF Pushing, producer
<1>8. \A k \in Clients : life'[k] = "live" => life[k] \in {"live", "unborn"}
  BY DEF DataTypes, AcceptClient, AcceptCancelled, CreateCommunicator, Recv, Leave,
         DeleteCommunicator, comms
<1>9. OrderInv'
  BY <1>2, <1>8, OrderKept DEF Known, producer
<1> QED
  BY <1>1, <1>3, <1>4, <1>6, <1>7, <1>9

LEMMA OutsideStepInv ==
  ASSUME IInv,
         CancelAcceptor \/ CancelCommunicator \/ Connect \/ ClientSends \/ ClientLeaves
  PROVE  IInv'
<1> USE DEF IInv
<1>1. FlagTypes'
  <2>1. /\ acceptorCancelled' \in {TRUE, acceptorCancelled} /\ backlog' \in {TRUE, backlog}
        /\ dead' \in BOOLEAN
    <3>1. CASE CancelCommunicator
      <4>1. (IF communicator # 0 /\ life[communicator] = "deleted" THEN BOOLEAN ELSE {FALSE})
              \subseteq BOOLEAN
        BY Zenon
      <4> QED
        BY Zenon, <3>1, <4>1 DEF CancelCommunicator, client
    <3>2. CASE CancelAcceptor \/ Connect \/ ClientSends \/ ClientLeaves
      BY Zenon, <3>2 DEF CancelAcceptor, Connect, ClientSends, ClientLeaves, exiting, client,
         FlagTypes
    <3> QED
      BY <3>1, <3>2
  <2>2. cancelled' = cancelled \/ cancelled' = [cancelled EXCEPT ![communicator] = TRUE]
    BY Zenon DEF CancelAcceptor, CancelCommunicator, Connect, ClientSends, ClientLeaves, comms
  <2>3. cancelled' \in [Clients -> BOOLEAN]
    BY <2>2 DEF FlagTypes
  <2> QED
    BY Zenon, <2>1, <2>3 DEF FlagTypes
<1>2. UNCHANGED <<svc, handler, life, sendMessageQ, producer, history>>
  BY DEF CancelAcceptor, CancelCommunicator, Connect, ClientSends, ClientLeaves, comms
<1>3. /\ exitStep' \in {exitStep, "acceptor", "done"}
      /\ peer' \in {peer, "gone"} /\ inbox' \in {inbox, "ACK", "exit"}
  BY DEF CancelAcceptor, CancelCommunicator, Connect, ClientSends, ClientLeaves, exiting, client
<1>4. DataTypes'
  BY <1>2, <1>3 DEF DataTypes, handler, producer, history
<1>5. ServiceInv' /\ ProducerInv'
  BY <1>2 DEF ServiceInv, ProducerInv, handler, producer
<1>6. BoundInv'
  BY <1>2, BoundKept DEF Pushing, producer, handler
<1>7. OrderInv'
  BY <1>2, OrderKept DEF DataTypes, Known, producer, history
<1> QED
  BY <1>1, <1>4, <1>5, <1>6, <1>7

\* A request before and after its push.
LEMMA RequestInv ==
  ASSUME IInv, NEW p \in Producers,
         CheckStatus(p) \/ ReadSize(p) \/ ReturnResult(p) \/ UseDeleted(p)
  PROVE  IInv'
<1> USE BoundsAssumption, SendLimitAssumption DEF IInv
<1>1. FlagTypes'
  BY Zenon DEF CheckStatus, ReadSize, ReturnResult, UseDeleted, comms, client, exiting, FlagTypes
<1>2. UNCHANGED <<svc, status, communicator, life, sendMessageQ, peer, inbox, sent, exitStep>>
  BY DEF CheckStatus, ReadSize, ReturnResult, UseDeleted, handler, comms, client, history, exiting
<1>3. CASE CheckStatus(p)
  <2>1. /\ pc[p] = "idle" /\ made[p] < MaxMessages[p]
        /\ made' = [made EXCEPT ![p] = @ + 1] /\ UNCHANGED <<target, before>>
        /\ \/ pc' = [pc EXCEPT ![p] = "idle"]
              /\ (saved' = saved \/ saved' = saved \cup {[by |-> p, no |-> made[p] + 1]})
           \/ pc' = [pc EXCEPT ![p] = "size"] /\ saved' = saved /\ communicator # 0
    BY <1>3 DEF CheckStatus, Finish
  <2>2. made[p] \in Nat /\ made[p] + 1 \in 1..MaxMessages[p]
    BY <2>1 DEF DataTypes
  <2>3. [by |-> p, no |-> made[p] + 1] \in Messages
    BY <2>2 DEF Messages
  <2>4. DataTypes'
    <3>1. made' \in [Producers -> Nat] /\ \A q \in Producers : made'[q] <= MaxMessages[q]
      BY <2>1, <2>2 DEF DataTypes
    <3>2. saved' \in SUBSET Messages
      BY <2>1, <2>3 DEF DataTypes
    <3>3. pc' \in [Producers -> {"idle", "size", "push", "result"}]
      BY <2>1 DEF DataTypes
    <3> QED
      BY <1>2, <2>1, <3>1, <3>2, <3>3 DEF DataTypes
  <2>5. ServiceInv' /\ ProducerInv'
    BY <1>2, <2>1, <2>2 DEF ServiceInv, ProducerInv, DataTypes
  <2>6. \A k \in Clients : Pushing(k)' \subseteq Pushing(k)
    BY <2>1 DEF Pushing, DataTypes
  <2>7. \A msg \in Messages : Known(msg) => Known(msg)'
    BY SMTT(30), <2>1, <2>2, MessageFacts DEF Known, DataTypes
  <2> QED
    BY <1>1, <1>2, <2>4, <2>5, <2>6, <2>7, BoundKept, OrderKept DEF DataTypes
<1>4. CASE ReadSize(p)
  <2>1. /\ pc[p] = "size" /\ life[communicator] = "live"
        /\ target' = [target EXCEPT ![p] = communicator]
        /\ before' = [before EXCEPT ![p] = Len(sendMessageQ[communicator])]
        /\ pc' = [pc EXCEPT ![p] = "push"]
        /\ UNCHANGED <<made, saved>>
    BY <1>4 DEF ReadSize, history
  <2>2. communicator \in Clients /\ Len(sendMessageQ[communicator]) \in Nat
    BY <2>1 DEF ProducerInv, DataTypes, Clients
  <2>3. DataTypes'
    <3>1. /\ target' \in [Producers -> 0..MaxClients] /\ before' \in [Producers -> Nat]
          /\ pc' \in [Producers -> {"idle", "size", "push", "result"}]
      BY SMTT(30), <2>1, <2>2 DEF DataTypes, Clients
    <3> QED
      BY ZenonT(60), <1>2, <2>1, <3>1 DEF DataTypes
  <2>4. ServiceInv' /\ ProducerInv'
    BY <1>2, <2>1, <2>2 DEF ServiceInv, ProducerInv, DataTypes
  <2>5. BoundInv'
    <3> SUFFICES ASSUME NEW k \in Clients
                 PROVE Len(sendMessageQ[k]) + Cardinality(Pushing(k)') + Replying(k)
                         <= SEND_LIMIT + Cardinality(Producers)
      BY <1>2 DEF BoundInv, Replying
    <3>1. Len(sendMessageQ[k]) \in Nat /\ Replying(k) \in {0, 1}
      BY DEF DataTypes, Replying
    <3>2. Pushing(k)' \subseteq Producers /\ Pushing(k)' \subseteq Pushing(k) \cup {p}
      BY <2>1 DEF Pushing, DataTypes
    <3>3. CASE k = communicator /\ Len(sendMessageQ[k]) < SEND_LIMIT
      <4>1. Cardinality(Pushing(k)') <= Cardinality(Producers) /\ Cardinality(Pushing(k)') \in Nat
        BY <3>2, ProducersAssumption, FS_Subset, FS_CardinalityType
      <4>2. Cardinality(Producers) \in Nat
        BY PusherFacts
      <4> QED
        BY <3>1, <3>3, <4>1, <4>2, SendLimitAssumption
    <3>4. CASE ~(k = communicator /\ Len(sendMessageQ[k]) < SEND_LIMIT)
      <4>1. Pushing(k)' \subseteq Pushing(k)
        BY <2>1, <3>4 DEF Pushing, DataTypes, BelowLimit
      <4>2. Cardinality(Pushing(k)') <= Cardinality(Pushing(k)) /\ Cardinality(Pushing(k)') \in Nat
        BY <4>1, PusherFacts, FS_Subset, FS_CardinalityType
      <4> QED
        BY <3>1, <4>2, PusherFacts DEF BoundInv
    <3> QED
      BY <3>3, <3>4
  <2>6. \A msg \in Messages : Known(msg) => Known(msg)'
    BY <2>1, MessageFacts DEF Known, DataTypes
  <2> QED
    BY <1>1, <1>2, <2>3, <2>4, <2>5, <2>6, OrderKept DEF DataTypes
<1>5. CASE ReturnResult(p) \/ UseDeleted(p)
  <2>1. /\ UNCHANGED <<target, before, made>>
        /\ pc[p] # "idle" /\ (pc' = pc \/ pc' = [pc EXCEPT ![p] = "idle"])
        /\ saved' = saved \/ saved' = saved \cup {Current(p)}
    BY <1>5 DEF ReturnResult, UseDeleted, Finish, Current
  <2>2. Current(p) \in Messages
    BY <2>1, MessageFacts DEF ProducerInv
  <2>3. DataTypes'
    <3>1. saved' \in SUBSET Messages
      BY <2>1, <2>2 DEF DataTypes
    <3>2. pc' \in [Producers -> {"idle", "size", "push", "result"}]
      BY ZenonT(60), <2>1 DEF DataTypes
    <3> QED
      BY ZenonT(60), <1>2, <2>1, <3>1, <3>2 DEF DataTypes
  <2>4. ServiceInv' /\ ProducerInv'
    BY <1>2, <2>1 DEF ServiceInv, ProducerInv, DataTypes
  <2>5. \A k \in Clients : Pushing(k)' \subseteq Pushing(k)
    BY <2>1 DEF Pushing, DataTypes
  <2>6. \A msg \in Messages : Known(msg) => Known(msg)'
    BY <2>1, MessageFacts DEF Known, DataTypes
  <2> QED
    BY <1>1, <1>2, <2>3, <2>4, <2>5, <2>6, BoundKept, OrderKept DEF DataTypes
<1> QED
  BY <1>3, <1>4, <1>5

-------------------------------------------------------------------------------
(* Steps on a queue. *)

\* A message that is new and known to be so may be appended to the queue of the
\* communicator it was meant for.
LEMMA OrderAppended ==
  ASSUME OrderInv, DataTypes, ServiceInv, NEW k \in Clients, NEW msg \in Messages \cup {Reply},
         sendMessageQ' = [sendMessageQ EXCEPT ![k] = Append(sendMessageQ[k], msg)],
         sent' = sent, life' = life, made' = made,
         \A m \in Messages : Known(m) => Known(m)',
         msg # Reply => /\ Known(msg)'
                        /\ \A m \in Messages : Known(m) /\ m.by = msg.by => m.no < msg.no
  PROVE  OrderInv'
<1> DEFINE q == sendMessageQ[k]
           n == Len(sendMessageQ[k]) + 1
<1>1. /\ n \in Nat /\ n - 1 \in Nat /\ DOMAIN q = 1..(n - 1)
      /\ sendMessageQ'[k][n] = msg /\ DOMAIN sendMessageQ'[k] = 1..n
      /\ \A i \in 1..(n - 1) : sendMessageQ'[k][i] = q[i]
      /\ \A j \in Clients : j # k => sendMessageQ'[j] = sendMessageQ[j]
  <2>1. q \in Seq(Messages \cup {Reply})
    BY DEF DataTypes
  <2>2. sendMessageQ'[k] = Append(q, msg)
    BY DEF DataTypes
  <2> QED
    BY <2>1, <2>2 DEF DataTypes
<1>2. /\ \A i \in DOMAIN sent : sent[i] \in Messages /\ Known(sent[i])
      /\ \A j \in Clients : \A i \in DOMAIN sendMessageQ[j] :
           sendMessageQ[j][i] # Reply =>
             sendMessageQ[j][i] \in Messages /\ Known(sendMessageQ[j][i])
      /\ \A i \in DOMAIN q : q[i] # Reply => q[i] \in Messages /\ Known(q[i])
  BY DEF DataTypes, OrderInv
<1> HIDE DEF n
<1>3. \A i \in 1..n : i = n \/ (i \in 1..(n - 1) /\ i < n)
  BY <1>1
<1>4. \A i \in DOMAIN sent : Known(sent[i])'
  BY <1>2
<1>5. \A j \in Clients : \A i \in DOMAIN sendMessageQ'[j] :
        sendMessageQ'[j][i] # Reply => Known(sendMessageQ[j][i])'
  <2>1. ASSUME NEW i \in 1..n, sendMessageQ'[k][i] # Reply
        PROVE  Known(sendMessageQ[k][i])'
    <3>1. CASE i = n
      BY <1>1, <2>1, <3>1 DEF Known
    <3>2. CASE i \in 1..(n - 1)
      BY <1>1, <1>2, <2>1, <3>2 DEF Known
    <3> QED
      BY <1>3, <3>1, <3>2
  <2>2. ASSUME NEW j \in Clients, j # k, NEW i \in DOMAIN sendMessageQ'[j],
               sendMessageQ'[j][i] # Reply
        PROVE  Known(sendMessageQ[j][i])'
    BY <1>1, <1>2, <2>2 DEF Known
  <2> QED
    BY <1>1, <2>1, <2>2
<1>6. \A j \in Clients : \A i, l \in DOMAIN sendMessageQ'[j] :
        /\ i < l /\ sendMessageQ'[j][i] # Reply /\ sendMessageQ'[j][l] # Reply
        /\ sendMessageQ'[j][i].by = sendMessageQ'[j][l].by
        => sendMessageQ'[j][i].no < sendMessageQ'[j][l].no
  <2>1. ASSUME NEW i \in 1..n, NEW l \in 1..n, i < l,
               sendMessageQ'[k][i] # Reply, sendMessageQ'[k][l] # Reply,
               sendMessageQ'[k][i].by = sendMessageQ'[k][l].by
        PROVE  sendMessageQ'[k][i].no < sendMessageQ'[k][l].no
    <3>1. i \in 1..(n - 1) /\ sendMessageQ'[k][i] = q[i] /\ i \in DOMAIN q
      BY <1>1, <2>1
    <3>2. CASE l = n
      BY <1>1, <1>2, <2>1, <3>1, <3>2
    <3>3. CASE l \in 1..(n - 1)
      BY <1>1, <2>1, <3>1, <3>3 DEF OrderInv
    <3> QED
      BY <1>3, <3>2, <3>3
  <2>2. ASSUME NEW j \in Clients, j # k
        PROVE  \A i, l \in DOMAIN sendMessageQ'[j] :
                 /\ i < l /\ sendMessageQ'[j][i] # Reply /\ sendMessageQ'[j][l] # Reply
                 /\ sendMessageQ'[j][i].by = sendMessageQ'[j][l].by
                 => sendMessageQ'[j][i].no < sendMessageQ'[j][l].no
    BY <1>1, <2>2 DEF OrderInv
  <2> QED
    BY <1>1, <2>1, <2>2
<1>7. \A j \in Clients : life'[j] = "live" =>
        \A i \in DOMAIN sent, l \in DOMAIN sendMessageQ'[j] :
          sendMessageQ'[j][l] # Reply /\ sent[i].by = sendMessageQ'[j][l].by
            => sent[i].no < sendMessageQ'[j][l].no
  <2>1. ASSUME life[k] = "live", NEW i \in DOMAIN sent, NEW l \in 1..n,
               sendMessageQ'[k][l] # Reply, sent[i].by = sendMessageQ'[k][l].by
        PROVE  sent[i].no < sendMessageQ'[k][l].no
    <3>1. CASE l = n
      BY <1>1, <1>2, <2>1, <3>1
    <3>2. CASE l \in 1..(n - 1)
      BY <1>1, <2>1, <3>2 DEF OrderInv
    <3> QED
      BY <1>3, <3>1, <3>2
  <2>2. ASSUME NEW j \in Clients, j # k, life[j] = "live"
        PROVE  \A i \in DOMAIN sent, l \in DOMAIN sendMessageQ'[j] :
                 sendMessageQ'[j][l] # Reply /\ sent[i].by = sendMessageQ'[j][l].by
                   => sent[i].no < sendMessageQ'[j][l].no
    BY <1>1, <2>2 DEF OrderInv
  <2> QED
    BY <1>1, <2>1, <2>2
<1>8. SentInOrder'
  BY DEF OrderInv, SentInOrder
<1> QED
  BY <1>4, <1>5, <1>6, <1>7, <1>8 DEF OrderInv

LEMMA BoundAppended ==
  ASSUME BoundInv, DataTypes, NEW k \in Clients, NEW msg,
         sendMessageQ' = [sendMessageQ EXCEPT ![k] = Append(sendMessageQ[k], msg)],
         \A j \in Clients : Pushing(j)' \subseteq Pushing(j) /\ Replying(j)' \in {0, Replying(j)},
         \/ Replying(k) = 1 /\ Replying(k)' = 0
         \/ \E p \in Pushing(k) : p \notin Pushing(k)'
  PROVE  BoundInv'
<1> SUFFICES ASSUME NEW j \in Clients
             PROVE Len(sendMessageQ'[j]) + Cardinality(Pushing(j)') + Replying(j)'
                     <= SEND_LIMIT + Cardinality(Producers)
  BY DEF BoundInv
<1>1. /\ Cardinality(Pushing(j)') <= Cardinality(Pushing(j)) /\ Cardinality(Pushing(j)') \in Nat
      /\ Cardinality(Pushing(j)) \in Nat /\ Cardinality(Producers) \in Nat
      /\ IsFiniteSet(Pushing(j))
  BY PusherFacts, FS_Subset, FS_CardinalityType
<1>2. /\ Len(sendMessageQ[j]) \in Nat
      /\ Len(sendMessageQ[j]) + Cardinality(Pushing(j)) + Replying(j)
           <= SEND_LIMIT + Cardinality(Producers)
  BY DEF DataTypes, BoundInv
<1>3. Replying(j) \in {0, 1} /\ Replying(j)' \in {0, Replying(j)}
  BY DEF Replying
<1>4. CASE j # k
  <2>1. Len(sendMessageQ'[j]) = Len(sendMessageQ[j])
    BY <1>4 DEF DataTypes
  <2>2. PICK a, b, c \in Nat :
          a = Len(sendMessageQ[j]) /\ b = Cardinality(Pushing(j)) /\ c = Cardinality(Pushing(j)')
    BY <1>1, <1>2
  <2>3. c <= b /\ a + b + Replying(j) <= SEND_LIMIT + Cardinality(Producers)
    BY <1>1, <1>2, <2>2
  <2>4. a + c + Replying(j)' <= SEND_LIMIT + Cardinality(Producers)
    BY <1>1, <1>3, <2>2, <2>3, SendLimitAssumption
  <2> QED
    BY <2>1, <2>2, <2>4
<1>5. CASE j = k
  <2>1. Len(sendMessageQ'[j]) = Len(sendMessageQ[j]) + 1
    <3>1. sendMessageQ'[j] = Append(sendMessageQ[j], msg)
      BY <1>5 DEF DataTypes
    <3> QED
      BY <3>1 DEF DataTypes
  <2>2. CASE Replying(k) = 1 /\ Replying(k)' = 0
    BY <1>1, <1>2, <1>5, <2>1, <2>2, SendLimitAssumption
  <2>3. CASE \E p \in Pushing(k) : p \notin Pushing(k)'
    <3>1. PICK p \in Pushing(k) : p \notin Pushing(k)'
      BY <2>3
    <3>2. Pushing(j)' \subseteq Pushing(j) \ {p}
      BY <1>5, <3>1
    <3>3. Cardinality(Pushing(j) \ {p}) = Cardinality(Pushing(j)) - 1
          /\ IsFiniteSet(Pushing(j) \ {p})
      BY <1>1, <1>5, <3>1, FS_RemoveElement
    <3>4. Cardinality(Pushing(j)') <= Cardinality(Pushing(j)) - 1
      BY <3>2, <3>3, FS_Subset
    <3> QED
      BY <1>1, <1>2, <1>3, <2>1, <3>4, SendLimitAssumption
  <2> QED
    BY <2>2, <2>3
<1> QED
  BY <1>4, <1>5

\* The first message leaves the queue of the one communicator, and may be sent.
LEMMA OrderDropped ==
  ASSUME OrderInv, DataTypes, ServiceInv, NEW k \in Clients,
         life[k] = "live", life' = life, made' = made, pc' = pc,
         sendMessageQ[k] # <<>>,
         sendMessageQ' = [sendMessageQ EXCEPT ![k] = Tail(sendMessageQ[k])],
         sent' \in {sent, Logged(Head(sendMessageQ[k]))}
  PROVE  OrderInv'
<1> DEFINE q == sendMessageQ[k]
           n == Len(sendMessageQ[k])
           m == Len(sent)
<1>1. /\ n \in Nat /\ n - 1 \in Nat /\ DOMAIN q = 1..n /\ Head(q) = q[1]
      /\ DOMAIN sendMessageQ'[k] = 1..(n - 1)
      /\ \A i \in 1..(n - 1) : sendMessageQ'[k][i] = q[i + 1] /\ i + 1 \in 1..n /\ 1 < i + 1
      /\ 1 \in 1..n
      /\ \A j \in Clients : j # k => sendMessageQ'[j] = sendMessageQ[j]
  <2>1. q \in Seq(Messages \cup {Reply}) /\ q # <<>>
    BY DEF DataTypes
  <2>2. sendMessageQ'[k] = Tail(q)
    BY DEF DataTypes
  <2> QED
    BY <2>1, <2>2 DEF DataTypes
<1>2. /\ m \in Nat /\ DOMAIN sent = 1..m
      /\ \A i \in 1..m : sent[i] \in Messages /\ Known(sent[i])
      /\ \A i \in 1..n : q[i] # Reply => q[i] \in Messages /\ Known(q[i])
  BY <1>1 DEF DataTypes, OrderInv
<1>3. \/ sent' = sent
      \/ q[1] # Reply /\ sent' = Append(sent, q[1])
  BY <1>1 DEF Logged
<1>4. \/ sent' = sent
      \/ /\ q[1] # Reply /\ DOMAIN sent' = 1..(m + 1) /\ sent'[m + 1] = q[1]
         /\ \A i \in 1..m : sent'[i] = sent[i]
         /\ \A i \in 1..(m + 1) : i = m + 1 \/ i \in 1..m
  <2>1. CASE q[1] # Reply /\ sent' = Append(sent, q[1])
    <3>1. sent \in Seq(Messages) /\ q[1] \in Messages
      BY <1>1, <1>2, <2>1 DEF DataTypes
    <3>2. /\ Len(sent') = m + 1 /\ DOMAIN sent' = 1..(m + 1) /\ sent'[m + 1] = q[1]
          /\ \A i \in 1..m : sent'[i] = sent[i]
      BY <2>1, <3>1
    <3>3. \A i \in 1..(m + 1) : i = m + 1 \/ i \in 1..m
      BY <1>2
    <3> QED
      BY <2>1, <3>2, <3>3
  <2> QED
    BY <1>3, <2>1
<1>5. /\ \A i, l \in 1..n :
           i < l /\ q[i] # Reply /\ q[l] # Reply /\ q[i].by = q[l].by => q[i].no < q[l].no
      /\ \A i \in 1..m, l \in 1..n :
           q[l] # Reply /\ sent[i].by = q[l].by => sent[i].no < q[l].no
      /\ \A i, j \in 1..m : i < j /\ sent[i].by = sent[j].by => sent[i].no < sent[j].no
  BY <1>1, <1>2 DEF OrderInv, SentInOrder
<1>6. \A j \in Clients : life'[j] = "live" => j = k
  BY DEF ServiceInv
<1> HIDE DEF n, m
<1>7. \A i \in DOMAIN sent' : Known(sent[i])'
  BY <1>1, <1>2, <1>4 DEF Known
<1>8. \A j \in Clients : \A i \in DOMAIN sendMessageQ'[j] :
        sendMessageQ'[j][i] # Reply => Known(sendMessageQ[j][i])'
  <2>1. ASSUME NEW i \in 1..(n - 1), sendMessageQ'[k][i] # Reply
        PROVE  Known(sendMessageQ[k][i])'
    BY <1>1, <1>2, <2>1 DEF Known
  <2>2. ASSUME NEW j \in Clients, j # k, NEW i \in DOMAIN sendMessageQ'[j],
               sendMessageQ'[j][i] # Reply
        PROVE  Known(sendMessageQ[j][i])'
    BY <1>1, <2>2 DEF Known, OrderInv
  <2> QED
    BY <1>1, <2>1, <2>2
<1>9. \A j \in Clients : \A i, l \in DOMAIN sendMessageQ'[j] :
        /\ i < l /\ sendMessageQ'[j][i] # Reply /\ sendMessageQ'[j][l] # Reply
        /\ sendMessageQ'[j][i].by = sendMessageQ'[j][l].by
        => sendMessageQ'[j][i].no < sendMessageQ'[j][l].no
  <2>1. ASSUME NEW i \in 1..(n - 1), NEW l \in 1..(n - 1), i < l,
               sendMessageQ'[k][i] # Reply, sendMessageQ'[k][l] # Reply,
               sendMessageQ'[k][i].by = sendMessageQ'[k][l].by
        PROVE  sendMessageQ'[k][i].no < sendMessageQ'[k][l].no
    <3>1. i + 1 < l + 1
      BY <2>1
    <3> QED
      BY <1>1, <1>5, <2>1, <3>1
  <2>2. ASSUME NEW j \in Clients, j # k
        PROVE  \A i, l \in DOMAIN sendMessageQ'[j] :
                 /\ i < l /\ sendMessageQ'[j][i] # Reply /\ sendMessageQ'[j][l] # Reply
                 /\ sendMessageQ'[j][i].by = sendMessageQ'[j][l].by
                 => sendMessageQ'[j][i].no < sendMessageQ'[j][l].no
    BY <1>1, <2>2 DEF OrderInv
  <2>3. \A i, l \in DOMAIN sendMessageQ'[k] :
          /\ i < l /\ sendMessageQ'[k][i] # Reply /\ sendMessageQ'[k][l] # Reply
          /\ sendMessageQ'[k][i].by = sendMessageQ'[k][l].by
          => sendMessageQ'[k][i].no < sendMessageQ'[k][l].no
    BY <1>1, <2>1
  <2> QED
    BY <2>2, <2>3
<1>10. \A j \in Clients : life'[j] = "live" =>
        \A i \in DOMAIN sent', l \in DOMAIN sendMessageQ'[j] :
          sendMessageQ'[j][l] # Reply /\ sent'[i].by = sendMessageQ'[j][l].by
            => sent'[i].no < sendMessageQ'[j][l].no
  <2>1. ASSUME NEW i \in DOMAIN sent', NEW l \in 1..(n - 1),
               sendMessageQ'[k][l] # Reply, sent'[i].by = sendMessageQ'[k][l].by
        PROVE  sent'[i].no < sendMessageQ'[k][l].no
    <3>1. CASE i \in 1..m /\ sent'[i] = sent[i]
      BY ZenonT(60), <1>1, <1>5, <2>1, <3>1
    <3>2. CASE q[1] # Reply /\ sent'[i] = q[1]
      BY <1>1, <1>5, <2>1, <3>2
    <3> QED
      BY <1>2, <1>4, <3>1, <3>2
  <2> QED
    BY <1>1, <1>6, <2>1
<1>11. SentInOrder'
  <2>1. CASE sent' = sent
    BY <1>2, <1>5, <2>1 DEF SentInOrder
  <2>2. CASE sent' # sent
    <3> SUFFICES ASSUME NEW i \in 1..(m + 1), NEW j \in 1..(m + 1), i < j,
                        sent'[i].by = sent'[j].by
                 PROVE  sent'[i].no < sent'[j].no
      BY <1>4, <2>2 DEF SentInOrder
    <3>1. i \in 1..m /\ sent'[i] = sent[i]
      BY <1>2, <1>4, <2>2
    <3>2. CASE j = m + 1
      BY <1>1, <1>4, <1>5, <2>2, <3>1, <3>2
    <3>3. CASE j \in 1..m
      BY <1>4, <1>5, <2>2, <3>1, <3>3
    <3> QED
      BY <1>4, <2>2, <3>2, <3>3
  <2> QED
    BY <2>1, <2>2
<1> QED
  BY <1>7, <1>8, <1>9, <1>10, <1>11 DEF OrderInv

LEMMA SendInv ==
  ASSUME IInv, SendMessage \/ SendFails PROVE IInv'
<1> USE DEF IInv
<1> DEFINE q == sendMessageQ[communicator]
<1>1. FlagTypes'
  BY Zenon DEF SendMessage, SendFails, comms, client, handler, exiting, history, FlagTypes
<1>2. /\ communicator \in Clients /\ life[communicator] = "live" /\ svc = "send"
      /\ q \in Seq(Messages \cup {Reply})
  <2>1. svc = "send"
    BY DEF SendMessage, SendFails
  <2>2. communicator # 0 /\ life[communicator] = "live"
    BY Zenon, <2>1 DEF ServiceInv
  <2>3. communicator \in Clients
    BY <2>2, BoundsAssumption DEF DataTypes, Clients
  <2> QED
    BY <2>1, <2>2, <2>3 DEF DataTypes
<1>3. /\ UNCHANGED <<communicator, life, producer, saved, inbox, exitStep>>
      /\ peer' \in {peer, "reset"}
      /\ \/ svc' = "recv" /\ status' = status
         \/ svc' = "delete" /\ status' = "IDLE"
  BY DEF SendMessage, SendFails, handler, comms, client, history, exiting
<1>4. \/ q = <<>> /\ UNCHANGED <<sendMessageQ, sent>>
      \/ /\ q # <<>> /\ sent' \in {sent, Logged(Head(q))}
         /\ sendMessageQ' = [sendMessageQ EXCEPT ![communicator] = Tail(q)]
  BY DEF SendMessage, SendFails, comms, history, DropFirst
<1>5. Logged(Head(q)) \in Seq(Messages) \/ q = <<>>
  BY <1>2 DEF Logged, DataTypes
<1>6. q # <<>> => Tail(q) \in Seq(Messages \cup {Reply})
  BY <1>2
<1>7. sendMessageQ' \in [Clients -> Seq(Messages \cup {Reply})] /\ sent' \in Seq(Messages)
  BY <1>4, <1>5, <1>6 DEF DataTypes
<1>8. DataTypes'
  BY <1>3, <1>7 DEF DataTypes, producer
<1>9. \A k \in Clients : k # communicator => sendMessageQ'[k] = sendMessageQ[k]
  BY <1>4 DEF DataTypes
<1>10. ServiceInv' /\ ProducerInv'
  BY <1>2, <1>3, <1>9 DEF ServiceInv, ProducerInv, producer
<1>11. \A k \in Clients : Pushing(k)' = Pushing(k)
  BY <1>3 DEF Pushing, producer
<1>12. CASE q = <<>> /\ UNCHANGED <<sendMessageQ, sent>>
  BY <1>1, <1>3, <1>8, <1>10, <1>11, <1>12, BoundKept, OrderKept DEF Known, producer
<1>13. CASE /\ q # <<>> /\ sent' \in {sent, Logged(Head(q))}
            /\ sendMessageQ' = [sendMessageQ EXCEPT ![communicator] = Tail(q)]
  <2>1. OrderInv'
    BY <1>2, <1>3, <1>13, OrderDropped DEF producer
  <2>2. \A k \in Clients : Len(sendMessageQ'[k]) <= Len(sendMessageQ[k])
                           /\ Len(sendMessageQ[k]) \in Nat /\ Len(sendMessageQ'[k]) \in Nat
    BY <1>2, <1>9, <1>13 DEF DataTypes
  <2>3. \A k \in Clients : Replying(k)' = 0 /\ Replying(k) = 0
    BY <1>2, <1>3 DEF Replying
  <2>4. BoundInv'
    BY <1>11, <2>2, <2>3, PusherFacts, SendLimitAssumption DEF BoundInv
  <2> QED
    BY <1>1, <1>8, <1>10, <2>1, <2>4
<1> QED
  BY <1>4, <1>12, <1>13

\* The service finds a place for its answer, or the answer is dropped.
LEMMA ReplyInv ==
  ASSUME IInv, ReplyToClient PROVE IInv'
<1> USE DEF IInv
<1>1. /\ UNCHANGED <<handler, comms, client, producer, history, exiting, dead>>
      /\ svc = "reply" /\ svc' \in {"push", "send"}
      /\ svc' = "push" => Len(sendMessageQ[communicator]) < SEND_LIMIT
  BY DEF ReplyToClient, BelowLimit
<1>2. FlagTypes'
  BY Zenon, <1>1 DEF FlagTypes, comms, client, exiting
<1>3. DataTypes'
  BY <1>1 DEF DataTypes, handler, comms, client, producer, history, exiting
<1>4. ServiceInv' /\ ProducerInv'
  BY <1>1 DEF ServiceInv, ProducerInv, handler, comms, producer
<1>5. BoundInv'
  <2> SUFFICES ASSUME NEW k \in Clients
               PROVE  Len(sendMessageQ[k]) + Cardinality(Pushing(k)) + Replying(k)'
                        <= SEND_LIMIT + Cardinality(Producers)
    BY <1>1 DEF BoundInv, Pushing, comms, producer
  <2>1. Len(sendMessageQ[k]) \in Nat
    BY DEF DataTypes
  <2>2. Replying(k) = 0 /\ Replying(k)' \in {0, 1}
    BY <1>1 DEF Replying
  <2>3. CASE Replying(k)' = 1
    <3>1. Len(sendMessageQ[k]) < SEND_LIMIT
      BY <1>1, <2>3 DEF Replying, handler
    <3> QED
      BY <2>1, <2>3, <3>1, PusherFacts, SendLimitAssumption
  <2>4. CASE Replying(k)' = 0
    BY <2>2, <2>4 DEF BoundInv
  <2> QED
    BY <2>2, <2>3, <2>4
<1>6. OrderInv'
  BY <1>1, OrderKept DEF Known, comms, producer, history
<1> QED
  BY <1>2, <1>3, <1>4, <1>5, <1>6

LEMMA PushReplyInv ==
  ASSUME IInv, PushReply PROVE IInv'
<1> USE DEF IInv
<1> DEFINE q == sendMessageQ[communicator]
<1>1. FlagTypes'
  BY Zenon DEF PushReply, client, exiting, FlagTypes
<1>2. /\ communicator \in Clients /\ life[communicator] = "live" /\ svc = "push"
      /\ q \in Seq(Messages \cup {Reply})
  <2>1. svc = "push"
    BY DEF PushReply
  <2>2. communicator # 0 /\ life[communicator] = "live"
    BY Zenon, <2>1 DEF ServiceInv
  <2>3. communicator \in Clients
    BY <2>2, BoundsAssumption DEF DataTypes, Clients
  <2> QED
    BY <2>1, <2>2, <2>3 DEF DataTypes
<1>3. /\ UNCHANGED <<status, communicator, life, producer, sent, saved, peer, inbox, exitStep>>
      /\ svc' = "send"
  BY DEF PushReply, handler, client, history, exiting
<1>4. \/ sendMessageQ' = sendMessageQ
      \/ sendMessageQ' = [sendMessageQ EXCEPT ![communicator] = Append(q, Reply)]
  BY DEF PushReply, Pushed, DataTypes
<1>5. sendMessageQ' \in [Clients -> Seq(Messages \cup {Reply})]
  <2>1. Append(q, Reply) \in Seq(Messages \cup {Reply})
    BY <1>2
  <2> QED
    BY <1>4, <2>1 DEF DataTypes
<1>6. DataTypes'
  BY <1>3, <1>5 DEF DataTypes, producer
<1>7. \A k \in Clients : k # communicator => sendMessageQ'[k] = sendMessageQ[k]
  BY <1>4 DEF DataTypes
<1>8. ServiceInv' /\ ProducerInv'
  BY <1>2, <1>3, <1>7 DEF ServiceInv, ProducerInv, producer
<1>9. \A k \in Clients : Pushing(k)' \subseteq Pushing(k) /\ Replying(k)' = 0
  BY <1>3 DEF Pushing, Replying, producer
<1>10. \A msg \in Messages : Known(msg) => Known(msg)'
  BY <1>3 DEF Known, producer
<1>11. Replying(communicator) = 1
  BY <1>2 DEF Replying
<1>12. Replying(communicator)' = 0
  BY <1>3 DEF Replying
<1>13. BoundInv'
  BY <1>2, <1>3, <1>4, <1>9, <1>11, <1>12, BoundKept, BoundAppended
<1>14. OrderInv'
  BY <1>2, <1>3, <1>4, <1>10, OrderKept, OrderAppended DEF producer
<1> QED
  BY <1>1, <1>6, <1>8, <1>13, <1>14

LEMMA BreakInv ==
  ASSUME IInv, ServiceBreaks PROVE IInv'
<1> USE DEF IInv
<1>1. /\ UNCHANGED <<svc, handler, comms, client, producer, history, exiting>>
      /\ dead' = TRUE
  BY DEF ServiceBreaks
<1>2. FlagTypes'
  BY Zenon, <1>1 DEF FlagTypes, comms, client, exiting
<1>3. DataTypes' /\ ServiceInv' /\ ProducerInv'
  BY <1>1 DEF DataTypes, ServiceInv, ProducerInv, handler, comms, client, producer, history,
     exiting
<1>4. BoundInv'
  BY <1>1, BoundKept DEF Pushing, handler, comms, producer
<1>5. OrderInv'
  BY <1>1, OrderKept DEF Known, comms, producer, history
<1> QED
  BY <1>2, <1>3, <1>4, <1>5

LEMMA PushInv ==
  ASSUME IInv, NEW p \in Producers, Push(p) PROVE IInv'
<1> USE DEF IInv
<1> DEFINE q == sendMessageQ[target[p]]
<1>0. PICK k \in 0..MaxClients : k = target[p]
  BY DEF DataTypes
<1>1. FlagTypes'
  BY Zenon DEF Push, client, exiting, FlagTypes
<1>2. /\ pc[p] = "push" /\ k \in Clients /\ life[k] = "live" /\ made[p] # 0
      /\ q \in Seq(Messages \cup {Reply})
  BY <1>0 DEF Push, ProducerInv, DataTypes, Clients
<1>3. /\ UNCHANGED <<svc, status, communicator, life, target, before, made, sent, saved, peer,
                     inbox, exitStep>>
      /\ pc' = pc \/ pc' = [pc EXCEPT ![p] = "result"]
  BY DEF Push, handler, client, history, exiting
<1>4. \/ sendMessageQ' = sendMessageQ
      \/ /\ BelowLimit(before[p]) /\ pc' = [pc EXCEPT ![p] = "result"]
         /\ sendMessageQ' = [sendMessageQ EXCEPT ![k] = Append(q, Current(p))]
  BY <1>0 DEF Push, Pushed, DataTypes
<1>5. Current(p) \in Messages
  BY <1>2, MessageFacts
<1>6. sendMessageQ' \in [Clients -> Seq(Messages \cup {Reply})]
  <2>1. Append(q, Current(p)) \in Seq(Messages \cup {Reply})
    BY <1>2, <1>5
  <2> QED
    BY <1>4, <2>1 DEF DataTypes
<1>7. DataTypes'
  BY ZenonT(60), <1>3, <1>6 DEF DataTypes
<1>8. \A j \in Clients : j # k => sendMessageQ'[j] = sendMessageQ[j]
  BY <1>4 DEF DataTypes
<1>9. ServiceInv' /\ ProducerInv'
  BY <1>2, <1>3, <1>8 DEF ServiceInv, ProducerInv, DataTypes
<1>10. \A j \in Clients : Pushing(j)' \subseteq Pushing(j)
  BY <1>3 DEF Pushing, DataTypes
<1>11. \A msg \in Messages : Known(msg) => Known(msg)'
  BY <1>3, MessageFacts DEF Known, DataTypes
<1>12. CASE sendMessageQ' = sendMessageQ
  BY <1>1, <1>3, <1>7, <1>9, <1>10, <1>11, <1>12, BoundKept, OrderKept
<1>13. CASE /\ BelowLimit(before[p]) /\ pc' = [pc EXCEPT ![p] = "result"]
            /\ sendMessageQ' = [sendMessageQ EXCEPT ![k] = Append(q, Current(p))]
  <2>1. p \in Pushing(k) /\ p \notin Pushing(k)'
    BY <1>0, <1>2, <1>3, <1>13 DEF Pushing, DataTypes
  <2>2. PICK msg \in Messages : msg = Current(p)
    BY <1>5
  <2>3. BoundInv'
    <3>1. \A j \in Clients : Replying(j)' = Replying(j)
      BY <1>3 DEF Replying
    <3>2. \A j \in Clients : Pushing(j)' \subseteq Pushing(j) /\ Replying(j)' \in {0, Replying(j)}
      BY <1>10, <3>1
    <3> QED
      BY <1>0, <1>2, <1>13, <2>1, <2>2, <3>2, BoundAppended
  <2>4. Known(msg)' /\ \A m \in Messages : Known(m) /\ m.by = msg.by => m.no < msg.no
    BY SMTT(30), <1>2, <1>3, <1>13, <2>2, MessageFacts DEF Known, Current, DataTypes
  <2>5. OrderInv'
    BY <1>0, <1>2, <1>3, <1>11, <1>13, <2>2, <2>4, OrderAppended
  <2> QED
    BY <1>1, <1>7, <1>9, <2>3, <2>5
<1> QED
  BY <1>4, <1>12, <1>13

LEMMA Invariant == Spec => []IInv
<1>1. IInv /\ [Next]_vars => IInv'
  <2> SUFFICES ASSUME IInv, [Next]_vars PROVE IInv'
    OBVIOUS
  <2>1. CASE Next
    BY <2>1, ServiceStepInv, SendInv, ReplyInv, PushReplyInv, BreakInv,
    OutsideStepInv, RequestInv, PushInv
    DEF Next, ServiceStep, ProducerStep, ExitStep, ClientStep
  <2>2. CASE UNCHANGED vars
    <3> USE DEF vars, handler, comms, client, producer, history, exiting
    <3>1. FlagTypes'
      BY Zenon, <2>2 DEF IInv, FlagTypes
    <3>2. DataTypes' /\ ServiceInv' /\ ProducerInv'
      BY <2>2 DEF IInv, DataTypes, ServiceInv, ProducerInv
    <3>3. BoundInv'
      BY <2>2, BoundKept DEF IInv, Pushing, Replying
    <3>4. OrderInv'
      BY <2>2, OrderKept DEF IInv, DataTypes, Known
    <3> QED
      BY <3>1, <3>2, <3>3, <3>4 DEF IInv
  <2> QED
    BY <2>1, <2>2
<1> QED
  BY <1>1, InitInv, PTL DEF Spec

-------------------------------------------------------------------------------
(* Theorems. *)

\* Nothing but messages of the program gets into a queue, however its pushes,
\* which exclude nothing, overlap with each other and with a reply.
THEOREM TypeCorrect == Spec => []TypeOK
<1>1. IInv => TypeOK
  BY Zenon DEF IInv, FlagTypes, DataTypes, TypeOK
<1> QED
  BY <1>1, Invariant, PTL

\* handle stores the status before it deletes and after it creates: a producer
\* that finds COMMUNICATION finds a live communicator, for every number of
\* producers and of clients that come and go.
THEOREM PointerIsLive == Spec => []CheckedPointerIsLive
<1>1. IInv => CheckedPointerIsLive
  BY DEF IInv, ServiceInv, CheckedPointerIsLive
<1> QED
  BY <1>1, Invariant, PTL

\* enqueueData looks at the limit and pushes later: the queue passes its limit
\* by at most one message for each producer, for every number of producers.
THEOREM BoundedQueue == Spec => []QueueBounded
<1>1. IInv => QueueBounded
  <2> SUFFICES ASSUME IInv, NEW k \in Clients
               PROVE  Len(sendMessageQ[k]) <= SEND_LIMIT + Cardinality(Producers)
    BY DEF QueueBounded
  <2>1. Len(sendMessageQ[k]) \in Nat /\ Replying(k) \in {0, 1}
    BY DEF IInv, DataTypes, Replying
  <2> QED
    BY <2>1, PusherFacts, SendLimitAssumption DEF IInv, BoundInv
<1> QED
  BY <1>1, Invariant, PTL

-------------------------------------------------------------------------------
(* Each step takes one message further in the channel, or none, or all that *)
(* a deleted communicator still held.                                       *)

LEMMA OneMoves ==
  ASSUME NEW msg \in Messages, NEW s, Stage(msg)' = s,
         \A m \in Messages : m # msg => Stage(m)' = Stage(m)
  PROVE  Channel!Becomes(msg, s)
BY DEF Stages, Channel!Becomes

LEMMA NoneMoves ==
  ASSUME \A msg \in Messages : Stage(msg)' = Stage(msg)
  PROVE  UNCHANGED Stages
BY DEF Stages

\* What is in a queue after a push, and after its first has left.
LEMMA InAppended ==
  ASSUME NEW q \in Seq(Messages \cup {Reply}), NEW new \in Messages \cup {Reply}, NEW msg
  PROVE  (\E i \in DOMAIN Append(q, new) : Append(q, new)[i] = msg)
           <=> (\E i \in DOMAIN q : q[i] = msg) \/ new = msg
<1>1. /\ DOMAIN q = 1..Len(q) /\ Len(q) \in Nat
      /\ DOMAIN Append(q, new) = 1..(Len(q) + 1) /\ Append(q, new)[Len(q) + 1] = new
      /\ \A i \in 1..Len(q) : Append(q, new)[i] = q[i]
  OBVIOUS
<1>2. \A i \in 1..(Len(q) + 1) : i = Len(q) + 1 \/ i \in 1..Len(q)
  BY <1>1
<1>3. Len(q) + 1 \in 1..(Len(q) + 1) /\ \A i \in 1..Len(q) : i \in 1..(Len(q) + 1)
  BY <1>1
<1> QED
  BY <1>1, <1>2, <1>3

LEMMA InTail ==
  ASSUME NEW q \in Seq(Messages \cup {Reply}), q # <<>>, NEW msg
  PROVE  /\ (\E i \in DOMAIN Tail(q) : Tail(q)[i] = msg) => \E i \in DOMAIN q : i > 1 /\ q[i] = msg
         /\ (\E i \in DOMAIN q : q[i] = msg) =>
              (\E i \in DOMAIN Tail(q) : Tail(q)[i] = msg) \/ Head(q) = msg
         /\ 1 \in DOMAIN q /\ Head(q) = q[1] /\ DOMAIN q \subseteq Nat \ {0}
<1>1. /\ DOMAIN q = 1..Len(q) /\ Len(q) \in Nat \ {0} /\ Head(q) = q[1]
      /\ DOMAIN Tail(q) = 1..(Len(q) - 1)
      /\ \A i \in 1..(Len(q) - 1) : Tail(q)[i] = q[i + 1]
  OBVIOUS
<1>2. \A i \in 1..(Len(q) - 1) : i + 1 \in 1..Len(q) /\ i + 1 > 1
  BY <1>1
<1>3. \A i \in 1..Len(q) : i = 1 \/ (i - 1 \in 1..(Len(q) - 1) /\ (i - 1) + 1 = i)
  BY <1>1
<1>4. ASSUME NEW i \in 1..Len(q), q[i] = msg, i # 1
      PROVE \E j \in DOMAIN Tail(q) : Tail(q)[j] = msg
  BY <1>1, <1>3, <1>4
<1> QED
  BY <1>1, <1>2, <1>4

LEMMA ChannelInit == Init => Channel!Init
<1> SUFFICES ASSUME Init PROVE Channel!Init
  OBVIOUS
<1>1. \A msg \in Messages : Stage(msg) = "unmade"
  BY MessageFacts DEF Init, Stage, Taken, Waiting
<1> QED
  BY <1>1 DEF Stages, Channel!Init

\* What a message's stage is, once none is sent twice.
Unmade(msg)  == msg.no > made[msg.by]
Pending(msg) == msg.no = made[msg.by] /\ pc[msg.by] \in {"size", "push"}

Placed(msg) ==
  /\ Stage(msg) = IF Taken(msg) THEN "taken"
                  ELSE IF Waiting(msg) THEN "queued"
                  ELSE IF Unmade(msg) THEN "unmade"
                  ELSE IF Pending(msg) THEN "offered"
                  ELSE "lost"
  /\ Taken(msg) => ~Waiting(msg)
  /\ Unmade(msg) \/ Pending(msg) => ~Taken(msg) /\ ~Waiting(msg)

AllPlaced == \A msg \in Messages : Placed(msg)

LEMMA StageIs == IInv => AllPlaced
<1> SUFFICES ASSUME IInv, NEW msg \in Messages PROVE Placed(msg)
  BY DEF AllPlaced
<1>1. /\ msg.by \in Producers /\ msg.no \in Nat /\ made[msg.by] \in Nat /\ msg # Reply
      /\ Len(sent) \in Nat /\ DOMAIN sent = 1..Len(sent)
      /\ \A k \in Clients : Len(sendMessageQ[k]) \in Nat
                            /\ DOMAIN sendMessageQ[k] = 1..Len(sendMessageQ[k])
  BY MessageFacts DEF IInv, DataTypes
<1>2. ~\E i, j \in DOMAIN sent : i # j /\ sent[i] = msg /\ sent[j] = msg
  <2> SUFFICES ASSUME NEW i \in DOMAIN sent, NEW j \in DOMAIN sent, i < j,
                      sent[i] = msg, sent[j] = msg
               PROVE  FALSE
    BY <1>1
  <2> QED
    BY <1>1 DEF IInv, OrderInv, SentInOrder
<1>3. Taken(msg) => Known(msg) /\ ~Waiting(msg)
  BY <1>1 DEF IInv, OrderInv, Taken, Waiting
<1>4. Waiting(msg) => Known(msg)
  BY <1>1 DEF IInv, OrderInv, Waiting
<1>5. Known(msg) => ~Unmade(msg) /\ ~Pending(msg)
  BY <1>1 DEF Known, Unmade, Pending
<1> QED
  BY <1>1, <1>2, <1>3, <1>4, <1>5 DEF Stage, Placed, Unmade, Pending

LEMMA ChannelStep == IInv /\ IInv' /\ [Next]_vars => [Channel!Next]_Stages
<1>a. (IInv => AllPlaced)'
  BY StageIs, PTL
<1> SUFFICES ASSUME IInv, IInv', [Next]_vars PROVE Channel!Next \/ UNCHANGED Stages
  OBVIOUS
<1>1. \A msg \in Messages : Placed(msg)
  BY StageIs DEF AllPlaced
<1>2. \A msg \in Messages : Placed(msg)'
  BY <1>a DEF AllPlaced
<1>3. \A msg \in Messages :
        msg.by \in Producers /\ msg.no \in Nat \ {0} /\ made[msg.by] \in Nat /\ msg # Reply
  BY MessageFacts DEF IInv, DataTypes
<1>4. CASE \/ AcceptClient \/ AcceptCancelled \/ Recv \/ ReplyToClient \/ ServiceBreaks
           \/ CancelAcceptor \/ CancelCommunicator
           \/ Connect \/ ClientSends \/ ClientLeaves
           \/ UNCHANGED vars
  <2>1. UNCHANGED <<life, sendMessageQ, made, sent, pc>>
    BY <1>4 DEF AcceptClient, AcceptCancelled, Recv, Leave, ReplyToClient, ServiceBreaks,
       CancelAcceptor, CancelCommunicator, Connect, ClientSends, ClientLeaves, comms, producer,
       history, vars
  <2>2. \A msg \in Messages : Stage(msg)' = Stage(msg)
    BY <2>1 DEF Stage, Taken, Waiting
  <2> QED
    BY <2>2, NoneMoves
<1>5. CASE CreateCommunicator
  <2>1. /\ UNCHANGED <<sendMessageQ, made, sent, pc>>
        /\ \A k \in Clients : life'[k] = life[k]
              \/ (life[k] = "unborn" /\ sendMessageQ[k] = <<>>)
        /\ \A k \in Clients : life[k] # "live"
    BY <1>5 DEF CreateCommunicator, producer, history, IInv, DataTypes, ServiceInv
  <2>2. \A msg \in Messages : Waiting(msg)' <=> Waiting(msg)
    BY <2>1 DEF Waiting
  <2>3. \A msg \in Messages : Stage(msg)' = Stage(msg)
    BY <2>1, <2>2 DEF Stage, Taken
  <2> QED
    BY <2>3, NoneMoves
<1>6. CASE DeleteCommunicator
  <2>1. /\ UNCHANGED <<sendMessageQ, made, sent, pc>>
        /\ \A k \in Clients : life'[k] # "live"
    BY <1>6 DEF DeleteCommunicator, producer, history, IInv, DataTypes, ServiceInv
  <2>2. \A msg \in Messages : /\ ~Waiting(msg)' /\ (Taken(msg)' <=> Taken(msg))
                              /\ (Unmade(msg)' <=> Unmade(msg)) /\ (Pending(msg)' <=> Pending(msg))
    BY <2>1 DEF Waiting, Taken, Unmade, Pending
  <2>3. \A msg \in Messages : Stage(msg)' = IF Stage(msg) = "queued" THEN "lost" ELSE Stage(msg)
    BY <1>1, <1>2, <2>2 DEF Placed
  <2>4. Channel!Close
    BY <2>3 DEF Channel!Close, Stages
  <2> QED
    BY <2>4 DEF Channel!Next
<1>7. CASE PushReply
  <2>1. /\ UNCHANGED <<life, made, sent, pc>> /\ communicator \in Clients
        /\ \/ sendMessageQ' = sendMessageQ
           \/ sendMessageQ' = [sendMessageQ EXCEPT
                                 ![communicator] = Append(sendMessageQ[communicator], Reply)]
    <3>1. /\ UNCHANGED <<life, made, sent, pc>> /\ svc = "push"
          /\ \E q \in Pushed(sendMessageQ[communicator], Reply, Pushing(communicator) = {}) :
               sendMessageQ' = [sendMessageQ EXCEPT ![communicator] = q]
      BY <1>7 DEF PushReply, producer, history
    <3>2. communicator \in Clients
      <4>1. communicator # 0
        BY Zenon, <3>1 DEF IInv, ServiceInv
      <4> QED
        BY <4>1, BoundsAssumption DEF IInv, DataTypes, Clients
    <3>3. sendMessageQ = [sendMessageQ EXCEPT ![communicator] = sendMessageQ[communicator]]
      BY DEF IInv, DataTypes
    <3> QED
      BY <3>1, <3>2, <3>3 DEF Pushed
  <2>2. ASSUME NEW k \in Clients, NEW msg \in Messages
        PROVE  (\E i \in DOMAIN sendMessageQ'[k] : sendMessageQ'[k][i] = msg)
                 <=> (\E i \in DOMAIN sendMessageQ[k] : sendMessageQ[k][i] = msg)
    <3>1. CASE sendMessageQ'[k] = sendMessageQ[k]
      BY <3>1
    <3>2. CASE sendMessageQ'[k] = Append(sendMessageQ[k], Reply)
      <4>1. sendMessageQ[k] \in Seq(Messages \cup {Reply}) /\ msg # Reply
        BY <1>3 DEF IInv, DataTypes
      <4> QED
        BY <3>2, <4>1, InAppended
    <3> QED
      BY <2>1, <3>1, <3>2 DEF IInv, DataTypes
  <2>3. \A msg \in Messages : Waiting(msg)' <=> Waiting(msg)
    BY <2>1, <2>2 DEF Waiting
  <2>4. \A msg \in Messages : Stage(msg)' = Stage(msg)
    BY <2>1, <2>3 DEF Stage, Taken
  <2> QED
    BY <2>4, NoneMoves
<1>8. CASE SendMessage \/ SendFails
  <2> DEFINE q == sendMessageQ[communicator]
  <2>1. /\ UNCHANGED <<life, made, pc>> /\ communicator \in Clients
        /\ life[communicator] = "live" /\ q \in Seq(Messages \cup {Reply})
        /\ \A k \in Clients : life[k] = "live" => k = communicator
    <3>1. UNCHANGED <<life, made, pc>> /\ svc = "send"
      BY <1>8 DEF SendMessage, SendFails, comms, producer
    <3>2. /\ communicator # 0 /\ life[communicator] = "live"
          /\ \A k \in Clients : life[k] = "live" => k = communicator
      BY Zenon, <3>1 DEF IInv, ServiceInv
    <3>3. communicator \in Clients
      BY <3>2, BoundsAssumption DEF IInv, DataTypes, Clients
    <3>4. q \in Seq(Messages \cup {Reply})
      BY <3>3 DEF IInv, DataTypes
    <3> QED
      BY <3>1, <3>2, <3>3, <3>4
  <2>2. \/ q = <<>> /\ UNCHANGED <<sendMessageQ, sent>>
        \/ /\ q # <<>> /\ sent' \in {sent, Logged(Head(q))}
           /\ sendMessageQ' = [sendMessageQ EXCEPT ![communicator] = Tail(q)]
    BY <1>8 DEF SendMessage, SendFails, comms, history, DropFirst
  <2>3. CASE q = <<>> /\ UNCHANGED <<sendMessageQ, sent>>
    <3>1. \A msg \in Messages : Stage(msg)' = Stage(msg)
      BY <2>1, <2>3 DEF Stage, Taken, Waiting
    <3> QED
      BY <3>1, NoneMoves
  <2>4. CASE /\ q # <<>> /\ sent' \in {sent, Logged(Head(q))}
             /\ sendMessageQ' = [sendMessageQ EXCEPT ![communicator] = Tail(q)]
    <3>1. sendMessageQ'[communicator] = Tail(q)
      BY <2>1, <2>4 DEF IInv, DataTypes
    <3>2. \A msg \in Messages :
            /\ Waiting(msg) <=> \E i \in DOMAIN q : q[i] = msg
            /\ Waiting(msg)' <=> \E i \in DOMAIN Tail(q) : Tail(q)[i] = msg
      BY <2>1, <3>1 DEF Waiting
    <3>3. \A msg \in Messages :
            (Unmade(msg)' <=> Unmade(msg)) /\ (Pending(msg)' <=> Pending(msg))
      BY <2>1 DEF Unmade, Pending
    <3>4. CASE Head(q) = Reply
      <4>1. sent' = sent
        BY <2>4, <3>4 DEF Logged
      <4>2. \A msg \in Messages : Waiting(msg)' <=> Waiting(msg)
        <5> SUFFICES ASSUME NEW msg \in Messages PROVE Waiting(msg)' <=> Waiting(msg)
          OBVIOUS
        <5>1. msg # Head(q)
          BY <1>3, <3>4
        <5>2. (\E i \in DOMAIN Tail(q) : Tail(q)[i] = msg) => \E i \in DOMAIN q : q[i] = msg
          BY <2>1, <2>4, InTail
        <5>3. (\E i \in DOMAIN q : q[i] = msg) => \E i \in DOMAIN Tail(q) : Tail(q)[i] = msg
          BY <2>1, <2>4, <5>1, InTail
        <5> QED
          BY <3>2, <5>2, <5>3
      <4>3. \A msg \in Messages : Stage(msg)' = Stage(msg)
        BY <1>1, <1>2, <3>3, <4>1, <4>2 DEF Placed, Taken
      <4> QED
        BY <4>3, NoneMoves
    <3>5. CASE Head(q) # Reply
      <4>1. PICK msg \in Messages : msg = Head(q)
        BY <2>1, <2>4, <3>5
      <4>2. /\ 1 \in DOMAIN q /\ q[1] = msg /\ DOMAIN q \subseteq Nat \ {0}
            /\ \A m \in Messages : Waiting(m)' => \E i \in DOMAIN q : i > 1 /\ q[i] = m
            /\ \A m \in Messages : Waiting(m) => Waiting(m)' \/ m = msg
        <5> SUFFICES ASSUME NEW m \in Messages
                     PROVE  /\ 1 \in DOMAIN q /\ q[1] = msg /\ DOMAIN q \subseteq Nat \ {0}
                            /\ Waiting(m)' => \E i \in DOMAIN q : i > 1 /\ q[i] = m
                            /\ Waiting(m) => Waiting(m)' \/ m = msg
          OBVIOUS
        <5>1. /\ 1 \in DOMAIN q /\ Head(q) = q[1] /\ DOMAIN q \subseteq Nat \ {0}
              /\ (\E i \in DOMAIN Tail(q) : Tail(q)[i] = m)
                   => \E i \in DOMAIN q : i > 1 /\ q[i] = m
              /\ (\E i \in DOMAIN q : q[i] = m)
                   => (\E i \in DOMAIN Tail(q) : Tail(q)[i] = m) \/ Head(q) = m
          <6> HIDE DEF q
          <6> QED
            BY <2>1, <2>4, InTail
        <5> QED
          BY <3>2, <4>1, <5>1
      <4>3. \A m \in Messages : Waiting(m) /\ m # msg /\ m.by = msg.by => m.no > msg.no
        <5> SUFFICES ASSUME NEW m \in Messages, NEW i \in DOMAIN q, q[i] = m, m # msg,
                            m.by = msg.by
                     PROVE  m.no > msg.no
          BY <3>2
        <5>1. 1 < i
          BY <4>2
        <5> QED
          BY <1>3, <2>1, <4>2, <5>1 DEF IInv, OrderInv
      <4>4. ~Waiting(msg)'
        <5> SUFFICES ASSUME NEW i \in DOMAIN q, i > 1, q[i] = msg PROVE FALSE
          BY <4>2
        <5>1. msg.no < msg.no
          BY <1>3, <2>1, <4>2 DEF IInv, OrderInv
        <5> QED
          BY <1>3, <5>1
      <4>5. \A m \in Messages : m # msg => (Waiting(m)' <=> Waiting(m))
        BY <3>2, <4>2
      <4>6. sent' = sent \/ sent' = Append(sent, msg)
        BY <2>4, <4>1 DEF Logged
      <4>7. \A m \in Messages : /\ Taken(m) => Taken(m)'
                                /\ Taken(m)' => Taken(m) \/ m = msg
        <5>1. /\ sent \in Seq(Messages) /\ Len(sent) \in Nat /\ DOMAIN sent = 1..Len(sent)
          BY DEF IInv, DataTypes
        <5>2. CASE sent' = Append(sent, msg)
          <6>1. /\ DOMAIN sent' = 1..(Len(sent) + 1) /\ sent'[Len(sent) + 1] = msg
                /\ \A i \in 1..Len(sent) : sent'[i] = sent[i]
            BY <5>1, <5>2
          <6>2. /\ \A i \in 1..(Len(sent) + 1) : i = Len(sent) + 1 \/ i \in 1..Len(sent)
                /\ \A i \in 1..Len(sent) : i \in 1..(Len(sent) + 1)
            BY <5>1
          <6> QED
            BY <5>1, <6>1, <6>2 DEF Taken
        <5> QED
          BY <4>6, <5>2 DEF Taken
      <4>8. Stage(msg) = "queued" /\ Stage(msg)' \in {"taken", "lost"}
        <5>1. Waiting(msg)
          BY <3>2, <4>2
        <5> QED
          BY <1>1, <1>2, <3>3, <4>4, <5>1 DEF Placed
      <4>9. \A m \in Messages : m # msg => Stage(m)' = Stage(m)
        BY <1>1, <1>2, <3>3, <4>5, <4>7 DEF Placed
      <4>10. \A m \in Messages : Channel!Earlier(m, msg) => Stages[m] # "queued"
        <5> SUFFICES ASSUME NEW m \in Messages, Channel!Earlier(m, msg), Stage(m) = "queued"
                     PROVE  FALSE
          BY DEF Stages
        <5>1. Waiting(m)
          BY <1>1 DEF Placed
        <5>2. m.by = msg.by /\ m.no < msg.no
          BY <1>3 DEF Channel!Earlier
        <5> QED
          BY <1>3, <4>3, <5>1, <5>2
      <4>11. Channel!Becomes(msg, "taken") \/ Channel!Becomes(msg, "lost")
        BY <4>8, <4>9, OneMoves
      <4> QED
        BY <4>8, <4>10, <4>11 DEF Channel!Next, Channel!Dequeue, Stages
    <3> QED
      BY <3>4, <3>5
  <2> QED
    BY <2>2, <2>3, <2>4
<1>9. ASSUME NEW p \in Producers, CheckStatus(p) PROVE Channel!Next \/ UNCHANGED Stages
  <2>1. /\ pc[p] = "idle" /\ made[p] < MaxMessages[p] /\ made' = [made EXCEPT ![p] = @ + 1]
        /\ UNCHANGED <<life, sendMessageQ, sent>>
        /\ pc' = pc \/ pc' = [pc EXCEPT ![p] = "size"]
    BY <1>9 DEF CheckStatus, Finish, comms, IInv, DataTypes
  <2>2. PICK msg \in Messages : msg.by = p /\ msg.no = made[p] + 1
    <3>1. made[p] + 1 \in 1..MaxMessages[p]
      BY <2>1, BoundsAssumption DEF IInv, DataTypes
    <3>2. [by |-> p, no |-> made[p] + 1] \in Messages
      BY <3>1 DEF Messages
    <3> QED
      BY <3>2
  <2>3. \A m \in Messages : m.by = p /\ m.no = made[p] + 1 => m = msg
    BY <2>2 DEF Messages
  <2>4. \A m \in Messages : (Taken(m)' <=> Taken(m)) /\ (Waiting(m)' <=> Waiting(m))
    BY <2>1 DEF Taken, Waiting
  <2>5. made'[p] = made[p] + 1 /\ \A o \in Producers : o # p => made'[o] = made[o] /\ pc'[o] = pc[o]
    BY <2>1 DEF IInv, DataTypes
  <2>6. \A m \in Messages : m # msg => /\ (Unmade(m)' <=> Unmade(m))
                                       /\ (Pending(m)' <=> Pending(m))
    <3> SUFFICES ASSUME NEW m \in Messages, m # msg
                 PROVE  (Unmade(m)' <=> Unmade(m)) /\ (Pending(m)' <=> Pending(m))
      OBVIOUS
    <3>1. CASE m.by # p
      BY <1>3, <2>5, <3>1 DEF Unmade, Pending
    <3>2. CASE m.by = p
      <4>1. made'[m.by] = made[m.by] + 1 /\ m.no # made[m.by] + 1 /\ pc[m.by] = "idle"
        BY <2>1, <2>3, <2>5, <3>2
      <4> QED
        BY <1>3, <4>1 DEF Unmade, Pending
    <3> QED
      BY <3>1, <3>2
  <2>7. Unmade(msg) /\ ~Unmade(msg)'
    BY <1>3, <2>2, <2>5 DEF Unmade
  <2>8. Stage(msg) = "unmade" /\ Stage(msg)' \in {"offered", "lost"}
    BY <1>1, <1>2, <2>4, <2>7 DEF Placed
  <2>9. \A m \in Messages : m # msg => Stage(m)' = Stage(m)
    BY <1>1, <1>2, <2>4, <2>6 DEF Placed
  <2>10. \A m \in Messages : Channel!Earlier(m, msg) => Stages[m] \notin {"unmade", "offered"}
    <3> SUFFICES ASSUME NEW m \in Messages, Channel!Earlier(m, msg)
                 PROVE  Stage(m) \notin {"unmade", "offered"}
      BY DEF Stages
    <3>1. m.by = p /\ m.no <= made[p]
      BY <1>3, <2>2 DEF Channel!Earlier
    <3>2. ~Unmade(m) /\ ~Pending(m)
      BY <1>3, <2>1, <3>1 DEF Unmade, Pending
    <3> QED
      BY <1>1, <3>2 DEF Placed
  <2>11. Channel!Becomes(msg, "offered") \/ Channel!Becomes(msg, "lost")
    BY <2>8, <2>9, OneMoves
  <2> QED
    BY <2>8, <2>10, <2>11 DEF Channel!Next, Channel!Make, Stages
<1>10. ASSUME NEW p \in Producers, ReadSize(p) \/ ReturnResult(p) \/ UseDeleted(p)
       PROVE  Channel!Next \/ UNCHANGED Stages
  <2>1. /\ UNCHANGED <<life, sendMessageQ, made, sent>> /\ pc[p] # "idle" /\ made[p] # 0
        /\ \/ pc' = pc
           \/ pc[p] = "size" /\ pc' = [pc EXCEPT ![p] = "push"]
           \/ pc' = [pc EXCEPT ![p] = "idle"]
    BY <1>10 DEF ReadSize, ReturnResult, UseDeleted, Finish, comms, history, IInv, ProducerInv
  <2>2. \A m \in Messages : /\ (Taken(m)' <=> Taken(m)) /\ (Waiting(m)' <=> Waiting(m))
                            /\ (Unmade(m)' <=> Unmade(m))
    BY <2>1 DEF Taken, Waiting, Unmade
  <2>3. CASE pc' = [pc EXCEPT ![p] = "idle"] /\ pc[p] \in {"size", "push"}
    <3>1. PICK msg \in Messages : msg = Current(p)
      BY <2>1, MessageFacts DEF IInv
    <3>2. msg.by = p /\ msg.no = made[p] /\ Pending(msg)
      BY <2>3, <3>1 DEF Current, Pending
    <3>3. \A m \in Messages : m # msg => (Pending(m)' <=> Pending(m))
      <4>1. \A m \in Messages : m.by = p /\ m.no = made[p] => m = msg
        BY <3>2 DEF Messages
      <4>2. made' = made /\ \A o \in Producers : o # p => pc'[o] = pc[o]
        BY <2>1, <2>3 DEF IInv, DataTypes
      <4> QED
        BY <1>3, <4>1, <4>2 DEF Pending
    <3>4. ~Pending(msg)' /\ ~Unmade(msg)
      BY <1>3, <2>3, <3>2 DEF Pending, Unmade, IInv, DataTypes
    <3>5. Stage(msg) = "offered" /\ Stage(msg)' = "lost"
      BY <1>1, <1>2, <2>2, <3>2, <3>4 DEF Placed
    <3>6. \A m \in Messages : m # msg => Stage(m)' = Stage(m)
      BY <1>1, <1>2, <2>2, <3>3 DEF Placed
    <3>7. Channel!Becomes(msg, "lost")
      BY <3>5, <3>6, OneMoves
    <3> QED
      BY <3>5, <3>7 DEF Channel!Next, Channel!Enqueue, Stages
  <2>4. CASE ~(pc' = [pc EXCEPT ![p] = "idle"] /\ pc[p] \in {"size", "push"})
    <3>1. \A m \in Messages : Pending(m)' <=> Pending(m)
      <4>1. made' = made /\ \A o \in Producers : o # p => pc'[o] = pc[o]
        BY <2>1 DEF IInv, DataTypes
      <4>2. pc[p] \in {"size", "push"} <=> pc'[p] \in {"size", "push"}
        BY <2>1, <2>4 DEF IInv, DataTypes
      <4> QED
        BY <1>3, <4>1, <4>2 DEF Pending
    <3>2. \A m \in Messages : Stage(m)' = Stage(m)
      BY <1>1, <1>2, <2>2, <3>1 DEF Placed
    <3> QED
      BY <3>2, NoneMoves
  <2> QED
    BY <2>3, <2>4
<1>11. ASSUME NEW p \in Producers, Push(p) PROVE Channel!Next \/ UNCHANGED Stages
  <2>1. /\ UNCHANGED <<life, made, sent>> /\ pc[p] = "push" /\ made[p] # 0
        /\ life[target[p]] = "live" /\ target[p] \in Clients
        /\ \/ pc' = pc /\ sendMessageQ' = sendMessageQ
           \/ /\ pc' = [pc EXCEPT ![p] = "result"]
              /\ \/ sendMessageQ' = sendMessageQ
                 \/ sendMessageQ' = [sendMessageQ EXCEPT
                                       ![target[p]] = Append(sendMessageQ[target[p]], Current(p))]
    <3>1. /\ UNCHANGED <<life, made, sent>> /\ pc[p] = "push" /\ life[target[p]] = "live"
          /\ \/ pc' = pc /\ sendMessageQ' = sendMessageQ
             \/ pc' = [pc EXCEPT ![p] = "result"]
      BY <1>11 DEF Push, history
    <3>2. made[p] # 0 /\ target[p] \in Clients
      <4>1. made[p] # 0 /\ target[p] # 0
        BY <3>1 DEF IInv, ProducerInv
      <4>2. target[p] \in 0..MaxClients
        BY DEF IInv, DataTypes
      <4> QED
        BY <4>1, <4>2, BoundsAssumption DEF Clients
    <3>3. \/ sendMessageQ' = sendMessageQ
          \/ sendMessageQ' = [sendMessageQ EXCEPT
                                ![target[p]] = Append(sendMessageQ[target[p]], Current(p))]
      <4>1. sendMessageQ = [sendMessageQ EXCEPT ![target[p]] = sendMessageQ[target[p]]]
        BY DEF IInv, DataTypes
      <4>2. \/ sendMessageQ' = sendMessageQ
            \/ \E q \in Pushed(sendMessageQ[target[p]], Current(p), Alone(p)) :
                 sendMessageQ' = [sendMessageQ EXCEPT ![target[p]] = q]
        BY Zenon, <1>11 DEF Push
      <4> QED
        BY <4>1, <4>2 DEF Pushed
    <3> QED
      BY <3>1, <3>2, <3>3
  <2>2. PICK msg \in Messages : msg = Current(p)
    BY <2>1, MessageFacts DEF IInv
  <2>3. msg.by = p /\ msg.no = made[p] /\ Pending(msg) /\ ~Unmade(msg)
    BY <1>3, <2>1, <2>2 DEF Current, Pending, Unmade
  <2>4. \A m \in Messages : (Taken(m)' <=> Taken(m)) /\ (Unmade(m)' <=> Unmade(m))
    BY <2>1 DEF Taken, Unmade
  <2>5. CASE pc' = pc /\ sendMessageQ' = sendMessageQ
    <3>1. \A m \in Messages : Stage(m)' = Stage(m)
      BY <2>1, <2>5 DEF Stage, Taken, Waiting
    <3> QED
      BY <3>1, NoneMoves
  <2>6. CASE pc' = [pc EXCEPT ![p] = "result"]
    <3>1. \A m \in Messages : m # msg => (Pending(m)' <=> Pending(m))
      <4>1. \A m \in Messages : m.by = p /\ m.no = made[p] => m = msg
        BY <2>3 DEF Messages
      <4>2. made' = made /\ \A o \in Producers : o # p => pc'[o] = pc[o]
        BY <2>1, <2>6 DEF IInv, DataTypes
      <4> QED
        BY <1>3, <4>1, <4>2 DEF Pending
    <3>2. ~Pending(msg)'
      BY <2>1, <2>3, <2>6 DEF Pending, IInv, DataTypes
    <3>3. \A m \in Messages : m # msg => (Waiting(m)' <=> Waiting(m))
      <4> SUFFICES ASSUME NEW m \in Messages, m # msg PROVE Waiting(m)' <=> Waiting(m)
        OBVIOUS
      <4>1. ASSUME NEW k \in Clients
            PROVE  (\E i \in DOMAIN sendMessageQ'[k] : sendMessageQ'[k][i] = m)
                     <=> (\E i \in DOMAIN sendMessageQ[k] : sendMessageQ[k][i] = m)
        <5>1. CASE sendMessageQ'[k] = sendMessageQ[k]
          BY <5>1
        <5>2. CASE sendMessageQ'[k] = Append(sendMessageQ[k], msg)
          <6> DEFINE q == sendMessageQ[k]
          <6>1. q \in Seq(Messages \cup {Reply})
            BY DEF IInv, DataTypes
          <6>2. (\E i \in DOMAIN Append(q, msg) : Append(q, msg)[i] = m)
                  <=> \E i \in DOMAIN q : q[i] = m
            <7> HIDE DEF q
            <7> QED
              BY <6>1, InAppended
          <6> QED
            BY <5>2, <6>2
        <5>3. sendMessageQ'[k] \in {sendMessageQ[k], Append(sendMessageQ[k], msg)}
          <6>1. sendMessageQ \in [Clients -> Seq(Messages \cup {Reply})]
            BY DEF IInv, DataTypes
          <6> QED
            BY <2>1, <2>2, <6>1
        <5> QED
          BY <5>1, <5>2, <5>3
      <4> QED
        BY <2>1, <4>1 DEF Waiting
    <3>4. Stage(msg) = "offered" /\ Stage(msg)' \in {"queued", "lost"}
      BY <1>1, <1>2, <2>3, <2>4, <3>2 DEF Placed
    <3>5. \A m \in Messages : m # msg => Stage(m)' = Stage(m)
      BY <1>1, <1>2, <2>4, <3>1, <3>3 DEF Placed
    <3>6. Channel!Becomes(msg, "queued") \/ Channel!Becomes(msg, "lost")
      BY <3>4, <3>5, OneMoves
    <3> QED
      BY <3>4, <3>6 DEF Channel!Next, Channel!Enqueue, Stages
  <2> QED
    BY <2>1, <2>5, <2>6
<1> QED
  BY <1>4, <1>5, <1>6, <1>7, <1>8, <1>9, <1>10, <1>11
  DEF Next, ServiceStep, ProducerStep, ExitStep, ClientStep

\* The service is a LossyChannel from sendReqeust to the client, for every number of
\* producers, messages and clients and every limit of the queue: although no lock
\* excludes anything, no message is sent twice or before an older one of its
\* producer, and what a deleted communicator held is never sent by the next.
THEOREM ChannelImplemented == Spec => ChannelSpec
<1>1. IInv /\ IInv' /\ [Next]_vars => [Channel!Next]_Stages
  BY ChannelStep
<1> QED
  BY <1>1, Invariant, ChannelInit, PTL DEF Spec, ChannelSpec, Channel!Spec

\* Once a message has been sent, every older one of its producer was sent or is lost
\* for good, although clients change while requests are under way.
THEOREM MessagesInOrder == Spec => []Channel!InOrder
  BY ChannelImplemented, Channel!DeliveredInOrder, PTL DEF ChannelSpec

\* No message is sent a second time, and what a deleted communicator held never
\* turns up in the queue of the next.
THEOREM MessagesOnce == Spec => Channel!SettledForGood
  BY ChannelImplemented, Channel!DeliveredOnce, PTL DEF ChannelSpec
===============================================================================
