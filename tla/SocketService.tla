----------------------------- MODULE SocketService -----------------------------
(***************************************************************************)
(* The TCP service that sends measurements and pictures to one client at a *)
(* time: the service thread (SocketHandler::handle, acceptClient,          *)
(* runCommunication), the threads that hand it messages (sendReqeust), the *)
(* client, and exitService.                                                *)
(*                                                                         *)
(* The lock_guard statements of the communicator make temporaries that are *)
(* destroyed at once, so nothing excludes anything: enqueueData is three   *)
(* steps (read the size, push, read the size again), and pushes that       *)
(* overlap with each other or with the service's own front and pop may lose*)
(* a message or break the queue.  A step on a deleted communicator does    *)
(* anything: it kills the process or goes unnoticed.                       *)
(*                                                                         *)
(* MaxClients and MaxMessages bound the run; the program has no such bound.*)
(* A definition marked "a slip" is a plausible wrong version of the next.  *)
(***************************************************************************)
EXTENDS Integers, Sequences, FiniteSets

CONSTANTS
  Producers,       \* threads that call sendReqeust
  SEND_LIMIT,      \* messages enqueueData accepts
  MaxClients,      \* connections of one run
  MaxMessages,     \* MaxMessages[p]: messages of producer p in one run
  RecvTimeout      \* accept and recv return after a while (see Timeouts)

ASSUME ProducersAssumption == IsFiniteSet(Producers)
ASSUME SendLimitAssumption == SEND_LIMIT \in Nat \ {0}
ASSUME BoundsAssumption == MaxClients \in Nat \ {0} /\ MaxMessages \in [Producers -> Nat]
ASSUME TimeoutAssumption == RecvTimeout \in BOOLEAN

VARIABLES
  svc,           \* where the service thread is
  status,        \* SocketHandler::_status
  communicator,  \* _communicator: 0 is nullptr; it keeps naming a deleted one
  life, sendMessageQ, cancelled,   \* of each communicator
  acceptorCancelled,               \* SocketAcceptor::_canceller
  backlog,       \* a client waits to be accepted
  peer,          \* the accepted client's end of the connection
  inbox,         \* what the client sent and recv has not returned
  pc, target, before, made,        \* of each producer's sendReqeust
  sent,          \* history: producers' messages that send() took
  saved,         \* history: messages whose caller was told "not queued"
  exitStep,      \* how far exitService is
  dead           \* the process has crashed

handler  == <<status, communicator>>
comms    == <<life, sendMessageQ, cancelled>>
client   == <<backlog, peer, inbox>>
producer == <<pc, target, before, made>>
history  == <<sent, saved>>
exiting  == <<acceptorCancelled, exitStep>>
vars == <<svc, handler, comms, client, producer, history, exiting, dead>>

Clients  == 1..MaxClients
Messages == UNION {[by : {p}, no : 1..MaxMessages[p]] : p \in Producers}
Reply    == [by |-> "service", no |-> 0]    \* what recvMessageHandle queues
MovedFrom(p) == [by |-> p, no |-> 0]        \* a slip: queued after it was moved away
Current(p) == [by |-> p, no |-> made[p]]

TypeOK ==
  /\ svc \in {"accept", "create", "recv", "reply", "push", "send", "delete", "ended"}
  /\ status \in {"IDLE", "ACCEPT_CLIENT", "COMMUNICATION", "EXIT"}
  /\ communicator \in 0..MaxClients
  /\ life \in [Clients -> {"unborn", "live", "deleted"}]
  /\ sendMessageQ \in [Clients -> Seq(Messages \cup {Reply})]
  /\ cancelled \in [Clients -> BOOLEAN]
  /\ acceptorCancelled \in BOOLEAN
  /\ backlog \in BOOLEAN
  /\ peer \in {"none", "talking", "gone", "reset"}
  /\ inbox \in {"none", "ACK", "exit"}
  /\ pc \in [Producers -> {"idle", "size", "push", "result"}]
  /\ target \in [Producers -> 0..MaxClients]
  /\ before \in [Producers -> Nat]
  /\ made \in [Producers -> Nat] /\ \A p \in Producers : made[p] <= MaxMessages[p]
  /\ sent \in Seq(Messages)
  /\ saved \in SUBSET Messages
  /\ exitStep \in {"none", "acceptor", "done"}
  /\ dead \in BOOLEAN

Init ==
  /\ svc = "accept" /\ status = "IDLE" /\ communicator = 0
  /\ life = [k \in Clients |-> "unborn"]
  /\ sendMessageQ = [k \in Clients |-> <<>>]
  /\ cancelled = [k \in Clients |-> FALSE]
  /\ acceptorCancelled = FALSE /\ exitStep = "none"
  /\ backlog = FALSE /\ peer = "none" /\ inbox = "none"
  /\ pc = [p \in Producers |-> "idle"] /\ target = [p \in Producers |-> 0]
  /\ before = [p \in Producers |-> 0] /\ made = [p \in Producers |-> 0]
  /\ sent = <<>> /\ saved = {}
  /\ dead = FALSE

-------------------------------------------------------------------------------
(* The service thread. *)

\* initSocket asks for a receive timeout with a timeval whose tv_usec was never
\* written: the option may be set, be zero (wait for ever) or be refused.
Timeouts == RecvTimeout

\* A waiting client is accepted even after the acceptor was cancelled.
AcceptClient ==
  /\ svc = "accept" /\ backlog
  /\ backlog' = FALSE /\ peer' = "talking" /\ inbox' = "none"
  /\ status' = "ACCEPT_CLIENT"
  /\ svc' = "create"
  /\ UNCHANGED <<communicator, comms, producer, history, exiting, dead>>

CancellationForgotten == FALSE   \* a slip
AcceptorStops == acceptorCancelled

AcceptCancelled ==
  /\ svc = "accept" /\ ~backlog /\ Timeouts
  /\ AcceptorStops
  /\ status' = "EXIT"
  /\ svc' = "ended"
  /\ UNCHANGED <<communicator, comms, client, producer, history, exiting, dead>>

CreateCommunicator ==
  /\ svc = "create"
  /\ \E k \in Clients :
       /\ life[k] = "unborn" /\ \A j \in 1..(k - 1) : life[j] # "unborn"
       /\ life' = [life EXCEPT ![k] = "live"]
       /\ communicator' = k
  /\ status' = "COMMUNICATION"
  /\ svc' = "recv"
  /\ UNCHANGED <<sendMessageQ, cancelled, client, producer, history, exiting, dead>>

\* A slip: the communicator goes before the status says so.
LeaveEarly(s) ==
  /\ life' = [life EXCEPT ![communicator] = "deleted"]
  /\ svc' = "delete"
  /\ UNCHANGED <<status, sendMessageQ, cancelled>>

\* runCommunication returns s: handle stores it before it deletes.
Leave(s) ==
  /\ status' = s
  /\ svc' = "delete"
  /\ UNCHANGED comms

\* What recv may return: "" when the client has closed, -1 after the timeout.
Receivable ==
  IF inbox # "none" THEN {inbox}
  ELSE IF peer \in {"gone", "reset"} THEN {"closed"}
  ELSE IF Timeouts THEN {"timeout"} ELSE {}

Recv ==
  /\ svc = "recv"
  /\ \E got \in Receivable :
       IF got = "exit" THEN Leave("IDLE")
       ELSE IF cancelled[communicator] THEN Leave("EXIT")
       ELSE /\ svc' = IF got = "timeout" THEN "send" ELSE "reply"
            /\ UNCHANGED <<status, comms>>
  /\ inbox' = "none"
  /\ UNCHANGED <<communicator, backlog, peer, producer, history, exiting, dead>>

Unlimited(size) == TRUE   \* a slip
BelowLimit(size) == size < SEND_LIMIT

Pushing(k) == {p \in Producers : pc[p] = "push" /\ target[p] = k /\ BelowLimit(before[p])}

\* The service is in the middle of its own push, or of front and pop.
ServiceIn(k) ==
  /\ communicator = k
  /\ svc = "push" \/ (svc = "send" /\ sendMessageQ[k] # <<>>)

\* What a push of msg may leave, if others use the queue meanwhile.
Pushed(q, msg, alone) == {Append(q, msg)} \cup IF alone THEN {} ELSE {q}

\* recvMessageHandle queues its answer itself, on the same queue.
ReplyToClient ==
  /\ svc = "reply"
  /\ svc' = IF BelowLimit(Len(sendMessageQ[communicator])) THEN "push" ELSE "send"
  /\ UNCHANGED <<handler, comms, client, producer, history, exiting, dead>>

PushReply ==
  /\ svc = "push"
  /\ \E q \in Pushed(sendMessageQ[communicator], Reply, Pushing(communicator) = {}) :
       sendMessageQ' = [sendMessageQ EXCEPT ![communicator] = q]
  /\ svc' = "send"
  /\ UNCHANGED <<handler, life, cancelled, client, producer, history, exiting, dead>>

\* A push or a pop of the service that a producer's push overlaps breaks the queue.
ServiceBreaks ==
  /\ communicator # 0 /\ ServiceIn(communicator) /\ Pushing(communicator) # {}
  /\ dead' = TRUE
  /\ UNCHANGED <<svc, handler, comms, client, producer, history, exiting>>

Logged(msg) == IF msg = Reply THEN sent ELSE Append(sent, msg)

KeepFirst(q) == q   \* a slip: the message is sent and stays
DropFirst(q) == Tail(q)

\* One message per turn of the loop; to a reset connection it ends in EPIPE.
SendMessage ==
  /\ svc = "send"
  /\ LET q == sendMessageQ[communicator] IN
       IF q = <<>>
         THEN /\ svc' = "recv"
              /\ UNCHANGED <<status, comms, peer, sent>>
         ELSE /\ sendMessageQ' = [sendMessageQ EXCEPT ![communicator] = DropFirst(q)]
              /\ UNCHANGED <<life, cancelled>>
              /\ IF peer = "reset"
                   THEN status' = "IDLE" /\ svc' = "delete" /\ UNCHANGED <<peer, sent>>
                   ELSE /\ sent' = Logged(Head(q))
                        /\ peer' = IF peer = "gone" THEN "reset" ELSE peer
                        /\ svc' = "recv"
                        /\ UNCHANGED status
  /\ UNCHANGED <<communicator, backlog, inbox, producer, saved, exiting, dead>>

\* A send that fails while the connection stands drops its message, and the loop
\* goes on.  (Once the client has closed, the kernel takes one more and then
\* answers EPIPE.)
SendFails ==
  /\ svc = "send" /\ sendMessageQ[communicator] # <<>> /\ peer = "talking"
  /\ sendMessageQ' = [sendMessageQ EXCEPT ![communicator] = Tail(@)]
  /\ svc' = "recv"
  /\ UNCHANGED <<handler, life, cancelled, client, producer, history, exiting, dead>>

DeleteCommunicator ==
  /\ svc = "delete"
  /\ life' = [life EXCEPT ![communicator] = "deleted"]
  /\ peer' = "none" /\ inbox' = "none"
  /\ svc' = IF status = "EXIT" THEN "ended" ELSE "accept"
  /\ UNCHANGED <<handler, sendMessageQ, cancelled, backlog, producer, history, exiting, dead>>

-------------------------------------------------------------------------------
(* sendReqeust, in DETECT's onEvent and in the capture listener. *)

\* The call returns whether message n is queued; if not, the caller saves it.
Finish(p, n, queued) ==
  /\ pc' = [pc EXCEPT ![p] = "idle"]
  /\ saved' = IF queued THEN saved ELSE saved \cup {[by |-> p, no |-> n]}

\* The program leaves its loop only from INIT, before any message is made.
CheckStatus(p) ==
  /\ pc[p] = "idle" /\ made[p] < MaxMessages[p] /\ exitStep = "none"
  /\ made' = [made EXCEPT ![p] = @ + 1]
  /\ IF communicator = 0 \/ status # "COMMUNICATION"
       THEN Finish(p, made[p] + 1, FALSE)
       ELSE pc' = [pc EXCEPT ![p] = "size"] /\ UNCHANGED saved
  /\ UNCHANGED <<svc, handler, comms, client, target, before, sent, exiting, dead>>

\* The pointer is read again here: by now it may name another communicator.
ReadSize(p) ==
  /\ pc[p] = "size" /\ life[communicator] = "live"
  /\ target' = [target EXCEPT ![p] = communicator]
  /\ before' = [before EXCEPT ![p] = Len(sendMessageQ[communicator])]
  /\ pc' = [pc EXCEPT ![p] = "push"]
  /\ UNCHANGED <<svc, handler, comms, client, made, history, exiting, dead>>

Alone(p) == Pushing(target[p]) = {p} /\ ~ServiceIn(target[p])

Push(p) ==
  /\ pc[p] = "push" /\ life[target[p]] = "live"
  /\ \/ /\ ~BelowLimit(before[p])
        /\ pc' = [pc EXCEPT ![p] = "result"]
        /\ UNCHANGED <<sendMessageQ, dead>>
     \/ /\ BelowLimit(before[p])
        /\ \E q \in Pushed(sendMessageQ[target[p]], Current(p), Alone(p)) :
             sendMessageQ' = [sendMessageQ EXCEPT ![target[p]] = q]
        /\ pc' = [pc EXCEPT ![p] = "result"]
        /\ UNCHANGED dead
     \/ /\ BelowLimit(before[p]) /\ ~Alone(p)
        /\ dead' = TRUE
        /\ UNCHANGED <<pc, sendMessageQ>>
  /\ UNCHANGED <<svc, handler, life, cancelled, client, target, before, made, history, exiting>>

ReturnResult(p) ==
  /\ pc[p] = "result" /\ life[target[p]] = "live"
  /\ Finish(p, made[p], Len(sendMessageQ[target[p]]) > before[p])
  /\ UNCHANGED <<svc, handler, comms, client, target, before, made, sent, exiting, dead>>

\* Any step on a communicator that handle has deleted.
UseDeleted(p) ==
  /\ pc[p] # "idle"
  /\ life[IF pc[p] = "size" THEN communicator ELSE target[p]] = "deleted"
  /\ \/ \E queued \in BOOLEAN : Finish(p, made[p], queued) /\ UNCHANGED dead
     \/ dead' = TRUE /\ UNCHANGED <<pc, saved>>
  /\ UNCHANGED <<svc, handler, comms, client, target, before, made, sent, exiting>>

-------------------------------------------------------------------------------
(* exitService, called by exitProcess before main joins the service. *)

CancelAcceptor ==
  /\ exitStep = "none" /\ \A p \in Producers : made[p] = 0
  /\ acceptorCancelled' = TRUE
  /\ exitStep' = "acceptor"
  /\ UNCHANGED <<svc, handler, comms, client, producer, history, dead>>

\* Only the communicator that exists now is told; a deleted one is written to.
CancelCommunicator ==
  /\ exitStep = "acceptor"
  /\ exitStep' = "done"
  /\ IF communicator # 0 /\ life[communicator] = "live"
       THEN cancelled' = [cancelled EXCEPT ![communicator] = TRUE]
       ELSE UNCHANGED cancelled
  /\ dead' \in IF communicator # 0 /\ life[communicator] = "deleted"
                 THEN BOOLEAN ELSE {FALSE}
  /\ UNCHANGED <<svc, handler, life, sendMessageQ, client, producer, history,
                 acceptorCancelled>>

-------------------------------------------------------------------------------
(* The client. *)

Connections == {k \in Clients : life[k] = "unborn"}

Connect ==
  /\ ~backlog
  /\ IF svc = "create" THEN \E j, k \in Connections : j # k ELSE Connections # {}
  /\ backlog' = TRUE
  /\ UNCHANGED <<svc, handler, comms, peer, inbox, producer, history, exiting, dead>>

ClientSends ==
  /\ peer = "talking" /\ inbox = "none"
  /\ inbox' \in {"ACK", "exit"}
  /\ UNCHANGED <<svc, handler, comms, backlog, peer, producer, history, exiting, dead>>

ClientLeaves ==
  /\ peer = "talking"
  /\ peer' = "gone"
  /\ UNCHANGED <<svc, handler, comms, backlog, inbox, producer, history, exiting, dead>>

-------------------------------------------------------------------------------
ServiceStep ==
  \/ AcceptClient \/ AcceptCancelled \/ CreateCommunicator
  \/ Recv \/ ReplyToClient \/ PushReply \/ SendMessage \/ DeleteCommunicator

ProducerStep(p) ==
  \/ CheckStatus(p) \/ ReadSize(p) \/ Push(p) \/ ReturnResult(p) \/ UseDeleted(p)

ExitStep == CancelAcceptor \/ CancelCommunicator

ClientStep == Connect \/ ClientSends \/ ClientLeaves

Next ==
  /\ ~dead
  /\ \/ ServiceStep \/ SendFails \/ ServiceBreaks
     \/ \E p \in Producers : ProducerStep(p)
     \/ ExitStep
     \/ ClientStep

Spec == Init /\ [][Next]_vars

\* The threads are scheduled; the exit, once begun, is finished.
ThreadFairness ==
  /\ WF_vars(~dead /\ ServiceStep)
  /\ WF_vars(~dead /\ CancelCommunicator)

FairSpec == Spec /\ ThreadFairness

\* Besides, no client stays connected for ever.
PoliteSpec == FairSpec /\ WF_vars(~dead /\ ClientLeaves)

-------------------------------------------------------------------------------
(* Properties. *)

\* SocketCommunicator.cpp: each check of the limit, a producer's or the service's own,
\* may be stale by the time of the push, so the queue passes its limit, but by no more
\* than one message for each producer.
QueueBounded ==
  \A k \in Clients : Len(sendMessageQ[k]) <= SEND_LIMIT + Cardinality(Producers)

\* SocketHandler.cpp never resets _communicator: what keeps a new request off a
\* deleted one is that _status changes before the delete and after the new.
CheckedPointerIsLive ==
  status = "COMMUNICATION" => communicator # 0 /\ life[communicator] = "live"

\* How far a message got.  What is pushed onto a queue that is deleted, or was
\* lost to an overlapping push, is lost; "repeated" is no stage of the channel.
Taken(msg)   == \E i \in DOMAIN sent : sent[i] = msg
Waiting(msg) ==
  \E k \in Clients : /\ life[k] = "live"
                     /\ \E i \in DOMAIN sendMessageQ[k] : sendMessageQ[k][i] = msg

Stage(msg) ==
  IF \E i, j \in DOMAIN sent : i # j /\ sent[i] = msg /\ sent[j] = msg THEN "repeated"
  ELSE IF Taken(msg)                THEN "taken"
  ELSE IF Waiting(msg)              THEN "queued"
  ELSE IF msg.no > made[msg.by]     THEN "unmade"
  ELSE IF msg.no = made[msg.by] /\ pc[msg.by] \in {"size", "push"} THEN "offered"
  ELSE "lost"

Stages == [msg \in Messages |-> Stage(msg)]

Channel == INSTANCE LossyChannel WITH Things <- Messages, stage <- Stages

\* SocketHandler.cpp, SocketCommunicator.cpp: whatever threads overlap and clients
\* come and go, no message is sent twice, one producer's messages are sent in the
\* order it made them, and what a deleted communicator held never turns up again.
ChannelSpec == Channel!Spec

\* main.cpp joins the service after exitService: it ends, if the receive
\* timeout works and the clients leave at some time.
ServiceEnds == (exitStep = "done") ~> (svc = "ended" \/ dead)

\* SocketAcceptor.cpp sets a "socket receive timeout": an accept that has been
\* cancelled returns.
ReceiveTimesOut ==
  (svc = "accept" /\ acceptorCancelled) ~> (svc # "accept" \/ dead)

\* DetectEvent.cpp logs "failed send message" and writes a file when sendReqeust
\* returns false: that message is not sent as well.
FailedIsNotSent == \A i \in DOMAIN sent : sent[i] \notin saved
===============================================================================
