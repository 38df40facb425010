---------------------------- MODULE CaptureService ----------------------------
(***************************************************************************)
(* The cameras' service: requestCapture, called for every camera when an   *)
(* object is measured and for EXIT when the program stops, and the capture *)
(* listener, a thread that takes one request at a time, takes the picture  *)
(* and hands it to the socket service or to a file.                        *)
(*                                                                         *)
(* CamEventQueue's lock_guard statements make temporaries, so a push is    *)
(* two steps (look at the size, push) that exclude nothing.  The listener  *)
(* holds _contextMutex from its test of the queue to the end of a picture; *)
(* a request takes it only to notify, after its push.                      *)
(*                                                                         *)
(* MaxRequests bounds the run; the program has no such bound.              *)
(* A definition marked "a slip" is a plausible wrong version of the next.  *)
(***************************************************************************)
EXTENDS Integers, Sequences

CONSTANTS
  Cams,          \* cameras in _cams
  MAX_Q_SIZE,    \* requests the queue accepts
  MaxRequests,   \* pictures requested in one run
  AsyncStop      \* what the uninitialised _asyncStop holds

ASSUME CamsAssumption == Cams \in Nat
ASSUME QueueAssumption == MAX_Q_SIZE \in Nat \ {0}
ASSUME RequestAssumption == MaxRequests \in Nat
ASSUME AsyncAssumption == AsyncStop \in BOOLEAN

VARIABLES
  listener,      \* where the capture listener is
  picture,       \* the request it took from the queue
  mEventQ,       \* the requests: a picture's number, or EXIT
  contextMutex,  \* who holds _contextMutex
  notified,      \* the sleeping listener has been woken
  pc,            \* where each caller of requestCapture is
  made,          \* pictures requested so far
  fate,          \* history: what became of each picture
  dead           \* a data race has crashed the process

sync == <<contextMutex, notified>>
vars == <<listener, picture, mEventQ, sync, pc, made, fate, dead>>

\* requestGPCapture of DETECT's onEnter, exitProcess of the loop, and the same
\* called by the SIGINT handler, which interrupts the main thread.
Callers  == {"detect", "exit", "sigint"}
EXIT     == 0
NO_EVENT == -1
Pictures == 1..MaxRequests

TypeOK ==
  /\ listener \in {"lock", "test", "block", "waiting", "take", "capture", "send",
                   "ended", "threw"}
  /\ picture \in 0..MaxRequests   \* NO_EVENT is never handled
  /\ mEventQ \in Seq(0..MaxRequests)
  /\ Len(mEventQ) <= MAX_Q_SIZE + 1   \* two callers may find room for one
  /\ contextMutex \in Callers \cup {"free", "listener"}
  /\ notified \in BOOLEAN
  /\ pc \in [Callers -> {"idle", "begun", "pushing", "notify", "unlock", "returned", "gone"}]
  /\ made \in 0..MaxRequests
  /\ fate \in [Pictures -> {"none", "accepted", "refused", "failed", "sent", "saved", "lost"}]
  /\ dead \in BOOLEAN

Init ==
  /\ listener = "lock" /\ picture = EXIT
  /\ mEventQ = <<>>
  /\ contextMutex = "free" /\ notified = FALSE
  /\ pc = [c \in Callers |-> "idle"]
  /\ made = 0
  /\ fate = [n \in Pictures |-> "none"]
  /\ dead = FALSE

-------------------------------------------------------------------------------
(* requestCapture. *)

Pushing == {c \in Callers : pc[c] = "pushing"}

\* The handler runs on the main thread, which stands still under it.
MainRuns == pc["sigint"] = "idle"
MidRound == Cams > 0 /\ made % Cams # 0

\* DETECT's onEnter starts a thread and waits for it: SIGINT does not stop it.
BeginRound ==
  /\ pc["detect"] = "idle" /\ ~MidRound /\ Cams > 0 /\ made < MaxRequests
  /\ MainRuns /\ pc["exit"] = "idle"
  /\ pc' = [pc EXCEPT !["detect"] = "begun"]
  /\ UNCHANGED <<listener, picture, mEventQ, sync, made, fate, dead>>

\* The thread makes one camera's request after another.
MayRequest(c) ==
  CASE c = "detect" -> /\ pc[c] = "begun" \/ (pc[c] = "idle" /\ MidRound)
                       /\ made < MaxRequests /\ pc["exit"] = "idle"
    [] c = "exit"   -> pc[c] = "idle" /\ MainRuns /\ made = 0 /\ pc["detect"] = "idle"
    [] c = "sigint" -> pc[c] = "idle"

Returned(c) == IF c = "detect" THEN "idle" ELSE "returned"
Judged(c, what) == IF c = "detect" THEN fate' = [fate EXCEPT ![made'] = what]
                                   ELSE UNCHANGED fate

HasRoom(size) == size < MAX_Q_SIZE

\* eventPush looks at the size; what it does not accept is dropped silently.
BeginPush(c) ==
  /\ MayRequest(c)
  /\ made' = IF c = "detect" THEN made + 1 ELSE made
  /\ IF HasRoom(Len(mEventQ))
       THEN pc' = [pc EXCEPT ![c] = "pushing"] /\ Judged(c, "accepted")
       ELSE pc' = [pc EXCEPT ![c] = Returned(c)] /\ Judged(c, "refused")
  /\ UNCHANGED <<listener, picture, mEventQ, sync, dead>>

Request(c) == IF c = "detect" THEN made ELSE EXIT

Steps(c) == c # "exit" \/ MainRuns

\* Two pushes at once may lose a request or break the queue.
EndPush(c) ==
  /\ pc[c] = "pushing" /\ Steps(c)
  /\ \/ /\ mEventQ' \in {Append(mEventQ, Request(c))}
                        \cup IF Pushing = {c} THEN {} ELSE {mEventQ}
        /\ pc' = [pc EXCEPT ![c] = "notify"]
        /\ UNCHANGED dead
     \/ /\ Pushing # {c}
        /\ dead' = TRUE
        /\ UNCHANGED <<mEventQ, pc>>
  /\ UNCHANGED <<listener, picture, sync, made, fate>>

NoWaiting == TRUE   \* a slip: notify_one without the mutex
MutexFree == contextMutex = "free"

Notify(c) ==
  /\ pc[c] = "notify" /\ Steps(c)
  /\ MutexFree
  /\ contextMutex' = c
  /\ notified' = (notified \/ listener = "waiting")
  /\ pc' = [pc EXCEPT ![c] = "unlock"]
  /\ UNCHANGED <<listener, picture, mEventQ, made, fate, dead>>

Unlock(c) ==
  /\ pc[c] = "unlock" /\ Steps(c)
  /\ contextMutex' = IF contextMutex = c THEN "free" ELSE contextMutex
  /\ pc' = [pc EXCEPT ![c] = Returned(c)]
  /\ UNCHANGED <<listener, picture, mEventQ, notified, made, fate, dead>>

\* The rest of exitProcess, and exit(0).
Exit ==
  /\ pc["sigint"] = "returned"
  /\ pc' = [pc EXCEPT !["sigint"] = "gone"]
  /\ UNCHANGED <<listener, picture, mEventQ, sync, made, fate, dead>>

-------------------------------------------------------------------------------
(* runCaptureListener's thread. *)

Lock ==
  /\ listener = "lock" /\ contextMutex = "free"
  /\ contextMutex' = "listener"
  /\ listener' = "test"
  /\ UNCHANGED <<picture, mEventQ, notified, pc, made, fate, dead>>

NoPredicate(q) == TRUE   \* a slip: wait without a predicate
HasWork(q) == q # <<>>

\* The predicate of wait.
Test ==
  /\ listener = "test"
  /\ listener' = IF HasWork(mEventQ) THEN "take" ELSE "block"
  /\ UNCHANGED <<picture, mEventQ, sync, pc, made, fate, dead>>

Block ==
  /\ listener = "block"
  /\ listener' = "waiting"
  /\ contextMutex' = "free" /\ notified' = FALSE
  /\ UNCHANGED <<picture, mEventQ, pc, made, fate, dead>>

Wake ==
  /\ listener = "waiting" /\ notified
  /\ listener' = "lock"
  /\ notified' = FALSE
  /\ UNCHANGED <<picture, mEventQ, contextMutex, pc, made, fate, dead>>

SpuriousWake ==
  /\ listener = "waiting"
  /\ listener' = "lock"
  /\ UNCHANGED <<picture, mEventQ, sync, pc, made, fate, dead>>

Newest(q) == IF q = <<>> THEN NO_EVENT ELSE q[Len(q)]   \* a slip: back() for front()
Oldest(q) == IF q = <<>> THEN NO_EVENT ELSE Head(q)

\* A slip: the early exit of the loop keeps the mutex.
KeptAtEnd(st) == contextMutex
\* The unique_lock goes out of scope at the end of a turn, or of the thread.
AfterTurn(st) == IF st \in {"lock", "ended", "threw"} THEN "free" ELSE contextMutex

Turn(st) ==
  /\ listener' = st
  /\ contextMutex' = AfterTurn(st)
  /\ UNCHANGED notified

\* getFront races with a push.  _cams.at is evaluated for EXIT as well.
Take ==
  /\ listener = "take"
  /\ \/ /\ picture' = Oldest(mEventQ)
        /\ mEventQ' = IF mEventQ = <<>> THEN <<>> ELSE Tail(mEventQ)
        /\ Turn(IF Cams = 0 THEN "threw"
                ELSE IF picture' = EXIT \/ AsyncStop THEN "ended"
                ELSE IF picture' = NO_EVENT THEN "lock" ELSE "capture")
        /\ UNCHANGED dead
     \/ /\ Pushing # {}
        /\ dead' = TRUE
        /\ UNCHANGED <<listener, picture, mEventQ, sync>>
  /\ UNCHANGED <<pc, made, fate>>

Fate(what) == fate' = [fate EXCEPT ![picture] = what]

\* captureToMemeory: a GpException is caught, the picture is not taken.
Capture ==
  /\ listener = "capture"
  /\ \/ Turn("send") /\ UNCHANGED fate
     \/ Turn("lock") /\ Fate("failed")
  /\ UNCHANGED <<picture, mEventQ, pc, made, dead>>

\* sendReqeust, else downloadFromMemory: with no directory "capture" it returns
\* an error nobody reads, and a file-system exception leaves the loop.
Send ==
  /\ listener = "send"
  /\ \/ Turn("lock") /\ \E what \in {"sent", "saved", "lost"} : Fate(what)
     \/ Turn("threw") /\ Fate("lost")
  /\ UNCHANGED <<picture, mEventQ, pc, made, dead>>

-------------------------------------------------------------------------------
Running == ~dead /\ pc["sigint"] # "gone"

ListenerStep == Lock \/ Test \/ Block \/ Wake \/ Take \/ Capture \/ Send

Finish(c) == EndPush(c) \/ Notify(c) \/ Unlock(c) \/ (c = "detect" /\ BeginPush(c))

Next ==
  /\ Running
  /\ \/ ListenerStep \/ SpuriousWake
     \/ BeginRound
     \/ \E c \in Callers : BeginPush(c) \/ Finish(c)
     \/ Exit

Spec == Init /\ [][Next]_vars

\* Threads are scheduled, a capture ends, a round or a request begun is finished, and the
\* listener does not wake for nothing for ever.
Fairness ==
  /\ WF_vars(Running /\ ListenerStep)
  /\ \A c \in Callers : WF_vars(Running /\ Finish(c))
  /\ WF_vars(Running /\ Exit)
  /\ <>[][~SpuriousWake]_vars

FairSpec == Spec /\ Fairness

-------------------------------------------------------------------------------
(* Properties. *)

\* GpCamera.cpp: the predicate and the notification are under one mutex though
\* the push is not, so the listener never sleeps on a request whose caller has
\* nothing more to do.
NoLostWakeup ==
  listener = "waiting" /\ ~notified /\ mEventQ # <<>> =>
    \E c \in Callers : pc[c] = "notify"

Undecided(n) == fate[n] \in {"none", "accepted"}

\* How far a picture got.  It is taken when the listener begins with it, and lost if
\* it was refused, pushed while SIGINT's own request was, or met by a listener that
\* ends; "repeated" is no stage of the channel.
Wanted == [by : {"detect"}, no : Pictures]

Taking(n) == listener \in {"capture", "send"} /\ picture = n

Stage(n) ==
  IF Taking(n) /\ ~Undecided(n) THEN "repeated"
  ELSE IF Taking(n) \/ fate[n] \in {"failed", "sent", "saved", "lost"} THEN "taken"
  ELSE IF \E i \in DOMAIN mEventQ : mEventQ[i] = n THEN "queued"
  ELSE IF n > made THEN "unmade"
  ELSE IF n = made /\ pc["detect"] = "pushing" THEN "offered"
  ELSE "lost"

Stages == [t \in Wanted |-> Stage(t.no)]

Channel == INSTANCE LossyChannel WITH Things <- Wanted, stage <- Stages

OnlyRefusedAreLost ==
  pc["sigint"] = "idle" /\ listener \notin {"ended", "threw"} =>
    \A n \in Pictures : Stage(n) = "lost" => fate[n] = "refused"

\* GpCamera.cpp: the pictures are taken in the order of their requests and each
\* once, also when SIGINT's request overlaps with theirs; and until SIGINT comes,
\* while there is a listener, none is lost but those that found the queue full.
\* (What a picture shows is not said: DETECT does not wait for it.)
ChannelSpec == Channel!Spec /\ [][OnlyRefusedAreLost']_vars

Over == listener \in {"ended", "threw"} \/ ~Running

\* DETECT's onEnter waits for its request thread: it returns, with a request made
\* for each camera, although the listener holds the mutex while it photographs,
\* also when the listener has ended.
RequestReturns ==
  pc["detect"] # "idle" \/ MidRound ~> (pc["detect"] = "idle" /\ ~MidRound) \/ ~Running

\* A picture that was accepted is sent, saved or reported, unless the listener
\* or the program has ended.
PicturesDecided == \A n \in Pictures : fate[n] = "accepted" ~> ~Undecided(n) \/ Over

\* main.cpp's loop: after EXIT the listener ends, so that main can join it.
ListenerJoins == pc["exit"] = "returned" ~> Over

\* main.cpp, exitHandler: "Canceling Program..." is followed by exit(0), unless
\* SIGINT finds the main thread inside requestCapture's own lock.
CancelEnds ==
  pc["sigint"] # "idle" /\ contextMutex # "exit" ~> ~Running
===============================================================================
