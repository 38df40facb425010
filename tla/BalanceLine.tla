------------------------------ MODULE BalanceLine ------------------------------
(***************************************************************************)
(* The serial line to the balance: INIT sets the balance to zero, and each *)
(* DETECT starts a thread (getWeightValue) that clears the line, asks for  *)
(* the weight and reads until the line has been silent.  An abandoned      *)
(* DETECT leaves its thread behind, EXTRACT closes the port under it, and  *)
(* the next DETECT starts another before it waits for the first.  A read() *)
(* that finds nothing blocks; the line stays open under it, whatever the   *)
(* program closes, until a piece comes.                                    *)
(*                                                                         *)
(* The line carries pieces of records: the head of one ends in the weight's*)
(* digits, the tail follows; nothing but a whole record has the 17         *)
(* characters that are asked for.  A weight is the object it is of.  Noise *)
(* is what lies behind serialRead's buffer, which is not terminated: any   *)
(* text, with a digit, a "+" or a "Z" in it or not.                        *)
(*                                                                         *)
(* EXTRACT closes the port through a map node it has just freed: here the  *)
(* node is still intact (KioskFSM has the other case).                     *)
(*                                                                         *)
(* MaxObjects, MaxBoots and MaxNoise bound the run; the program has no such*)
(* bounds.                                                                 *)
(* A definition marked "a slip" is a plausible wrong version of the next.  *)
(***************************************************************************)
EXTENDS Integers, Sequences

CONSTANTS
  MaxObjects,   \* objects weighed in one run
  MaxBoots,     \* attempts of INIT
  MaxNoise      \* times in one run that noise is read

ASSUME ObjectAssumption == MaxObjects \in Nat
ASSUME BootAssumption == MaxBoots \in Nat
ASSUME NoiseAssumption == MaxNoise \in Nat

VARIABLES
  main,            \* where the main thread is
  object,          \* objects that have been on the balance
  boots,           \* attempts of INIT so far
  port,            \* gSerialList holds an open port
  reader,          \* the threads in readWithTimeout
  asked,           \* external: commands the balance has not answered
  zeroed,          \* external: the balance has been set to zero
  wire, buffer,    \* pieces on their way, and in the kernel
  overdue,         \* history: an earlier answer was on its way when this thread began
  shared,          \* history: this thread and an earlier one read the same port
  noise,           \* times that noise was read so far
  noisy,           \* history: this thread has read noise
  failed,          \* history: its question was not answered, or not in time, or in part
  misled,          \* history: setToZero has read noise
  weight,          \* history: what _fObjWeight.get() returned
  dead             \* a null pointer was appended

balance == <<asked, zeroed>>
line    == <<wire, buffer, noise>>
history == <<overdue, shared, noisy, failed, misled, weight>>
vars == <<main, object, boots, port, reader, balance, line, history, dead>>

Objects == 0..MaxObjects
Records == [of : Objects, sign : {"+", "-"}]
NoRecord == [of |-> 0, sign |-> "+"]
Pieces  == [part : {"head", "tail", "zero", "refusal", "noise"}, record : Records]
Zero    == [part |-> "zero", record |-> NoRecord]
Refusal == [part |-> "refusal", record |-> NoRecord]
Noise   == [part |-> "noise", record |-> NoRecord]

\* The main thread in setToZero, _fObjWeight's thread, the one it replaces.
Readers == {"init", "new", "old"}
\* "noport" is recorded as -1 and "short" as 0; nothing is recorded of "threw".
Results == [kind : {"none", "noport", "short", "threw", "garbled", "value", "zeroed"},
            record : Records]
Kind(kind) == [kind |-> kind, record |-> NoRecord]
Nothing == Kind("none")
Idle    == [pc |-> "idle", fd |-> FALSE, rx |-> <<>>, result |-> Nothing]
Begun(pc, fd) == [Idle EXCEPT !.pc = pc, !.fd = fd]

\* A read() that has begun keeps the line open.
LineOpen(threads) == port \/ main = "closing" \/ \E t \in threads : reader[t].pc = "blocked"

TypeOK ==
  /\ main \in {"init", "zeroing", "belt", "assign", "weigh", "extract", "closing"}
  /\ object \in Objects /\ boots \in 0..MaxBoots
  /\ port \in BOOLEAN /\ zeroed \in BOOLEAN
  /\ reader \in [Readers ->
       [pc : {"idle", "start", "clear", "write", "poll", "read", "blocked", "done"}, fd : BOOLEAN,
        rx : Seq(Pieces), result : Results]]
  /\ asked \in Seq({"Q", "Z"})
  /\ wire \in Seq(Pieces) /\ buffer \in Seq(Pieces)
  /\ LineOpen(Readers) \/ buffer = <<>>
  /\ noise \in 0..MaxNoise
  /\ overdue \in BOOLEAN /\ shared \in BOOLEAN /\ noisy \in BOOLEAN
  /\ failed \in BOOLEAN /\ misled \in BOOLEAN
  /\ weight \in Results
  /\ dead \in BOOLEAN

Init ==
  /\ main = "init" /\ object = 0 /\ boots = 0 /\ port = FALSE
  /\ reader = [t \in Readers |-> Idle]
  /\ asked = <<>> /\ zeroed = FALSE
  /\ wire = <<>> /\ buffer = <<>> /\ noise = 0
  /\ overdue = FALSE /\ shared = FALSE /\ noisy = FALSE
  /\ failed = FALSE /\ misled = FALSE /\ weight = Nothing
  /\ dead = FALSE

-------------------------------------------------------------------------------
(* The balance and the line.  An answer may be late, a piece may be lost. *)

Record(r) == <<[part |-> "head", record |-> r], [part |-> "tail", record |-> r]>>

\* The thread of the object that is weighed has asked.
Weighing == main \in {"assign", "weigh"}
Waits == Weighing /\ reader["new"].pc \in {"poll", "read", "blocked"}
Fails(whether) == failed' = (failed \/ whether)

\* serialWrite sends the size of a pointer, not the length of the command: the
\* balance may refuse what it gets, or not answer.
BalanceAnswers ==
  /\ asked # <<>>
  /\ asked' = Tail(asked)
  /\ \/ /\ Head(asked) = "Q"
        /\ \E sign \in {"+", "-"} : wire' = wire \o Record([of |-> object, sign |-> sign])
        /\ UNCHANGED <<zeroed, failed>>
     \/ Head(asked) = "Z" /\ wire' = Append(wire, Zero) /\ zeroed' = TRUE /\ UNCHANGED failed
     \/ wire' \in {wire, Append(wire, Refusal)} /\ Fails(Waits) /\ UNCHANGED zeroed
  /\ UNCHANGED <<main, object, boots, port, reader, buffer, noise, overdue, shared, noisy,
                 misled, weight, dead>>

PieceArrives ==
  /\ wire # <<>>
  /\ wire' = Tail(wire)
  /\ \/ LineOpen(Readers) /\ buffer' = Append(buffer, Head(wire)) /\ UNCHANGED failed
     \/ Fails(Waits) /\ UNCHANGED buffer
  /\ UNCHANGED <<main, object, boots, port, reader, balance, noise, overdue, shared, noisy,
                 misled, weight, dead>>

-------------------------------------------------------------------------------
(* A thread in getWeightValue or setToZero. *)

Step(t, pc) == reader' = [reader EXCEPT ![t].pc = pc]
Ended(t, result) == reader' = [reader EXCEPT ![t] = [Begun("done", FALSE) EXCEPT !.result = result]]
InLine(t) == reader[t].pc \in {"clear", "write", "poll", "read", "blocked"}
OnLine(t) == InLine(t) /\ (reader[t].fd \/ reader[t].pc = "blocked")

Lookup(t) ==
  /\ reader[t].pc = "start"
  /\ IF port
       THEN /\ reader' = [reader EXCEPT ![t].pc = "clear", ![t].fd = TRUE]
            /\ shared' = (shared \/ (Weighing /\ \E u \in Readers \ {t} : OnLine(u)))
       ELSE Ended(t, Kind("noport")) /\ UNCHANGED shared
  /\ UNCHANGED <<main, object, boots, port, balance, line, overdue, noisy, failed, misled,
                 weight, dead>>

Unclear(t) == buffer   \* a slip: the line is not cleared
Clear(t) == IF reader[t].fd THEN <<>> ELSE buffer

SerialClear(t) ==
  /\ reader[t].pc = "clear"
  /\ buffer' = Clear(t)
  /\ overdue' = (overdue \/ (t = "new" /\ Weighing /\ (wire # <<>> \/ asked # <<>>)))
  /\ Step(t, "write")
  /\ UNCHANGED <<main, object, boots, port, balance, wire, noise, shared, noisy, failed,
                 misled, weight, dead>>

Command(t) == IF t = "init" THEN "Z" ELSE "Q"

SerialWrite(t) ==
  /\ reader[t].pc = "write"
  /\ asked' = IF reader[t].fd THEN Append(asked, Command(t)) ELSE asked
  /\ Step(t, "poll")
  /\ UNCHANGED <<main, object, boots, port, zeroed, line, history, dead>>

\* What a thread has read of the records.
Complete(rx) ==
  \E r \in Records : \A p \in {"head", "tail"} : \E i \in 1..Len(rx) : rx[i] = [part |-> p, record |-> r]

Heads(rx) == {i \in 1..Len(rx) : rx[i].part = "head" /\ rx[i].record.sign = "+"}

\* The eight characters after the first "+", or the first eight.
AsSent(rx) ==
  LET first == CHOOSE i \in Heads(rx) : \A j \in Heads(rx) : i <= j
      whole == first < Len(rx) /\ rx[first + 1] = [rx[first] EXCEPT !.part = "tail"]
  IN IF Heads(rx) = {} THEN Kind("threw")
     ELSE IF whole THEN [kind |-> "value", record |-> rx[first].record]
     ELSE Kind("garbled")

\* A number may begin elsewhere: in noise, or in a tail that comes first.
Misleading(rx) ==
  \/ \E i \in 1..Len(rx) : rx[i].part = "noise" /\ \A j \in Heads(rx) : i < j
  \/ rx[1].part = "tail" /\ Heads(rx) = {}

\* The test of the length; that of the header is true of every record, an overload's
\* too.
Weight(rx) ==
  (IF Complete(rx) THEN {} ELSE {Kind("short")})
  \cup (IF Len(rx) < 2 THEN {}
        ELSE {AsSent(rx)} \cup IF Misleading(rx) THEN {Kind("garbled"), Kind("threw")} ELSE {})

Answers(rx, parts) == \E i \in 1..Len(rx) : rx[i].part \in parts
AnyAnswer(rx) == {IF rx # <<>> THEN Kind("zeroed") ELSE Nothing}   \* a slip
IsZeroed(rx)  ==
  (IF Answers(rx, {"zero", "noise"}) THEN {Kind("zeroed")} ELSE {})
  \cup (IF Answers(rx, {"zero"}) THEN {} ELSE {Nothing})

\* Nobody gets what a thread that was left behind has read.
Heard(t) == t = "init" \/ (t = "new" /\ Weighing)

Parsed(t, rx) ==
  IF ~Heard(t) THEN {Nothing} ELSE IF t = "init" THEN IsZeroed(rx) ELSE Weight(rx)

WholeRecord(t) == buffer = <<>> /\ Len(reader[t].rx) >= 2   \* a slip: no timeout
Silent(t) == reader[t].fd => buffer = <<>>

\* FIONREAD on a descriptor that was closed leaves the count unset.
LineSilent(t) ==
  /\ reader[t].pc = "poll"
  /\ Silent(t)
  /\ \E result \in Parsed(t, reader[t].rx) : Ended(t, result)
  /\ Fails(t = "new" /\ Weighing /\ (wire # <<>> \/ asked # <<>>))
  /\ UNCHANGED <<main, object, boots, port, balance, line, overdue, shared, noisy, misled,
                 weight, dead>>

BytesAvailable(t) ==
  /\ reader[t].pc = "poll"
  /\ reader[t].fd => buffer # <<>>
  /\ Step(t, "read")
  /\ UNCHANGED <<main, object, boots, port, balance, line, history, dead>>

\* read() takes n pieces; the text goes on behind them.
Taken(t, n, more) ==
  /\ more # <<>> => Heard(t)
  /\ noise' = noise + Len(more) /\ noise' <= MaxNoise
  /\ noisy' = (noisy \/ (t = "new" /\ more # <<>>))
  /\ misled' = (misled \/ (t = "init" /\ more # <<>>))
  /\ reader' = [reader EXCEPT ![t].pc = "poll",
       ![t].rx = IF Heard(t) THEN @ \o SubSeq(buffer, 1, n) \o more ELSE @]
  /\ UNCHANGED <<main, object, boots, port, balance, wire, overdue, shared, failed, weight, dead>>

Behind == {<<>>, <<Noise>>}
Rest(n) == SubSeq(buffer, n + 1, Len(buffer))

SerialRead(t) ==
  /\ reader[t].pc = "read" /\ reader[t].fd
  /\ \E n \in 1..Len(buffer), more \in Behind : Taken(t, n, more) /\ buffer' = Rest(n)

\* The pieces that were counted have been taken or flushed.
ReadBlocks(t) ==
  /\ reader[t].pc = "read" /\ reader[t].fd
  /\ buffer = <<>>
  /\ Step(t, "blocked")
  /\ UNCHANGED <<main, object, boots, port, balance, line, history, dead>>

\* A read() that has begun does not look at the descriptor again.  The last one on
\* a port that was closed closes the line.
ReadReturns(t) ==
  /\ reader[t].pc = "blocked"
  /\ \E n \in 1..Len(buffer), more \in Behind :
       /\ Taken(t, n, more)
       /\ buffer' = IF LineOpen(Readers \ {t}) THEN Rest(n) ELSE <<>>

\* On a closed descriptor read fails, and a null pointer is appended.
ReadFails(t) ==
  /\ reader[t].pc = "read" /\ ~reader[t].fd
  /\ dead' = TRUE
  /\ UNCHANGED <<main, object, boots, port, reader, balance, line, history>>

-------------------------------------------------------------------------------
(* The main thread. *)

\* INIT: serialOpen flushes what has arrived; setToZero does not clear.
InitEnter ==
  /\ main = "init" /\ boots < MaxBoots
  /\ boots' = boots + 1
  /\ port' = TRUE /\ buffer' = <<>>
  /\ reader' = [reader EXCEPT !["init"] = Begun("write", TRUE)]
  /\ main' = "zeroing"
  /\ misled' = FALSE
  /\ UNCHANGED <<object, balance, wire, noise, overdue, shared, noisy, failed, weight, dead>>

BufferKept == buffer   \* a slip
Flushed == <<>>

\* INIT tries again until the balance and the cameras are ready.
InitEnds ==
  /\ main = "zeroing" /\ reader["init"].pc = "done"
  /\ reader' = [reader EXCEPT !["init"] = Idle]
  /\ \/ main' = "init" /\ UNCHANGED <<port, buffer>>
     \/ /\ reader["init"].result.kind = "zeroed"
        /\ main' = "belt" /\ port' = FALSE /\ buffer' = Flushed
  /\ UNCHANGED <<object, boots, balance, wire, noise, history, dead>>

\* DETECT's onEnter.  A thread that was left behind is replaced, not stopped; the
\* open may fail, or return the number that was closed under that thread.
DetectEnter ==
  /\ main = "belt" /\ object < MaxObjects
  /\ object' = object + 1
  /\ port' \in BOOLEAN /\ buffer' = IF port' THEN <<>> ELSE buffer
  /\ \E fd \in {FALSE, port' /\ InLine("new")} :
       reader' = [reader EXCEPT !["new"] = Begun("start", FALSE),
                                !["old"] = [reader["new"] EXCEPT !.fd = fd]]
  /\ main' = "assign"
  /\ UNCHANGED <<boots, balance, wire, noise, history, dead>>

Unjoined(t) == reader[t].pc # "start"   \* a slip: a thread that reads is not waited for
Joinable(t) == reader[t].pc \in {"idle", "done"}

\* The assignment to _fObjWeight waits for the thread it replaces.
Assigned ==
  /\ main = "assign" /\ Joinable("old")
  /\ reader' = [reader EXCEPT !["old"] = Idle]
  /\ main' = "weigh"
  /\ UNCHANGED <<object, boots, port, balance, line, history, dead>>

\* _fObjWeight.get().
Weighed ==
  /\ main = "weigh" /\ reader["new"].pc = "done"
  /\ weight' = reader["new"].result
  /\ reader' = [reader EXCEPT !["new"] = Idle]
  /\ main' = "extract"
  /\ UNCHANGED <<object, boots, port, balance, line, overdue, shared, noisy, failed, misled, dead>>

\* No frames or no object: onEvent returns without the weight.
Abandoned ==
  /\ main = "weigh"
  /\ reader' = [reader EXCEPT !["new"].rx = <<>>, !["new"].result = Nothing]
  /\ main' = "extract"
  /\ UNCHANGED <<object, boots, port, balance, line, history, dead>>

\* EXTRACT: balancerEnd takes the port from the list and clears it ...
BalancerEnd ==
  /\ main = "extract"
  /\ weight' = Nothing
  /\ port' = FALSE
  /\ IF port THEN main' = "closing" /\ buffer' = Flushed
             ELSE main' = "belt" /\ UNCHANGED buffer
  /\ overdue' = FALSE /\ shared' = FALSE /\ noisy' = FALSE /\ failed' = FALSE
  /\ UNCHANGED <<object, boots, reader, balance, wire, noise, misled, dead>>

\* ... and closes it.
Close ==
  /\ main = "closing"
  /\ reader' = [reader EXCEPT !["new"].fd = FALSE]
  /\ buffer' = IF reader["new"].pc = "blocked" THEN buffer ELSE <<>>
  /\ main' = "belt"
  /\ UNCHANGED <<object, boots, port, balance, wire, noise, history, dead>>

-------------------------------------------------------------------------------
ReaderStep(t) ==
  Lookup(t) \/ SerialClear(t) \/ SerialWrite(t) \/ LineSilent(t) \/ BytesAvailable(t)
  \/ SerialRead(t) \/ ReadBlocks(t) \/ ReadReturns(t) \/ ReadFails(t)

MainStep ==
  InitEnter \/ InitEnds \/ DetectEnter \/ Assigned \/ Weighed \/ BalancerEnd \/ Close

Next ==
  /\ ~dead
  /\ \/ BalanceAnswers \/ PieceArrives
     \/ MainStep \/ Abandoned
     \/ \E t \in Readers : ReaderStep(t)

Spec == Init /\ [][Next]_vars

\* Threads are scheduled; nothing is assumed of the balance.
FairSpec ==
  /\ Spec
  /\ WF_vars(~dead /\ MainStep)
  /\ \A t \in Readers : WF_vars(~dead /\ ReaderStep(t))

-------------------------------------------------------------------------------
(* Properties. *)

\* getWeightValue clears the line before it asks and puts the pieces together again:
\* what is recorded for an object is its own weight, whole, or else
\*   -1, and there was no port;
\*   0, and the question was refused, lost, or answered in part or too late;
\*   a number cut in two, by what lay behind an unterminated buffer;
\*   another number, if an answer to an earlier question was still under way;
\*   anything, if an earlier thread read the same line.
\* So an answer that came whole and in time is never recorded as 0.
FreshWeight ==
  /\ weight.kind = "noport" => ~port
  /\ weight.kind = "short" => failed \/ shared
  /\ \/ overdue \/ shared
     \/ /\ weight.kind = "value" => weight.record.of = object
        /\ weight.kind = "garbled" => noisy

\* setToZero waits for the balance's own answer: no object is weighed before the
\* balance has been set to zero, whatever the balance sent, unless what lay behind the
\* unterminated buffer was taken for the answer.
ZeroedBeforeUse == main \notin {"init", "zeroing"} => zeroed \/ misled

\* The line's threads, read in pieces, keep to WeighingTurns as KioskFSM's do.
Turn ==
  CASE main \in {"init", "zeroing"} -> "boot"
    [] main \in {"belt", "closing"} -> "away"
    [] main = "assign"  -> "replacing"
    [] main = "weigh"   -> "measuring"
    [] main = "extract" -> "leaving"

ThreadState(t) ==
  CASE reader[t].pc = "idle"  -> "none"
    [] reader[t].pc = "start" -> "started"
    [] reader[t].pc = "done"  -> "done"
    [] InLine(t) -> IF reader[t].fd /\ port THEN "reading" ELSE "astray"

Turns == INSTANCE WeighingTurns
           WITH turn <- Turn, thread <- ThreadState("new"), former <- ThreadState("old")

\* Balancer.cpp, SerialDriver.cpp: a thread that looks the port up, clears, asks
\* and reads piece by piece is to the main thread what KioskFSM takes it for: one
\* that reads the list's port, or one that was closed under it, until it is done.
WeighingSpec == Turns!Spec

\* A thread that was left behind, or that shared its line, waits for a piece.
Blocked ==
  \/ main = "assign" /\ reader["old"].pc = "blocked"
  \/ main = "weigh" /\ reader["new"].pc = "blocked" /\ shared

\* The read loop ends when the line is silent, so that get() and the assignment to
\* _fObjWeight return, unless a read() blocks for ever: that of the thread which is
\* replaced, as EXTRACT flushed the pieces that it had counted, or that of a thread
\* whose pieces the replaced one took.  No thread that has the line for itself from
\* its question to the end of DETECT does.
WeighingReturns ==
  \/ main \in {"assign", "weigh"} ~> main \in {"closing", "belt"} \/ dead
  \/ <>[]Blocked
===============================================================================
