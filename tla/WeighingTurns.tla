----------------------------- MODULE WeighingTurns -----------------------------
(***************************************************************************)
(* What the main thread and the threads that weigh promise each other.     *)
(* The balance's port has an owner only while an object is measured: the   *)
(* thread of that object.  A measurement that is given up leaves its       *)
(* thread behind, EXTRACT closes the port under it, and the next object    *)
(* waits for it before its own weight is asked for.                        *)
(*                                                                         *)
(* KioskFSM implements this module with a thread that reads in one step,   *)
(* BalanceLine with one that reads piece by piece: what KioskFSM takes for *)
(* granted of a reading thread is what BalanceLine's threads do.           *)
(***************************************************************************)
EXTENDS TLAPS

VARIABLES
  turn,     \* how far the main thread is with an object
  port,     \* the list names an open port
  thread,   \* the thread of the object that was weighed last
  former    \* the one it replaces

vars == <<turn, port, thread, former>>

\* A thread is astray if it reads a descriptor that the list does not name.
ThreadStates == {"none", "started", "reading", "astray", "done"}

TypeOK ==
  /\ turn \in {"boot", "away", "replacing", "measuring", "leaving"}
  /\ port \in BOOLEAN
  /\ thread \in ThreadStates /\ former \in ThreadStates

Init ==
  /\ turn = "boot"
  /\ port = FALSE
  /\ thread = "none" /\ former = "none"

\* INIT opens the port, as often as it is tried, and closes it at its end.
Boot ==
  /\ turn = "boot"
  /\ port' \in BOOLEAN
  /\ UNCHANGED <<turn, thread, former>>

Booted ==
  /\ turn = "boot"
  /\ turn' = "away"
  /\ port' = FALSE
  /\ UNCHANGED <<thread, former>>

\* An object has stopped.  The descriptor that is opened may have the number that
\* a thread left behind still reads.
Stopped ==
  /\ turn = "away"
  /\ turn' = "replacing"
  /\ port' \in BOOLEAN
  /\ former' \in {thread} \cup IF thread = "astray" /\ port' THEN {"reading"} ELSE {}
  /\ thread' = "started"

Replaced ==
  /\ turn = "replacing"
  /\ former \in {"none", "done"}
  /\ turn' = "measuring"
  /\ former' = "none"
  /\ UNCHANGED <<port, thread>>

Weighed ==
  /\ turn = "measuring"
  /\ thread = "done"
  /\ turn' = "leaving"
  /\ thread' = "none"
  /\ UNCHANGED <<port, former>>

GivenUp ==
  /\ turn = "measuring"
  /\ turn' = "leaving"
  /\ UNCHANGED <<port, thread, former>>

Closed ==
  /\ turn = "leaving"
  /\ turn' = "away"
  /\ port' = FALSE
  /\ thread' = IF thread = "reading" THEN "astray" ELSE thread
  /\ UNCHANGED former

\* A thread looks the port up once, and reads until the line is silent.
Proceeds(st, next) ==
  \/ st = "started" /\ next = IF port THEN "reading" ELSE "done"
  \/ st \in {"reading", "astray"} /\ next = "done"

ThreadStep ==
  /\ \/ Proceeds(thread, thread') /\ UNCHANGED former
     \/ Proceeds(former, former') /\ UNCHANGED thread
  /\ UNCHANGED <<turn, port>>

Next ==
  \/ Boot \/ Booted \/ Stopped \/ Replaced \/ Weighed \/ GivenUp \/ Closed
  \/ ThreadStep

Spec == Init /\ [][Next]_vars

\* While an object is measured its own thread is the only one there is, and it
\* reads the port of the list, never one that was closed under it.
PortOwned ==
  turn \in {"measuring", "leaving"} =>
    /\ former = "none"
    /\ thread # "astray"
    /\ thread = "reading" => port
-------------------------------------------------------------------------------
\* Outside the assignment there is one thread, none before the first object, and
\* one that reads the list's port has it open, which it is not between objects.
TurnInv ==
  /\ TypeOK
  /\ turn # "replacing" => former = "none"
  /\ turn = "boot" => thread = "none"
  /\ turn = "away" => port = FALSE
  /\ turn \in {"replacing", "measuring", "leaving"} => thread # "astray"
  /\ "reading" \in {thread, former} => port = TRUE

\* Whoever keeps to the turns leaves the port to the thread of the object that is
\* being measured (DetectEvent.cpp's assignment and get, Balancer.cpp).
THEOREM OwnerReads == Spec => [](TypeOK /\ PortOwned)
<1> USE DEF TurnInv, TypeOK, ThreadStates
<1>1. Init => TurnInv
  BY DEF Init
<1>2. TurnInv /\ [Next]_vars => TurnInv'
  <2> SUFFICES ASSUME TurnInv, [Next]_vars PROVE TurnInv'
    OBVIOUS
  <2>1. CASE Boot \/ Booted
    BY <2>1 DEF Boot, Booted
  <2>2. CASE Stopped
    BY <2>2 DEF Stopped
  <2>3. CASE Replaced \/ Weighed \/ GivenUp
    BY <2>3 DEF Replaced, Weighed, GivenUp
  <2>4. CASE Closed
    BY <2>4 DEF Closed
  <2>5. CASE ThreadStep
    BY <2>5 DEF ThreadStep, Proceeds
  <2>6. CASE UNCHANGED vars
    BY <2>6 DEF vars
  <2> QED
    BY <2>1, <2>2, <2>3, <2>4, <2>5, <2>6 DEF Next
<1>3. TurnInv => TypeOK /\ PortOwned
  BY DEF PortOwned
<1> QED
  BY <1>1, <1>2, <1>3, PTL DEF Spec
===============================================================================
