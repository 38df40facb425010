----------------------------- MODULE BalanceProofs ------------------------------
(***************************************************************************)
(* Safety of the balance's line for every number of objects, of attempts   *)
(* of INIT and of readings that pick up noise.                             *)
(***************************************************************************)
EXTENDS BalanceLine, WellFoundedInduction, TLAPS

\* A set of numbers has a least one: the first head of an answer exists.
LEMMA LeastExists ==
  ASSUME NEW S \in SUBSET Nat, S # {}
  PROVE  \E n \in S : \A m \in S : n <= m
<1> DEFINE R == {ss \in Nat \X Nat : ss[1] < ss[2]}
<1>1. IsWellFoundedOn(R, Nat)
  BY NatLessThanWellFounded DEF OpToRel
<1>2. PICK n \in S : \A m \in S : ~(<<m, n>> \in R)
  <2> HIDE DEF R
  <2> QED
    BY <1>1, WFMin
<1>3. ASSUME NEW m \in S PROVE n <= m
  <2>1. n \in Nat /\ m \in Nat
    OBVIOUS
  <2>2. ~(m < n)
    BY <1>2, <2>1
  <2> QED
    BY <2>1, <2>2
<1> QED
  BY <1>3

LEMMA PieceTypes ==
  /\ NoRecord \in Records /\ Zero \in Pieces /\ Refusal \in Pieces /\ Noise \in Pieces
  /\ \A r \in Records, part \in {"head", "tail"} : [part |-> part, record |-> r] \in Pieces
  /\ \A kind \in {"none", "noport", "short", "threw", "garbled", "zeroed"} :
       Kind(kind) \in Results /\ Kind(kind).kind = kind
  /\ Nothing \in Results /\ Nothing.kind = "none"
<1>1. NoRecord \in Records
  BY ObjectAssumption DEF NoRecord, Records, Objects
<1> QED
  BY <1>1 DEF Zero, Refusal, Noise, Pieces, Kind, Nothing, Results
-------------------------------------------------------------------------------
(* What a sequence holds. *)

Has(s, x) == \E i \in 1..Len(s) : s[i] = x
Join(a, b) == a \o b

LEMMA HasAppend ==
  ASSUME NEW S, NEW s \in Seq(S), NEW x \in S
  PROVE  Append(s, x) \in Seq(S) /\ \A p : Has(Append(s, x), p) <=> Has(s, p) \/ p = x
<1>1. PICK n \in Nat : n = Len(s)
  OBVIOUS
<1>2. PICK t : t = Append(s, x)
  OBVIOUS
<1>3. t \in Seq(S) /\ Len(t) = n + 1 /\ t[n + 1] = x /\ \A i \in 1..n : t[i] = s[i]
  BY <1>1, <1>2
<1>4. \A i \in 1..(n + 1) : i \in 1..n \/ i = n + 1
  BY <1>1
<1>5. n + 1 \in 1..(n + 1) /\ \A i \in 1..n : i \in 1..(n + 1)
  BY <1>1
<1> QED
  BY Zenon, <1>1, <1>2, <1>3, <1>4, <1>5 DEF Has

LEMMA HasTail ==
  ASSUME NEW S, NEW s \in Seq(S), s # <<>>
  PROVE  /\ Tail(s) \in Seq(S) /\ Head(s) \in S
         /\ \A p : Has(s, p) <=> (p = Head(s) \/ Has(Tail(s), p))
<1>1. PICK n \in Nat : n = Len(s) /\ n > 0
  OBVIOUS
<1>2. PICK t : t = Tail(s)
  OBVIOUS
<1>3. /\ t \in Seq(S) /\ Len(t) = n - 1 /\ Head(s) = s[1] /\ Head(s) \in S
      /\ \A i \in 1..(n - 1) : t[i] = s[i + 1]
  BY <1>1, <1>2
<1>4. 1 \in 1..n /\ (\A i \in 1..(n - 1) : i + 1 \in 1..n)
      /\ \A i \in 1..n : i = 1 \/ \E j \in 1..(n - 1) : i = j + 1
  <2>1. \A i \in 1..n : i = 1 \/ (i - 1 \in 1..(n - 1) /\ i = (i - 1) + 1)
    BY <1>1
  <2> QED
    BY <1>1, <2>1
<1>5. ASSUME NEW p, Has(s, p) PROVE p = Head(s) \/ Has(t, p)
  <2>1. PICK i \in 1..n : s[i] = p
    BY <1>1, <1>5 DEF Has
  <2>2. CASE i # 1
    <3>1. PICK j \in 1..(n - 1) : i = j + 1
      BY <1>4, <2>2
    <3> QED
      BY <1>3, <2>1, <3>1 DEF Has
  <2> QED
    BY <1>3, <2>1, <2>2
<1>6. ASSUME NEW p, p = Head(s) \/ Has(t, p) PROVE Has(s, p)
  <2>1. CASE Has(t, p)
    <3>1. PICK i \in 1..(n - 1) : t[i] = p
      BY <1>3, <2>1 DEF Has
    <3> QED
      BY <1>1, <1>3, <1>4, <3>1 DEF Has
  <2> QED
    BY <1>1, <1>3, <1>4, <1>6, <2>1 DEF Has
<1> QED
  BY Zenon, <1>2, <1>3, <1>5, <1>6

LEMMA JoinFacts ==
  ASSUME NEW S, NEW a \in Seq(S), NEW b \in Seq(S)
  PROVE  /\ Join(a, b) \in Seq(S) /\ Len(Join(a, b)) = Len(a) + Len(b)
         /\ \A i \in 1..Len(a) : Join(a, b)[i] = a[i]
         /\ \A i \in 1..Len(b) : Join(a, b)[Len(a) + i] = b[i]
         /\ \A p : Has(Join(a, b), p) <=> (Has(a, p) \/ Has(b, p))
<1>1. PICK m, n \in Nat : m = Len(a) /\ n = Len(b)
  OBVIOUS
<1>2. PICK t : t = Join(a, b)
  OBVIOUS
<1>3. /\ t \in Seq(S) /\ Len(t) = m + n
      /\ \A i \in 1..m : t[i] = a[i]
      /\ \A i \in 1..n : t[m + i] = b[i]
  BY <1>1, <1>2 DEF Join
<1>4. /\ \A i \in 1..m : i \in 1..(m + n)
      /\ \A i \in 1..n : m + i \in 1..(m + n)
      /\ \A i \in 1..(m + n) : i \in 1..m \/ \E j \in 1..n : i = m + j
  <2>1. \A i \in 1..(m + n) : i \in 1..m \/ (i - m \in 1..n /\ i = m + (i - m))
    BY <1>1
  <2>2. \A i \in 1..(m + n) : i \in 1..m \/ \E j \in 1..n : i = m + j
    BY Zenon, <2>1
  <2> QED
    BY <1>1, <2>2
<1>5. ASSUME NEW p, Has(t, p) PROVE Has(a, p) \/ Has(b, p)
  <2>1. PICK i \in 1..(m + n) : t[i] = p
    BY <1>3, <1>5 DEF Has
  <2>2. CASE i \notin 1..m
    <3>1. PICK j \in 1..n : i = m + j
      BY <1>4, <2>2
    <3> QED
      BY <1>1, <1>3, <2>1, <3>1 DEF Has
  <2> QED
    BY <1>1, <1>3, <2>1, <2>2 DEF Has
<1>6. ASSUME NEW p, Has(a, p) \/ Has(b, p) PROVE Has(t, p)
  <2>1. CASE Has(a, p)
    BY <1>1, <1>3, <1>4, <2>1 DEF Has
  <2>2. CASE Has(b, p)
    <3>1. PICK j \in 1..n : b[j] = p
      BY <1>1, <2>2 DEF Has
    <3> QED
      BY <1>1, <1>3, <1>4, <3>1 DEF Has
  <2> QED
    BY <1>6, <2>1, <2>2
<1> QED
  BY Zenon, <1>1, <1>2, <1>3, <1>5, <1>6

LEMMA SplitFacts ==
  ASSUME NEW S, NEW buf \in Seq(S), NEW n \in 1..Len(buf)
  PROVE  LET got == SubSeq(buf, 1, n)
             left == SubSeq(buf, n + 1, Len(buf))
         IN /\ got \in Seq(S) /\ Len(got) = n /\ \A i \in 1..n : got[i] = buf[i]
            /\ left \in Seq(S) /\ Len(left) = Len(buf) - n
            /\ \A i \in 1..(Len(buf) - n) : left[i] = buf[i + n]
            /\ \A p : Has(buf, p) <=> (Has(got, p) \/ Has(left, p))
<1>1. PICK m \in Nat : m = Len(buf) /\ n \in 1..m
  OBVIOUS
<1>2. PICK got, left : got = SubSeq(buf, 1, n) /\ left = SubSeq(buf, n + 1, Len(buf))
  OBVIOUS
<1>3. /\ got \in Seq(S) /\ Len(got) = n /\ \A i \in 1..n : got[i] = buf[i]
      /\ left \in Seq(S) /\ Len(left) = m - n /\ \A i \in 1..(m - n) : left[i] = buf[i + n]
  <2>1. got \in Seq(S) /\ Len(got) = n
    BY <1>1, <1>2
  <2>2. \A i \in 1..n : got[i] = buf[i]
    BY <1>1, <1>2
  <2>3. left \in Seq(S) /\ Len(left) = m - n
    BY <1>1, <1>2
  <2>4. \A i \in 1..(m - n) : left[i] = buf[i + n]
    BY <1>1, <1>2
  <2> QED
    BY <2>1, <2>2, <2>3, <2>4
<1>4. /\ \A i \in 1..n : i \in 1..m
      /\ \A i \in 1..(m - n) : i + n \in 1..m
      /\ \A i \in 1..m : i \in 1..n \/ \E j \in 1..(m - n) : i = j + n
  <2>1. \A i \in 1..m : i \in 1..n \/ (i - n \in 1..(m - n) /\ i = (i - n) + n)
    BY <1>1
  <2> QED
    BY <1>1, <2>1
<1>5. ASSUME NEW p, Has(buf, p) PROVE Has(got, p) \/ Has(left, p)
  <2>1. PICK i \in 1..m : buf[i] = p
    BY <1>1, <1>5 DEF Has
  <2>2. CASE i \notin 1..n
    <3>1. PICK j \in 1..(m - n) : i = j + n
      BY <1>4, <2>2
    <3> QED
      BY <1>3, <2>1, <3>1 DEF Has
  <2> QED
    BY <1>3, <2>1, <2>2 DEF Has
<1>6. ASSUME NEW p, Has(got, p) \/ Has(left, p) PROVE Has(buf, p)
  <2>1. CASE Has(got, p)
    BY <1>1, <1>3, <1>4, <2>1 DEF Has
  <2>2. CASE Has(left, p)
    <3>1. PICK j \in 1..(m - n) : left[j] = p
      BY <1>3, <2>2 DEF Has
    <3> QED
      BY <1>1, <1>3, <1>4, <3>1 DEF Has
  <2> QED
    BY <1>6, <2>1, <2>2
<1> QED
  BY Zenon, <1>1, <1>2, <1>3, <1>5, <1>6

LEMMA HasFew ==
  /\ \A p : ~Has(<<>>, p)
  /\ \A x, p : Has(<<x>>, p) <=> p = x
  /\ \A x, y, p : Has(<<x, y>>, p) <=> (p = x \/ p = y)
  BY DEF Has
-------------------------------------------------------------------------------
(* What a weight is made of. *)

Paired(a, b) == a.part = "head" /\ b = [a EXCEPT !.part = "tail"]

\* The weight is that of the first head, wherever it stands.
LEMMA FirstHead ==
  ASSUME NEW rx \in Seq(Pieces), Heads(rx) # {}
  PROVE  LET first == CHOOSE i \in Heads(rx) : \A j \in Heads(rx) : i <= j
         IN first \in Heads(rx) /\ \A j \in Heads(rx) : first <= j
<1>1. Heads(rx) \in SUBSET Nat
  BY DEF Heads
<1>2. \E i \in Heads(rx) : \A j \in Heads(rx) : i <= j
  BY <1>1, LeastExists
<1> QED
  BY <1>2

LEMMA AsSentTypes ==
  ASSUME NEW rx \in Seq(Pieces)
  PROVE  /\ AsSent(rx) \in Results /\ AsSent(rx).kind \in {"threw", "garbled", "value"}
         /\ AsSent(rx).kind = "value" =>
              \E p : Has(rx, p) /\ p.part = "head" /\ p.record = AsSent(rx).record
         /\ Len(rx) = 2 /\ Paired(rx[1], rx[2]) => AsSent(rx).kind # "garbled"
<1> DEFINE first == CHOOSE i \in Heads(rx) : \A j \in Heads(rx) : i <= j
           whole == first < Len(rx) /\ rx[first + 1] = [rx[first] EXCEPT !.part = "tail"]
<1>1. CASE Heads(rx) = {}
  BY <1>1, PieceTypes DEF AsSent
<1>2. CASE Heads(rx) # {}
  <2>1. first \in 1..Len(rx) /\ rx[first].part = "head"
    BY <1>2, FirstHead DEF Heads
  <2>2. AsSent(rx) = IF whole THEN [kind |-> "value", record |-> rx[first].record]
                              ELSE Kind("garbled")
    BY <1>2 DEF AsSent
  <2> HIDE DEF first
  <2>3. rx[first] \in Pieces
    BY <2>1
  <2>4. AsSent(rx) \in Results /\ AsSent(rx).kind \in {"garbled", "value"}
    BY <2>2, <2>3, PieceTypes DEF Pieces, Results
  <2>5. AsSent(rx).kind = "value" => AsSent(rx).record = rx[first].record
    BY <2>2, PieceTypes
  <2>6. AsSent(rx).kind = "garbled" => ~whole
    BY <2>2
  <2>7. ASSUME Len(rx) = 2, Paired(rx[1], rx[2]) PROVE whole
    <3>0. rx[1] \in Pieces
      BY <2>7
    <3>1. rx[2].part = "tail"
      BY <2>7, <3>0 DEF Paired, Pieces
    <3>2. first # 2 /\ first \in 1..2
      BY <2>1, <2>7, <3>1
    <3> QED
      BY <2>7, <3>2 DEF Paired
  <2> QED
    BY <2>1, <2>4, <2>5, <2>6, <2>7 DEF Has
<1> QED
  BY <1>1, <1>2

LEMMA WeightTypes ==
  ASSUME NEW rx \in Seq(Pieces), NEW w \in Weight(rx)
  PROVE  /\ w \in Results /\ w.kind \in {"short", "threw", "garbled", "value"}
         /\ w.kind = "value" => \E p : Has(rx, p) /\ p.part = "head" /\ p.record = w.record
         /\ w.kind = "garbled" => Len(rx) >= 2 /\ ~(Len(rx) = 2 /\ Paired(rx[1], rx[2]))
         /\ w.kind = "short" => ~Complete(rx)
<1>1. \/ w = Kind("short") /\ ~Complete(rx)
      \/ Len(rx) >= 2 /\ w = AsSent(rx)
      \/ Len(rx) >= 2 /\ Misleading(rx) /\ w \in {Kind("garbled"), Kind("threw")}
  BY DEF Weight
<1>2. CASE w = Kind("short") /\ ~Complete(rx)
  BY <1>2, PieceTypes
<1>3. CASE Len(rx) >= 2 /\ w = AsSent(rx)
  BY <1>3, AsSentTypes
<1>4. CASE Len(rx) >= 2 /\ Misleading(rx) /\ w \in {Kind("garbled"), Kind("threw")}
  <2>1. ASSUME Len(rx) = 2, Paired(rx[1], rx[2]) PROVE FALSE
    <3>0. rx[1] \in Pieces
      BY <2>1
    <3>1. rx[1].part = "head" /\ rx[2].part = "tail"
      BY <2>1, <3>0 DEF Paired, Pieces
    <3> QED
      BY <1>4, <2>1, <3>1 DEF Misleading
  <2> QED
    BY <1>4, <2>1, PieceTypes
<1> QED
  BY <1>1, <1>2, <1>3, <1>4
-------------------------------------------------------------------------------
(***************************************************************************)
(* The inductive invariant has two layers.  IInv1: the types, the threads  *)
(* there are at a place of the main thread, and where an answer that says  *)
(* zero can be.  IInv2: a thread has the port to itself unless shared says *)
(* otherwise (PortInv), so that what it reads after clearing the line is   *)
(* the one answer it asked for, of which only a whole record gives a weight*)
(* (AnswerInv), and that this answer is somewhere unless failed says that  *)
(* it is not (OwnInv).                                                     *)
(***************************************************************************)
FlagTypes ==
  /\ port \in BOOLEAN /\ zeroed \in BOOLEAN /\ overdue \in BOOLEAN
  /\ shared \in BOOLEAN /\ noisy \in BOOLEAN /\ failed \in BOOLEAN
  /\ misled \in BOOLEAN /\ dead \in BOOLEAN

Threads ==
  [pc : {"idle", "start", "clear", "write", "poll", "read", "blocked", "done"}, fd : BOOLEAN,
   rx : Seq(Pieces), result : Results]

DataTypes ==
  /\ main \in {"init", "zeroing", "belt", "assign", "weigh", "extract", "closing"}
  /\ object \in Objects /\ boots \in 0..MaxBoots
  /\ reader \in [Readers -> Threads]
  /\ asked \in Seq({"Q", "Z"})
  /\ wire \in Seq(Pieces) /\ buffer \in Seq(Pieces)
  /\ noise \in 0..MaxNoise
  /\ weight \in Results

\* A line that is closed holds nothing.
ClosedInv == LineOpen(Readers) \/ buffer = <<>>

\* The threads there are, and the port between two objects.
IdleInv ==
  /\ main # "zeroing" => reader["init"].pc = "idle"
  /\ main # "assign" => reader["old"].pc = "idle"
  /\ main \in {"init", "zeroing"} => reader["new"].pc = "idle"
  /\ main \in {"belt", "closing"} => port = FALSE

\* Only a balance that has been zeroed says so, and only noise looks like it.
Mute(pieces) == \A p : Has(pieces, p) => p.part \notin {"zero", "noise"}

ZeroInv ==
  zeroed = FALSE =>
    /\ Mute(wire) /\ Mute(buffer)
    /\ misled = FALSE =>
         /\ Mute(reader["init"].rx) /\ reader["init"].result.kind # "zeroed"
         /\ main \in {"init", "zeroing"}

IInv1 == FlagTypes /\ DataTypes /\ ClosedInv /\ IdleInv /\ ZeroInv

\* What a thread may become.
LEMMA ThreadTypes ==
  /\ Idle \in Threads /\ Idle.rx = <<>> /\ Idle.result = Nothing /\ Idle.fd = FALSE
  /\ Idle.pc = "idle"
  /\ \A pc \in {"start", "write", "done"}, fd \in BOOLEAN :
       /\ Begun(pc, fd) \in Threads
       /\ Begun(pc, fd).rx = <<>> /\ Begun(pc, fd).result = Nothing
       /\ Begun(pc, fd).pc = pc /\ Begun(pc, fd).fd = fd
<1>1. /\ Idle \in Threads /\ Idle.rx = <<>> /\ Idle.result = Nothing /\ Idle.fd = FALSE
      /\ Idle.pc = "idle"
  BY PieceTypes DEF Idle, Threads
<1>2. ASSUME NEW pc \in {"start", "write", "done"}, NEW fd \in BOOLEAN
      PROVE  /\ Begun(pc, fd) \in Threads
             /\ Begun(pc, fd).rx = <<>> /\ Begun(pc, fd).result = Nothing
             /\ Begun(pc, fd).pc = pc /\ Begun(pc, fd).fd = fd
  BY <1>1 DEF Begun, Threads
<1> QED
  BY <1>1, <1>2

LEMMA InitInv1 == Init => IInv1
<1> SUFFICES ASSUME Init PROVE IInv1
    OBVIOUS
<1>1. FlagTypes
  BY Zenon DEF Init, FlagTypes
<1>2. DataTypes
  BY ThreadTypes, PieceTypes, ObjectAssumption, BootAssumption, NoiseAssumption
     DEF Init, DataTypes, Objects
<1>3. ClosedInv /\ IdleInv
  BY ThreadTypes DEF Init, ClosedInv, IdleInv, Readers
<1>4. ZeroInv
  BY ThreadTypes, PieceTypes, HasFew DEF Init, ZeroInv, Mute, Readers
<1> QED
  BY <1>1, <1>2, <1>3, <1>4 DEF IInv1

\* What a thread makes of what it has read.
LEMMA ParsedTypes ==
  ASSUME NEW t \in Readers, NEW rx \in Seq(Pieces), NEW result \in Parsed(t, rx)
  PROVE  result \in Results /\ (Mute(rx) => result.kind # "zeroed")
<1>1. CASE ~Heard(t)
  BY <1>1, PieceTypes DEF Parsed
<1>2. CASE Heard(t) /\ t = "init"
  <2>1. result \in IsZeroed(rx)
    BY <1>2 DEF Parsed
  <2>2. result = Nothing \/ (result = Kind("zeroed") /\ Answers(rx, {"zero", "noise"}))
    BY <2>1 DEF IsZeroed
  <2>3. Mute(rx) => ~Answers(rx, {"zero", "noise"})
    BY DEF Mute, Has, Answers
  <2> QED
    BY <2>2, <2>3, PieceTypes
<1>3. CASE Heard(t) /\ t # "init"
  BY <1>3, WeightTypes DEF Parsed
<1> QED
  BY <1>1, <1>2, <1>3

\* A thread's end: it holds its result and nothing else.
LEMMA EndedThread ==
  ASSUME DataTypes, NEW t \in Readers, NEW result \in Results, Ended(t, result)
  PROVE  /\ reader' \in [Readers -> Threads]
         /\ \A u \in Readers \ {t} : reader'[u] = reader[u]
         /\ reader'[t].pc = "done" /\ reader'[t].fd = FALSE
         /\ reader'[t].rx = <<>> /\ reader'[t].result = result
<1> DEFINE r == [Begun("done", FALSE) EXCEPT !.result = result]
<1>1. r \in Threads /\ r.pc = "done" /\ r.fd = FALSE /\ r.rx = <<>> /\ r.result = result
  BY ThreadTypes DEF Begun, Threads
<1>2. reader' = [reader EXCEPT ![t] = r]
  BY DEF Ended
<1> HIDE DEF r
<1> QED
  BY <1>1, <1>2 DEF DataTypes

LEMMA SilentThread ==
  ASSUME DataTypes, NEW t \in Readers, LineSilent(t)
  PROVE  \E result \in Parsed(t, reader[t].rx) :
           /\ result \in Results
           /\ reader' \in [Readers -> Threads]
           /\ \A u \in Readers \ {t} : reader'[u] = reader[u]
           /\ reader'[t].pc = "done" /\ reader'[t].fd = FALSE
           /\ reader'[t].rx = <<>> /\ reader'[t].result = result
<1>1. PICK result \in Parsed(t, reader[t].rx) : Ended(t, result)
  BY DEF LineSilent
<1>2. reader[t].rx \in Seq(Pieces)
  BY DEF DataTypes, Threads
<1>3. result \in Results
  BY <1>2, ParsedTypes
<1> QED
  BY <1>1, <1>3, EndedThread

\* A thread's step from one place to the next.
LEMMA MovedThread ==
  ASSUME DataTypes, NEW t \in Readers, NEW pc \in {"write", "poll", "read", "blocked"},
         Step(t, pc)
  PROVE  /\ reader' \in [Readers -> Threads]
         /\ \A u \in Readers \ {t} : reader'[u] = reader[u]
         /\ reader'[t].pc = pc /\ reader'[t].fd = reader[t].fd
         /\ reader'[t].rx = reader[t].rx /\ reader'[t].result = reader[t].result
  BY DEF DataTypes, Step, Threads

\* The same for the two steps that look at the port or the line.
LEMMA LookupThread ==
  ASSUME DataTypes, NEW t \in Readers, Lookup(t)
  PROVE  /\ reader' \in [Readers -> Threads]
         /\ \A u \in Readers \ {t} : reader'[u] = reader[u]
         /\ \/ /\ port = TRUE /\ reader'[t].pc = "clear" /\ reader'[t].fd = TRUE
               /\ reader'[t].rx = reader[t].rx /\ reader'[t].result = reader[t].result
               /\ shared' = (shared \/ (Weighing /\ \E u \in Readers \ {t} : OnLine(u)))
            \/ /\ ~port /\ reader'[t].pc = "done" /\ reader'[t].fd = FALSE
               /\ reader'[t].rx = <<>> /\ reader'[t].result = Kind("noport")
               /\ shared' = shared
<1>1. CASE port
  <2>1. reader' = [reader EXCEPT ![t].pc = "clear", ![t].fd = TRUE]
    BY Zenon, <1>1 DEF Lookup
  <2>2. shared' = (shared \/ (Weighing /\ \E u \in Readers \ {t} : OnLine(u)))
    BY Zenon, <1>1 DEF Lookup
  <2>3. port = TRUE
    BY Zenon, <1>1
  <2>4. /\ reader' \in [Readers -> Threads]
        /\ \A u \in Readers \ {t} : reader'[u] = reader[u]
        /\ reader'[t].pc = "clear" /\ reader'[t].fd = TRUE
        /\ reader'[t].rx = reader[t].rx /\ reader'[t].result = reader[t].result
    BY <2>1 DEF DataTypes, Threads
  <2> QED
    BY Zenon, <2>2, <2>3, <2>4
<1>2. CASE ~port
  <2>1. Ended(t, Kind("noport")) /\ shared' = shared
    BY <1>2 DEF Lookup
  <2>2. Kind("noport") \in Results
    BY PieceTypes
  <2> QED
    BY <1>2, <2>1, <2>2, EndedThread
<1> QED
  BY <1>1, <1>2

LEMMA ReadThread ==
  ASSUME DataTypes, NEW t \in Readers, SerialRead(t) \/ ReadReturns(t)
  PROVE  \E n \in 1..Len(buffer), more \in Behind :
           /\ Taken(t, n, more) /\ buffer # <<>>
           /\ more \in Seq(Pieces)
           /\ reader' \in [Readers -> Threads] /\ noise' \in 0..MaxNoise
           /\ \A u \in Readers \ {t} : reader'[u] = reader[u]
           /\ reader'[t].pc = "poll" /\ reader'[t].fd = reader[t].fd
           /\ reader'[t].result = reader[t].result
           /\ ~Heard(t) => reader'[t].rx = reader[t].rx
           /\ Heard(t) => reader'[t].rx = Join(Join(reader[t].rx, SubSeq(buffer, 1, n)), more)
           /\ buffer' \in {Rest(n), <<>>} /\ buffer' \in Seq(Pieces)
           /\ SerialRead(t) \/ LineOpen(Readers \ {t}) => buffer' = Rest(n)
           /\ SerialRead(t) \/ LineOpen(Readers \ {t}) \/ buffer' = <<>>
<1>1. PICK n \in 1..Len(buffer), more \in Behind :
        /\ Taken(t, n, more) /\ buffer' \in {Rest(n), <<>>}
        /\ SerialRead(t) \/ LineOpen(Readers \ {t}) => buffer' = Rest(n)
        /\ SerialRead(t) \/ LineOpen(Readers \ {t}) \/ buffer' = <<>>
  <2>1. CASE SerialRead(t)
    BY Zenon, <2>1 DEF SerialRead
  <2>2. CASE ReadReturns(t)
    <3>1. ~SerialRead(t)
      BY <2>2 DEF ReadReturns, SerialRead
    <3> QED
      BY Zenon, <2>2, <3>1 DEF ReadReturns
  <2> QED
    BY <2>1, <2>2
<1>2. /\ reader[t] \in Threads /\ reader[t].rx \in Seq(Pieces) /\ buffer \in Seq(Pieces)
      /\ more \in Seq(Pieces) /\ Len(more) \in Nat /\ noise \in 0..MaxNoise
  <2>1. more \in Seq(Pieces) /\ Len(more) \in Nat
    <3>1. Noise \in Pieces
      BY PieceTypes
    <3>2. <<>> \in Seq(Pieces) /\ <<Noise>> \in Seq(Pieces)
      BY <3>1
    <3>3. more \in Seq(Pieces)
      BY <3>2 DEF Behind
    <3> QED
      BY <3>3
  <2>2. reader[t] \in Threads
    BY DEF DataTypes
  <2> QED
    BY <2>1, <2>2 DEF DataTypes, Threads
<1>3. /\ SubSeq(buffer, 1, n) \in Seq(Pieces) /\ Rest(n) \in Seq(Pieces)
  BY <1>2, SplitFacts DEF Rest
<1>4. Join(Join(reader[t].rx, SubSeq(buffer, 1, n)), more) \in Seq(Pieces)
  <2>1. Join(reader[t].rx, SubSeq(buffer, 1, n)) \in Seq(Pieces)
    BY <1>2, <1>3, JoinFacts
  <2> QED
    BY <1>2, <2>1, JoinFacts
<1>5. PICK all \in Seq(Pieces) :
        /\ ~Heard(t) => all = reader[t].rx
        /\ Heard(t) => all = Join(Join(reader[t].rx, SubSeq(buffer, 1, n)), more)
  BY <1>2, <1>4
<1>6. reader' = [reader EXCEPT ![t].pc = "poll", ![t].rx = all]
  <2>1. reader' = [reader EXCEPT ![t].pc = "poll",
          ![t].rx = IF Heard(t) THEN @ \o SubSeq(buffer, 1, n) \o more ELSE @]
    BY <1>1 DEF Taken
  <2> QED
    BY <1>5, <2>1 DEF Join
<1>7. /\ reader' \in [Readers -> Threads]
      /\ \A u \in Readers \ {t} : reader'[u] = reader[u]
      /\ reader'[t].pc = "poll" /\ reader'[t].fd = reader[t].fd
      /\ reader'[t].result = reader[t].result /\ reader'[t].rx = all
  BY <1>2, <1>6 DEF DataTypes, Threads
<1>8. noise' \in 0..MaxNoise
  BY <1>1, <1>2, NoiseAssumption DEF Taken
<1>9. buffer # <<>> /\ buffer' \in Seq(Pieces)
  <2>1. <<>> \in Seq(Pieces) /\ Len(<<>>) = 0
    OBVIOUS
  <2>2. buffer # <<>>
    BY <1>1, <2>1
  <2> QED
    BY <1>1, <1>3, <2>1, <2>2
<1> QED
  BY Zenon, <1>1, <1>2, <1>5, <1>7, <1>8, <1>9
-------------------------------------------------------------------------------
(* Every step keeps the types, and zero answers come from a zeroed balance. *)

LEMMA LineStep1 == IInv1 /\ (BalanceAnswers \/ PieceArrives) => IInv1'
<1> SUFFICES ASSUME IInv1, BalanceAnswers \/ PieceArrives PROVE IInv1'
    OBVIOUS
<1> USE DEF IInv1
<1>0. /\ wire \in Seq(Pieces) /\ buffer \in Seq(Pieces) /\ zeroed \in BOOLEAN
      /\ failed \in BOOLEAN
      /\ zeroed = FALSE => Mute(wire) /\ Mute(buffer)
  BY DEF DataTypes, FlagTypes, ZeroInv
<1>1. CASE BalanceAnswers
  <2>1. /\ asked # <<>> /\ asked' = Tail(asked)
        /\ UNCHANGED <<main, object, boots, port, reader, buffer, noise, overdue, shared, noisy,
                       misled, weight, dead>>
        /\ \/ \E sign \in {"+", "-"} : wire' = wire \o Record([of |-> object, sign |-> sign])
              /\ zeroed' = zeroed /\ failed' = failed
           \/ wire' = Append(wire, Zero) /\ zeroed' = TRUE /\ failed' = failed
           \/ wire' = wire /\ zeroed' = zeroed /\ Fails(Waits)
           \/ wire' = Append(wire, Refusal) /\ zeroed' = zeroed /\ Fails(Waits)
    BY <1>1 DEF BalanceAnswers
  <2>2. FlagTypes'
    <3>1. failed' \in BOOLEAN
      BY Zenon, <2>1, <1>0 DEF Fails
    <3> QED
      BY Zenon, <2>1, <3>1 DEF FlagTypes
  <2>3. /\ wire' \in Seq(Pieces)
        /\ zeroed' = FALSE => zeroed = FALSE /\ Mute(wire')
    <3>1. CASE \E sign \in {"+", "-"} : wire' = wire \o Record([of |-> object, sign |-> sign])
                                        /\ zeroed' = zeroed
      <4>1. PICK r \in Records : wire' = Join(wire, Record(r)) /\ zeroed' = zeroed
        <5>1. PICK sign \in {"+", "-"} : 
                wire' = wire \o Record([of |-> object, sign |-> sign]) /\ zeroed' = zeroed
          BY <3>1
        <5>2. [of |-> object, sign |-> sign] \in Records
          BY DEF DataTypes, Records
        <5> QED
          BY <5>1, <5>2 DEF Join
      <4>2. Record(r) \in Seq(Pieces) /\ Mute(Record(r))
        BY PieceTypes, HasFew DEF Record, Mute
      <4>3. /\ Join(wire, Record(r)) \in Seq(Pieces)
            /\ \A p : Has(Join(wire, Record(r)), p) <=> (Has(wire, p) \/ Has(Record(r), p))
        BY <1>0, <4>2, JoinFacts
      <4> QED
        BY Zenon, <1>0, <4>1, <4>2, <4>3 DEF Mute
    <3>2. CASE wire' = Append(wire, Zero) /\ zeroed' = TRUE
      BY <1>0, <3>2, PieceTypes, HasAppend
    <3>3. CASE wire' = wire /\ zeroed' = zeroed
      BY Zenon, <1>0, <3>3
    <3>4. CASE wire' = Append(wire, Refusal) /\ zeroed' = zeroed
      <4>1. Refusal.part \notin {"zero", "noise"}
        BY DEF Refusal
      <4>2. /\ Append(wire, Refusal) \in Seq(Pieces)
            /\ \A p : Has(Append(wire, Refusal), p) <=> (Has(wire, p) \/ p = Refusal)
        BY <1>0, PieceTypes, HasAppend
      <4> QED
        BY Zenon, <1>0, <3>4, <4>1, <4>2 DEF Mute
    <3> QED
      BY Zenon, <2>1, <3>1, <3>2, <3>3, <3>4
  <2>4. asked' \in Seq({"Q", "Z"})
    BY <2>1, HasTail DEF DataTypes
  <2>5. DataTypes'
    BY <2>1, <2>3, <2>4 DEF DataTypes
  <2>6. ClosedInv' /\ IdleInv'
    BY <2>1 DEF ClosedInv, LineOpen, IdleInv
  <2>7. ZeroInv'
    BY <2>1, <2>3 DEF ZeroInv
  <2> QED
    BY <2>2, <2>5, <2>6, <2>7
<1>2. CASE PieceArrives
  <2>1. /\ wire # <<>> /\ wire' = Tail(wire)
        /\ \/ LineOpen(Readers) /\ buffer' = Append(buffer, Head(wire)) /\ failed' = failed
           \/ buffer' = buffer /\ Fails(Waits)
        /\ UNCHANGED <<main, object, boots, port, reader, asked, zeroed, noise, overdue, shared,
                       noisy, misled, weight, dead>>
    BY <1>2 DEF PieceArrives, balance
  <2>2. FlagTypes'
    <3>1. failed' \in BOOLEAN
      BY Zenon, <2>1, <1>0 DEF Fails
    <3> QED
      BY Zenon, <2>1, <3>1 DEF FlagTypes
  <2>3. /\ Tail(wire) \in Seq(Pieces) /\ Head(wire) \in Pieces
        /\ \A p : Has(wire, p) <=> (p = Head(wire) \/ Has(Tail(wire), p))
    BY <1>0, <2>1, HasTail
  <2>4. /\ Append(buffer, Head(wire)) \in Seq(Pieces)
        /\ \A p : Has(Append(buffer, Head(wire)), p) <=> (Has(buffer, p) \/ p = Head(wire))
    BY <1>0, <2>3, HasAppend
  <2>5. wire' \in Seq(Pieces) /\ buffer' \in Seq(Pieces)
    BY Zenon, <1>0, <2>1, <2>3, <2>4
  <2>6. Mute(wire) /\ Mute(buffer) => Mute(wire') /\ Mute(buffer')
    BY Zenon, <2>1, <2>3, <2>4 DEF Mute
  <2>7. DataTypes'
    BY <2>1, <2>5 DEF DataTypes
  <2>8. ClosedInv'
    BY <2>1 DEF ClosedInv, LineOpen
  <2>9. IdleInv' /\ ZeroInv'
    BY <2>1, <2>6 DEF IdleInv, ZeroInv
  <2> QED
    BY <2>2, <2>7, <2>8, <2>9
<1> QED
  BY <1>1, <1>2

\* What a thread's step must show: the other threads, the main thread and the
\* balance are left alone, and nothing that says zero appears.
LEMMA ThreadKeeps ==
  ASSUME IInv1, NEW t \in Readers, reader[t].pc # "idle",
         reader' \in [Readers -> Threads], \A u \in Readers \ {t} : reader'[u] = reader[u],
         asked' \in Seq({"Q", "Z"}), buffer' \in Seq(Pieces), noise' \in 0..MaxNoise,
         ClosedInv', misled' = FALSE => misled = FALSE,
         UNCHANGED <<main, object, boots, port, zeroed, wire, weight>>,
         zeroed = FALSE /\ Mute(buffer) => Mute(buffer'),
         zeroed = FALSE /\ misled' = FALSE /\ t = "init" =>
           Mute(reader'[t].rx) /\ reader'[t].result.kind # "zeroed"
  PROVE  DataTypes' /\ ClosedInv' /\ IdleInv' /\ ZeroInv'
<1>1. DataTypes'
  BY DEF IInv1, DataTypes
<1>2. IdleInv'
  BY DEF IInv1, IdleInv, Readers
<1>3. ZeroInv'
  BY DEF IInv1, ZeroInv, Readers
<1> QED
  BY <1>1, <1>2, <1>3

\* A thread that does not leave a blocked read keeps the line open, and so do the
\* others.
LEMMA OpenKept ==
  ASSUME NEW t \in Readers, \A u \in Readers \ {t} : reader'[u] = reader[u],
         main' = main, port' = port
  PROVE  /\ LineOpen(Readers \ {t}) => LineOpen(Readers)'
         /\ (reader[t].pc = "blocked" => reader'[t].pc = "blocked") =>
              (LineOpen(Readers) => LineOpen(Readers)')
<1>1. LineOpen(Readers \ {t}) => LineOpen(Readers)'
  BY Zenon DEF LineOpen
<1>2. ASSUME reader[t].pc = "blocked" => reader'[t].pc = "blocked"
      PROVE  LineOpen(Readers) => LineOpen(Readers)'
  <2>1. \A u \in Readers : reader[u].pc = "blocked" => reader'[u].pc = "blocked"
    BY <1>2
  <2> QED
    BY Zenon, <2>1 DEF LineOpen
<1> QED
  BY <1>1, <1>2

LEMMA ReaderStep1 ==
  ASSUME IInv1, NEW t \in Readers, ReaderStep(t)
  PROVE  IInv1'
<1> USE DEF IInv1
<1>0. /\ asked \in Seq({"Q", "Z"}) /\ buffer \in Seq(Pieces) /\ noise \in 0..MaxNoise
      /\ reader[t] \in Threads /\ reader[t].rx \in Seq(Pieces)
      /\ zeroed = FALSE /\ misled = FALSE /\ t = "init" =>
           Mute(reader[t].rx) /\ reader[t].result.kind # "zeroed"
      /\ Mute(<<>>) /\ <<>> \in Seq(Pieces)
      /\ LineOpen(Readers) \/ buffer = <<>>
  BY HasFew DEF DataTypes, Threads, ZeroInv, Mute, ClosedInv
<1>1. CASE Lookup(t)
  <2>1. /\ UNCHANGED <<main, object, boots, port, asked, zeroed, wire, buffer, noise, overdue,
                       noisy, failed, misled, weight, dead>>
        /\ reader[t].pc = "start"
    BY <1>1 DEF Lookup, balance, line
  <2>2. FlagTypes'
    <3>1. shared' \in BOOLEAN
      BY Zenon, <1>1, LookupThread DEF FlagTypes
    <3> QED
      BY Zenon, <2>1, <3>1 DEF FlagTypes
  <2>3. /\ reader' \in [Readers -> Threads]
        /\ \A u \in Readers \ {t} : reader'[u] = reader[u]
        /\ reader'[t].rx \in {reader[t].rx, <<>>}
        /\ reader'[t].result \in {reader[t].result, Kind("noport")}
    BY Zenon, <1>1, LookupThread
  <2>4. ClosedInv'
    BY <1>0, <2>1, <2>3, OpenKept DEF ClosedInv
  <2>5. zeroed = FALSE /\ misled' = FALSE /\ t = "init" =>
          Mute(reader'[t].rx) /\ reader'[t].result.kind # "zeroed"
    BY <1>0, <2>1, <2>3, PieceTypes
  <2>6. DataTypes' /\ IdleInv' /\ ZeroInv'
    BY <1>0, <2>1, <2>3, <2>4, <2>5, ThreadKeeps
  <2> QED
    BY <2>2, <2>4, <2>6
<1>2. CASE SerialClear(t)
  <2>1. /\ Step(t, "write") /\ buffer' \in {buffer, <<>>} /\ reader[t].pc = "clear"
        /\ UNCHANGED <<main, object, boots, port, asked, zeroed, wire, noise, shared, noisy,
                       failed, misled, weight, dead>>
    BY <1>2 DEF SerialClear, Clear, balance
  <2>2. FlagTypes'
    <3>1. overdue' = (overdue \/ (t = "new" /\ Weighing /\ (wire # <<>> \/ asked # <<>>)))
      BY Zenon, <1>2 DEF SerialClear
    <3> QED
      BY Zenon, <2>1, <3>1 DEF FlagTypes
  <2>3. /\ reader' \in [Readers -> Threads]
        /\ \A u \in Readers \ {t} : reader'[u] = reader[u]
        /\ reader'[t].rx = reader[t].rx /\ reader'[t].result = reader[t].result
    BY <2>1, MovedThread
  <2>4. ClosedInv'
    BY <1>0, <2>1, <2>3, OpenKept DEF ClosedInv
  <2>5. buffer' \in Seq(Pieces) /\ (Mute(buffer) => Mute(buffer'))
    BY Zenon, <1>0, <2>1
  <2>6. DataTypes' /\ IdleInv' /\ ZeroInv'
    BY <1>0, <2>1, <2>3, <2>4, <2>5, ThreadKeeps
  <2> QED
    BY <2>2, <2>4, <2>6
<1>3. CASE SerialWrite(t)
  <2>1. /\ Step(t, "poll") /\ (asked' = asked \/ asked' = Append(asked, Command(t)))
        /\ reader[t].pc = "write"
        /\ UNCHANGED <<main, object, boots, port, zeroed, wire, buffer, noise, overdue, shared,
                       noisy, failed, misled, weight, dead>>
    BY <1>3 DEF SerialWrite, line, history
  <2>2. FlagTypes'
    BY Zenon, <2>1 DEF FlagTypes
  <2>3. asked' \in Seq({"Q", "Z"})
    <3>1. Command(t) \in {"Q", "Z"}
      BY DEF Command
    <3> QED
      BY <1>0, <2>1, <3>1, HasAppend
  <2>4. /\ reader' \in [Readers -> Threads]
        /\ \A u \in Readers \ {t} : reader'[u] = reader[u]
        /\ reader'[t].rx = reader[t].rx /\ reader'[t].result = reader[t].result
    BY <2>1, MovedThread
  <2>5. ClosedInv'
    BY <1>0, <2>1, <2>4, OpenKept DEF ClosedInv
  <2>6. DataTypes' /\ IdleInv' /\ ZeroInv'
    BY <1>0, <2>1, <2>3, <2>4, <2>5, ThreadKeeps
  <2> QED
    BY <2>2, <2>5, <2>6
<1>4. CASE LineSilent(t)
  <2>1. /\ reader[t].pc = "poll"
        /\ UNCHANGED <<main, object, boots, port, asked, zeroed, wire, buffer, noise, overdue,
                       shared, noisy, misled, weight, dead>>
    BY <1>4 DEF LineSilent, balance, line
  <2>2. FlagTypes'
    <3>1. Fails(t = "new" /\ Weighing /\ (wire # <<>> \/ asked # <<>>))
      BY Zenon, <1>4 DEF LineSilent
    <3>2. failed' \in BOOLEAN
      BY Zenon, <3>1 DEF Fails, FlagTypes
    <3> QED
      BY Zenon, <2>1, <3>2 DEF FlagTypes
  <2>3. PICK result \in Parsed(t, reader[t].rx) :
          /\ reader' \in [Readers -> Threads]
          /\ \A u \in Readers \ {t} : reader'[u] = reader[u]
          /\ reader'[t].rx = <<>> /\ reader'[t].result = result
    BY <1>4, SilentThread
  <2>4. zeroed = FALSE /\ misled' = FALSE /\ t = "init" =>
          Mute(reader'[t].rx) /\ reader'[t].result.kind # "zeroed"
    BY <1>0, <2>1, <2>3, ParsedTypes
  <2>5. ClosedInv'
    BY <1>0, <2>1, <2>3, OpenKept DEF ClosedInv
  <2>6. DataTypes' /\ IdleInv' /\ ZeroInv'
    BY <1>0, <2>1, <2>3, <2>4, <2>5, ThreadKeeps
  <2> QED
    BY <2>2, <2>5, <2>6
<1>5. CASE BytesAvailable(t) \/ ReadBlocks(t)
  <2>1. /\ Step(t, "read") \/ Step(t, "blocked")
        /\ reader[t].pc \in {"poll", "read"}
        /\ UNCHANGED <<main, object, boots, port, asked, zeroed, wire, buffer, noise, overdue,
                       shared, noisy, failed, misled, weight, dead>>
    BY <1>5 DEF BytesAvailable, ReadBlocks, balance, line, history
  <2>2. FlagTypes'
    BY Zenon, <2>1 DEF FlagTypes
  <2>3. /\ reader' \in [Readers -> Threads]
        /\ \A u \in Readers \ {t} : reader'[u] = reader[u]
        /\ reader'[t].rx = reader[t].rx /\ reader'[t].result = reader[t].result
    BY <2>1, MovedThread
  <2>4. ClosedInv'
    BY <1>0, <2>1, <2>3, OpenKept DEF ClosedInv
  <2>5. DataTypes' /\ IdleInv' /\ ZeroInv'
    BY <1>0, <2>1, <2>3, <2>4, ThreadKeeps
  <2> QED
    BY <2>2, <2>4, <2>5
<1>6. CASE SerialRead(t) \/ ReadReturns(t)
  <2>1. PICK n \in 1..Len(buffer), more \in Behind :
           /\ Taken(t, n, more) /\ more \in Seq(Pieces) /\ buffer # <<>>
           /\ reader' \in [Readers -> Threads] /\ noise' \in 0..MaxNoise
           /\ \A u \in Readers \ {t} : reader'[u] = reader[u]
           /\ reader'[t].result = reader[t].result
           /\ ~Heard(t) => reader'[t].rx = reader[t].rx
           /\ Heard(t) => reader'[t].rx = Join(Join(reader[t].rx, SubSeq(buffer, 1, n)), more)
           /\ buffer' \in {Rest(n), <<>>} /\ buffer' \in Seq(Pieces)
           /\ SerialRead(t) \/ LineOpen(Readers \ {t}) \/ buffer' = <<>>
    BY Zenon, <1>6, ReadThread
  <2>2. /\ UNCHANGED <<main, object, boots, port, asked, zeroed, wire, overdue, shared, failed,
                       weight, dead>>
        /\ reader[t].pc \in {"read", "blocked"} /\ (SerialRead(t) => reader[t].pc = "read")
    BY <1>6, <2>1 DEF Taken, balance, SerialRead, ReadReturns
  <2>3. /\ noisy' = (noisy \/ (t = "new" /\ more # <<>>))
        /\ misled' = (misled \/ (t = "init" /\ more # <<>>))
    BY Zenon, <2>1 DEF Taken
  <2>4. FlagTypes'
    BY Zenon, <2>2, <2>3 DEF FlagTypes
  <2>5. misled' = FALSE => misled = FALSE /\ (t = "init" => more = <<>>)
    BY Zenon, <2>3 DEF FlagTypes
  <2>6. ClosedInv'
    <3>1. LineOpen(Readers)
      BY <1>0, <2>1
    <3>2. reader[t].pc # "blocked" \/ LineOpen(Readers \ {t}) \/ buffer' = <<>>
      BY <2>1, <2>2
    <3> QED
      BY <2>1, <2>2, <3>1, <3>2, OpenKept DEF ClosedInv
  <2>7. \A p : Has(buffer, p) <=> (Has(SubSeq(buffer, 1, n), p) \/ Has(Rest(n), p))
    BY <1>0, SplitFacts DEF Rest
  <2>8. Mute(buffer) => Mute(buffer') /\ Mute(SubSeq(buffer, 1, n))
    BY Zenon, <1>0, <2>1, <2>7 DEF Mute
  <2>9. ASSUME zeroed = FALSE, misled' = FALSE, t = "init"
        PROVE  Mute(reader'[t].rx) /\ reader'[t].result.kind # "zeroed"
    <3>1. Mute(buffer) /\ Mute(reader[t].rx) /\ reader[t].result.kind # "zeroed"
      BY <1>0, <2>5, <2>9 DEF ZeroInv
    <3>2. PICK got : got = SubSeq(buffer, 1, n) /\ got \in Seq(Pieces) /\ Mute(got)
      BY <1>0, <2>8, <3>1, SplitFacts
    <3>3. PICK old, front : old = reader[t].rx /\ old \in Seq(Pieces) /\ front = Join(old, got)
      BY <1>0
    <3>4. front \in Seq(Pieces) /\ \A p : Has(front, p) <=> (Has(old, p) \/ Has(got, p))
      <4>1. Join(old, got) \in Seq(Pieces)
        BY <3>2, <3>3, JoinFacts
      <4>2. old \in Seq(Pieces) /\ got \in Seq(Pieces)
        BY <3>2, <3>3
      <4>3. \A p : Has(Join(old, got), p) <=> (Has(old, p) \/ Has(got, p))
        BY ZenonT(60), <4>2, JoinFacts
      <4> QED
        BY Zenon, <3>3, <4>1, <4>3
    <3>5. \A p : Has(Join(front, more), p) <=> (Has(front, p) \/ Has(more, p))
      BY <2>1, <3>4, JoinFacts
    <3>6. Mute(more)
      BY Zenon, <1>0, <2>5, <2>9
    <3>7. Mute(Join(front, more))
      BY Zenon, <3>1, <3>2, <3>3, <3>4, <3>5, <3>6 DEF Mute
    <3>8. Heard(t)
      BY <2>9 DEF Heard
    <3> QED
      BY Zenon, <2>1, <3>1, <3>2, <3>3, <3>7, <3>8
  <2>10. DataTypes' /\ IdleInv' /\ ZeroInv'
    BY <1>0, <2>1, <2>2, <2>5, <2>6, <2>8, <2>9, ThreadKeeps
  <2> QED
    BY <2>4, <2>6, <2>10
<1>7. CASE ReadFails(t)
  <2>1. /\ dead' = TRUE /\ reader[t].pc = "read"
        /\ UNCHANGED <<main, object, boots, port, reader, asked, zeroed, wire, buffer, noise,
                       overdue, shared, noisy, failed, misled, weight>>
    BY <1>7 DEF ReadFails, balance, line, history
  <2>2. FlagTypes'
    BY Zenon, <2>1 DEF FlagTypes
  <2>3. ClosedInv'
    BY <1>0, <2>1, OpenKept DEF ClosedInv
  <2>4. DataTypes' /\ IdleInv' /\ ZeroInv'
    BY <2>1 DEF DataTypes, IdleInv, ZeroInv
  <2> QED
    BY <2>2, <2>3, <2>4
<1> QED
  BY <1>1, <1>2, <1>3, <1>4, <1>5, <1>6, <1>7 DEF ReaderStep

LEMMA MainStep1 == IInv1 /\ (MainStep \/ Abandoned) => IInv1'
<1> SUFFICES ASSUME IInv1, MainStep \/ Abandoned PROVE IInv1'
    OBVIOUS
<1> USE DEF IInv1
<1>0. /\ reader \in [Readers -> Threads] /\ Mute(<<>>) /\ <<>> \in Seq(Pieces)
      /\ Nothing.kind # "zeroed" /\ buffer \in Seq(Pieces)
  BY PieceTypes, HasFew DEF DataTypes, Mute
<1>1. CASE InitEnter
  <2>1. /\ boots' \in 0..MaxBoots /\ port' = TRUE /\ buffer' = <<>> /\ main' = "zeroing"
        /\ reader' = [reader EXCEPT !["init"] = Begun("write", TRUE)] /\ main = "init"
        /\ misled' = FALSE
        /\ UNCHANGED <<object, asked, zeroed, wire, noise, overdue, shared, noisy, failed, weight,
                       dead>>
    BY <1>1, BootAssumption DEF InitEnter, DataTypes, balance
  <2>2. FlagTypes'
    BY Zenon, <2>1 DEF FlagTypes
  <2>3. PICK r \in Threads : r = Begun("write", TRUE) /\ r.rx = <<>> /\ r.result = Nothing
    BY ThreadTypes
  <2>4. reader' = [reader EXCEPT !["init"] = r]
    BY <2>1, <2>3
  <2>5. DataTypes'
    BY <1>0, <2>1, <2>4 DEF DataTypes
  <2>6. ClosedInv' /\ IdleInv'
    BY <1>0, <2>1, <2>4 DEF ClosedInv, IdleInv, Readers
  <2>7. ZeroInv'
    BY <1>0, <2>1, <2>3, <2>4 DEF ZeroInv, Readers
  <2> QED
    BY <2>2, <2>5, <2>6, <2>7
<1>2. CASE InitEnds
  <2>1. /\ reader' = [reader EXCEPT !["init"] = Idle] /\ main = "zeroing"
        /\ UNCHANGED <<object, boots, asked, zeroed, wire, noise, overdue, shared, noisy, failed,
                       misled, weight, dead>>
        /\ reader["init"].pc = "done"
        /\ \/ main' = "init" /\ port' = port /\ buffer' = buffer
           \/ /\ reader["init"].result.kind = "zeroed" /\ main' = "belt"
              /\ port' = FALSE /\ buffer' = <<>>
    BY <1>2 DEF InitEnds, Flushed, balance, history
  <2>2. FlagTypes'
    BY Zenon, <2>1 DEF FlagTypes
  <2>3. DataTypes'
    BY <1>0, <2>1, ThreadTypes DEF DataTypes
  <2>4. /\ reader'["init"] = Idle /\ reader'["new"] = reader["new"]
        /\ reader'["old"] = reader["old"]
    BY <1>0, <2>1 DEF Readers
  <2>5. ClosedInv'
    BY Zenon, <2>1, <2>4 DEF ClosedInv, LineOpen, Readers
  <2>6. IdleInv'
    BY <2>1, <2>4, ThreadTypes DEF IdleInv
  <2>7. ZeroInv'
    BY <1>0, <2>1, <2>4, ThreadTypes DEF ZeroInv
  <2> QED
    BY <2>2, <2>3, <2>5, <2>6, <2>7
<1>3. CASE DetectEnter
  <2>1. /\ object' \in Objects /\ main = "belt" /\ main' = "assign"
        /\ UNCHANGED <<boots, asked, zeroed, wire, noise, overdue, shared, noisy, failed, misled,
                       weight, dead>>
    BY <1>3, ObjectAssumption DEF DetectEnter, DataTypes, Objects, balance, history
  <2>2. port' \in BOOLEAN
    BY Zenon, <1>3 DEF DetectEnter
  <2>3. FlagTypes'
    BY Zenon, <2>1, <2>2 DEF FlagTypes
  <2>4. PICK fd \in {FALSE, port' /\ InLine("new")} :
          reader' = [reader EXCEPT !["new"] = Begun("start", FALSE),
                                   !["old"] = [reader["new"] EXCEPT !.fd = fd]]
    BY Zenon, <1>3 DEF DetectEnter
  <2>5. fd \in BOOLEAN
    <3>1. fd = FALSE \/ (fd = (port' /\ InLine("new")))
      BY Zenon, <2>4
    <3> QED
      BY Zenon, <3>1
  <2>6. PICK a, b \in Threads : /\ a = Begun("start", FALSE)
                                /\ b = [reader["new"] EXCEPT !.fd = fd]
                                /\ b.pc = reader["new"].pc
    <3>1. PICK a \in Threads : a = Begun("start", FALSE)
      BY ThreadTypes
    <3>2. PICK old \in Threads : old = reader["new"]
      BY <1>0 DEF Readers
    <3>3. [old EXCEPT !.fd = fd] \in Threads /\ [old EXCEPT !.fd = fd].pc = old.pc
      BY <2>5 DEF Threads
    <3> QED
      BY <3>1, <3>2, <3>3
  <2>7. reader' = [reader EXCEPT !["new"] = a, !["old"] = b]
    BY Zenon, <2>4, <2>6
  <2>8. reader'["init"] = reader["init"] /\ reader'["old"].pc = reader["new"].pc
    BY <1>0, <2>6, <2>7 DEF Readers
  <2>9. buffer' = <<>> \/ (port' # TRUE /\ buffer' = buffer)
    BY Zenon, <1>3 DEF DetectEnter
  <2>10. DataTypes'
    BY <1>0, <2>1, <2>6, <2>7, <2>9 DEF DataTypes
  <2>11. ClosedInv'
    <3>1. CASE buffer' = <<>>
      BY <3>1 DEF ClosedInv
    <3>2. CASE buffer' = buffer /\ buffer # <<>>
      <4>1. port = FALSE /\ reader["init"].pc = "idle" /\ reader["old"].pc = "idle"
        BY <2>1 DEF IdleInv
      <4>2. LineOpen(Readers)
        BY <3>2 DEF ClosedInv
      <4>3. \E u \in Readers : reader[u].pc = "blocked"
        BY Zenon, <2>1, <4>1, <4>2 DEF LineOpen
      <4>4. reader["new"].pc = "blocked"
        BY <4>1, <4>3 DEF Readers
      <4> QED
        BY <2>8, <4>4 DEF ClosedInv, LineOpen, Readers
    <3> QED
      BY <2>9, <3>1, <3>2
  <2>12. IdleInv'
    BY <2>1, <2>8 DEF IdleInv
  <2>13. ZeroInv'
    BY <1>0, <2>1, <2>8, <2>9 DEF ZeroInv
  <2> QED
    BY <2>3, <2>10, <2>11, <2>12, <2>13
<1>4. CASE Assigned
  <2>1. /\ reader' = [reader EXCEPT !["old"] = Idle] /\ main = "assign" /\ main' = "weigh"
        /\ Joinable("old")
        /\ UNCHANGED <<object, boots, port, asked, zeroed, wire, buffer, noise, overdue, shared,
                       noisy, failed, misled, weight, dead>>
    BY <1>4 DEF Assigned, balance, line, history
  <2>2. FlagTypes'
    BY Zenon, <2>1 DEF FlagTypes
  <2>3. DataTypes'
    BY <1>0, <2>1, ThreadTypes DEF DataTypes
  <2>4. /\ reader'["old"] = Idle /\ reader["old"].pc # "blocked"
        /\ \A u \in Readers \ {"old"} : reader'[u] = reader[u]
    BY <1>0, <2>1 DEF Readers, Joinable
  <2>5. ClosedInv'
    BY Zenon, <2>1, <2>4 DEF ClosedInv, LineOpen, Readers
  <2>6. IdleInv' /\ ZeroInv'
    BY <2>1, <2>4, ThreadTypes DEF IdleInv, ZeroInv, Readers
  <2> QED
    BY <2>2, <2>3, <2>5, <2>6
<1>5. CASE Weighed
  <2>1. /\ reader' = [reader EXCEPT !["new"] = Idle] /\ main = "weigh" /\ main' = "extract"
        /\ weight' = reader["new"].result /\ reader["new"].pc = "done"
        /\ UNCHANGED <<object, boots, port, asked, zeroed, wire, buffer, noise, overdue, shared,
                       noisy, failed, misled, dead>>
    BY <1>5 DEF Weighed, balance, line
  <2>2. FlagTypes'
    BY Zenon, <2>1 DEF FlagTypes
  <2>3. weight' \in Results
    BY <1>0, <2>1 DEF Readers, Threads
  <2>4. DataTypes'
    BY <1>0, <2>1, <2>3, ThreadTypes DEF DataTypes
  <2>5. /\ reader'["new"] = Idle /\ reader["new"].pc # "blocked"
        /\ \A u \in Readers \ {"new"} : reader'[u] = reader[u]
    BY <1>0, <2>1 DEF Readers
  <2>6. ClosedInv'
    BY Zenon, <2>1, <2>5 DEF ClosedInv, LineOpen, Readers
  <2>7. IdleInv' /\ ZeroInv'
    BY <2>1, <2>5, ThreadTypes DEF IdleInv, ZeroInv, Readers
  <2> QED
    BY <2>2, <2>4, <2>6, <2>7
<1>6. CASE Abandoned
  <2>1. /\ main = "weigh" /\ main' = "extract"
        /\ reader' = [reader EXCEPT !["new"].rx = <<>>, !["new"].result = Nothing]
        /\ UNCHANGED <<object, boots, port, asked, zeroed, wire, buffer, noise, overdue,
                       shared, noisy, failed, misled, weight, dead>>
    BY <1>6 DEF Abandoned, balance, line, history
  <2>2. FlagTypes'
    BY Zenon, <2>1 DEF FlagTypes
  <2>3. /\ reader' \in [Readers -> Threads] /\ reader'["new"].pc = reader["new"].pc
        /\ \A u \in Readers \ {"new"} : reader'[u] = reader[u]
    BY <1>0, <2>1, PieceTypes DEF Threads, Readers
  <2>4. DataTypes'
    BY <2>1, <2>3 DEF DataTypes
  <2>5. ClosedInv'
    BY Zenon, <2>1, <2>3 DEF ClosedInv, LineOpen, Readers
  <2>6. IdleInv' /\ ZeroInv'
    BY <2>1, <2>3 DEF IdleInv, ZeroInv, Readers
  <2> QED
    BY <2>2, <2>4, <2>5, <2>6
<1>7. CASE BalancerEnd
  <2>1. /\ main = "extract" /\ weight' = Nothing /\ port' = FALSE
        /\ overdue' = FALSE /\ shared' = FALSE /\ noisy' = FALSE /\ failed' = FALSE
        /\ UNCHANGED <<object, boots, reader, asked, zeroed, wire, noise, misled, dead>>
        /\ \/ main' = "closing" /\ buffer' = <<>>
           \/ port = FALSE /\ main' = "belt" /\ buffer' = buffer
    <3>1. port = TRUE \/ port = FALSE
      BY Zenon DEF FlagTypes
    <3> QED
      BY <1>7, <3>1 DEF BalancerEnd, Flushed, balance
  <2>2. FlagTypes'
    BY Zenon, <2>1 DEF FlagTypes
  <2>3. DataTypes'
    BY <1>0, <2>1, PieceTypes DEF DataTypes
  <2>4. ClosedInv'
    BY <2>1 DEF ClosedInv, LineOpen
  <2>5. IdleInv' /\ ZeroInv'
    BY <1>0, <2>1 DEF IdleInv, ZeroInv
  <2> QED
    BY <2>2, <2>3, <2>4, <2>5
<1>8. CASE Close
  <2>1. /\ main = "closing" /\ main' = "belt"
        /\ reader' = [reader EXCEPT !["new"].fd = FALSE]
        /\ buffer' = IF reader["new"].pc = "blocked" THEN buffer ELSE <<>>
        /\ UNCHANGED <<object, boots, port, asked, zeroed, wire, noise, overdue, shared, noisy,
                       failed, misled, weight, dead>>
    BY <1>8 DEF Close, balance, history
  <2>2. FlagTypes'
    BY Zenon, <2>1 DEF FlagTypes
  <2>3. /\ reader' \in [Readers -> Threads] /\ reader'["new"].pc = reader["new"].pc
        /\ \A u \in Readers \ {"new"} : reader'[u] = reader[u]
    BY <1>0, <2>1 DEF Threads, Readers
  <2>4. DataTypes'
    BY <1>0, <2>1, <2>3 DEF DataTypes
  <2>5. ClosedInv'
    BY <2>1, <2>3 DEF ClosedInv, LineOpen, Readers
  <2>6. IdleInv' /\ ZeroInv'
    BY <1>0, <2>1, <2>3 DEF IdleInv, ZeroInv, Readers
  <2> QED
    BY <2>2, <2>4, <2>5, <2>6
<1> QED
  BY <1>1, <1>2, <1>3, <1>4, <1>5, <1>6, <1>7, <1>8 DEF MainStep

LEMMA Inv1Kept == IInv1 /\ [Next]_vars => IInv1'
<1> SUFFICES ASSUME IInv1, [Next]_vars PROVE IInv1'
    OBVIOUS
<1>1. CASE BalanceAnswers \/ PieceArrives
  BY <1>1, LineStep1
<1>2. CASE MainStep \/ Abandoned
  BY <1>2, MainStep1
<1>3. CASE \E t \in Readers : ReaderStep(t)
  BY <1>3, ReaderStep1
<1>4. CASE UNCHANGED vars
  <2>1. UNCHANGED <<main, object, boots, port, reader, asked, zeroed, wire, buffer, noise,
                    overdue, shared, noisy, failed, misled, weight, dead>>
    BY <1>4 DEF vars, balance, line, history
  <2>2. FlagTypes'
    BY Zenon, <2>1 DEF FlagTypes, IInv1
  <2>3. DataTypes'
    BY <2>1 DEF DataTypes, IInv1
  <2>4. ClosedInv' /\ IdleInv' /\ ZeroInv'
    BY <2>1 DEF ClosedInv, LineOpen, IdleInv, ZeroInv, IInv1
  <2> QED
    BY <2>2, <2>3, <2>4 DEF IInv1
<1> QED
  BY <1>1, <1>2, <1>3, <1>4 DEF Next

\* The balance's records keep their types, and a line that nobody holds open is
\* empty, whatever the threads do.
THEOREM TypeCorrect == Spec => []TypeOK
<1>1. IInv1 => TypeOK
  BY Zenon DEF TypeOK, IInv1, FlagTypes, DataTypes, Threads, ClosedInv
<1> QED
  BY <1>1, InitInv1, Inv1Kept, PTL DEF Spec

\* No object is weighed before the balance has been set to zero, unless setToZero took
\* what lay behind its buffer for the answer: an answer that says so, and what a thread
\* makes of it, cannot come from anywhere else (Balancer.cpp's setToZero).
THEOREM ZeroedFirst == Spec => []ZeroedBeforeUse
<1>1. IInv1 => ZeroedBeforeUse
  <2> SUFFICES ASSUME IInv1, main \notin {"init", "zeroing"} PROVE zeroed \/ misled
    BY DEF ZeroedBeforeUse
  <2>1. ~(zeroed = FALSE /\ misled = FALSE)
    BY DEF IInv1, ZeroInv
  <2> QED
    BY Zenon, <2>1 DEF IInv1, FlagTypes
<1> QED
  BY <1>1, InitInv1, Inv1Kept, PTL DEF Spec
-------------------------------------------------------------------------------
(* A new object's weight.  IInv2 is kept by every step that keeps IInv1. *)

\* Unless shared says otherwise, two threads are never on one line.
PortInv ==
  Weighing =>
    /\ InLine("new") => reader["new"].fd = TRUE /\ port = TRUE
    /\ shared = FALSE /\ OnLine("new") => ~OnLine("old")

\* What was read, what is in the kernel and what is on its way, end to end.
Piece(rx, buf, wir, i) ==
  IF i <= Len(rx) THEN rx[i]
  ELSE IF i <= Len(rx) + Len(buf) THEN buf[i - Len(rx)] ELSE wir[i - Len(rx) - Len(buf)]

Whole(rx, buf, wir) ==
  /\ Len(rx) + Len(buf) + Len(wir) <= 2
  /\ Len(rx) + Len(buf) + Len(wir) = 2 => Paired(Piece(rx, buf, wir, 1), Piece(rx, buf, wir, 2))

Of(n, pieces) == \A p : Has(pieces, p) /\ p.part = "head" => p.record.of = n

\* A thread that has asked is waiting for its answer, or has it before it.
Answering(rx) ==
  \/ asked = <<"Q">> /\ rx = <<>> /\ buffer = <<>> /\ wire = <<>>
  \/ /\ asked = <<>>
     /\ Of(object, rx) /\ Of(object, buffer) /\ Of(object, wire)
     /\ noisy = FALSE => Whole(rx, buffer, wire)

Told(result) ==
  /\ result.kind = "value" => result.record.of = object
  /\ result.kind = "garbled" => noisy = TRUE

AnswerInv ==
  Weighing /\ overdue = FALSE /\ shared = FALSE =>
    /\ reader["new"].pc \in {"start", "clear", "write"} => reader["new"].rx = <<>>
    /\ reader["new"].pc = "write" => asked = <<>> /\ wire = <<>> /\ buffer = <<>>
    /\ reader["new"].pc \in {"poll", "read", "blocked"} => Answering(reader["new"].rx)
    /\ reader["new"].pc = "done" => Told(reader["new"].result)

\* An answer that has not failed is still to be given, or both its pieces are there.
Somewhere(rx, p) == Has(rx, p) \/ Has(buffer, p) \/ Has(wire, p)
Coming(rx) ==
  \/ Has(asked, "Q")
  \/ \E r \in Records : \A part \in {"head", "tail"} : Somewhere(rx, [part |-> part, record |-> r])

OwnInv ==
  Weighing =>
    /\ shared = FALSE /\ failed = FALSE /\ reader["new"].pc \in {"poll", "read", "blocked"} =>
         Coming(reader["new"].rx)
    /\ reader["new"].pc = "done" =>
         /\ reader["new"].result.kind = "noport" => port = FALSE
         /\ reader["new"].result.kind = "short" /\ shared = FALSE => failed = TRUE

WeightInv == main # "extract" => weight = Nothing

IInv2 == PortInv /\ AnswerInv /\ OwnInv /\ WeightInv /\ FreshWeight

LEMMA InitInv2 == Init => IInv2
<1> SUFFICES ASSUME Init PROVE IInv2
  OBVIOUS
<1>1. ~Weighing /\ weight = Nothing /\ weight.kind = "none"
  BY PieceTypes DEF Init, Weighing
<1> QED
  BY <1>1 DEF IInv2, PortInv, AnswerInv, OwnInv, WeightInv, FreshWeight

\* What a thread's step shows whichever it is.
LEMMA ThreadStep ==
  ASSUME DataTypes, NEW t \in Readers, ReaderStep(t)
  PROVE  /\ UNCHANGED <<main, object, weight, wire, port>>
         /\ \A u \in Readers \ {t} : reader'[u] = reader[u]
         /\ reader[t].pc # "idle"
         /\ ~Lookup(t) =>
              /\ shared' = shared
              /\ reader'[t].pc # "done" =>
                   /\ reader[t].pc \in {"clear", "write", "poll", "read", "blocked"}
                   /\ reader'[t].pc # "start" /\ reader'[t].fd = reader[t].fd
                   /\ reader'[t].pc = "blocked" => reader[t].fd = TRUE
<1>1. CASE Lookup(t)
  BY <1>1, LookupThread DEF Lookup, line
<1>2. CASE SerialClear(t)
  BY <1>2, MovedThread DEF SerialClear
<1>3. CASE SerialWrite(t) \/ BytesAvailable(t)
  <2>1. /\ Step(t, "poll") \/ Step(t, "read")
        /\ reader[t].pc \in {"write", "poll"}
        /\ UNCHANGED <<main, object, weight, wire, port, shared>>
    BY <1>3 DEF SerialWrite, BytesAvailable, line, history
  <2> QED
    BY <2>1, MovedThread
<1>4. CASE ReadBlocks(t)
  <2>1. /\ Step(t, "blocked") /\ reader[t].pc = "read"
        /\ UNCHANGED <<main, object, weight, wire, port, shared>>
    BY <1>4 DEF ReadBlocks, line, history
  <2>2. reader[t].fd = TRUE
    BY Zenon, <1>4 DEF ReadBlocks, DataTypes, Threads
  <2> QED
    BY <2>1, <2>2, MovedThread
<1>5. CASE LineSilent(t)
  <2>1. /\ UNCHANGED <<main, object, weight, wire, port, shared>>
        /\ reader[t].pc = "poll"
    BY <1>5 DEF LineSilent, line
  <2>2. reader'[t].pc = "done" /\ \A u \in Readers \ {t} : reader'[u] = reader[u]
    BY <1>5, SilentThread
  <2> QED
    BY <2>1, <2>2
<1>6. CASE SerialRead(t) \/ ReadReturns(t)
  <2>1. \E n \in 1..Len(buffer), more \in Behind : Taken(t, n, more)
    BY Zenon, <1>6 DEF SerialRead, ReadReturns
  <2>2. /\ UNCHANGED <<main, object, weight, wire, port, shared>>
        /\ reader[t].pc \in {"read", "blocked"}
    BY <1>6, <2>1 DEF Taken, SerialRead, ReadReturns
  <2>3. /\ reader'[t].pc = "poll" /\ reader'[t].fd = reader[t].fd
        /\ \A u \in Readers \ {t} : reader'[u] = reader[u]
    BY Zenon, <1>6, ReadThread
  <2> QED
    BY <2>2, <2>3
<1>7. CASE ReadFails(t)
  <2>1. /\ UNCHANGED <<main, object, weight, wire, port, shared, reader>>
        /\ reader[t].pc = "read"
    BY <1>7 DEF ReadFails, line, history
  <2> QED
    BY <2>1
<1> QED
  BY <1>1, <1>2, <1>3, <1>4, <1>5, <1>6, <1>7 DEF ReaderStep

LEMMA ReaderKeepsPort ==
  ASSUME IInv1, PortInv, NEW t \in Readers, ReaderStep(t)
  PROVE  PortInv'
<1>0. DataTypes /\ reader["new"] \in Threads /\ "new" \in Readers /\ "old" \in Readers
  BY DEF IInv1, DataTypes, Readers
<1>1. /\ main' = main /\ port' = port /\ reader[t].pc # "idle"
      /\ \A u \in Readers \ {t} : reader'[u] = reader[u]
  BY <1>0, ThreadStep
<1> SUFFICES ASSUME Weighing
             PROVE  /\ InLine("new")' => reader'["new"].fd = TRUE /\ port = TRUE
                    /\ shared' = FALSE /\ OnLine("new")' => ~OnLine("old")'
  BY <1>1 DEF PortInv, Weighing
<1>2. t # "init"
  BY <1>1 DEF IInv1, IdleInv, Weighing
<1>3. CASE Lookup(t)
  <2>1. \/ /\ reader'[t].pc = "clear" /\ reader'[t].fd = TRUE /\ port = TRUE
           /\ shared' = (shared \/ (Weighing /\ \E u \in Readers \ {t} : OnLine(u)))
        \/ reader'[t].pc = "done" /\ shared' = shared
    BY Zenon, <1>0, <1>3, LookupThread
  <2>2. InLine("new")' => reader'["new"].fd = TRUE /\ port = TRUE
    BY <1>1, <2>1 DEF PortInv, InLine, Readers
  <2>3. shared' = FALSE => shared = FALSE
    BY Zenon, <2>1 DEF IInv1, FlagTypes
  <2>4. OnLine(t)' => (shared' = FALSE => \A u \in Readers \ {t} : ~OnLine(u))
    <3>1. ~(reader'[t].pc = "done" /\ OnLine(t)')
      BY DEF OnLine, InLine
    <3> QED
      BY Zenon, <2>1, <3>1
  <2>5. \A u \in Readers \ {t} : OnLine(u)' => OnLine(u)
    BY Zenon, <1>1 DEF OnLine, InLine
  <2>6. shared' = FALSE /\ OnLine("new")' => ~OnLine("old")'
    <3>1. CASE t = "new"
      BY Zenon, <2>4, <2>5, <3>1 DEF Readers
    <3>2. CASE t = "old"
      BY Zenon, <2>4, <2>5, <3>2 DEF Readers
    <3> QED
      BY <1>2, <3>1, <3>2 DEF Readers
  <2> QED
    BY <2>2, <2>6
<1>4. CASE ~Lookup(t)
  <2>1. /\ shared' = shared
        /\ reader'[t].pc # "done" =>
             /\ reader[t].pc \in {"clear", "write", "poll", "read", "blocked"}
             /\ reader'[t].fd = reader[t].fd
             /\ reader'[t].pc = "blocked" => reader[t].fd = TRUE
    BY <1>0, <1>4, ThreadStep
  <2>2. InLine("new")' => InLine("new") /\ reader'["new"].fd = reader["new"].fd
    BY <1>1, <2>1 DEF InLine, Readers
  <2>3. \A u \in Readers : OnLine(u)' => OnLine(u)
    <3>1. OnLine(t)' => OnLine(t)
      <4>1. InLine(t)' => InLine(t)
        BY <2>1 DEF InLine
      <4>2. reader'[t].pc # "done" \/ ~InLine(t)'
        BY DEF InLine
      <4> QED
        BY Zenon, <2>1, <4>1, <4>2 DEF OnLine
    <3> QED
      BY Zenon, <1>1, <3>1 DEF OnLine, InLine
  <2>4. InLine("new")' => reader'["new"].fd = TRUE /\ port = TRUE
    BY <2>2 DEF PortInv
  <2>5. shared' = FALSE /\ OnLine("new")' => ~OnLine("old")'
    BY Zenon, <1>0, <2>1, <2>3 DEF PortInv
  <2> QED
    BY <2>4, <2>5
<1> QED
  BY <1>3, <1>4

LEMMA MainKeepsPort ==
  ASSUME IInv1, PortInv, MainStep \/ Abandoned
  PROVE  PortInv'
<1>0. reader \in [Readers -> Threads] /\ "new" \in Readers /\ "old" \in Readers
  BY DEF IInv1, DataTypes, Readers
<1>1. CASE InitEnter \/ InitEnds \/ Weighed \/ Abandoned \/ BalancerEnd \/ Close
  <2>1. ~Weighing'
    BY <1>1 DEF InitEnter, InitEnds, Weighed, Abandoned, BalancerEnd, Close, Weighing
  <2> QED
    BY <2>1 DEF PortInv
<1>2. CASE DetectEnter
  <2>1. reader'["new"] = Begun("start", FALSE)
    BY <1>0, <1>2 DEF DetectEnter, Readers
  <2>2. reader'["new"].pc = "start"
    BY <2>1, ThreadTypes
  <2> QED
    BY <2>2 DEF PortInv, OnLine, InLine
<1>3. CASE Assigned
  <2>1. /\ main = "assign" /\ shared' = shared /\ port' = port
        /\ reader' = [reader EXCEPT !["old"] = Idle]
    BY <1>3 DEF Assigned, history
  <2>2. reader'["new"] = reader["new"] /\ reader'["old"].pc = "idle"
    BY <1>0, <2>1, ThreadTypes DEF Readers
  <2> QED
    BY <2>1, <2>2 DEF PortInv, Weighing, OnLine, InLine
<1> QED
  BY <1>1, <1>2, <1>3 DEF MainStep

\* Reading moves pieces, and keeps their order.
LEMMA ReadKeepsWhole ==
  ASSUME NEW rx \in Seq(Pieces), NEW buf \in Seq(Pieces), NEW wir \in Seq(Pieces),
         NEW rx2 \in Seq(Pieces), NEW buf2 \in Seq(Pieces), NEW n \in 1..Len(buf),
         Len(rx2) = Len(rx) + n,
         \A i \in 1..Len(rx) : rx2[i] = rx[i], \A i \in 1..n : rx2[Len(rx) + i] = buf[i],
         Len(buf2) = Len(buf) - n, \A i \in 1..(Len(buf) - n) : buf2[i] = buf[i + n],
         Whole(rx, buf, wir)
  PROVE  Whole(rx2, buf2, wir)
<1>1. PICK a, b, c \in Nat : a = Len(rx) /\ b = Len(buf) /\ c = Len(wir)
  OBVIOUS
<1>2. Len(rx2) = a + n /\ Len(buf2) = b - n /\ n \in 1..b
  BY <1>1
<1>3. ASSUME a + b + c = 2, NEW i \in 1..2
      PROVE  Piece(rx2, buf2, wir, i) = Piece(rx, buf, wir, i)
  <2>1. CASE i <= a
    BY <1>1, <1>2, <2>1 DEF Piece
  <2>2. CASE a < i /\ i <= a + n
    <3>1. i - a \in 1..n /\ i = a + (i - a)
      BY <1>2, <2>2
    <3>2. rx2[i] = buf[i - a]
      BY <1>1, <3>1
    <3> QED
      BY <1>1, <1>2, <2>2, <3>2 DEF Piece
  <2>3. CASE a + n < i /\ i <= a + b
    <3>1. i - (a + n) \in 1..(b - n) /\ i - (a + n) + n = i - a
      BY <1>2, <2>3
    <3>2. buf2[i - (a + n)] = buf[i - a]
      BY <1>1, <3>1
    <3> QED
      BY <1>1, <1>2, <2>3, <3>2 DEF Piece
  <2>4. CASE a + b < i
    <3>1. i - (a + n) - (b - n) = i - a - b
      BY <1>2
    <3> QED
      BY <1>1, <1>2, <2>4, <3>1 DEF Piece
  <2> QED
    BY <1>1, <1>2, <2>1, <2>2, <2>3, <2>4
<1>4. Len(rx2) + Len(buf2) + Len(wir) = a + b + c /\ a + b + c <= 2
  BY <1>1, <1>2 DEF Whole
<1>5. ASSUME a + b + c = 2
      PROVE  Paired(Piece(rx2, buf2, wir, 1), Piece(rx2, buf2, wir, 2))
  <2>1. Paired(Piece(rx, buf, wir, 1), Piece(rx, buf, wir, 2))
    BY <1>1, <1>5 DEF Whole
  <2>2. /\ Piece(rx2, buf2, wir, 1) = Piece(rx, buf, wir, 1)
        /\ Piece(rx2, buf2, wir, 2) = Piece(rx, buf, wir, 2)
    BY <1>3, <1>5
  <2> QED
    BY <2>1, <2>2
<1> QED
  BY <1>4, <1>5 DEF Whole

\* A piece arrives behind what is there, or is lost.
LEMMA ArrivalKeepsWhole ==
  ASSUME NEW rx \in Seq(Pieces), NEW buf \in Seq(Pieces), NEW wir \in Seq(Pieces), wir # <<>>,
         NEW buf2 \in {buf, Append(buf, Head(wir))}, Whole(rx, buf, wir)
  PROVE  Whole(rx, buf2, Tail(wir))
<1>1. PICK a, b, c \in Nat : a = Len(rx) /\ b = Len(buf) /\ c = Len(wir) /\ c > 0
  OBVIOUS
<1>2. PICK tail : tail = Tail(wir)
  OBVIOUS
<1>3. Len(tail) = c - 1 /\ \A i \in 1..(c - 1) : tail[i] = wir[i + 1]
  BY <1>1, <1>2
<1>4. a + b + c <= 2
  BY <1>1 DEF Whole
<1>5. CASE buf2 = buf
  BY <1>1, <1>2, <1>3, <1>4, <1>5 DEF Whole
<1>6. CASE buf2 = Append(buf, Head(wir))
  <2>1. /\ Len(buf2) = b + 1 /\ buf2[b + 1] = wir[1]
        /\ \A i \in 1..b : buf2[i] = buf[i]
    BY <1>1, <1>6
  <2>2. ASSUME a + b + c = 2, NEW i \in 1..2
        PROVE  Piece(rx, buf2, tail, i) = Piece(rx, buf, wir, i)
    <3>1. CASE i <= a + b
      BY <1>1, <2>1, <3>1 DEF Piece
    <3>2. CASE i = a + b + 1
      BY <1>1, <2>1, <3>2 DEF Piece
    <3>3. CASE i > a + b + 1
      <4>1. i - a - (b + 1) \in 1..(c - 1) /\ i - a - (b + 1) + 1 = i - a - b
        BY <2>2, <3>3
      <4>2. tail[i - a - (b + 1)] = wir[i - a - b]
        BY <1>3, <4>1
      <4> QED
        BY <1>1, <2>1, <3>3, <4>2 DEF Piece
    <3> QED
      BY <3>1, <3>2, <3>3
  <2>3. Len(rx) + Len(buf2) + Len(tail) = a + b + c
    BY <1>1, <1>3, <2>1
  <2>4. ASSUME a + b + c = 2 PROVE Paired(Piece(rx, buf2, tail, 1), Piece(rx, buf2, tail, 2))
    <3>1. Paired(Piece(rx, buf, wir, 1), Piece(rx, buf, wir, 2))
      BY <1>1, <2>4 DEF Whole
    <3>2. /\ Piece(rx, buf2, tail, 1) = Piece(rx, buf, wir, 1)
          /\ Piece(rx, buf2, tail, 2) = Piece(rx, buf, wir, 2)
      BY <2>2, <2>4
    <3> QED
      BY <3>1, <3>2
  <2> QED
    BY <1>2, <1>4, <2>3, <2>4 DEF Whole
<1> QED
  BY <1>5, <1>6

\* The answer is kept by a step that leaves the thread and, once it has cleared
\* the line, the line alone.
LEMMA AnswerFrame ==
  ASSUME AnswerInv, OwnInv, Weighing' => Weighing,
         UNCHANGED <<object, noisy, failed, port>>,
         overdue' = FALSE => overdue = FALSE, shared' = FALSE => shared = FALSE,
         reader'["new"] = reader["new"],
         Weighing /\ shared' = FALSE /\ reader["new"].pc \in {"write", "poll", "read", "blocked"} =>
           UNCHANGED <<asked, wire, buffer>>
  PROVE  AnswerInv' /\ OwnInv'
<1>1. ASSUME Weighing', overdue' = FALSE, shared' = FALSE
      PROVE  /\ reader["new"].pc \in {"start", "clear", "write"} => reader["new"].rx = <<>>
             /\ reader["new"].pc = "write" => asked' = <<>> /\ wire' = <<>> /\ buffer' = <<>>
             /\ reader["new"].pc \in {"poll", "read", "blocked"} => Answering(reader["new"].rx)'
             /\ reader["new"].pc = "done" => Told(reader["new"].result)'
  <2>1. /\ reader["new"].pc \in {"start", "clear", "write"} => reader["new"].rx = <<>>
        /\ reader["new"].pc = "write" => asked' = <<>> /\ wire' = <<>> /\ buffer' = <<>>
    BY <1>1 DEF AnswerInv
  <2>2. ASSUME reader["new"].pc \in {"poll", "read", "blocked"} PROVE Answering(reader["new"].rx)'
    <3>1. Answering(reader["new"].rx)
      BY <1>1, <2>2 DEF AnswerInv
    <3>2. UNCHANGED <<asked, wire, buffer>>
      BY <1>1, <2>2
    <3> QED
      BY <3>1, <3>2 DEF Answering
  <2>3. ASSUME reader["new"].pc = "done" PROVE Told(reader["new"].result)'
    BY <1>1, <2>3 DEF AnswerInv, Told
  <2> QED
    BY <2>1, <2>2, <2>3
<1>2. ASSUME Weighing', shared' = FALSE, failed' = FALSE,
             reader["new"].pc \in {"poll", "read", "blocked"}
      PROVE  Coming(reader["new"].rx)'
  <2>1. Coming(reader["new"].rx)
    BY <1>2 DEF OwnInv
  <2>2. UNCHANGED <<asked, wire, buffer>>
    BY <1>2
  <2> QED
    BY <2>1, <2>2 DEF Coming, Somewhere
<1>3. ASSUME Weighing', reader["new"].pc = "done"
      PROVE  /\ reader["new"].result.kind = "noport" => port' = FALSE
             /\ reader["new"].result.kind = "short" /\ shared' = FALSE => failed' = TRUE
  BY <1>3 DEF OwnInv
<1> QED
  BY <1>1, <1>2, <1>3 DEF AnswerInv, OwnInv

LEMMA WholeAnswers ==
  /\ \A n \in Objects : Of(n, <<>>) /\ Of(n, <<Refusal>>)
  /\ Whole(<<>>, <<>>, <<>>) /\ Whole(<<>>, <<>>, <<Refusal>>)
  /\ \A r \in Records : /\ Of(r.of, Record(r)) /\ Whole(<<>>, <<>>, Record(r))
                        /\ Record(r) \in Seq(Pieces)
                        /\ \A part \in {"head", "tail"} :
                             Has(Record(r), [part |-> part, record |-> r])
<1>1. \A n \in Objects : Of(n, <<>>) /\ Of(n, <<Refusal>>)
  BY HasFew DEF Of, Refusal
<1>2. Whole(<<>>, <<>>, <<>>) /\ Whole(<<>>, <<>>, <<Refusal>>)
  BY DEF Whole
<1>3. ASSUME NEW r \in Records
      PROVE  /\ Of(r.of, Record(r)) /\ Whole(<<>>, <<>>, Record(r))
             /\ Record(r) \in Seq(Pieces)
             /\ \A part \in {"head", "tail"} : Has(Record(r), [part |-> part, record |-> r])
  <2>1. PICK head, tail \in Pieces :
          head = [part |-> "head", record |-> r] /\ tail = [part |-> "tail", record |-> r]
    BY PieceTypes
  <2>2. Record(r) = <<head, tail>> /\ Paired(head, tail)
    BY <2>1 DEF Record, Paired
  <2>3. Of(r.of, <<head, tail>>)
    BY <2>1, HasFew DEF Of
  <2>4. Whole(<<>>, <<>>, <<head, tail>>)
    BY <2>2 DEF Whole, Piece
  <2>5. Has(<<head, tail>>, head) /\ Has(<<head, tail>>, tail)
    BY HasFew
  <2>6. \A part \in {"head", "tail"} : Has(<<head, tail>>, [part |-> part, record |-> r])
    BY <2>1, <2>5
  <2> QED
    BY <2>2, <2>3, <2>4, <2>6
<1> QED
  BY <1>1, <1>2, <1>3

\* What a step of the line does to the answer's invariants, when the new thread has
\* asked and when it has not.
LEMMA LineFrame ==
  ASSUME AnswerInv, OwnInv,
         UNCHANGED <<main, object, reader, overdue, shared, noisy, port>>,
         failed' = FALSE => failed = FALSE, failed = TRUE => failed' = TRUE,
         Weighing /\ overdue = FALSE /\ shared = FALSE => reader["new"].pc # "write",
         Weighing /\ reader["new"].pc \in {"poll", "read", "blocked"} =>
           /\ overdue = FALSE /\ shared = FALSE => Answering(reader["new"].rx)'
           /\ shared = FALSE /\ failed' = FALSE => Coming(reader["new"].rx)'
  PROVE  AnswerInv' /\ OwnInv'
<1>1. Weighing' = Weighing
  BY DEF Weighing
<1>2. AnswerInv'
  BY <1>1 DEF AnswerInv, Told
<1>3. OwnInv'
  BY <1>1 DEF OwnInv
<1> QED
  BY <1>2, <1>3

\* The balance answers the one question it was asked, of the object that is on it.
LEMMA BalanceKeepsAnswer ==
  ASSUME IInv1, AnswerInv, OwnInv, BalanceAnswers
  PROVE  AnswerInv' /\ OwnInv'
<1>1. /\ asked # <<>> /\ asked' = Tail(asked)
      /\ UNCHANGED <<main, object, reader, buffer, overdue, shared, noisy, port>>
      /\ \/ /\ Head(asked) = "Q" /\ failed' = failed
            /\ \E sign \in {"+", "-"} : wire' = wire \o Record([of |-> object, sign |-> sign])
         \/ Head(asked) = "Z" /\ wire' = Append(wire, Zero) /\ failed' = failed
         \/ wire' \in {wire, Append(wire, Refusal)} /\ Fails(Waits)
  BY DEF BalanceAnswers
<1>2. /\ wire \in Seq(Pieces) /\ asked \in Seq({"Q", "Z"}) /\ object \in Objects
      /\ failed \in BOOLEAN
  BY DEF IInv1, DataTypes, FlagTypes
<1>3. /\ failed' = FALSE => failed = FALSE
      /\ failed = TRUE => failed' = TRUE
      /\ Waits /\ failed' = FALSE => ~Fails(Waits)
  <2>1. failed' = failed \/ (failed' = (failed \/ Waits))
    BY Zenon, <1>1 DEF Fails
  <2> QED
    BY Zenon, <1>2, <2>1 DEF Fails
<1>4. CASE Head(asked) = "Q" /\ \E sign \in {"+", "-"} :
             wire' = wire \o Record([of |-> object, sign |-> sign])
  <2>1. PICK r \in Records : r.of = object /\ wire' = Join(wire, Record(r))
    <3>1. PICK sign \in {"+", "-"} : wire' = wire \o Record([of |-> object, sign |-> sign])
      BY <1>4
    <3>2. [of |-> object, sign |-> sign] \in Records
      BY <1>2 DEF Records
    <3> QED
      BY <3>1, <3>2 DEF Join
  <2>2. Record(r) \in Seq(Pieces)
    BY WholeAnswers
  <2>3. \A p : Has(Record(r), p) => Has(wire', p)
    <3>1. \A p : Has(Join(wire, Record(r)), p) <=> (Has(wire, p) \/ Has(Record(r), p))
      BY ZenonT(60), <1>2, <2>2, JoinFacts
    <3> QED
      BY Zenon, <2>1, <3>1
  <2>4. Coming(reader["new"].rx)'
    BY Zenon, <2>3, WholeAnswers DEF Coming, Somewhere
  <2>5. ASSUME Answering(reader["new"].rx) PROVE Answering(reader["new"].rx)'
    <3>1. asked = <<"Q">> /\ reader["new"].rx = <<>> /\ buffer = <<>> /\ wire = <<>>
      BY <1>1, <2>5 DEF Answering
    <3>2. asked' = <<>>
      BY <1>1, <3>1
    <3>3. wire' = Record(r)
      BY <2>1, <2>2, <3>1 DEF Join
    <3> QED
      BY <1>1, <1>2, <2>1, <3>1, <3>2, <3>3, WholeAnswers DEF Answering
  <2> QED
    BY <1>1, <1>3, <2>4, <2>5, LineFrame DEF AnswerInv
<1>5. CASE Head(asked) = "Z" /\ wire' = Append(wire, Zero)
  <2>1. \A p : Has(wire, p) => Has(wire', p)
    BY <1>2, <1>5, PieceTypes, HasAppend
  <2>2. Has(asked, "Q") => Has(asked', "Q")
    BY <1>1, <1>2, <1>5, HasTail
  <2>3. Coming(reader["new"].rx) => Coming(reader["new"].rx)'
    BY Zenon, <1>1, <2>1, <2>2 DEF Coming, Somewhere
  <2>4. ~Answering(reader["new"].rx)
    BY <1>1, <1>5 DEF Answering
  <2> QED
    BY <1>1, <1>3, <2>3, <2>4, LineFrame DEF AnswerInv, OwnInv
<1>6. CASE wire' \in {wire, Append(wire, Refusal)} /\ Fails(Waits)
  <2>1. Weighing /\ reader["new"].pc \in {"poll", "read", "blocked"} => failed' # FALSE
    BY <1>3, <1>6 DEF Waits
  <2>2. ASSUME Answering(reader["new"].rx) PROVE Answering(reader["new"].rx)'
    <3>1. asked = <<"Q">> /\ reader["new"].rx = <<>> /\ buffer = <<>> /\ wire = <<>>
      BY <1>1, <2>2 DEF Answering
    <3>2. asked' = <<>>
      BY <1>1, <3>1
    <3>3. wire' = <<>> \/ wire' = <<Refusal>>
      BY <1>6, <3>1
    <3> QED
      BY <1>1, <1>2, <3>1, <3>2, <3>3, WholeAnswers DEF Answering
  <2> QED
    BY <1>1, <1>3, <2>1, <2>2, LineFrame DEF AnswerInv
<1> QED
  BY <1>1, <1>4, <1>5, <1>6

LEMMA ArrivalKeepsAnswer ==
  ASSUME IInv1, AnswerInv, OwnInv, PieceArrives
  PROVE  AnswerInv' /\ OwnInv'
<1>1. /\ wire # <<>> /\ wire' = Tail(wire)
      /\ UNCHANGED <<main, object, reader, asked, overdue, shared, noisy, port>>
      /\ \/ buffer' = Append(buffer, Head(wire)) /\ failed' = failed
         \/ buffer' = buffer /\ Fails(Waits)
  BY DEF PieceArrives, balance
<1>2. PICK rx, buf, wir, buf2 :
        rx = reader["new"].rx /\ buf = buffer /\ wir = wire /\ buf2 = buffer'
  OBVIOUS
<1>3. /\ rx \in Seq(Pieces) /\ buf \in Seq(Pieces) /\ wir \in Seq(Pieces) /\ wir # <<>>
      /\ buf2 \in {buf, Append(buf, Head(wir))} /\ failed \in BOOLEAN
  BY <1>1, <1>2 DEF IInv1, DataTypes, FlagTypes, Threads, Readers
<1>4. /\ failed' = FALSE => failed = FALSE
      /\ failed = TRUE => failed' = TRUE
      /\ Waits /\ failed' = FALSE => ~Fails(Waits)
  <2>1. failed' = failed \/ (failed' = (failed \/ Waits))
    BY Zenon, <1>1 DEF Fails
  <2> QED
    BY Zenon, <1>3, <2>1 DEF Fails
<1>5. /\ Head(wir) \in Pieces /\ Tail(wir) \in Seq(Pieces)
      /\ \A p : Has(wir, p) <=> (p = Head(wir) \/ Has(Tail(wir), p))
  BY <1>3, HasTail
<1>6. \A p : Has(Append(buf, Head(wir)), p) <=> (Has(buf, p) \/ p = Head(wir))
  BY <1>3, <1>5, HasAppend
<1>7. ASSUME Answering(rx) PROVE Answering(rx)'
  <2>1. PICK n : n = object
    OBVIOUS
  <2>2. /\ asked = <<>> /\ Of(n, rx) /\ Of(n, buf) /\ Of(n, wir)
        /\ noisy = FALSE => Whole(rx, buf, wir)
    BY <1>1, <1>2, <1>7, <2>1 DEF Answering
  <2>3. Of(n, buf2) /\ Of(n, Tail(wir))
    BY Zenon, <1>3, <1>5, <1>6, <2>2 DEF Of
  <2>4. noisy = FALSE => Whole(rx, buf2, Tail(wir))
    BY <1>3, <2>2, ArrivalKeepsWhole
  <2> QED
    BY <1>1, <1>2, <2>1, <2>2, <2>3, <2>4 DEF Answering
<1>8. ASSUME buffer' = Append(buffer, Head(wire)), Coming(rx) PROVE Coming(rx)'
  <2>1. \A p : Has(buffer, p) \/ Has(wire, p) => Has(buffer', p) \/ Has(wire', p)
    BY Zenon, <1>1, <1>2, <1>5, <1>6, <1>8
  <2> QED
    BY Zenon, <1>1, <1>8, <2>1 DEF Coming, Somewhere
<1>9. Waits /\ failed' = FALSE => buffer' = Append(buffer, Head(wire))
  BY <1>1, <1>4
<1>10. Answering(reader["new"].rx) => Answering(reader["new"].rx)'
  BY <1>1, <1>2, <1>7 DEF Answering
<1>11. Waits /\ failed' = FALSE /\ Coming(reader["new"].rx) => Coming(reader["new"].rx)'
  BY <1>1, <1>2, <1>8, <1>9 DEF Coming, Somewhere
<1>12. Weighing /\ overdue = FALSE /\ shared = FALSE => reader["new"].pc # "write"
  BY <1>1 DEF AnswerInv
<1> QED
  BY <1>1, <1>4, <1>10, <1>11, <1>12, LineFrame DEF AnswerInv, OwnInv, Waits

\* What the new thread reads while it has the line is what the line held.
LEMMA NewReads ==
  ASSUME IInv1, PortInv, AnswerInv, OwnInv, Weighing, SerialRead("new") \/ ReadReturns("new")
  PROVE  /\ UNCHANGED <<asked, overdue, shared, failed>> /\ reader'["new"].pc = "poll"
         /\ Answering(reader["new"].rx) => Answering(reader["new"].rx)'
         /\ Coming(reader["new"].rx) => Coming(reader["new"].rx)'
<1>0. DataTypes /\ "new" \in Readers /\ reader["new"] \in Threads
  BY DEF IInv1, DataTypes, Readers
<1>1. Heard("new") /\ LineOpen(Readers \ {"new"})
  <2>1. reader["new"].pc \in {"read", "blocked"}
    BY DEF SerialRead, ReadReturns
  <2>2. port = TRUE
    BY <2>1 DEF PortInv, InLine
  <2> QED
    BY Zenon, <2>2 DEF Heard, LineOpen
<1>2. PICK n \in 1..Len(buffer), more \in Behind :
        /\ Taken("new", n, more) /\ buffer # <<>>
        /\ more \in Seq(Pieces)
        /\ reader' \in [Readers -> Threads]
        /\ reader'["new"].pc = "poll"
        /\ reader'["new"].rx = Join(Join(reader["new"].rx, SubSeq(buffer, 1, n)), more)
        /\ buffer' = Rest(n) /\ buffer' \in Seq(Pieces)
  BY Zenon, <1>0, <1>1, ReadThread
<1>3. /\ UNCHANGED <<main, object, asked, wire, overdue, shared, failed>>
      /\ noisy' = (noisy \/ more # <<>>)
  BY <1>2 DEF Taken, balance
<1>4. PICK rx, buf, wir, got, front, rx2, buf2 :
        /\ rx = reader["new"].rx /\ buf = buffer /\ wir = wire
        /\ got = SubSeq(buf, 1, n) /\ front = Join(rx, got)
        /\ rx2 = Join(front, more) /\ buf2 = SubSeq(buf, n + 1, Len(buf))
  OBVIOUS
<1>5. /\ rx \in Seq(Pieces) /\ buf \in Seq(Pieces) /\ wir \in Seq(Pieces) /\ n \in 1..Len(buf)
      /\ rx2 = reader'["new"].rx /\ buf2 = buffer'
  <2>1. rx \in Seq(Pieces) /\ buf \in Seq(Pieces) /\ wir \in Seq(Pieces)
    BY <1>0, <1>4 DEF DataTypes, Threads
  <2>2. rx2 = reader'["new"].rx /\ buf2 = buffer'
    BY Zenon, <1>2, <1>4 DEF Rest
  <2> QED
    BY <1>2, <1>4, <2>1, <2>2
<1>6. /\ got \in Seq(Pieces) /\ Len(got) = n /\ \A i \in 1..n : got[i] = buf[i]
      /\ buf2 \in Seq(Pieces) /\ Len(buf2) = Len(buf) - n
      /\ \A i \in 1..(Len(buf) - n) : buf2[i] = buf[i + n]
      /\ \A p : Has(buf, p) <=> (Has(got, p) \/ Has(buf2, p))
  <2>1. buf \in Seq(Pieces) /\ n \in 1..Len(buf)
        /\ got = SubSeq(buf, 1, n) /\ buf2 = SubSeq(buf, n + 1, Len(buf))
    BY <1>4, <1>5
  <2> QED
    BY ZenonT(60), <2>1, SplitFacts
<1>7. /\ front \in Seq(Pieces) /\ Len(front) = Len(rx) + Len(got)
      /\ \A i \in 1..Len(rx) : front[i] = rx[i]
      /\ \A i \in 1..Len(got) : front[Len(rx) + i] = got[i]
      /\ \A p : Has(front, p) <=> (Has(rx, p) \/ Has(got, p))
  <2>1. rx \in Seq(Pieces) /\ got \in Seq(Pieces) /\ front = Join(rx, got)
    BY <1>4, <1>5, <1>6
  <2>2. /\ Join(rx, got) \in Seq(Pieces) /\ Len(Join(rx, got)) = Len(rx) + Len(got)
        /\ \A i \in 1..Len(rx) : Join(rx, got)[i] = rx[i]
        /\ \A i \in 1..Len(got) : Join(rx, got)[Len(rx) + i] = got[i]
    <3>1. Join(rx, got) \in Seq(Pieces)
      BY ZenonT(60), <2>1, JoinFacts
    <3>2. Len(Join(rx, got)) = Len(rx) + Len(got)
      BY ZenonT(60), <2>1, JoinFacts
    <3>3. \A i \in 1..Len(rx) : Join(rx, got)[i] = rx[i]
      BY ZenonT(60), <2>1, JoinFacts
    <3>4. \A i \in 1..Len(got) : Join(rx, got)[Len(rx) + i] = got[i]
      <4>1. PICK a, b \in Nat : a = Len(rx) /\ b = Len(got)
        BY <2>1
      <4>2. PICK t : t = Join(rx, got)
        OBVIOUS
      <4>3. \A i \in 1..b : t[a + i] = got[i]
        BY <2>1, <4>1, <4>2 DEF Join
      <4> QED
        BY <4>1, <4>2, <4>3
    <3> QED
      BY <3>1, <3>2, <3>3, <3>4
  <2>3. \A p : Has(Join(rx, got), p) <=> (Has(rx, p) \/ Has(got, p))
    BY ZenonT(60), <2>1, JoinFacts
  <2> QED
    BY Zenon, <2>1, <2>2, <2>3
<1>8. \A p : Has(rx2, p) <=> (Has(front, p) \/ Has(more, p))
  <2>1. front \in Seq(Pieces) /\ more \in Seq(Pieces) /\ rx2 = Join(front, more)
    BY <1>2, <1>4, <1>7
  <2> QED
    BY ZenonT(60), <2>1, JoinFacts
<1>9. ASSUME Coming(rx) PROVE Coming(rx2)'
  <2>1. \A p : Has(rx, p) \/ Has(buf, p) => Has(rx2, p) \/ Has(buf2, p)
    BY Zenon, <1>6, <1>7, <1>8
  <2>2. CASE Has(asked, "Q")
    BY Zenon, <1>3, <2>2 DEF Coming
  <2>3. CASE \E r \in Records : \A part \in {"head", "tail"} :
                Somewhere(rx, [part |-> part, record |-> r])
    <3>1. PICK r \in Records : \A part \in {"head", "tail"} :
                Somewhere(rx, [part |-> part, record |-> r])
      BY <2>3
    <3>2. \A p : Somewhere(rx, p) => Somewhere(rx2, p)'
      BY Zenon, <1>3, <1>4, <1>5, <2>1 DEF Somewhere
    <3> QED
      BY Zenon, <3>1, <3>2 DEF Coming
  <2> QED
    BY Zenon, <1>9, <2>2, <2>3 DEF Coming
<1>10. ASSUME Answering(rx) PROVE Answering(rx2)'
  <2>1. PICK k : k = object
    OBVIOUS
  <2>2. buf # <<>>
    BY <1>2, <1>4
  <2>3. /\ asked = <<>> /\ Of(k, rx) /\ Of(k, buf) /\ Of(k, wir)
        /\ noisy = FALSE => Whole(rx, buf, wir)
    BY <1>4, <1>10, <2>1, <2>2 DEF Answering
  <2>4. Of(k, more)
    BY HasFew DEF Of, Behind, Noise
  <2>5. Of(k, rx2) /\ Of(k, buf2)
    BY Zenon, <1>6, <1>7, <1>8, <2>3, <2>4 DEF Of
  <2>6. noisy' = FALSE => noisy = FALSE /\ more = <<>>
    BY Zenon, <1>3 DEF IInv1, FlagTypes
  <2>7. ASSUME noisy' = FALSE PROVE Whole(rx2, buf2, wir)
    <3>1. Whole(rx, buf, wir) /\ more = <<>>
      BY <2>3, <2>6, <2>7
    <3>2. rx2 = front
      BY <1>4, <1>7, <3>1 DEF Join
    <3>3. /\ Len(rx2) = Len(rx) + n /\ rx2 \in Seq(Pieces)
          /\ \A i \in 1..Len(rx) : rx2[i] = rx[i]
          /\ \A i \in 1..n : rx2[Len(rx) + i] = buf[i]
      BY <1>6, <1>7, <3>2
    <3>4. /\ buf2 \in Seq(Pieces) /\ Len(buf2) = Len(buf) - n
          /\ \A i \in 1..(Len(buf) - n) : buf2[i] = buf[i + n]
      BY <1>6
    <3>5. rx \in Seq(Pieces) /\ buf \in Seq(Pieces) /\ wir \in Seq(Pieces)
      BY <1>5
    <3>6. n \in 1..Len(buf)
      BY <1>5
    <3> HIDE DEF Whole
    <3> QED
      BY <3>5, <3>6, <3>1, <3>3, <3>4, ReadKeepsWhole
  <2> QED
    BY <1>3, <1>4, <1>5, <2>1, <2>3, <2>5, <2>7 DEF Answering
<1>11. Answering(reader["new"].rx) => Answering(reader["new"].rx)'
  <2>1. Answering(reader["new"].rx) => Answering(rx)
    BY <1>4 DEF Answering
  <2>2. Answering(rx2)' => Answering(reader["new"].rx)'
    BY <1>5 DEF Answering
  <2> QED
    BY <1>10, <2>1, <2>2
<1>12. Coming(reader["new"].rx) => Coming(reader["new"].rx)'
  <2>1. Coming(reader["new"].rx) => Coming(rx)
    BY <1>4 DEF Coming, Somewhere
  <2>2. Coming(rx2)' => Coming(reader["new"].rx)'
    BY <1>5 DEF Coming, Somewhere
  <2> QED
    BY <1>9, <2>1, <2>2
<1> QED
  BY <1>2, <1>3, <1>11, <1>12

\* What it makes of an answer that it has to itself.
LEMMA NewEnds ==
  ASSUME IInv1, PortInv, AnswerInv, OwnInv, Weighing, LineSilent("new")
  PROVE  /\ UNCHANGED <<object, overdue, shared, noisy, port>> /\ reader'["new"].pc = "done"
         /\ overdue = FALSE /\ shared = FALSE => Told(reader["new"].result)'
         /\ reader'["new"].result.kind # "noport"
         /\ reader'["new"].result.kind = "short" /\ shared = FALSE => failed' = TRUE
<1>0. DataTypes /\ "new" \in Readers /\ reader["new"] \in Threads
  BY DEF IInv1, DataTypes, Readers
<1>1. /\ reader["new"].pc = "poll" /\ Silent("new")
      /\ UNCHANGED <<object, overdue, shared, noisy, port>>
  BY DEF LineSilent
<1>2. failed' = (failed \/ (wire # <<>> \/ asked # <<>>))
  <2>1. Fails("new" = "new" /\ Weighing /\ (wire # <<>> \/ asked # <<>>))
    BY Zenon DEF LineSilent
  <2> QED
    BY Zenon, <2>1 DEF Fails
<1>3. PICK rx, result :
        /\ rx = reader["new"].rx /\ result \in Parsed("new", rx)
        /\ reader'["new"].pc = "done" /\ reader'["new"].result = result
  BY <1>0, SilentThread
<1>4. rx \in Seq(Pieces) /\ result \in Weight(rx)
  <2>1. rx \in Seq(Pieces)
    BY <1>0, <1>3 DEF Threads
  <2>2. Heard("new")
    BY DEF Heard
  <2> QED
    BY <1>3, <2>1, <2>2 DEF Parsed
<1>5. /\ result.kind \in {"short", "threw", "garbled", "value"}
      /\ result.kind = "value" => \E p : Has(rx, p) /\ p.part = "head" /\ p.record = result.record
      /\ result.kind = "garbled" => Len(rx) >= 2 /\ ~(Len(rx) = 2 /\ Paired(rx[1], rx[2]))
      /\ result.kind = "short" => ~Complete(rx)
  BY <1>4, WeightTypes
<1>6. ASSUME overdue = FALSE, shared = FALSE PROVE Told(result)
  <2>1. Answering(rx)
    BY <1>1, <1>3, <1>6 DEF AnswerInv
  <2>2. result.kind = "value" => result.record.of = object
    BY <1>5, <2>1, HasFew DEF Answering, Of
  <2>3. ASSUME result.kind = "garbled", noisy = FALSE PROVE FALSE
    <3>1. Len(rx) >= 2 /\ Whole(rx, buffer, wire)
      BY <1>5, <2>1, <2>3 DEF Answering
    <3>2. PICK a, b, c \in Nat : a = Len(rx) /\ b = Len(buffer) /\ c = Len(wire)
      BY <1>4 DEF IInv1, DataTypes
    <3>3. Len(rx) = 2 /\ Len(rx) + Len(buffer) + Len(wire) = 2
      <4>1. a + b + c <= 2 /\ a >= 2
        BY <3>1, <3>2 DEF Whole
      <4> QED
        BY <3>2, <4>1
    <3>4. Paired(rx[1], rx[2])
      BY <3>1, <3>3 DEF Whole, Piece
    <3> QED
      BY <1>5, <2>3, <3>3, <3>4
  <2>4. noisy = FALSE \/ noisy = TRUE
    BY Zenon DEF IInv1, FlagTypes
  <2> QED
    BY <2>2, <2>3, <2>4 DEF Told
<1>7. ASSUME result.kind = "short", shared = FALSE, failed' # TRUE PROVE FALSE
  <2>1. failed = FALSE /\ wire = <<>> /\ asked = <<>>
    <3>1. failed \in BOOLEAN
      BY DEF IInv1, FlagTypes
    <3> QED
      BY Zenon, <1>2, <1>7, <3>1
  <2>2. Coming(rx)
    BY <1>1, <1>3, <1>7, <2>1 DEF OwnInv
  <2>3. buffer = <<>>
    BY <1>1 DEF PortInv, InLine, Silent
  <2>4. PICK r \in Records : \A part \in {"head", "tail"} :
           Has(rx, [part |-> part, record |-> r])
    BY <2>1, <2>2, <2>3, HasFew DEF Coming, Somewhere
  <2>5. Complete(rx)
    BY Zenon, <2>4 DEF Complete, Has
  <2> QED
    BY <1>5, <1>7, <2>5
<1>8. overdue = FALSE /\ shared = FALSE => Told(reader["new"].result)'
  BY <1>1, <1>3, <1>6 DEF Told
<1> QED
  BY <1>1, <1>3, <1>5, <1>7, <1>8

\* The new thread's own steps, while nobody else is on its line.
LEMMA NewKeepsAnswer ==
  ASSUME IInv1, PortInv, AnswerInv, OwnInv, ReaderStep("new")
  PROVE  AnswerInv' /\ OwnInv'
<1>0. /\ DataTypes /\ "new" \in Readers /\ reader["new"] \in Threads
      /\ main' = main /\ object' = object /\ wire' = wire /\ port' = port
  BY ThreadStep DEF IInv1, DataTypes, Readers
<1> SUFFICES ASSUME Weighing
             PROVE  /\ overdue' = FALSE /\ shared' = FALSE =>
                         /\ reader'["new"].pc \in {"start", "clear", "write"} => reader'["new"].rx = <<>>
                         /\ reader'["new"].pc = "write" => asked' = <<>> /\ wire' = <<>> /\ buffer' = <<>>
                         /\ reader'["new"].pc \in {"poll", "read", "blocked"} => Answering(reader["new"].rx)'
                         /\ reader'["new"].pc = "done" => Told(reader["new"].result)'
                    /\ /\ shared' = FALSE /\ failed' = FALSE
                       /\ reader'["new"].pc \in {"poll", "read", "blocked"}
                       => Coming(reader["new"].rx)'
                    /\ reader'["new"].pc = "done" =>
                         /\ reader'["new"].result.kind = "noport" => port = FALSE
                         /\ reader'["new"].result.kind = "short" /\ shared' = FALSE => failed' = TRUE
  BY <1>0 DEF AnswerInv, OwnInv, Weighing
<1>1. CASE Lookup("new")
  <2>1. reader["new"].pc = "start" /\ overdue' = overdue
    BY <1>1 DEF Lookup
  <2>2. \/ /\ reader'["new"].pc = "clear" /\ reader'["new"].rx = reader["new"].rx
           /\ shared' = (shared \/ (Weighing /\ \E u \in Readers \ {"new"} : OnLine(u)))
        \/ /\ ~port /\ reader'["new"].pc = "done" /\ reader'["new"].result = Kind("noport")
           /\ shared' = shared
    BY Zenon, <1>0, <1>1, LookupThread
  <2>3. shared' = FALSE => shared = FALSE
    BY Zenon, <2>2 DEF IInv1, FlagTypes
  <2>4. overdue' = FALSE /\ shared' = FALSE => reader["new"].rx = <<>>
    BY <2>1, <2>3 DEF AnswerInv
  <2>5. reader'["new"].pc = "done" =>
          /\ port = FALSE /\ reader'["new"].result.kind = "noport"
          /\ Told(reader["new"].result)'
    <3>1. reader'["new"].pc = "done" => ~port /\ reader'["new"].result = Kind("noport")
      BY Zenon, <2>2
    <3>2. ~port => port = FALSE
      BY Zenon DEF IInv1, FlagTypes
    <3> QED
      BY <3>1, <3>2, PieceTypes DEF Told
  <2>6. reader'["new"].pc \in {"clear", "done"}
    BY Zenon, <2>2
  <2>7. reader'["new"].pc = "clear" => reader'["new"].rx = reader["new"].rx
    BY <2>2
  <2> QED
    BY <2>4, <2>5, <2>6, <2>7
<1>2. CASE SerialClear("new")
  <2>1. /\ reader["new"].pc = "clear" /\ buffer' = Clear("new") /\ Step("new", "write")
        /\ shared' = shared /\ asked' = asked
    BY <1>2 DEF SerialClear, balance
  <2>2. overdue' = FALSE => overdue = FALSE /\ wire = <<>> /\ asked = <<>>
    <3>1. overdue' = (overdue \/ ("new" = "new" /\ Weighing /\ (wire # <<>> \/ asked # <<>>)))
      BY Zenon, <1>2 DEF SerialClear
    <3> QED
      BY Zenon, <3>1 DEF IInv1, FlagTypes
  <2>3. buffer' = <<>>
    BY <2>1 DEF PortInv, InLine, Clear
  <2>4. overdue' = FALSE /\ shared' = FALSE => reader["new"].rx = <<>>
    BY <2>1, <2>2 DEF AnswerInv
  <2>5. reader'["new"].pc = "write" /\ reader'["new"].rx = reader["new"].rx
    BY <1>0, <2>1, MovedThread
  <2> QED
    BY <1>0, <2>1, <2>2, <2>3, <2>4, <2>5
<1>3. CASE SerialWrite("new")
  <2>1. /\ reader["new"].pc = "write" /\ Step("new", "poll")
        /\ asked' = IF reader["new"].fd THEN Append(asked, "Q") ELSE asked
        /\ UNCHANGED <<buffer, overdue, shared, noisy>>
    BY <1>3 DEF SerialWrite, line, history, Command
  <2>2. asked' = Append(asked, "Q")
    BY <2>1 DEF PortInv, InLine
  <2>3. reader'["new"].pc = "poll" /\ reader'["new"].rx = reader["new"].rx
    BY <1>0, <2>1, MovedThread
  <2>4. Has(asked', "Q")
    BY <2>2, HasAppend DEF IInv1, DataTypes
  <2>5. Coming(reader["new"].rx)'
    BY Zenon, <2>4 DEF Coming
  <2>6. ASSUME overdue' = FALSE, shared' = FALSE PROVE Answering(reader["new"].rx)'
    <3>1. reader["new"].rx = <<>> /\ asked = <<>> /\ wire = <<>> /\ buffer = <<>>
      BY <2>1, <2>6 DEF AnswerInv
    <3>2. asked' = <<"Q">>
      BY <2>2, <3>1
    <3> QED
      BY <1>0, <2>1, <2>3, <3>1, <3>2 DEF Answering
  <2> QED
    BY <2>3, <2>5, <2>6
<1>4. CASE LineSilent("new")
  <2>1. /\ UNCHANGED <<overdue, shared>> /\ reader'["new"].pc = "done"
        /\ overdue = FALSE /\ shared = FALSE => Told(reader["new"].result)'
        /\ reader'["new"].result.kind # "noport"
        /\ reader'["new"].result.kind = "short" /\ shared = FALSE => failed' = TRUE
    BY <1>4, NewEnds
  <2> QED
    BY <2>1
<1>5. CASE BytesAvailable("new") \/ ReadBlocks("new")
  <2>1. /\ reader["new"].pc \in {"poll", "read"}
        /\ Step("new", "read") \/ Step("new", "blocked")
        /\ UNCHANGED <<asked, buffer, overdue, shared, noisy, failed>>
    BY <1>5 DEF BytesAvailable, ReadBlocks, balance, line, history
  <2>2. reader'["new"].pc \in {"read", "blocked"} /\ reader'["new"].rx = reader["new"].rx
    BY <1>0, <2>1, MovedThread
  <2>3. ASSUME overdue' = FALSE, shared' = FALSE PROVE Answering(reader["new"].rx)'
    <3>1. Answering(reader["new"].rx)
      BY <2>1, <2>3 DEF AnswerInv
    <3> QED
      BY <1>0, <2>1, <2>2, <3>1 DEF Answering
  <2>4. ASSUME shared' = FALSE, failed' = FALSE PROVE Coming(reader["new"].rx)'
    <3>1. Coming(reader["new"].rx)
      BY <2>1, <2>4 DEF OwnInv
    <3> QED
      BY <1>0, <2>1, <2>2, <3>1 DEF Coming, Somewhere
  <2> QED
    BY <2>2, <2>3, <2>4
<1>6. CASE SerialRead("new") \/ ReadReturns("new")
  <2>1. /\ UNCHANGED <<overdue, shared, failed>> /\ reader'["new"].pc = "poll"
        /\ Answering(reader["new"].rx) => Answering(reader["new"].rx)'
        /\ Coming(reader["new"].rx) => Coming(reader["new"].rx)'
    BY <1>6, NewReads
  <2>2. reader["new"].pc \in {"read", "blocked"}
    BY <1>6 DEF SerialRead, ReadReturns
  <2> QED
    BY <2>1, <2>2 DEF AnswerInv, OwnInv
<1>7. CASE ReadFails("new")
  <2>1. reader["new"].pc = "read" /\ ~reader["new"].fd
    BY <1>7 DEF ReadFails
  <2> QED
    BY <2>1 DEF PortInv, InLine
<1> QED
  BY <1>1, <1>2, <1>3, <1>4, <1>5, <1>6, <1>7 DEF ReaderStep

\* A step of another thread: the line is the new one's until they share it.
LEMMA OtherFlags ==
  ASSUME IInv1, NEW t \in Readers \ {"new"}, ReaderStep(t)
  PROVE  /\ noisy' = noisy /\ overdue' = overdue /\ failed' = failed
         /\ shared' = FALSE => shared = FALSE
<1>0. DataTypes
  BY DEF IInv1
<1>1. CASE Lookup(t)
  <2>1. noisy' = noisy /\ overdue' = overdue /\ failed' = failed
    BY <1>1 DEF Lookup
  <2>2. shared' = shared \/ shared' = (shared \/ (Weighing /\ \E u \in Readers \ {t} : OnLine(u)))
    BY Zenon, <1>0, <1>1, LookupThread
  <2> QED
    BY Zenon, <2>1, <2>2 DEF IInv1, FlagTypes
<1>2. CASE SerialClear(t)
  <2>1. noisy' = noisy /\ shared' = shared /\ failed' = failed
    BY <1>2 DEF SerialClear
  <2>2. overdue' = (overdue \/ (t = "new" /\ Weighing /\ (wire # <<>> \/ asked # <<>>)))
    BY Zenon, <1>2 DEF SerialClear
  <2>3. overdue' = overdue
    BY Zenon, <2>2 DEF IInv1, FlagTypes
  <2> QED
    BY Zenon, <2>1, <2>3
<1>3. CASE LineSilent(t)
  <2>1. noisy' = noisy /\ shared' = shared /\ overdue' = overdue
    BY <1>3 DEF LineSilent
  <2>2. failed' = (failed \/ (t = "new" /\ Weighing /\ (wire # <<>> \/ asked # <<>>)))
    BY Zenon, <1>3 DEF LineSilent, Fails
  <2>3. failed' = failed
    BY Zenon, <2>2 DEF IInv1, FlagTypes
  <2> QED
    BY Zenon, <2>1, <2>3
<1>4. CASE SerialWrite(t) \/ BytesAvailable(t) \/ ReadBlocks(t) \/ ReadFails(t)
  BY <1>4 DEF SerialWrite, BytesAvailable, ReadBlocks, ReadFails, line, history
<1>5. CASE SerialRead(t) \/ ReadReturns(t)
  <2>1. \E n \in 1..Len(buffer), more \in Behind : Taken(t, n, more)
    BY Zenon, <1>5 DEF SerialRead, ReadReturns
  <2>2. overdue' = overdue /\ shared' = shared /\ failed' = failed
    BY <2>1 DEF Taken
  <2>3. noisy' = noisy
    <3>1. \E more \in Behind : noisy' = (noisy \/ (t = "new" /\ more # <<>>))
      BY Zenon, <2>1 DEF Taken
    <3> QED
      BY Zenon, <3>1 DEF IInv1, FlagTypes
  <2> QED
    BY Zenon, <2>2, <2>3
<1> QED
  BY <1>1, <1>2, <1>3, <1>4, <1>5 DEF ReaderStep

LEMMA OthersKeepAnswer ==
  ASSUME IInv1, PortInv, AnswerInv, OwnInv, NEW t \in Readers \ {"new"}, ReaderStep(t)
  PROVE  AnswerInv' /\ OwnInv'
<1>0. DataTypes /\ reader[t] \in Threads /\ "new" \in Readers /\ "old" \in Readers
  BY DEF IInv1, DataTypes, Readers
<1>1. /\ UNCHANGED <<main, object, wire, port>> /\ reader'["new"] = reader["new"]
      /\ reader[t].pc # "idle"
  <2>1. t \in Readers /\ "new" \in Readers \ {t}
    BY <1>0
  <2>2. /\ UNCHANGED <<main, object, weight, wire, port>> /\ reader[t].pc # "idle"
        /\ \A u \in Readers \ {t} : reader'[u] = reader[u]
    BY Zenon, <1>0, <2>1, ThreadStep
  <2> QED
    BY <2>1, <2>2
<1>2. CASE ~Weighing
  BY <1>1, <1>2 DEF AnswerInv, OwnInv, Weighing
<1>3. CASE Weighing
  <2>1. t = "old"
    BY <1>1, <1>3 DEF IInv1, IdleInv, Weighing, Readers
  <2>2. /\ noisy' = noisy /\ overdue' = overdue /\ failed' = failed
        /\ shared' = FALSE => shared = FALSE
    BY OtherFlags
  <2>3. ASSUME shared' = FALSE, reader["new"].pc \in {"write", "poll", "read", "blocked"}
        PROVE  asked' = asked /\ buffer' = buffer
    <3>1. ~OnLine(t)
      <4>1. InLine("new") /\ reader["new"].fd = TRUE
        BY <1>3, <2>3 DEF PortInv, InLine
      <4>2. OnLine("new")
        BY Zenon, <4>1 DEF OnLine
      <4> QED
        BY Zenon, <1>3, <2>1, <2>2, <2>3, <4>2 DEF PortInv
    <3>2. reader[t].pc # "blocked" /\ (InLine(t) => reader[t].fd = FALSE)
      <4>1. reader[t].fd \in BOOLEAN
        BY <1>0 DEF Threads
      <4>2. reader[t].pc = "blocked" => InLine(t)
        BY DEF InLine
      <4> QED
        BY Zenon, <3>1, <4>1, <4>2 DEF OnLine
    <3>3. CASE Lookup(t) \/ LineSilent(t) \/ BytesAvailable(t) \/ ReadFails(t)
      BY <3>3 DEF Lookup, LineSilent, BytesAvailable, ReadFails, balance, line
    <3>4. CASE SerialClear(t)
      <4>1. reader[t].fd = FALSE
        BY <3>2, <3>4 DEF SerialClear, InLine
      <4> QED
        BY <3>4, <4>1 DEF SerialClear, Clear, balance
    <3>5. CASE SerialWrite(t)
      <4>1. reader[t].fd = FALSE
        BY <3>2, <3>5 DEF SerialWrite, InLine
      <4> QED
        BY <3>5, <4>1 DEF SerialWrite, line
    <3>6. CASE SerialRead(t) \/ ReadBlocks(t)
      <4>1. reader[t].pc = "read" /\ reader[t].fd
        BY <3>6 DEF SerialRead, ReadBlocks
      <4>2. reader[t].fd = FALSE
        BY <3>2, <4>1 DEF InLine
      <4> QED
        BY Zenon, <4>1, <4>2
    <3>7. CASE ReadReturns(t)
      BY <3>2, <3>7 DEF ReadReturns
    <3> QED
      BY <3>3, <3>4, <3>5, <3>6, <3>7 DEF ReaderStep
  <2>4. Weighing' => Weighing
    BY <1>3
  <2>5. UNCHANGED <<object, noisy, failed, port>>
    BY <1>1, <2>2
  <2>6. overdue' = FALSE => overdue = FALSE
    BY <2>2
  <2>7. Weighing /\ shared' = FALSE /\ reader["new"].pc \in {"write", "poll", "read", "blocked"} =>
          UNCHANGED <<asked, wire, buffer>>
    BY <1>1, <2>3
  <2> QED
    BY <1>1, <2>2, <2>4, <2>5, <2>6, <2>7, AnswerFrame
<1> QED
  BY <1>2, <1>3

LEMMA MainKeepsAnswer ==
  ASSUME IInv1, AnswerInv, OwnInv, MainStep \/ Abandoned
  PROVE  AnswerInv' /\ OwnInv'
<1>0. reader \in [Readers -> Threads] /\ "new" \in Readers
  BY DEF IInv1, DataTypes, Readers
<1>1. CASE InitEnter \/ InitEnds \/ Weighed \/ Abandoned \/ BalancerEnd \/ Close
  <2>1. ~Weighing'
    BY <1>1 DEF InitEnter, InitEnds, Weighed, Abandoned, BalancerEnd, Close, Weighing
  <2> QED
    BY <2>1 DEF AnswerInv, OwnInv
<1>2. CASE DetectEnter
  <2>1. reader'["new"] = Begun("start", FALSE)
    BY <1>0, <1>2 DEF DetectEnter, Readers
  <2>2. reader'["new"].pc = "start" /\ reader'["new"].rx = <<>>
    BY <2>1, ThreadTypes
  <2> QED
    BY <2>2 DEF AnswerInv, OwnInv
<1>3. CASE Assigned
  <2>1. /\ main = "assign" /\ reader' = [reader EXCEPT !["old"] = Idle]
        /\ UNCHANGED <<object, asked, wire, buffer, overdue, shared, noisy, failed, port>>
    BY <1>3 DEF Assigned, balance, line, history
  <2>2. reader'["new"] = reader["new"] /\ Weighing
    BY <1>0, <2>1 DEF Readers, Weighing
  <2> QED
    BY <2>1, <2>2, AnswerFrame
<1> QED
  BY <1>1, <1>2, <1>3 DEF MainStep

\* What get() returned stays what it was until EXTRACT is over.
LEMMA FlagsGrow ==
  ASSUME IInv1, NEW t \in Readers, ReaderStep(t)
  PROVE  /\ overdue = TRUE => overdue' = TRUE
         /\ shared = TRUE => shared' = TRUE
         /\ noisy = TRUE => noisy' = TRUE
         /\ failed = TRUE => failed' = TRUE
<1>1. CASE Lookup(t)
  <2>1. UNCHANGED <<overdue, noisy, failed>>
    BY <1>1 DEF Lookup
  <2>2. shared' = shared \/ shared' = (shared \/ (Weighing /\ \E u \in Readers \ {t} : OnLine(u)))
    BY Zenon, <1>1, LookupThread DEF IInv1
  <2>3. shared = TRUE => shared' = TRUE
    BY Zenon, <2>2
  <2> QED
    BY <2>1, <2>3
<1>2. CASE SerialClear(t)
  <2>1. UNCHANGED <<shared, noisy, failed>>
    BY <1>2 DEF SerialClear
  <2>2. overdue = TRUE => overdue' = TRUE
    BY Zenon, <1>2 DEF SerialClear
  <2> QED
    BY <2>1, <2>2
<1>3. CASE LineSilent(t)
  <2>1. UNCHANGED <<shared, noisy, overdue>>
    BY <1>3 DEF LineSilent
  <2>2. failed = TRUE => failed' = TRUE
    BY Zenon, <1>3 DEF LineSilent, Fails
  <2> QED
    BY <2>1, <2>2
<1>4. CASE SerialWrite(t) \/ BytesAvailable(t) \/ ReadBlocks(t) \/ ReadFails(t)
  BY <1>4 DEF SerialWrite, BytesAvailable, ReadBlocks, ReadFails, line, history
<1>5. CASE SerialRead(t) \/ ReadReturns(t)
  <2>1. \E n \in 1..Len(buffer), more \in Behind : Taken(t, n, more)
    BY Zenon, <1>5 DEF SerialRead, ReadReturns
  <2>2. UNCHANGED <<overdue, shared, failed>>
    BY <2>1 DEF Taken
  <2>3. noisy = TRUE => noisy' = TRUE
    BY Zenon, <2>1 DEF Taken
  <2> QED
    BY <2>2, <2>3
<1> QED
  BY <1>1, <1>2, <1>3, <1>4, <1>5 DEF ReaderStep

LEMMA WeightKept == IInv1 /\ IInv2 /\ [Next]_vars => (WeightInv /\ FreshWeight)'
<1> SUFFICES ASSUME IInv1, IInv2, [Next]_vars PROVE (WeightInv /\ FreshWeight)'
  OBVIOUS
<1> USE DEF IInv2
<1>1. ASSUME weight' = weight, main = "extract" => main' = "extract" /\ port' = port,
             object' = object \/ weight = Nothing,
             overdue = TRUE => overdue' = TRUE, shared = TRUE => shared' = TRUE,
             noisy = TRUE => noisy' = TRUE, failed = TRUE => failed' = TRUE
      PROVE  (WeightInv /\ FreshWeight)'
  <2>1. WeightInv'
    BY <1>1 DEF WeightInv
  <2>2. FreshWeight'
    <3>1. CASE weight = Nothing
      BY <1>1, <3>1, PieceTypes DEF FreshWeight
    <3>2. CASE weight # Nothing
      <4>1. main = "extract" /\ object' = object /\ port' = port
        BY <1>1, <3>2 DEF WeightInv
      <4> QED
        BY Zenon, <1>1, <4>1 DEF FreshWeight, IInv1, FlagTypes
    <3> QED
      BY <3>1, <3>2
  <2> QED
    BY <2>1, <2>2
<1>2. ASSUME weight' = Nothing PROVE (WeightInv /\ FreshWeight)'
  BY <1>2, PieceTypes DEF WeightInv, FreshWeight
<1>3. CASE BalanceAnswers \/ PieceArrives
  <2>1. UNCHANGED <<weight, main, port, object, overdue, shared, noisy>>
    BY <1>3 DEF BalanceAnswers, PieceArrives
  <2>2. failed = TRUE => failed' = TRUE
    <3>1. failed' = failed \/ Fails(Waits)
      BY Zenon, <1>3 DEF BalanceAnswers, PieceArrives
    <3> QED
      BY Zenon, <3>1 DEF Fails
  <2> QED
    BY <1>1, <2>1, <2>2
<1>4. CASE \E t \in Readers : ReaderStep(t)
  <2>1. PICK t \in Readers : ReaderStep(t)
    BY <1>4
  <2>2. UNCHANGED <<main, object, weight, port>>
    BY <2>1, ThreadStep DEF IInv1
  <2> QED
    BY <1>1, <2>1, <2>2, FlagsGrow
<1>5. CASE InitEnter \/ InitEnds \/ DetectEnter \/ Assigned \/ Close
  <2>1. weight = Nothing /\ weight' = weight
    BY <1>5 DEF InitEnter, InitEnds, DetectEnter, Assigned, Close, history, WeightInv
  <2> QED
    BY <1>2, <2>1
<1>6. CASE Abandoned
  <2>1. weight = Nothing /\ weight' = weight
    BY <1>6 DEF Abandoned, history, WeightInv
  <2> QED
    BY <1>2, <2>1
<1>7. CASE Weighed
  <2>1. /\ weight' = reader["new"].result /\ main = "weigh" /\ main' = "extract"
        /\ reader["new"].pc = "done"
        /\ UNCHANGED <<object, overdue, shared, noisy, failed, port>>
    BY <1>7 DEF Weighed
  <2>2. Weighing
    BY <2>1 DEF Weighing
  <2>3. overdue = FALSE /\ shared = FALSE => Told(weight')
    BY <2>1, <2>2 DEF AnswerInv
  <2>4. /\ weight'.kind = "noport" => port = FALSE
        /\ weight'.kind = "short" /\ shared = FALSE => failed = TRUE
    BY <2>1, <2>2 DEF OwnInv
  <2>5. FreshWeight'
    BY Zenon, <2>1, <2>3, <2>4 DEF FreshWeight, Told, IInv1, FlagTypes
  <2>6. WeightInv'
    BY <2>1 DEF WeightInv
  <2> QED
    BY <2>5, <2>6
<1>8. CASE BalancerEnd
  BY <1>2, <1>8 DEF BalancerEnd
<1>9. CASE UNCHANGED vars
  BY <1>1, <1>9 DEF vars, history
<1> QED
  BY <1>3, <1>4, <1>5, <1>6, <1>7, <1>8, <1>9 DEF Next, MainStep

LEMMA Inv2Kept == IInv1 /\ IInv2 /\ [Next]_vars => IInv2'
<1> SUFFICES ASSUME IInv1, IInv2, [Next]_vars PROVE IInv2'
  OBVIOUS
<1> USE DEF IInv2
<1>1. PortInv'
  <2>1. CASE BalanceAnswers \/ PieceArrives \/ UNCHANGED vars
    <3>1. UNCHANGED <<main, reader, shared, port>>
      BY <2>1 DEF BalanceAnswers, PieceArrives, vars, history
    <3> QED
      BY <3>1 DEF PortInv, Weighing, OnLine, InLine
  <2>2. CASE MainStep \/ Abandoned
    BY <2>2, MainKeepsPort
  <2>3. CASE \E t \in Readers : ReaderStep(t)
    BY <2>3, ReaderKeepsPort
  <2> QED
    BY <2>1, <2>2, <2>3 DEF Next
<1>2. AnswerInv' /\ OwnInv'
  <2>1. CASE BalanceAnswers \/ PieceArrives
    BY <2>1, BalanceKeepsAnswer, ArrivalKeepsAnswer
  <2>2. CASE MainStep \/ Abandoned
    BY <2>2, MainKeepsAnswer
  <2>3. CASE \E t \in Readers : ReaderStep(t)
    BY <2>3, NewKeepsAnswer, OthersKeepAnswer
  <2>4. CASE UNCHANGED vars
    <3>1. UNCHANGED <<main, object, port, reader, asked, wire, buffer, overdue, shared, noisy, failed>>
      BY <2>4 DEF vars, balance, line, history
    <3>2. AnswerInv'
      BY <3>1 DEF AnswerInv, Weighing, Answering, Told
    <3>3. OwnInv'
      BY <3>1 DEF OwnInv, Weighing, Coming, Somewhere
    <3> QED
      BY <3>2, <3>3
  <2> QED
    BY <2>1, <2>2, <2>3, <2>4 DEF Next
<1>3. WeightInv' /\ FreshWeight'
  BY WeightKept
<1> QED
  BY <1>1, <1>2, <1>3

\* What getWeightValue's clearing, asking and joining are enough for: the record of
\* an object is its own weight, whole, or -1 without a port, or 0 when the balance's
\* answer failed, unless the histories say why it is none of these.
THEOREM FreshWeights == Spec => []FreshWeight
<1>1. IInv1 /\ IInv2 => FreshWeight
  BY DEF IInv2
<1>2. Init => IInv1 /\ IInv2
  BY InitInv1, InitInv2
<1>3. (IInv1 /\ IInv2) /\ [Next]_vars => (IInv1 /\ IInv2)'
  BY Inv1Kept, Inv2Kept
<1> QED
  BY <1>1, <1>2, <1>3, PTL DEF Spec
-------------------------------------------------------------------------------
(***************************************************************************)
(* The line's threads keep to the turns of WeighingTurns.  Between two     *)
(* objects no port is open, so that a thread that was left behind is       *)
(* astray whether it holds a descriptor or not, and before the first object*)
(* there is no thread (IdleInv).                                           *)
(***************************************************************************)

\* What the main thread sees of a thread depends on three things.
LEMMA StateFrame ==
  ASSUME NEW t \in Readers, reader'[t].pc = reader[t].pc, reader'[t].fd = reader[t].fd,
         port' = port
  PROVE  ThreadState(t)' = ThreadState(t)
  BY Zenon DEF ThreadState, InLine

LEMMA StateCases ==
  ASSUME NEW t \in Readers, DataTypes, port \in BOOLEAN
  PROVE  /\ reader[t].pc = "idle" => ThreadState(t) = "none"
         /\ reader[t].pc = "start" => ThreadState(t) = "started"
         /\ reader[t].pc = "done" => ThreadState(t) = "done"
         /\ reader[t].pc \in {"clear", "write", "poll", "read", "blocked"} =>
              /\ reader[t].fd = TRUE /\ port = TRUE => ThreadState(t) = "reading"
              /\ ~(reader[t].fd = TRUE /\ port = TRUE) => ThreadState(t) = "astray"
<1>1. /\ reader[t].pc = "idle" => ThreadState(t) = "none"
      /\ reader[t].pc = "start" => ThreadState(t) = "started"
      /\ reader[t].pc = "done" => ThreadState(t) = "done"
  BY DEF ThreadState, InLine
<1>2. ASSUME reader[t].pc \in {"clear", "write", "poll", "read", "blocked"}
      PROVE  ThreadState(t) = IF reader[t].fd /\ port THEN "reading" ELSE "astray"
  BY <1>2 DEF ThreadState, InLine
<1>3. reader[t].fd \in BOOLEAN
  BY DEF DataTypes, Threads
<1> QED
  BY Zenon, <1>1, <1>2, <1>3

\* A thread's step, as the main thread sees it.
LEMMA ThreadSeen ==
  ASSUME IInv1, IInv1', NEW t \in Readers, ReaderStep(t)
  PROVE  /\ main' = main /\ port' = port /\ reader[t].pc # "idle"
         /\ \A u \in Readers \ {t} : reader'[u] = reader[u]
         /\ \/ ThreadState(t)' = ThreadState(t)
            \/ Turns!Proceeds(ThreadState(t), ThreadState(t)')
<1>0. /\ DataTypes /\ port \in BOOLEAN /\ reader[t] \in Threads
  BY DEF IInv1, DataTypes, FlagTypes
<1>1. port' = port =>
        /\ reader'[t].pc = "done" => ThreadState(t)' = "done"
        /\ reader'[t].pc \in {"clear", "write", "poll", "read", "blocked"} =>
             /\ reader'[t].fd = TRUE /\ port = TRUE => ThreadState(t)' = "reading"
             /\ ~(reader'[t].fd = TRUE /\ port = TRUE) => ThreadState(t)' = "astray"
  <2>1. (DataTypes /\ port \in BOOLEAN)'
    BY DEF IInv1, FlagTypes
  <2>2. (DataTypes /\ port \in BOOLEAN =>
           /\ reader[t].pc = "done" => ThreadState(t) = "done"
           /\ reader[t].pc \in {"clear", "write", "poll", "read", "blocked"} =>
                /\ reader[t].fd = TRUE /\ port = TRUE => ThreadState(t) = "reading"
                /\ ~(reader[t].fd = TRUE /\ port = TRUE) => ThreadState(t) = "astray")'
    BY StateCases, PTL
  <2> QED
    BY Zenon, <2>1, <2>2
<1>2. CASE Lookup(t)
  <2>1. main' = main /\ port' = port /\ reader[t].pc = "start"
    BY <1>2 DEF Lookup
  <2>2. \/ port = TRUE /\ reader'[t].pc = "clear" /\ reader'[t].fd = TRUE
        \/ ~port /\ reader'[t].pc = "done"
    BY Zenon, <1>0, <1>2, LookupThread
  <2>3. \A u \in Readers \ {t} : reader'[u] = reader[u]
    BY <1>0, <1>2, LookupThread
  <2>4. ThreadState(t) = "started"
    BY <1>0, <2>1, StateCases
  <2>5. ThreadState(t)' = IF port THEN "reading" ELSE "done"
    BY Zenon, <1>1, <2>1, <2>2
  <2> QED
    BY <2>1, <2>3, <2>4, <2>5 DEF Turns!Proceeds
<1>3. ASSUME main' = main, port' = port, \A u \in Readers \ {t} : reader'[u] = reader[u],
             reader[t].pc \in {"clear", "write", "poll", "read", "blocked"},
             \/ reader'[t].pc = "done"
             \/ /\ reader'[t].pc \in {"clear", "write", "poll", "read", "blocked"}
                /\ reader'[t].fd = reader[t].fd
      PROVE  /\ reader[t].pc # "idle"
             /\ \/ ThreadState(t)' = ThreadState(t)
                \/ Turns!Proceeds(ThreadState(t), ThreadState(t)')
  <2>1. /\ reader[t].fd = TRUE /\ port = TRUE => ThreadState(t) = "reading"
        /\ ~(reader[t].fd = TRUE /\ port = TRUE) => ThreadState(t) = "astray"
    BY <1>0, <1>3, StateCases
  <2>2. CASE reader'[t].pc = "done"
    BY <1>1, <1>3, <2>1, <2>2 DEF Turns!Proceeds
  <2>3. CASE reader'[t].pc # "done"
    BY <1>1, <1>3, <2>1, <2>3
  <2> QED
    BY <1>3, <2>2, <2>3
<1>4. CASE SerialClear(t) \/ SerialWrite(t) \/ BytesAvailable(t) \/ ReadBlocks(t)
  <2>1. /\ main' = main /\ port' = port /\ reader[t].pc \in {"clear", "write", "poll", "read"}
        /\ \E pc \in {"write", "poll", "read", "blocked"} : Step(t, pc)
    BY <1>4 DEF SerialClear, SerialWrite, BytesAvailable, ReadBlocks
  <2>2. /\ reader'[t].pc \in {"write", "poll", "read", "blocked"}
        /\ reader'[t].fd = reader[t].fd /\ \A u \in Readers \ {t} : reader'[u] = reader[u]
    BY <1>0, <2>1, MovedThread
  <2> QED
    BY <1>3, <2>1, <2>2
<1>5. CASE LineSilent(t)
  <2>1. main' = main /\ port' = port /\ reader[t].pc = "poll"
    BY <1>5 DEF LineSilent
  <2>2. reader'[t].pc = "done" /\ \A u \in Readers \ {t} : reader'[u] = reader[u]
    BY <1>0, <1>5, SilentThread
  <2> QED
    BY <1>3, <2>1, <2>2
<1>6. CASE SerialRead(t) \/ ReadReturns(t)
  <2>1. \E n \in 1..Len(buffer), more \in Behind : Taken(t, n, more)
    BY Zenon, <1>6 DEF SerialRead, ReadReturns
  <2>2. main' = main /\ port' = port /\ reader[t].pc \in {"read", "blocked"}
    BY <1>6, <2>1 DEF Taken, SerialRead, ReadReturns
  <2>3. /\ reader'[t].pc = "poll" /\ reader'[t].fd = reader[t].fd
        /\ \A u \in Readers \ {t} : reader'[u] = reader[u]
    BY Zenon, <1>0, <1>6, ReadThread
  <2> QED
    BY <1>3, <2>2, <2>3
<1>7. CASE ReadFails(t)
  <2>1. main' = main /\ port' = port /\ reader[t].pc = "read" /\ reader' = reader
    BY <1>7 DEF ReadFails
  <2> QED
    BY <2>1, StateFrame
<1> QED
  BY <1>2, <1>3, <1>4, <1>5, <1>6, <1>7 DEF ReaderStep

LEMMA TurnsInit == Init => Turns!Init
  BY ThreadTypes DEF Init, Turns!Init, Turn, ThreadState, InLine, Readers

LEMMA TurnsStep == IInv1 /\ IInv1' /\ [Next]_vars => [Turns!Next]_(Turns!vars)
<1> SUFFICES ASSUME IInv1, IInv1', [Next]_vars PROVE Turns!Next \/ UNCHANGED Turns!vars
    OBVIOUS
<1> DEFINE new == ThreadState("new")
           old == ThreadState("old")
<1>0. /\ DataTypes /\ reader \in [Readers -> Threads] /\ port \in BOOLEAN
      /\ "new" \in Readers /\ "old" \in Readers
  BY DEF IInv1, DataTypes, FlagTypes, Readers
<1>1. CASE UNCHANGED <<main, port, reader>>
  BY Zenon, <1>1 DEF Turns!vars, Turn, ThreadState, InLine
<1>2. ASSUME reader'["new"] = reader["new"], reader'["old"] = reader["old"],
             main \in {"init", "zeroing"}
      PROVE  UNCHANGED <<new, old>>
  <2>1. reader["new"].pc = "idle" /\ reader["old"].pc = "idle"
    BY <1>2 DEF IInv1, IdleInv
  <2> QED
    BY <1>2, <2>1 DEF ThreadState
<1>3. CASE InitEnter
  <2>1. /\ main = "init" /\ main' = "zeroing" /\ port' = TRUE
        /\ reader'["new"] = reader["new"] /\ reader'["old"] = reader["old"]
    BY <1>0, <1>3 DEF InitEnter, Readers
  <2> QED
    BY <1>2, <2>1 DEF Turn, Turns!Next, Turns!Boot
<1>4. CASE InitEnds
  <2>1. /\ main = "zeroing" /\ \/ main' = "init" /\ port' = port
                               \/ main' = "belt" /\ port' = FALSE
        /\ reader'["new"] = reader["new"] /\ reader'["old"] = reader["old"]
    BY <1>0, <1>4 DEF InitEnds, Readers
  <2> QED
    BY <1>2, <2>1 DEF Turn, Turns!Next, Turns!Booted, Turns!vars
<1>5. CASE DetectEnter
  <2>1. PICK fd \in {FALSE, port' /\ InLine("new")} :
          reader' = [reader EXCEPT !["new"] = Begun("start", FALSE),
                                   !["old"] = [reader["new"] EXCEPT !.fd = fd]]
    BY <1>5 DEF DetectEnter
  <2>2. main = "belt" /\ main' = "assign" /\ port' \in BOOLEAN /\ port = FALSE
    BY <1>5 DEF DetectEnter, IInv1, IdleInv
  <2>3. reader'["new"].pc = "start"
    BY <1>0, <2>1, ThreadTypes DEF Readers
  <2>4. reader'["old"].pc = reader["new"].pc /\ reader'["old"].fd = fd
    BY <1>0, <2>1 DEF Readers, Threads
  <2>5. new' = "started"
    BY <2>3 DEF ThreadState, InLine
  <2>6. old' \in {new} \cup IF new = "astray" /\ port' THEN {"reading"} ELSE {}
    <3>1. CASE InLine("new")
      <4>1. new = "astray"
        BY <1>0, <2>2, <3>1, StateCases DEF InLine
      <4>2. old' = IF reader'["old"].fd /\ port' THEN "reading" ELSE "astray"
        BY <2>4, <3>1 DEF ThreadState, InLine
      <4>3. old' = "astray" \/ (old' = "reading" /\ port')
        BY Zenon, <4>2
      <4> QED
        BY <4>1, <4>3
    <3>2. CASE ~InLine("new")
      <4>1. reader["new"].pc \in {"idle", "start", "done"}
        BY <1>0, <3>2 DEF InLine, Threads
      <4> QED
        BY <2>4, <4>1 DEF ThreadState, InLine
    <3> QED
      BY <3>1, <3>2
  <2> QED
    BY <2>2, <2>5, <2>6 DEF Turn, Turns!Next, Turns!Stopped
<1>6. CASE Assigned
  <2>1. /\ main = "assign" /\ main' = "weigh" /\ port' = port
        /\ reader["old"].pc \in {"idle", "done"} /\ reader'["old"] = Idle
        /\ reader'["new"] = reader["new"]
    BY <1>0, <1>6 DEF Assigned, Joinable, Readers, line
  <2>2. old \in {"none", "done"} /\ old' = "none"
    BY <2>1, ThreadTypes DEF ThreadState, InLine
  <2>3. new' = new
    BY <1>0, <2>1, StateFrame
  <2> QED
    BY <2>1, <2>2, <2>3 DEF Turn, Turns!Next, Turns!Replaced
<1>7. CASE Weighed
  <2>1. /\ main = "weigh" /\ main' = "extract" /\ port' = port
        /\ reader["new"].pc = "done" /\ reader'["new"] = Idle
        /\ reader'["old"] = reader["old"]
    BY <1>0, <1>7 DEF Weighed, Readers
  <2>2. new = "done" /\ new' = "none"
    BY <2>1, ThreadTypes DEF ThreadState, InLine
  <2>3. old' = old
    BY <1>0, <2>1, StateFrame
  <2> QED
    BY <2>1, <2>2, <2>3 DEF Turn, Turns!Next, Turns!Weighed
<1>8. CASE Abandoned
  <2>1. /\ main = "weigh" /\ main' = "extract" /\ port' = port
        /\ reader' = [reader EXCEPT !["new"].rx = <<>>, !["new"].result = Nothing]
    BY <1>8 DEF Abandoned
  <2>2. /\ reader'["new"].pc = reader["new"].pc /\ reader'["new"].fd = reader["new"].fd
        /\ reader'["old"] = reader["old"]
    BY <1>0, <2>1 DEF Threads, Readers
  <2>3. new' = new /\ old' = old
    BY <1>0, <2>1, <2>2, StateFrame
  <2> QED
    BY <2>1, <2>3 DEF Turn, Turns!Next, Turns!GivenUp
<1>9. CASE BalancerEnd
  <2>1. /\ main = "extract" /\ main' \in {"belt", "closing"} /\ port' = FALSE
        /\ reader' = reader
    BY <1>9 DEF BalancerEnd
  <2>2. old = "none" /\ old' = "none"
    BY <2>1 DEF ThreadState, InLine, IInv1, IdleInv
  <2>3. reader["new"].pc \in {"idle", "start", "done"} \/ InLine("new")
    BY <1>0 DEF InLine, Threads
  <2>4. InLine("new") => new \in {"reading", "astray"} /\ new' = "astray"
    BY <1>0, <2>1, StateCases DEF InLine, ThreadState
  <2>5. new' = IF new = "reading" THEN "astray" ELSE new
    BY <2>1, <2>3, <2>4 DEF ThreadState, InLine
  <2> QED
    BY <2>1, <2>2, <2>5 DEF Turn, Turns!Next, Turns!Closed
<1>10. CASE Close
  <2>1. /\ main = "closing" /\ main' = "belt" /\ port' = port /\ port = FALSE
        /\ reader' = [reader EXCEPT !["new"].fd = FALSE]
    BY <1>10 DEF Close, IInv1, IdleInv
  <2>2. reader'["new"].pc = reader["new"].pc /\ reader'["old"] = reader["old"]
    BY <1>0, <2>1 DEF Threads, Readers
  <2>3. new' = new /\ old' = old
    BY <2>1, <2>2 DEF ThreadState, InLine
  <2> QED
    BY <2>1, <2>3 DEF Turn, Turns!vars
<1>11. CASE \E t \in Readers : ReaderStep(t)
  <2> PICK t \in Readers : ReaderStep(t)
    BY <1>11
  <2>1. /\ main' = main /\ port' = port /\ reader[t].pc # "idle"
        /\ \A u \in Readers \ {t} : reader'[u] = reader[u]
        /\ \/ ThreadState(t)' = ThreadState(t)
           \/ Turns!Proceeds(ThreadState(t), ThreadState(t)')
    BY ThreadSeen
  <2>2. \A u \in Readers \ {t} : ThreadState(u)' = ThreadState(u)
    BY <2>1, StateFrame
  <2>3. Turn' = Turn
    BY <2>1 DEF Turn
  <2>4. CASE t = "new"
    BY <2>1, <2>2, <2>3, <2>4 DEF Readers, Turns!Next, Turns!ThreadStep, Turns!vars
  <2>5. CASE t = "old"
    BY <2>1, <2>2, <2>3, <2>5 DEF Readers, Turns!Next, Turns!ThreadStep, Turns!vars
  <2>6. CASE t = "init"
    BY <2>1, <2>2, <2>3, <2>6 DEF Readers, Turns!vars
  <2> QED
    BY <2>4, <2>5, <2>6 DEF Readers
<1>12. CASE BalanceAnswers \/ PieceArrives \/ UNCHANGED vars
  BY <1>1, <1>12 DEF BalanceAnswers, PieceArrives, vars
<1> QED
  BY <1>3, <1>4, <1>5, <1>6, <1>7, <1>8, <1>9, <1>10, <1>11, <1>12 DEF Next, MainStep

\* A thread that asks and reads piece by piece (Balancer.cpp's getWeightValue and
\* readWithTimeout), even one whose read() blocks, does what KioskFSM's threads do in
\* one step.
THEOREM WeighingImplemented == Spec => WeighingSpec
  BY InitInv1, Inv1Kept, TurnsInit, TurnsStep, PTL DEF Spec, WeighingSpec, Turns!Spec

\* The port belongs to the object on the balance: nobody reads it beside its thread
\* while that object is measured (DetectEvent.cpp, Balancer.cpp).
THEOREM PortIsOwned == Spec => []Turns!PortOwned
  BY WeighingImplemented, Turns!OwnerReads, PTL DEF WeighingSpec
===============================================================================
