--------------------------- MODULE DepthImageProofs ---------------------------
(***************************************************************************)
(* For every region of interest, every number of frames and whatever they  *)
(* show: the average of the depth frames, the dark outline it leads to,    *)
(* the extent that is measured and the types of DepthImage.                *)
(***************************************************************************)
EXTENDS DepthImage, FiniteSetTheorems, TLAPS

\* Euclid's division, as calcDepthFrameAvg's uint16_t cast is given it.
LEMMA Division ==
  ASSUME NEW a \in Nat, NEW k \in Nat \ {0}
  PROVE  a \div k \in Nat /\ k * (a \div k) <= a /\ a < k * (a \div k) + k
BY SMT

LEMMA QuotientBounded ==
  ASSUME NEW a \in Nat, NEW k \in Nat \ {0}, NEW b \in Nat, a <= k * b
  PROVE  a \div k <= b
BY SMT

LEMMA QuotientPositive ==
  ASSUME NEW a \in Nat, NEW k \in Nat \ {0}, k <= a
  PROVE  a \div k > 0
BY SMT

LEMMA ProductMonotone ==
  ASSUME NEW x \in Nat, NEW b \in Nat, NEW m \in Nat, x <= b
  PROVE  x * m <= b * m
<1>1. (b - x) * m >= 0
  BY SMT
<1> QED
  BY <1>1

\* A frame's depth is weighed with the average before it: the quotient fits in 16
\* bits, so the cast changes nothing, and only a dark frame makes it zero.
LEMMA AverageOfLit ==
  ASSUME NEW prev \in UInt16, NEW new \in UInt16, NEW cnt \in Nat \ {0},
         new # 0, new >= cnt
  PROVE  /\ Averaged(prev, new, cnt) = (prev * (cnt - 1) + new) \div cnt
         /\ Averaged(prev, new, cnt) \in UInt16 \ {0}
<1> DEFINE a == prev * (cnt - 1) + new
<1>1. cnt - 1 \in Nat /\ prev \in Nat /\ new \in Nat /\ UINT16_MAX \in Nat
  BY WidthAssumption DEF UInt16, WidthAssumption
<1>2. prev * (cnt - 1) \in Nat
  BY <1>1
<1>3. a \in Nat /\ cnt <= a
  BY <1>1, <1>2
<1>4. prev * (cnt - 1) <= UINT16_MAX * (cnt - 1)
  BY <1>1, ProductMonotone DEF UInt16
<1>5. a <= cnt * UINT16_MAX
  <2>1. new <= UINT16_MAX /\ UINT16_MAX * (cnt - 1) = cnt * UINT16_MAX - UINT16_MAX
    BY <1>1 DEF UInt16
  <2> QED
    BY <1>1, <1>2, <1>4, <2>1
<1> HIDE DEF a
<1>6. a \div cnt \in Nat /\ a \div cnt <= UINT16_MAX /\ a \div cnt > 0
  BY <1>1, <1>3, <1>5, Division, QuotientBounded, QuotientPositive
<1>7. (a \div cnt) % (UINT16_MAX + 1) = a \div cnt
  BY <1>1, <1>6
<1>8. Averaged(prev, new, cnt) = (a \div cnt) % (UINT16_MAX + 1)
  BY DEF Averaged, a
<1>9. a \div cnt \in UInt16 \ {0}
  BY <1>1, <1>6 DEF UInt16
<1> QED
  BY <1>7, <1>8, <1>9 DEF a

\* A frame more lowers the average by less than one unit per frame.
LEMMA AverageNearMean ==
  ASSUME NEW prev \in UInt16, NEW new \in UInt16, NEW n \in Nat, NEW s \in Nat,
         new # 0, new >= n + 1,
         n * prev <= s,
         2 * s <= 2 * n * prev + n * (n - 1)
  PROVE  LET avg == Averaged(prev, new, n + 1) IN
         /\ (n + 1) * avg <= s + new
         /\ 2 * (s + new) <= 2 * (n + 1) * avg + (n + 1) * n
<1> DEFINE a == prev * n + new
           q == a \div (n + 1)
           d == n * prev
           e == n * (n - 1)
           f == (n + 1) * n
           g == (n + 1) * q
<1>1. prev \in Nat /\ new \in Nat /\ n + 1 \in Nat \ {0}
  BY WidthAssumption DEF UInt16, WidthAssumption
<1>2. d \in Nat /\ a = d + new /\ a \in Nat
  BY <1>1
<1>3. q \in Nat /\ g <= a /\ a < g + (n + 1)
  BY <1>1, <1>2, Division
<1>4. Averaged(prev, new, n + 1) = q
  <2>1. n + 1 - 1 = n
    OBVIOUS
  <2> QED
    BY <1>1, <2>1, AverageOfLit
<1>5. 2 * n * prev = 2 * d /\ f = e + 2 * n /\ 2 * (n + 1) * q = 2 * g
  BY <1>1, <1>3
<1>6. e \in Int /\ f \in Int /\ g \in Nat
  BY <1>1, <1>3
<1>7. d <= s /\ 2 * s <= 2 * d + e
  BY <1>5
<1> HIDE DEF a, q, d, e, f, g
<1>8. g <= s + new
  BY <1>1, <1>2, <1>3, <1>6, <1>7
<1>9. 2 * (s + new) <= 2 * g + f
  BY <1>1, <1>2, <1>3, <1>5, <1>6, <1>7
<1> QED
  BY <1>4, <1>5, <1>8, <1>9 DEF f, g

-------------------------------------------------------------------------------
(* The inductive invariant. *)

\* What getDetectArea has found among the pixels it has read.
OutlineSoFar ==
  /\ area[1] = EndIter <=> lastDark \subseteq unread
  /\ area[1] = EndIter <=> area[2] = EndIter
  /\ area \in ((lastDark \ unread) \cup {EndIter}) \X ((lastDark \ unread) \cup {EndIter})
  /\ \A box \in Pixels \X Pixels : Spans(box, lastDark) =>
       /\ box[1] \notin unread => area[1] = box[1]
       /\ box[2] \notin unread => area[2] = box[2]

Progress ==
  /\ phase = "average" => unread = Pixels /\ area = <<EndIter, EndIter>>
  /\ phase = "outline" => callCnt > 0
  /\ phase = "object" => unread = {}
  /\ phase \in {"outline", "object"} => OutlineSoFar

IInv == TypeOK /\ AverageBounded /\ DarkIfLastDark /\ Progress

LEMMA PixelTypes ==
  ASSUME NEW p \in Pixels
  PROVE  p[1] \in Nat \ {0} /\ p[2] \in Nat \ {0} /\ p = <<p[1], p[2]>> /\ p # EndIter
<1>1. PICK x \in Columns, y \in Rows : p = <<x, y>>
  BY DEF Pixels
<1>2. x \in Nat \ {0} /\ y \in Nat \ {0}
  BY RegionAssumption DEF RegionAssumption
<1> QED
  BY <1>1, <1>2 DEF EndIter

\* The corner of a box that is nearest to the axes has the least product.
LEMMA CornerOrder ==
  ASSUME NEW p \in Pixels, NEW q \in Pixels, p[1] <= q[1], p[2] <= q[2]
  PROVE  /\ CoordOper(p) \in Nat /\ CoordOper(q) \in Nat
         /\ CoordOper(p) <= CoordOper(q)
         /\ p # q => CoordOper(p) < CoordOper(q)
<1> DEFINE a == p[1]  b == p[2]  c == q[1]  d == q[2]
<1>1. /\ a \in Nat \ {0} /\ b \in Nat \ {0} /\ c \in Nat \ {0} /\ d \in Nat \ {0}
      /\ a <= c /\ b <= d
      /\ p # q => a < c \/ b < d
  BY PixelTypes
<1> HIDE DEF a, b, c, d
<1>2. a * b \in Nat /\ c * d \in Nat /\ c * b \in Nat
  BY <1>1
<1>3. c * b = a * b + (c - a) * b /\ c * d = c * b + c * (d - b)
  BY <1>1
<1>4. (c - a) * b >= 0 /\ (a < c => (c - a) * b > 0)
  BY <1>1
<1>5. c * (d - b) >= 0 /\ (b < d => c * (d - b) > 0)
  BY <1>1
<1>6. (c - a) * b \in Int /\ c * (d - b) \in Int
  BY <1>1
<1>7. a * b <= c * d /\ (a < c \/ b < d => a * b < c * d)
  BY <1>2, <1>3, <1>4, <1>5, <1>6
<1> QED
  BY <1>1, <1>2, <1>7 DEF CoordOper, a, b, c, d

LEMMA ImageTypes ==
  ASSUME NEW n \in 1..Len(Images), NEW image \in Images[n]
  PROVE  /\ image \in [Pixels -> UInt16]
         /\ \A p \in Pixels : image[p] \in UInt16 /\ (image[p] = 0 \/ image[p] >= Len(Images))
         /\ \A p \in Pixels : image[p] \in Nat
BY ImageAssumption, WidthAssumption DEF ImageAssumption, WidthAssumption, UInt16

LEMMA FrameCount == Len(Images) \in Nat
BY ImageAssumption DEF ImageAssumption

LEMMA InitInv == Init => IInv
<1> SUFFICES ASSUME Init PROVE IInv
  OBVIOUS
<1>1. Blank \in [Pixels -> UInt16] /\ Blank \in [Pixels -> Nat]
  BY WidthAssumption DEF Blank, UInt16, WidthAssumption
<1>2. TypeOK
  BY <1>1, FrameCount DEF Init, TypeOK, PixelPlus, Axes
<1>3. AverageBounded
  BY DEF Init, AverageBounded, Blank
<1> QED
  BY <1>2, <1>3 DEF Init, IInv, DarkIfLastDark, Progress

\* A frame that is averaged, pixel by pixel.
LEMMA FrameAveraged ==
  ASSUME IInv, phase = "average", callCnt < Len(Images),
         NEW image \in Images[callCnt + 1],
         NEW p \in Pixels,
         NEW avg, avg = IF callCnt = 0 THEN image[p]
                        ELSE Averaged(depthList[p], image[p], callCnt + 1)
  PROVE  /\ avg \in UInt16
         /\ avg = 0 <=> image[p] = 0
         /\ p \in alwaysLit /\ image[p] # 0 =>
              /\ (callCnt + 1) * avg <= sum[p] + image[p]
              /\ 2 * (sum[p] + image[p])
                   <= 2 * (callCnt + 1) * avg + (callCnt + 1) * callCnt
<1>1. callCnt \in Nat /\ callCnt + 1 \in 1..Len(Images) /\ callCnt + 1 \in Nat \ {0}
  BY FrameCount DEF IInv, TypeOK
<1>2. /\ image[p] \in UInt16 /\ image[p] \in Nat
      /\ image[p] = 0 \/ image[p] >= callCnt + 1
  BY <1>1, ImageTypes, FrameCount
<1>3. depthList[p] \in UInt16 /\ sum[p] \in Nat /\ depthList[p] \in Nat
  BY WidthAssumption DEF IInv, TypeOK, UInt16, WidthAssumption
<1>4. 0 \in UInt16
  BY WidthAssumption DEF UInt16, WidthAssumption
<1>5. p \in alwaysLit => /\ callCnt * depthList[p] <= sum[p]
                         /\ 2 * sum[p] <= 2 * callCnt * depthList[p] + callCnt * (callCnt - 1)
  BY DEF IInv, AverageBounded
<1>6. CASE callCnt = 0
  <2>1. avg = image[p]
    BY <1>6
  <2>2. p \in alwaysLit => 2 * sum[p] <= 0
    BY <1>3, <1>5, <1>6
  <2>3. p \in alwaysLit => sum[p] = 0
    BY <1>3, <2>2
  <2> QED
    BY <1>2, <1>6, <2>1, <2>3
<1>7. CASE callCnt # 0
  <2>1. avg = Averaged(depthList[p], image[p], callCnt + 1)
    BY <1>7
  <2>2. CASE image[p] = 0
    BY <1>4, <2>1, <2>2 DEF Averaged
  <2>3. CASE image[p] # 0
    <3>a. image[p] >= callCnt + 1
      BY <1>2, <2>3
    <3>b. Averaged(depthList[p], image[p], callCnt + 1) \in UInt16 \ {0}
      BY <1>1, <1>2, <1>3, <2>3, <3>a, AverageOfLit
    <3>1. avg \in UInt16 \ {0}
      BY Zenon, <2>1, <3>b
    <3>2. p \in alwaysLit =>
            /\ (callCnt + 1) * avg <= sum[p] + image[p]
            /\ 2 * (sum[p] + image[p])
                 <= 2 * (callCnt + 1) * avg + (callCnt + 1) * callCnt
      BY <1>1, <1>2, <1>3, <1>5, <2>1, <2>3, AverageNearMean
    <3> QED
      BY <2>3, <3>1, <3>2
  <2> QED
    BY <2>2, <2>3
<1> QED
  BY <1>6, <1>7

LEMMA AddFrameInv == IInv /\ AddFrame => IInv'
<1> SUFFICES ASSUME IInv, AddFrame PROVE IInv'
  OBVIOUS
<1> USE DEF averaging, outline, measuring
<1>1. PICK image \in Images[callCnt + 1] :
        /\ depthList' = IF callCnt = 0 THEN image
                        ELSE [p \in Pixels |-> Averaged(depthList[p], image[p], callCnt')]
        /\ lastDark' = Dark(image)
        /\ alwaysLit' = alwaysLit \ Dark(image)
        /\ sum' = [p \in Pixels |-> sum[p] + image[p]]
  BY DEF AddFrame
<1>2. /\ phase = "average" /\ callCnt < Len(Images) /\ callCnt' = callCnt + 1
      /\ UNCHANGED <<phase, unread, area, object, inRange, direction, left, tmpRow,
                     counter, distance>>
  BY DEF AddFrame
<1>3. callCnt \in Nat /\ callCnt' \in 1..Len(Images) /\ callCnt' - 1 = callCnt
  BY <1>2, FrameCount DEF IInv, TypeOK
<1>4. image \in [Pixels -> UInt16] /\ \A p \in Pixels : image[p] \in Nat
  BY <1>2, <1>3, ImageTypes
<1>5. depthList' = [p \in Pixels |-> IF callCnt = 0 THEN image[p]
                                     ELSE Averaged(depthList[p], image[p], callCnt + 1)]
  BY <1>1, <1>2, <1>4
<1>6. \A p \in Pixels :
        /\ depthList'[p] \in UInt16
        /\ depthList'[p] = 0 <=> image[p] = 0
        /\ p \in alwaysLit /\ image[p] # 0 =>
             /\ (callCnt + 1) * depthList'[p] <= sum[p] + image[p]
             /\ 2 * (sum[p] + image[p])
                  <= 2 * (callCnt + 1) * depthList'[p] + (callCnt + 1) * callCnt
  <2> TAKE p \in Pixels
  <2>1. depthList'[p] = IF callCnt = 0 THEN image[p]
                        ELSE Averaged(depthList[p], image[p], callCnt + 1)
    BY <1>5
  <2> QED
    BY <1>2, <2>1, FrameAveraged
<1>7. TypeOK'
  <2>1. depthList' \in [Pixels -> UInt16]
    BY <1>5, <1>6
  <2>2. sum' \in [Pixels -> Nat]
    BY <1>1, <1>4 DEF IInv, TypeOK
  <2>3. callCnt' \in 0..Len(Images) /\ lastDark' \subseteq Pixels /\ alwaysLit' \subseteq Pixels
    BY <1>1, <1>3, FrameCount DEF IInv, TypeOK, Dark
  <2> QED
    BY <1>2, <2>1, <2>2, <2>3 DEF IInv, TypeOK
<1>8. AverageBounded'
  <2>1. \A p \in alwaysLit' : p \in Pixels /\ p \in alwaysLit /\ image[p] # 0
    BY <1>1 DEF IInv, TypeOK, Dark
  <2>2. \A p \in alwaysLit' : sum'[p] = sum[p] + image[p]
    BY <1>1, <2>1
  <2> QED
    BY <1>2, <1>3, <1>6, <2>1, <2>2 DEF AverageBounded
<1>9. DarkIfLastDark'
  BY <1>1, <1>6 DEF DarkIfLastDark, Dark
<1>10. Progress'
  BY <1>2 DEF IInv, Progress
<1> QED
  BY <1>7, <1>8, <1>9, <1>10 DEF IInv

LEMMA DrainedInv == IInv /\ Drained => IInv'
<1> SUFFICES ASSUME IInv, Drained PROVE IInv'
  OBVIOUS
<1> USE DEF averaging, outline, measuring
<1>1. TypeOK'
  BY DEF IInv, TypeOK, Drained
<1>2. DarkIfLastDark' /\ AverageBounded'
  BY DEF IInv, AverageBounded, DarkIfLastDark, Drained, Dark
<1>3. OutlineSoFar'
  BY DEF IInv, TypeOK, Progress, Drained, OutlineSoFar
<1>4. phase' = "outline" => callCnt' > 0
  BY FrameCount DEF IInv, TypeOK, Drained
<1>5. Progress'
  BY <1>3, <1>4 DEF IInv, Progress, Drained
<1> QED
  BY <1>1, <1>2, <1>5 DEF IInv

LEMMA ScanInv == IInv /\ Scan => IInv'
<1> SUFFICES ASSUME IInv, Scan PROVE IInv'
  OBVIOUS
<1> USE DEF averaging, outline, measuring
<1>1. PICK it \in unread :
        /\ unread' = unread \ {it}
        /\ area' = IF depthList[it] # 0 THEN area
                   ELSE IF area[1] = EndIter THEN <<it, it>>
                   ELSE <<IF CoordOper(area[1]) > CoordOper(it) THEN it ELSE area[1],
                          IF CoordOper(area[2]) < CoordOper(it) THEN it ELSE area[2]>>
  BY DEF Scan
<1>2. /\ phase = "outline"
      /\ UNCHANGED <<phase, averaging, object, inRange, measuring>>
  BY DEF Scan
<1>3. it \in Pixels /\ it # EndIter /\ (depthList[it] = 0 <=> it \in lastDark)
  BY <1>1, <1>2, PixelTypes DEF IInv, TypeOK, Progress, DarkIfLastDark, Dark
<1>4. OutlineSoFar /\ lastDark \subseteq Pixels
  BY <1>2 DEF IInv, Progress, TypeOK
<1> DEFINE Found(i) == area[i] # EndIter => area[i] \in lastDark \ unread
<1>5. area = <<area[1], area[2]>> /\ Found(1) /\ Found(2) /\ (area[1] = EndIter <=> area[2] = EndIter)
  BY <1>4 DEF OutlineSoFar
<1>6. \A box \in Pixels \X Pixels, p \in Pixels : Spans(box, lastDark) /\ p \in lastDark =>
        /\ CoordOper(box[1]) \in Nat /\ CoordOper(p) \in Nat /\ CoordOper(box[2]) \in Nat
        /\ CoordOper(box[1]) <= CoordOper(p) /\ CoordOper(p) <= CoordOper(box[2])
        /\ p # box[1] => CoordOper(box[1]) < CoordOper(p)
        /\ p # box[2] => CoordOper(p) < CoordOper(box[2])
  <2> SUFFICES ASSUME NEW box \in Pixels \X Pixels, NEW p \in Pixels,
                      Spans(box, lastDark), p \in lastDark
               PROVE  /\ CoordOper(box[1]) \in Nat /\ CoordOper(p) \in Nat
                      /\ CoordOper(box[2]) \in Nat
                      /\ CoordOper(box[1]) <= CoordOper(p) /\ CoordOper(p) <= CoordOper(box[2])
                      /\ p # box[1] => CoordOper(box[1]) < CoordOper(p)
                      /\ p # box[2] => CoordOper(p) < CoordOper(box[2])
    OBVIOUS
  <2>1. box[1] \in Pixels /\ box[2] \in Pixels
    OBVIOUS
  <2>2. /\ box[1][1] <= p[1] /\ box[1][2] <= p[2]
        /\ p[1] <= box[2][1] /\ p[2] <= box[2][2]
    <3>1. Within(p, box[1], box[2])
      BY DEF Spans
    <3> QED
      BY <2>1, <3>1, PixelTypes DEF Within
  <2> QED
    BY <2>1, <2>2, CornerOrder
<1>7. OutlineSoFar'
  <2>1. CASE depthList[it] # 0
    <3>1. area' = area /\ it \notin lastDark
      BY <1>1, <1>3, <2>1
    <3>2. \A box \in Pixels \X Pixels : Spans(box, lastDark) => box[1] # it /\ box[2] # it
      BY <3>1 DEF Spans
    <3>3. lastDark \ unread = lastDark \ unread' /\ (lastDark \subseteq unread <=> lastDark \subseteq unread')
      BY <1>1, <3>1
    <3> QED
      BY <1>1, <1>2, <1>4, <3>1, <3>2, <3>3 DEF OutlineSoFar
  <2>2. CASE depthList[it] = 0 /\ area[1] = EndIter
    <3>1. area' = <<it, it>> /\ it \in lastDark /\ lastDark \subseteq unread
      BY <1>1, <1>3, <1>4, <2>2 DEF OutlineSoFar
    <3>2. \A box \in Pixels \X Pixels : Spans(box, lastDark) =>
            /\ box[1] \notin unread' => it = box[1]
            /\ box[2] \notin unread' => it = box[2]
      BY <1>1, <3>1 DEF Spans
    <3> QED
      BY <1>1, <1>2, <1>3, <3>1, <3>2 DEF OutlineSoFar
  <2>3. CASE depthList[it] = 0 /\ area[1] # EndIter
    <3>1. /\ area' = <<IF CoordOper(area[1]) > CoordOper(it) THEN it ELSE area[1],
                       IF CoordOper(area[2]) < CoordOper(it) THEN it ELSE area[2]>>
          /\ it \in lastDark
      BY <1>1, <1>3, <2>3
    <3>2. /\ area[1] \in lastDark \ unread /\ area[2] \in lastDark \ unread
          /\ area[1] # it /\ area[2] # it /\ area[2] # EndIter
          /\ area[1] \in Pixels /\ area[2] \in Pixels
      BY <1>1, <1>4, <1>5, <2>3
    <3>3. /\ area'[1] \in lastDark \ unread' /\ area'[2] \in lastDark \ unread'
          /\ area'[1] # EndIter /\ area'[2] # EndIter
          /\ area' = <<area'[1], area'[2]>>
      BY <1>1, <1>3, <2>3, <3>1, <3>2
    <3>4. ASSUME NEW box \in Pixels \X Pixels, Spans(box, lastDark)
          PROVE  /\ box[1] \notin unread' => area'[1] = box[1]
                 /\ box[2] \notin unread' => area'[2] = box[2]
      <4>1. box[1] \in Pixels /\ box[2] \in Pixels
        OBVIOUS
      <4>2. ASSUME box[1] # it, box[1] \notin unread'
            PROVE  area'[1] = box[1]
        <5>1. area[1] = box[1]
          BY <1>1, <1>4, <3>4, <4>2 DEF OutlineSoFar
        <5>2. ~(CoordOper(area[1]) > CoordOper(it))
          BY <1>3, <1>6, <3>1, <3>4, <4>1, <5>1
        <5> QED
          BY <3>1, <5>1, <5>2
      <4>3. ASSUME box[2] # it, box[2] \notin unread'
            PROVE  area'[2] = box[2]
        <5>1. area[2] = box[2]
          BY <1>1, <1>4, <3>4, <4>3 DEF OutlineSoFar
        <5>2. ~(CoordOper(area[2]) < CoordOper(it))
          BY <1>3, <1>6, <3>1, <3>4, <4>1, <5>1
        <5> QED
          BY <3>1, <5>1, <5>2
      <4>4. box[1] = it => area'[1] = box[1]
        <5> SUFFICES ASSUME box[1] = it PROVE area'[1] = box[1]
          OBVIOUS
        <5>1. CoordOper(area[1]) > CoordOper(it)
          BY <1>3, <1>6, <3>1, <3>2, <3>4
        <5> QED
          BY <3>1, <5>1
      <4>5. box[2] = it => area'[2] = box[2]
        <5> SUFFICES ASSUME box[2] = it PROVE area'[2] = box[2]
          OBVIOUS
        <5>1. CoordOper(area[2]) < CoordOper(it)
          BY <1>3, <1>6, <3>1, <3>2, <3>4
        <5> QED
          BY <3>1, <5>1
      <4> QED
        BY <4>2, <4>3, <4>4, <4>5
    <3>5. ~(lastDark \subseteq unread')
      BY <1>1, <3>1
    <3> QED
      BY <1>2, <3>3, <3>4, <3>5 DEF OutlineSoFar
  <2> QED
    BY <2>1, <2>2, <2>3
<1>8. TypeOK'
  <2>1. area' \in PixelPlus \X PixelPlus
    BY <1>2, <1>4, <1>7 DEF OutlineSoFar, PixelPlus
  <2> QED
    BY <1>1, <1>2, <2>1 DEF IInv, TypeOK
<1>9. AverageBounded' /\ DarkIfLastDark'
  BY <1>2 DEF IInv, AverageBounded, DarkIfLastDark, Dark
<1>10. Progress'
  BY <1>2, <1>7 DEF IInv, Progress
<1> QED
  BY <1>8, <1>9, <1>10 DEF IInv

LEMMA ScannedInv == IInv /\ Scanned => IInv'
<1> SUFFICES ASSUME IInv, Scanned PROVE IInv'
  OBVIOUS
<1> USE DEF averaging, outline, measuring, Scanned
<1>1. TypeOK'
  BY DEF IInv, TypeOK
<1>2. OutlineSoFar'
  BY DEF IInv, Progress, OutlineSoFar
<1> QED
  BY <1>1, <1>2 DEF IInv, Progress, AverageBounded, DarkIfLastDark

\* Once the pixels of the object are chosen nothing is left to say of the image.
LEMMA ForgottenInv ==
  ASSUME IInv, ForgetImage, phase = "object", phase' \in {"noObject", "measure"}
  PROVE  /\ AverageBounded' /\ DarkIfLastDark' /\ Progress'
         /\ depthList' \in [Pixels -> UInt16] /\ sum' \in [Pixels -> Nat]
         /\ area' \in PixelPlus \X PixelPlus
BY WidthAssumption
   DEF ForgetImage, AverageBounded, DarkIfLastDark, Progress, Blank, UInt16, PixelPlus,
       WidthAssumption

LEMMA NoObjectInv == IInv /\ NoObject => IInv'
<1> SUFFICES ASSUME IInv, NoObject PROVE IInv'
  OBVIOUS
<1> USE DEF NoObject, AtThrows
<1>1. TypeOK'
  BY ForgottenInv DEF IInv, TypeOK, ForgetImage, measuring
<1> QED
  BY <1>1, ForgottenInv DEF IInv

LEMMA RowType ==
  ASSUME NEW p \in PixelPlus, NEW axis \in Axes
  PROVE  RowOf(p, axis) \in Nat
BY PixelTypes DEF PixelPlus, EndIter, RowOf

LEMMA GetObjectInv == IInv /\ GetObject => IInv'
<1> SUFFICES ASSUME IInv, GetObject PROVE IInv'
  OBVIOUS
<1> USE DEF GetObject
<1>1. object' \subseteq PixelPlus /\ object' # {} /\ inRange' \subseteq object'
  BY DEF InArea, LitPixels, PixelPlus, Calibrated
<1>2. tmpRow' \in Nat
  BY <1>1, RowType
<1>3. TypeOK'
  BY <1>1, <1>2, ForgottenInv DEF IInv, TypeOK, ForgetImage
<1> QED
  BY <1>3, ForgottenInv DEF IInv

LEMMA NextPixelInv == IInv /\ NextPixel => IInv'
<1> SUFFICES ASSUME IInv, NextPixel PROVE IInv'
  OBVIOUS
<1>1. PICK it \in left :
        /\ left' = left \ {it}
        /\ LET row == RowOf(it, direction) IN
           CASE it \notin inRange -> UNCHANGED <<tmpRow, counter, distance>>
             [] it \in inRange /\ row = tmpRow ->
                  counter' = counter + 1 /\ UNCHANGED <<tmpRow, distance>>
             [] it \in inRange /\ row # tmpRow ->
                  /\ tmpRow' = row
                  /\ distance' = IF distance < counter + 1 THEN counter + 1 ELSE distance
                  /\ counter' = Restarted(counter + 1)
  BY DEF NextPixel
<1>2. /\ phase = "measure"
      /\ UNCHANGED <<phase, averaging, outline, object, inRange, direction>>
  BY DEF NextPixel, outline
<1>3. RowOf(it, direction) \in Nat
  BY <1>1, RowType DEF IInv, TypeOK
<1>4. tmpRow' \in Nat /\ counter' \in Nat /\ distance' \in Nat
  <2>1. CASE it \notin inRange
    BY <1>1, <2>1 DEF IInv, TypeOK
  <2>2. CASE it \in inRange /\ RowOf(it, direction) = tmpRow
    BY <1>1, <2>2 DEF IInv, TypeOK
  <2>3. CASE it \in inRange /\ RowOf(it, direction) # tmpRow
    BY <1>1, <1>3, <2>3 DEF IInv, TypeOK, Restarted
  <2> QED
    BY <2>1, <2>2, <2>3
<1>5. TypeOK'
  BY <1>1, <1>2, <1>4 DEF IInv, TypeOK, averaging, outline
<1>6. AverageBounded' /\ DarkIfLastDark' /\ Progress'
  BY <1>2 DEF AverageBounded, DarkIfLastDark, Progress
<1> QED
  BY <1>5, <1>6 DEF IInv

LEMMA MeasuredInv == IInv /\ Measured => IInv'
<1> SUFFICES ASSUME IInv, Measured PROVE IInv'
  OBVIOUS
<1>1. TypeOK'
  BY DEF IInv, TypeOK, Measured, averaging, outline, measuring
<1> QED
  BY <1>1 DEF IInv, Measured, AverageBounded, DarkIfLastDark, Progress

LEMMA StutterInv == IInv /\ UNCHANGED vars => IInv'
<1> SUFFICES ASSUME IInv, UNCHANGED vars PROVE IInv'
  OBVIOUS
<1> USE DEF vars, averaging, outline, measuring
<1>1. TypeOK'
  BY DEF IInv, TypeOK
<1>2. AverageBounded' /\ DarkIfLastDark'
  BY DEF IInv, AverageBounded, DarkIfLastDark, Dark
<1>3. Progress'
  BY DEF IInv, Progress, OutlineSoFar
<1> QED
  BY <1>1, <1>2, <1>3 DEF IInv

LEMMA Inductive == Spec => []IInv
<1>1. IInv /\ [Next]_vars => IInv'
  BY AddFrameInv, DrainedInv, ScanInv, ScannedInv, NoObjectInv, GetObjectInv,
     NextPixelInv, MeasuredInv, StutterInv DEF Next
<1> QED
  BY InitInv, <1>1, PTL DEF Spec

-------------------------------------------------------------------------------
(* The loop of calcObjectDistance: what it knows of the rows it has passed. *)

SeenIn(r) == {p \in inRange \ left : RowOf(p, direction) = r}
Extra(r)  == IF r = FrontRow THEN 1 ELSE 0
Width(r)  == Cardinality(InRow(r)) + Extra(r)
Passed    == {r \in RowsOf(inRange \ left, direction) \cup {FrontRow} : r > tmpRow}

\* No row that has been passed has a pixel left.  The pixel that begins a row is
\* not counted in it, and the front row begins before its first pixel.
LoopInv ==
  /\ inRange # {}
  /\ FrontRow \in Nat /\ \A p \in object : RowOf(p, direction) <= FrontRow
  /\ \A p \in object \ left, q \in left : RowOf(q, direction) <= RowOf(p, direction)
  /\ tmpRow <= FrontRow
  /\ \A p \in inRange \ left : tmpRow <= RowOf(p, direction)
  /\ tmpRow = FrontRow \/ \E p \in inRange \ left : RowOf(p, direction) = tmpRow
  /\ counter + 1 = Cardinality(SeenIn(tmpRow)) + Extra(tmpRow)
  /\ \A r \in Passed : Width(r) <= distance
  /\ distance = 0 \/ \E r \in Passed : distance = Width(r)

MeasureInv ==
  /\ phase \in {"measure", "done"} => LoopInv
  /\ phase = "done" => left = {}
  /\ phase \notin {"measure", "done"} => counter = 0 /\ distance = 0

LEMMA FinitePixels == IsFiniteSet(PixelPlus)
<1>1. IsFiniteSet(Pixels)
  BY RegionAssumption, FS_Product DEF RegionAssumption, Pixels
<1> QED
  BY <1>1, FS_AddElement DEF PixelPlus

\* The rows of an object and the pixels of a row.
LEMMA RowTypes ==
  ASSUME IInv
  PROVE  /\ \A p \in object : RowOf(p, direction) \in Nat
         /\ inRange \subseteq object /\ left \subseteq object
         /\ tmpRow \in Nat /\ counter \in Nat /\ distance \in Nat
         /\ \A s \in SUBSET object : IsFiniteSet(s) /\ Cardinality(s) \in Nat
<1>1. object \subseteq PixelPlus /\ direction \in Axes
  BY DEF IInv, TypeOK
<1>2. ASSUME NEW s \in SUBSET object PROVE IsFiniteSet(s) /\ Cardinality(s) \in Nat
  <2>1. s \in SUBSET PixelPlus
    BY <1>1
  <2> QED
    BY <2>1, FinitePixels, FS_Subset, FS_CardinalityType
<1>3. \A p \in object : RowOf(p, direction) \in Nat
  BY <1>1, RowType
<1> QED
  BY <1>2, <1>3 DEF IInv, TypeOK

LEMMA HighestIs ==
  ASSUME NEW s \in SUBSET Nat, NEW m \in s, \A n \in s : n <= m
  PROVE  Highest(s) = m
<1>1. \A k \in s : (\A n \in s : n <= k) => k = m
  <2> SUFFICES ASSUME NEW k \in s, \A n \in s : n <= k PROVE k = m
    OBVIOUS
  <2>1. k <= m /\ m <= k /\ k \in Nat /\ m \in Nat
    OBVIOUS
  <2> QED
    BY <2>1
<1>2. \E k \in s : \A n \in s : n <= k
  OBVIOUS
<1>3. Highest(s) \in s /\ \A n \in s : n <= Highest(s)
  BY <1>2 DEF Highest
<1> QED
  BY <1>1, <1>3

LEMMA LowestIs ==
  ASSUME NEW s \in SUBSET Nat, NEW m \in s, \A n \in s : m <= n
  PROVE  Lowest(s) = m
<1>1. \A k \in s : (\A n \in s : k <= n) => k = m
  <2> SUFFICES ASSUME NEW k \in s, \A n \in s : k <= n PROVE k = m
    OBVIOUS
  <2>1. k <= m /\ m <= k /\ k \in Nat /\ m \in Nat
    OBVIOUS
  <2> QED
    BY <2>1
<1>2. \E k \in s : \A n \in s : k <= n
  OBVIOUS
<1>3. Lowest(s) \in s /\ \A n \in s : Lowest(s) <= n
  BY <1>2 DEF Lowest
<1> QED
  BY <1>1, <1>3

LEMMA InitMeasure == Init => MeasureInv
BY DEF Init, MeasureInv

LEMMA GetObjectMeasure == IInv /\ MeasureInv /\ GetObject => MeasureInv'
<1> SUFFICES ASSUME IInv, MeasureInv, GetObject PROVE MeasureInv'
  OBVIOUS
<1>1. /\ phase' = "measure" /\ left' = object' /\ counter' = 0 /\ distance' = 0
      /\ inRange' \subseteq object' /\ inRange' # {} /\ direction' \in Axes
      /\ object' \subseteq PixelPlus
  BY DEF GetObject, MeasureInv, Calibrated, InArea, LitPixels, PixelPlus
<1>2. PICK front \in object' :
        Foremost(front, object', direction') /\ tmpRow' = RowOf(front, direction')
  BY DEF GetObject
<1>3. \A p \in object' : RowOf(p, direction') \in Nat /\ RowOf(p, direction') <= tmpRow'
  BY <1>1, <1>2, RowType DEF Foremost
<1>4. FrontRow' = tmpRow' /\ tmpRow' \in Nat
  <2>1. RowsOf(object', direction') \in SUBSET Nat
    BY <1>3 DEF RowsOf
  <2>2. tmpRow' \in RowsOf(object', direction')
    BY <1>2 DEF RowsOf
  <2>3. \A n \in RowsOf(object', direction') : n <= tmpRow'
    BY <1>3 DEF RowsOf
  <2>4. Highest(RowsOf(object', direction')) = tmpRow'
    BY <2>1, <2>2, <2>3, HighestIs
  <2> QED
    BY <1>2, <1>3, <2>4 DEF FrontRow
<1>5. inRange' \ left' = {} /\ object' \ left' = {}
  BY <1>1
<1>6. SeenIn(tmpRow)' = {}
  BY <1>5 DEF SeenIn
<1>7. counter' + 1 = Cardinality(SeenIn(tmpRow)') + Extra(tmpRow)'
  BY <1>1, <1>4, <1>6, FS_EmptySet DEF Extra
<1>8. Passed' = {}
  BY <1>4, <1>5 DEF Passed, RowsOf
<1>9. LoopInv'
  BY <1>1, <1>3, <1>4, <1>5, <1>7, <1>8 DEF LoopInv
<1> QED
  BY <1>1, <1>9 DEF MeasureInv

\* A pixel that is read next belongs to the row that is being counted or begins a
\* lower one; then the row before it is complete.
LEMMA NextPixelMeasure == IInv /\ MeasureInv /\ NextPixel => MeasureInv'
<1> SUFFICES ASSUME IInv, MeasureInv, NextPixel PROVE MeasureInv'
  OBVIOUS
<1>1. PICK it \in left :
        /\ Foremost(it, left, direction)
        /\ left' = left \ {it}
        /\ LET row == RowOf(it, direction) IN
           CASE it \notin inRange -> UNCHANGED <<tmpRow, counter, distance>>
             [] it \in inRange /\ row = tmpRow ->
                  counter' = counter + 1 /\ UNCHANGED <<tmpRow, distance>>
             [] it \in inRange /\ row # tmpRow ->
                  /\ tmpRow' = row
                  /\ distance' = IF distance < counter + 1 THEN counter + 1 ELSE distance
                  /\ counter' = Restarted(counter + 1)
  BY DEF NextPixel
<1> DEFINE row == RowOf(it, direction)
<1>2. phase = "measure" /\ UNCHANGED <<phase, object, inRange, direction>>
  BY DEF NextPixel
<1>3. LoopInv
  BY <1>2 DEF MeasureInv
<1>4. /\ FrontRow' = FrontRow /\ FrontRow \in Nat
      /\ \A r : InRow(r)' = InRow(r) /\ Extra(r)' = Extra(r) /\ Width(r)' = Width(r)
  BY <1>2, <1>3 DEF FrontRow, InRow, Extra, Width, LoopInv
<1>5. /\ it \in object /\ row \in Nat /\ row <= FrontRow
      /\ \A q \in left : RowOf(q, direction) <= row
      /\ \A p \in object \ left : row <= RowOf(p, direction)
  BY <1>1, <1>3, RowTypes DEF LoopInv, Foremost
<1>6. /\ inRange \subseteq object /\ left \subseteq object
      /\ tmpRow \in Nat /\ counter \in Nat /\ distance \in Nat
      /\ \A p \in object : RowOf(p, direction) \in Nat
  BY RowTypes
<1>7. object \ left' = (object \ left) \cup {it}
  BY <1>1, <1>5
<1>8. \A p \in object \ left', q \in left' : RowOf(q, direction) <= RowOf(p, direction)
  BY <1>1, <1>3, <1>5, <1>7 DEF LoopInv
<1>9. row <= tmpRow
  BY <1>3, <1>5, <1>6 DEF LoopInv
<1>10. \A p \in inRange \ left : tmpRow <= RowOf(p, direction)
  BY <1>3 DEF LoopInv
<1>11. /\ inRange' # {} /\ FrontRow' \in Nat
       /\ \A p \in object' : RowOf(p, direction') <= FrontRow'
  BY <1>2, <1>3, <1>4 DEF LoopInv
<1>12. ASSUME it \notin inRange PROVE LoopInv'
  <2>1. UNCHANGED <<tmpRow, counter, distance>> /\ inRange \ left' = inRange \ left
    BY <1>1, <1>12
  <2>2. SeenIn(tmpRow)' = SeenIn(tmpRow) /\ Passed' = Passed
    BY <1>2, <1>4, <2>1 DEF SeenIn, Passed
  <2>3. counter' + 1 = Cardinality(SeenIn(tmpRow)') + Extra(tmpRow)'
    BY <1>3, <1>4, <2>1, <2>2 DEF LoopInv, Extra
  <2>4. /\ \A r \in Passed' : Width(r)' <= distance'
        /\ distance' = 0 \/ \E r \in Passed' : distance' = Width(r)'
    BY <1>3, <1>4, <2>1, <2>2 DEF LoopInv
  <2>5. /\ tmpRow' <= FrontRow'
        /\ \A p \in inRange' \ left' : tmpRow' <= RowOf(p, direction')
        /\ tmpRow' = FrontRow' \/ \E p \in inRange' \ left' : RowOf(p, direction') = tmpRow'
    BY <1>2, <1>3, <1>4, <2>1 DEF LoopInv
  <2> QED
    BY <1>2, <1>8, <1>11, <2>3, <2>4, <2>5 DEF LoopInv
<1>13. ASSUME it \in inRange, row = tmpRow PROVE LoopInv'
  <2>1. /\ counter' = counter + 1 /\ UNCHANGED <<tmpRow, distance>>
        /\ inRange \ left' = (inRange \ left) \cup {it}
    BY <1>1, <1>13
  <2>2. SeenIn(tmpRow)' = SeenIn(tmpRow) \cup {it} /\ it \notin SeenIn(tmpRow)
    BY <1>1, <1>2, <1>13, <2>1 DEF SeenIn
  <2>3. Passed' = Passed
    BY <1>2, <1>4, <1>6, <1>13, <2>1 DEF Passed, RowsOf
  <2>4. Cardinality(SeenIn(tmpRow)') = Cardinality(SeenIn(tmpRow)) + 1
        /\ Cardinality(SeenIn(tmpRow)) \in Nat
    <3>1. SeenIn(tmpRow) \in SUBSET object
      BY <1>6 DEF SeenIn
    <3>2. IsFiniteSet(SeenIn(tmpRow)) /\ Cardinality(SeenIn(tmpRow)) \in Nat
      BY <3>1, RowTypes
    <3> QED
      BY <2>2, <3>2, FS_AddElement
  <2>5. counter' + 1 = Cardinality(SeenIn(tmpRow)') + Extra(tmpRow)'
    <3>1. Extra(tmpRow)' = Extra(tmpRow) /\ Extra(tmpRow) \in Nat
      BY <1>4, <2>1 DEF Extra
    <3>2. counter + 1 = Cardinality(SeenIn(tmpRow)) + Extra(tmpRow)
      BY <1>3 DEF LoopInv
    <3> QED
      BY <1>6, <2>1, <2>4, <3>1, <3>2
  <2>6. /\ \A r \in Passed' : Width(r)' <= distance'
        /\ distance' = 0 \/ \E r \in Passed' : distance' = Width(r)'
    BY <1>3, <1>4, <2>1, <2>3 DEF LoopInv
  <2>7. /\ tmpRow' <= FrontRow'
        /\ \A p \in inRange' \ left' : tmpRow' <= RowOf(p, direction')
        /\ tmpRow' = FrontRow' \/ \E p \in inRange' \ left' : RowOf(p, direction') = tmpRow'
    BY <1>2, <1>3, <1>4, <1>6, <1>10, <1>13, <2>1 DEF LoopInv
  <2> QED
    BY <1>2, <1>8, <1>11, <2>5, <2>6, <2>7 DEF LoopInv
<1>14. ASSUME it \in inRange, row # tmpRow PROVE LoopInv'
  <2>1. /\ tmpRow' = row /\ counter' = 0
        /\ distance' = IF distance < counter + 1 THEN counter + 1 ELSE distance
        /\ inRange \ left' = (inRange \ left) \cup {it}
    BY <1>1, <1>14 DEF Restarted
  <2>2. row < tmpRow /\ tmpRow <= FrontRow
    BY <1>3, <1>5, <1>6, <1>9, <1>14 DEF LoopInv
  <2>3. SeenIn(tmpRow) = InRow(tmpRow)
    <3>1. \A p \in left : RowOf(p, direction) # tmpRow
      BY <1>5, <1>6, <2>2
    <3> QED
      BY <3>1 DEF SeenIn, InRow
  <2>4. counter + 1 = Width(tmpRow)
    BY <1>3, <2>3 DEF LoopInv, Width
  <2>5. SeenIn(tmpRow)' = {it}
    <3>1. \A p \in inRange \ left : RowOf(p, direction) # row
      BY <1>6, <1>10, <1>5, <2>2
    <3> QED
      BY <1>2, <2>1, <3>1 DEF SeenIn
  <2>6. Extra(tmpRow)' = 0
    <3>1. row # FrontRow
      BY <1>4, <1>5, <1>6, <2>2
    <3> QED
      BY <1>4, <2>1, <3>1 DEF Extra
  <2>7. counter' + 1 = Cardinality(SeenIn(tmpRow)') + Extra(tmpRow)'
    <3>1. Cardinality({it}) = 1
      BY FS_Singleton
    <3> QED
      BY <2>1, <2>5, <2>6, <3>1
  <2>8. Passed' = Passed \cup {tmpRow}
    <3>1. tmpRow \in RowsOf(inRange \ left, direction) \cup {FrontRow}
      BY <1>3 DEF LoopInv, RowsOf
    <3>2. \A r \in RowsOf(inRange \ left, direction) \cup {FrontRow} :
            r \in Nat /\ r >= tmpRow
      BY <1>4, <1>6, <1>10, <2>2 DEF RowsOf
    <3>3. RowsOf(inRange \ left', direction) = RowsOf(inRange \ left, direction) \cup {row}
      BY <2>1 DEF RowsOf
    <3>4. Passed' = {r \in RowsOf(inRange \ left', direction) \cup {FrontRow} : r > row}
      BY <1>2, <1>4, <2>1 DEF Passed
    <3>5. ASSUME NEW r \in RowsOf(inRange \ left, direction) \cup {FrontRow} \cup {row}
          PROVE  r > row <=> r > tmpRow \/ r = tmpRow
      BY <1>5, <1>6, <2>2, <3>2
    <3>6. RowsOf(inRange \ left', direction) \cup {FrontRow} =
            RowsOf(inRange \ left, direction) \cup {FrontRow} \cup {row}
      BY <3>3
    <3>7. ~(row > row)
      BY <1>5
    <3> HIDE DEF row
    <3> QED
      BY <3>1, <3>4, <3>5, <3>6, <3>7 DEF Passed
  <2>9. \A r \in Passed : Width(r) \in Nat
    <3> SUFFICES ASSUME NEW r \in Passed PROVE Width(r) \in Nat
      OBVIOUS
    <3>1. InRow(r) \in SUBSET object
      BY <1>6 DEF InRow
    <3>2. Cardinality(InRow(r)) \in Nat
      BY <3>1, RowTypes
    <3> QED
      BY <3>2 DEF Width, Extra
  <2>10. /\ \A r \in Passed : Width(r) <= distance
         /\ distance = 0 \/ \E r \in Passed : distance = Width(r)
    BY <1>3 DEF LoopInv
  <2>11. \A r \in Passed' : Width(r)' <= distance'
    BY <1>4, <1>6, <2>1, <2>4, <2>8, <2>9, <2>10
  <2>12. distance' = 0 \/ \E r \in Passed' : distance' = Width(r)'
    BY <1>4, <2>1, <2>4, <2>8, <2>10
  <2>13. /\ tmpRow' <= FrontRow'
         /\ \A p \in inRange' \ left' : tmpRow' <= RowOf(p, direction')
         /\ tmpRow' = FrontRow' \/ \E p \in inRange' \ left' : RowOf(p, direction') = tmpRow'
    BY <1>2, <1>4, <1>5, <1>6, <1>14, <2>1
  <2> QED
    BY <1>2, <1>8, <1>11, <2>7, <2>11, <2>12, <2>13 DEF LoopInv
<1>15. LoopInv'
  BY <1>12, <1>13, <1>14
<1> QED
  BY <1>2, <1>15 DEF MeasureInv

\* No other step touches the loop.
LEMMA OthersMeasure ==
  ASSUME IInv, MeasureInv,
         \/ AddFrame \/ Drained \/ Scan \/ Scanned \/ NoObject \/ Measured \/ UNCHANGED vars
  PROVE  MeasureInv'
<1>1. UNCHANGED <<object, inRange, left, direction, tmpRow, counter, distance>>
  BY DEF AddFrame, Drained, Scan, Scanned, NoObject, Measured, vars, measuring
<1>2. LoopInv' <=> LoopInv
  BY <1>1 DEF LoopInv, FrontRow, SeenIn, Extra, Width, Passed, InRow
<1>3. phase' \in {"measure", "done"} <=> phase \in {"measure", "done"}
  BY DEF AddFrame, Drained, Scan, Scanned, NoObject, Measured, vars, AtThrows
<1>4. phase' = "done" => left = {} \/ phase = "done"
  BY DEF AddFrame, Drained, Scan, Scanned, NoObject, Measured, vars, AtThrows
<1> QED
  BY <1>1, <1>2, <1>3, <1>4 DEF MeasureInv

LEMMA MeasureInductive == Spec => [](IInv /\ MeasureInv)
<1>1. IInv /\ MeasureInv /\ [Next]_vars => MeasureInv'
  BY GetObjectMeasure, NextPixelMeasure, OthersMeasure DEF Next
<1> QED
  BY InitMeasure, <1>1, Inductive, PTL DEF Spec

-------------------------------------------------------------------------------
(* The theorems. *)

\* Every variable keeps its type; in particular the loop of calcObjectDistance,
\* which begins with pixels.front(), is never reached with no pixels.
THEOREM TypeCorrect == Spec => []TypeOK
<1>1. IInv => TypeOK
  BY DEF IInv
<1> QED
  BY Inductive, <1>1, PTL

\* calcDepthFrameAvg: the average of a pixel that was always lit stays within
\* half the number of frames of its mean, for every number of frames.
THEOREM AverageNearby == Spec => []AverageBounded
<1>1. IInv => AverageBounded
  BY DEF IInv
<1> QED
  BY Inductive, <1>1, PTL

\* getDetectArea sees exactly the pixels that were dark in the last frame.
THEOREM LastFrameDecides == Spec => []DarkIfLastDark
<1>1. IInv => DarkIfLastDark
  BY DEF IInv
<1> QED
  BY Inductive, <1>1, PTL

\* getDetectArea, for every region off the axes and every outline: where the
\* first and last pixel of the bounding box are dark, they are what it returns.
THEOREM BoundingBoxFound == Spec => []AreaIsBoundingBox
<1>1. IInv => AreaIsBoundingBox
  <2> SUFFICES ASSUME IInv, phase = "object",
                      NEW box \in Pixels \X Pixels, Spans(box, lastDark)
               PROVE  area = box
    BY DEF AreaIsBoundingBox
  <2>1. OutlineSoFar /\ unread = {}
    BY DEF IInv, Progress
  <2>2. area[1] = box[1] /\ area[2] = box[2] /\ area = <<area[1], area[2]>>
    BY <2>1 DEF OutlineSoFar
  <2> QED
    BY <2>2
<1> QED
  BY Inductive, <1>1, PTL

\* calcObjectDistance, for every object and every choice of pixels near the
\* median depth, in whatever order a row's pixels come: the widest row but the
\* last, with one pixel more for the front row.
THEOREM WidestRowFound == Spec => []WidestEarlierRow
<1>1. IInv /\ MeasureInv => WidestEarlierRow
  <2> SUFFICES ASSUME IInv, MeasureInv, phase = "done"
               PROVE  distance = Highest({0} \cup
                        {Cardinality(InRow(r)) + (IF r = FrontRow THEN 1 ELSE 0) :
                           r \in (RowsOf(inRange, direction) \cup {FrontRow}) \ {LastRow}})
    BY DEF WidestEarlierRow
  <2> DEFINE rows   == RowsOf(inRange, direction) \cup {FrontRow}
             widths == {Width(r) : r \in rows \ {LastRow}}
  <2>1. LoopInv /\ inRange \ left = inRange /\ distance \in Nat /\ tmpRow \in Nat
    BY RowTypes DEF MeasureInv
  <2>2. \A r \in rows : r \in Nat /\ tmpRow <= r
    BY <2>1, RowTypes DEF LoopInv, RowsOf
  <2>3. tmpRow \in RowsOf(inRange, direction)
    <3>1. CASE tmpRow = FrontRow
      <4>1. PICK p \in inRange : TRUE
        BY <2>1 DEF LoopInv
      <4>2. RowOf(p, direction) \in Nat /\ RowOf(p, direction) <= FrontRow
            /\ tmpRow <= RowOf(p, direction)
        BY <2>1, RowTypes DEF LoopInv
      <4>3. RowOf(p, direction) = tmpRow
        BY <2>1, <3>1, <4>2
      <4> QED
        BY <4>1, <4>3 DEF RowsOf
    <3>2. CASE \E p \in inRange : RowOf(p, direction) = tmpRow
      BY <3>2 DEF RowsOf
    <3> QED
      BY <2>1, <3>1, <3>2 DEF LoopInv
  <2>4. LastRow = tmpRow
    <3>1. RowsOf(inRange, direction) \in SUBSET Nat
      BY <2>2
    <3>2. Lowest(RowsOf(inRange, direction)) = tmpRow
      BY <2>2, <2>3, <3>1, LowestIs
    <3> QED
      BY <3>2 DEF LastRow
  <2>5. Passed = rows \ {LastRow}
    <3>1. \A r \in rows : r > tmpRow <=> r # tmpRow
      BY <2>1, <2>2
    <3> QED
      BY <2>1, <2>4, <3>1 DEF Passed
  <2>6. \A r \in rows : Width(r) \in Nat
    <3> SUFFICES ASSUME NEW r \in rows PROVE Width(r) \in Nat
      OBVIOUS
    <3>1. InRow(r) \in SUBSET object
      BY RowTypes DEF InRow
    <3>2. Cardinality(InRow(r)) \in Nat
      BY <3>1, RowTypes
    <3> QED
      BY <3>2 DEF Width, Extra
  <2>7. /\ \A n \in {0} \cup widths : n \in Nat /\ n <= distance
        /\ distance \in {0} \cup widths
    BY <2>1, <2>5, <2>6 DEF LoopInv
  <2>8. Highest({0} \cup widths) = distance
    BY <2>7, HighestIs
  <2> QED
    BY <2>8 DEF Width, Extra
<1> QED
  BY <1>1, MeasureInductive, PTL
===============================================================================
