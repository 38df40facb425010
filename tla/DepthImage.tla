------------------------------- MODULE DepthImage -------------------------------
(***************************************************************************)
(* What DETECT makes of the depth frames of one measurement: their average *)
(* (getRoiFrameData), the dark outline of the object (getDetectArea), the  *)
(* pixels inside it (getObjectInDetectArea) and their extent               *)
(* (calcObjectDistance, which runs once per axis on a copy of the pixels;  *)
(* the model follows either of the two).                                   *)
(*                                                                         *)
(* A pixel is its coordinates <<x, y>>.  calibrationDedpth is floating     *)
(* point: which pixels it puts near the median one is left open.           *)
(* std::sort is not stable: pixels it finds equal come in any order.       *)
(*                                                                         *)
(* Len(Images) bounds the frames of a measurement, as the lidar's queue    *)
(* does (MAX_FRAME_CNT).                                                   *)
(* A definition marked "a slip" is a plausible wrong version of the next.  *)
(***************************************************************************)
EXTENDS Integers, Sequences, FiniteSets

CONSTANTS
  Columns, Rows,   \* the coordinates of the region of interest
  Images,          \* Images[n]: what the n-th frame may show of the region
  UINT16_MAX       \* the largest depth the code can hold

Pixels == Columns \X Rows
UInt16 == 0..UINT16_MAX

ASSUME WidthAssumption == UINT16_MAX \in Nat

ASSUME RegionAssumption ==
  /\ Columns \subseteq Nat \ {0} /\ Rows \subseteq Nat \ {0}
  /\ IsFiniteSet(Columns) /\ IsFiniteSet(Rows)

\* A depth is dark (0) or at least PropValDepthMin, which is more than the frames.
ASSUME ImageAssumption ==
  /\ Images \in Seq(SUBSET [Pixels -> UInt16])
  /\ \A n \in 1..Len(Images) : \A image \in Images[n] : \A p \in Pixels :
       image[p] = 0 \/ image[p] >= Len(Images)

VARIABLES
  phase,                \* where onEvent is, and how it ended
  callCnt, depthList,   \* frames averaged so far, and their average
  lastDark,             \* history: the dark pixels of the last frame
  alwaysLit,            \* history: the pixels that no frame had dark
  sum,                  \* history: the sum of each pixel's depths
  unread, area,         \* getDetectArea: the rest of the list, its two iterators
  object, inRange,      \* availablePixels, those near the median depth
  direction,            \* the axis that is measured
  left, tmpRow, counter, distance   \* calcObjectDistance's loop

averaging == <<callCnt, depthList, lastDark, alwaysLit, sum>>
outline   == <<unread, area>>
measuring == <<direction, left, tmpRow, counter, distance>>
vars == <<phase, averaging, outline, object, inRange, measuring>>

EndIter    == <<0, 0>>   \* pixels.end()
PixelPlus  == Pixels \cup {EndIter}
Axes       == {"X", "Y"}
Dark(image) == {p \in Pixels : image[p] = 0}
Blank       == [p \in Pixels |-> 0]

TypeOK ==
  /\ phase \in {"average", "outline", "object", "measure", "done", "noFrames", "noObject"}
  /\ callCnt \in 0..Len(Images)
  /\ depthList \in [Pixels -> UInt16]
  /\ lastDark \subseteq Pixels /\ alwaysLit \subseteq Pixels
  /\ sum \in [Pixels -> Nat]
  /\ unread \subseteq Pixels /\ area \in PixelPlus \X PixelPlus
  /\ object \subseteq PixelPlus /\ inRange \subseteq object /\ left \subseteq object
  /\ direction \in Axes
  /\ tmpRow \in Nat /\ counter \in Nat /\ distance \in Nat
  /\ phase = "measure" => object # {}   \* pixels.front()

Init ==
  /\ phase = "average"
  /\ callCnt = 0 /\ depthList = Blank
  /\ lastDark = {} /\ alwaysLit = Pixels /\ sum = Blank
  /\ unread = Pixels /\ area = <<EndIter, EndIter>>
  /\ object = {} /\ inRange = {} /\ left = {}
  /\ direction = "X" /\ tmpRow = 0 /\ counter = 0 /\ distance = 0

-------------------------------------------------------------------------------
(* calcDepthFrameAvg, frame by frame. *)

MeanOfTwo(prev, new, cnt) == IF new = 0 THEN 0 ELSE (prev + new) \div 2   \* a slip
DarkAveraged(prev, new, cnt) == ((prev * (cnt - 1) + new) \div cnt) % (UINT16_MAX + 1)   \* a slip
Averaged(prev, new, cnt) ==
  IF new = 0 THEN 0 ELSE ((prev * (cnt - 1) + new) \div cnt) % (UINT16_MAX + 1)

AddFrame ==
  /\ phase = "average" /\ callCnt < Len(Images)
  /\ callCnt' = callCnt + 1
  /\ \E image \in Images[callCnt + 1] :
       /\ depthList' = IF callCnt = 0 THEN image
                       ELSE [p \in Pixels |-> Averaged(depthList[p], image[p], callCnt')]
       /\ lastDark' = Dark(image)
       /\ alwaysLit' = alwaysLit \ Dark(image)
       /\ sum' = [p \in Pixels |-> sum[p] + image[p]]
  /\ UNCHANGED <<phase, outline, object, inRange, measuring>>

\* The queue is empty.  convertDpethToPixelInfos throws on an average of nothing.
Drained ==
  /\ phase = "average"
  /\ phase' = IF callCnt = 0 THEN "noFrames" ELSE "outline"
  /\ UNCHANGED <<averaging, outline, object, inRange, measuring>>

-------------------------------------------------------------------------------
(* getDetectArea. *)

ColumnOnly(p) == p[1]      \* a slip
CoordOper(p) == p[1] * p[2]
Before(p, q) == p[2] < q[2] \/ (p[2] = q[2] /\ p[1] < q[1])   \* in the list of pixels

NextInList(p) == \A q \in unread : ~Before(q, p)

\* A dark pixel that is like the one found before it does not replace it.
Scan ==
  /\ phase = "outline"
  /\ \E it \in unread :
       /\ NextInList(it)
       /\ unread' = unread \ {it}
       /\ area' = IF depthList[it] # 0 THEN area
                  ELSE IF area[1] = EndIter THEN <<it, it>>
                  ELSE <<IF CoordOper(area[1]) > CoordOper(it) THEN it ELSE area[1],
                         IF CoordOper(area[2]) < CoordOper(it) THEN it ELSE area[2]>>
  /\ UNCHANGED <<phase, averaging, object, inRange, measuring>>

Scanned ==
  /\ phase = "outline" /\ unread = {}
  /\ phase' = "object"
  /\ UNCHANGED <<averaging, outline, object, inRange, measuring>>

-------------------------------------------------------------------------------
(* getObjectInDetectArea and the median; the average is not used any more. *)

Within(p, st, end) == p[1] \in st[1]..end[1] /\ p[2] \in st[2]..end[2]

LitPixels(st, end) == {p \in Pixels : depthList[p] # 0 /\ Within(p, st, end)}

\* Without a dark pixel the loop reads the one memory cell after the list.
InArea == IF area[1] = EndIter THEN {{}, {EndIter}} ELSE {LitPixels(area[1], area[2])}

Depth(p)   == IF p = EndIter THEN 0 ELSE depthList[p]
Medians(s) ==
  LET half == Cardinality(s) \div 2 IN
  {m \in s : /\ Cardinality({p \in s : Depth(p) > Depth(m)}) <= half
             /\ Cardinality({p \in s : Depth(p) >= Depth(m)}) > half}

\* The pixels whose calibrated depth is near the median's: any, but a median is.
Calibrated(s) == {near \in SUBSET s : near \cap Medians(s) # {}}

NoFront  == "measure"   \* a slip: operator[] instead of at()
AtThrows == "noObject"

\* A direction sorts and groups the pixels by the other coordinate.
RowOf(p, axis) == IF axis = "X" THEN p[2] ELSE p[1]
RowsOf(s, axis) == {RowOf(p, axis) : p \in s}
Foremost(p, s, axis) == \A q \in s : RowOf(q, axis) <= RowOf(p, axis)

ForgetImage ==
  /\ depthList' = Blank /\ lastDark' = {} /\ alwaysLit' = {} /\ sum' = Blank
  /\ area' = <<EndIter, EndIter>>
  /\ UNCHANGED <<callCnt, unread>>

\* The median of no pixels.
NoObject ==
  /\ phase = "object" /\ {} \in InArea
  /\ phase' = AtThrows
  /\ ForgetImage
  /\ UNCHANGED <<object, inRange, measuring>>

GetObject ==
  /\ phase = "object"
  /\ object' \in InArea \ {{}}
  /\ inRange' \in Calibrated(object')
  /\ left' = object'
  /\ direction' \in Axes
  /\ \E front \in object' :
       Foremost(front, object', direction') /\ tmpRow' = RowOf(front, direction')
  /\ phase' = "measure"
  /\ ForgetImage
  /\ UNCHANGED <<counter, distance>>

-------------------------------------------------------------------------------
(* calcObjectDistance, pixel by pixel. *)

KeepCount(cnt) == cnt   \* a slip
Restarted(cnt) == 0

NextPixel ==
  /\ phase = "measure"
  /\ \E it \in left :
       /\ Foremost(it, left, direction)
       /\ left' = left \ {it}
       /\ LET row == RowOf(it, direction) IN
          CASE it \notin inRange -> UNCHANGED <<tmpRow, counter, distance>>
            [] it \in inRange /\ row = tmpRow ->
                 counter' = counter + 1 /\ UNCHANGED <<tmpRow, distance>>
            [] it \in inRange /\ row # tmpRow ->
                 /\ tmpRow' = row
                 /\ distance' = IF distance < counter + 1 THEN counter + 1 ELSE distance
                 /\ counter' = Restarted(counter + 1)
  /\ UNCHANGED <<phase, averaging, outline, object, inRange, direction>>

Measured ==
  /\ phase = "measure" /\ left = {}
  /\ phase' = "done"
  /\ UNCHANGED <<averaging, outline, object, inRange, measuring>>

-------------------------------------------------------------------------------
Next == AddFrame \/ Drained \/ Scan \/ Scanned \/ NoObject \/ GetObject \/ NextPixel \/ Measured

Spec == Init /\ [][Next]_vars

-------------------------------------------------------------------------------
(* Properties. *)

\* calcDepthFrameAvg rounds down once per frame and never wraps: a pixel that no
\* frame had dark is averaged to less than half the number of frames below its
\* mean, however many frames there are.
AverageBounded ==
  phase = "average" => \A p \in alwaysLit :
    /\ callCnt * depthList[p] <= sum[p]
    /\ 2 * sum[p] <= 2 * callCnt * depthList[p] + callCnt * (callCnt - 1)

\* Only the last frame decides which pixels getDetectArea takes for dark: a
\* pixel is dark on average if it was dark there, whatever was seen before.
DarkIfLastDark ==
  phase \in {"average", "outline"} /\ callCnt > 0 => Dark(depthList) = lastDark

Spans(box, s) ==
  /\ box[1] \in s /\ box[2] \in s
  /\ \A p \in s : Within(p, box[1], box[2])

\* getDetectArea compares products of coordinates, not coordinates: it finds the
\* bounding box of the dark pixels if the box's first and last pixel are dark.
AreaIsBoundingBox ==
  phase = "object" => \A box \in Pixels \X Pixels : Spans(box, lastDark) => area = box

InRow(r) == {p \in inRange : RowOf(p, direction) = r}
Highest(s) == CHOOSE m \in s : \A n \in s : n <= m
Lowest(s)  == CHOOSE m \in s : \A n \in s : m <= n
FrontRow == Highest(RowsOf(object, direction))
LastRow  == Lowest(RowsOf(inRange, direction))

\* calcObjectDistance, in whatever order std::sort leaves a row's pixels, returns
\* the size of the widest row before the last one near the median depth, the
\* front row of the object with one pixel more.
WidestEarlierRow ==
  phase = "done" =>
    distance = Highest({0} \cup
      {Cardinality(InRow(r)) + (IF r = FrontRow THEN 1 ELSE 0) :
         r \in (RowsOf(inRange, direction) \cup {FrontRow}) \ {LastRow}})
===============================================================================
