--------------------------- MODULE Sessions_proofs ---------------------------
(***************************************************************************)
(* Proofs about Sessions, for streams of any length from any number of     *)
(* phones: of sessions and their axes where no wall clock is set back      *)
(* between two batches, of windows whatever the clocks do.                 *)
(*                                                                         *)
(* The argument for sessions: each sample comes after the one before it in *)
(* the order of device, day and segment.  Two samples with one session id  *)
(* enclose only samples with that id, so the id is never given to two      *)
(* stretches, and the last sample of the session is the last sample of the *)
(* stream, which makes the axis a sum over neighbours.  For windows: the   *)
(* last window that starts at or before a sample holds it, for the next    *)
(* would start after the sample or is not cut at all.                      *)
(***************************************************************************)
EXTENDS Sessions, TLAPS, WellFoundedInduction

\* Sample r comes no later than sample s.
Before(r, s) ==
  \/ r.device < s.device
  \/ /\ r.device = s.device
     /\ r.order <= s.order
     /\ r.wall <= s.wall
     /\ r.day < s.day \/ (r.day = s.day /\ r.seg <= s.seg)

Sorted == \A i, j \in Indices : i <= j => Before(rows[i], rows[j])

Neighbours ==
  \A i \in Indices :
    i + 1 \in Indices /\ SessionOf(rows[i]) = SessionOf(rows[i + 1]) =>
      Together(rows[i], rows[i + 1])

StreamInv ==
  /\ rows \in Seq(Row)
  /\ \A i \in Indices : rows[i].day = DayOf[rows[i].wall]
  /\ Sorted
  /\ Neighbours
  /\ AxisKeepsTime

\* A sample before it is given its segment and its place.
Sample == [device : Device, order : Nat, base : Base, up : Uploaded, pkg : Package,
           first : Wall, wall : Wall, day : Nat]

\* What both actions guarantee of the sample they add.
Follows(s) ==
  rows # <<>> =>
    \/ s.device > Prev.device
    \/ /\ s.device = Prev.device
       /\ s.wall >= Prev.wall
       /\ \/ s.order = Prev.order /\ s.base = Prev.base
          \/ s.order = Prev.order + 1

-----------------------------------------------------------------------------
\* Devices, bases and wall times are numbers.
LEMMA Numbers == Device \subseteq Nat /\ Base \subseteq Nat /\ Wall \subseteq Nat
<1>1. Device \subseteq Nat /\ Base \subseteq Nat /\ MaxWall \in Nat
  BY StreamAssumption
<1>2. Wall \subseteq Nat
  BY <1>1 DEF Wall
<1> QED BY <1>1, <1>2

\* The fields of a sample are numbers.
LEMMA SampleParts ==
  ASSUME NEW s \in Sample
  PROVE  /\ s.device \in Nat /\ s.order \in Nat /\ s.base \in Nat
         /\ s.wall \in Nat /\ s.wall \in Wall /\ s.day \in Nat
<1>1. s.device \in Device /\ s.order \in Nat /\ s.base \in Base
      /\ s.wall \in Wall /\ s.day \in Nat
  BY DEF Sample
<1> QED BY <1>1, Numbers

\* So are those of a sessionized one.
LEMMA RowParts ==
  ASSUME NEW r \in Row
  PROVE  /\ r.device \in Nat /\ r.order \in Nat /\ r.base \in Nat
         /\ r.wall \in Nat /\ r.wall \in Wall /\ r.day \in Nat
         /\ r.seg \in Nat /\ r.at \in Nat
<1>1. r.device \in Device /\ r.order \in Nat /\ r.base \in Base
      /\ r.wall \in Wall /\ r.day \in Nat /\ r.seg \in Nat /\ r.at \in Nat
  BY DEF Row
<1> QED BY <1>1, Numbers

\* The last sample of a stream that has one.
LEMMA PrevParts ==
  ASSUME StreamInv, rows # <<>>
  PROVE  /\ Len(rows) \in Indices /\ Len(rows) \in Nat
         /\ Prev = rows[Len(rows)] /\ Prev \in Row /\ Prev.day = DayOf[Prev.wall]
<1>1. Len(rows) \in Nat \ {0} /\ rows \in Seq(Row)
  BY DEF StreamInv
<1>2. Len(rows) \in Indices
  BY <1>1 DEF Indices
<1>3. Prev = rows[Len(rows)] /\ Prev \in Row
  BY <1>1 DEF Prev
<1> QED BY <1>1, <1>2, <1>3 DEF StreamInv

\* The new sample's segment is a number; the sample comes after all others, and
\* belongs to the last sample's session only if the two belong together.
LEMMA SegFollows ==
  ASSUME StreamInv, NEW s \in Sample, s.day = DayOf[s.wall], Follows(s)
  PROVE  /\ Seg(s) \in Nat
         /\ rows # <<>> =>
              /\ s.device = Prev.device =>
                   s.day >= Prev.day /\ (s.day = Prev.day => Seg(s) >= Prev.seg)
              /\ <<s.device, s.day, Seg(s)>> = SessionOf(Prev) => Together(Prev, s)
<1>1. CASE rows = <<>>
  BY <1>1 DEF Seg
<1>2. CASE rows # <<>>
  <2>1. Prev \in Row /\ Prev.day = DayOf[Prev.wall]
    BY <1>2, PrevParts
  <2>2. /\ Prev.device \in Nat /\ Prev.base \in Nat /\ Prev.wall \in Nat
        /\ Prev.wall \in Wall /\ Prev.day \in Nat /\ Prev.seg \in Nat
    BY <2>1, RowParts
  <2>3. /\ s.device \in Nat /\ s.base \in Nat /\ s.wall \in Nat
        /\ s.wall \in Wall /\ s.day \in Nat
    BY SampleParts
  <2>4. Seg(s) \in Nat
    BY <1>2, <2>2 DEF Seg
  <2>5. s.device = Prev.device =>
          s.day >= Prev.day /\ (s.day = Prev.day => Seg(s) >= Prev.seg)
    <3>1. s.device = Prev.device => s.wall >= Prev.wall
      BY <1>2, <2>2, <2>3 DEF Follows
    <3>2. s.device = Prev.device => s.day >= Prev.day
      BY <3>1, <2>1, <2>2, <2>3, StreamAssumption
    <3>3. s.device = Prev.device /\ s.day = Prev.day => Seg(s) >= Prev.seg
      BY <1>2, <2>2 DEF Seg
    <3> QED BY <3>2, <3>3
  <2>6. <<s.device, s.day, Seg(s)>> = SessionOf(Prev) => Together(Prev, s)
    <3> SUFFICES ASSUME s.device = Prev.device, s.day = Prev.day, Seg(s) = Prev.seg
                 PROVE  Together(Prev, s)
      BY DEF SessionOf
    <3>1. ~Cut(Prev, s)
      BY <1>2, <2>2 DEF Seg
    <3>2. Gap \in Nat
      BY StreamAssumption
    <3> QED BY <3>1, <3>2, <2>2, <2>3 DEF Cut, Together
  <2> QED BY <2>4, <2>5, <2>6
<1> QED BY <1>1, <1>2

\* A session that has samples already has the stream's last sample.
LEMMA SessionAtEnd ==
  ASSUME StreamInv, NEW s \in Sample, s.day = DayOf[s.wall], Follows(s),
         NEW i \in Indices, SessionOf(rows[i]) = <<s.device, s.day, Seg(s)>>
  PROVE  SessionOf(Prev) = <<s.device, s.day, Seg(s)>>
<1>1. rows # <<>> /\ i <= Len(rows)
  BY DEF StreamInv, Indices
<1>2. rows[i] \in Row /\ Prev \in Row /\ Before(rows[i], Prev)
  BY <1>1, PrevParts DEF StreamInv, Sorted, Indices
<1>3. /\ Prev.device \in Nat /\ Prev.day \in Nat /\ Prev.seg \in Nat
      /\ s.device \in Nat /\ s.day \in Nat /\ Seg(s) \in Nat
  BY <1>2, RowParts, SampleParts, SegFollows
<1>4. s.device >= Prev.device
  BY <1>1, <1>3 DEF Follows
<1>5. rows[i].device = s.device /\ rows[i].day = s.day /\ rows[i].seg = Seg(s)
  BY DEF SessionOf
<1>6. Prev.device = s.device
  BY <1>2, <1>3, <1>4, <1>5 DEF Before
<1>7. s.day >= Prev.day /\ (s.day = Prev.day => Seg(s) >= Prev.seg)
  BY <1>1, <1>6, SegFollows
<1>8. Prev.day = s.day /\ Prev.seg = Seg(s)
  BY <1>2, <1>3, <1>5, <1>6, <1>7 DEF Before
<1> QED BY <1>6, <1>8 DEF SessionOf

\* The place of the new sample: at the origin of a new session, or one step
\* behind the last sample of the stream.
LEMMA Placed ==
  ASSUME StreamInv, NEW s \in Sample, s.day = DayOf[s.wall], Follows(s),
         NEW session, session = <<s.device, s.day, Seg(s)>>
  PROVE  /\ At(s, session) \in Nat
         /\ rows # <<>> /\ SessionOf(Prev) = session =>
              At(s, session) =
                Prev.at + (IF s.order = Prev.order THEN s.wall - Prev.wall ELSE Guard)
<1> DEFINE same == {i \in Indices : SessionOf(rows[i]) = session}
<1>1. CASE same = {}
  <2>1. rows # <<>> => SessionOf(Prev) # session
    BY <1>1, PrevParts
  <2> QED BY <1>1, <2>1 DEF At
<1>2. CASE same # {}
  <2>1. rows # <<>>
    BY <1>2 DEF StreamInv, Indices
  <2>2. SessionOf(Prev) = session
    BY <1>2, SessionAtEnd
  <2>3. Len(rows) \in same /\ \A i \in same : i \in Nat /\ i <= Len(rows)
    BY <2>1, <2>2, PrevParts DEF Indices
  <2>4. (CHOOSE j \in same : \A i \in same : i <= j) = Len(rows)
    <3> DEFINE P(j) == j \in same /\ \A i \in same : i <= j
    <3>1. P(Len(rows))
      BY <2>3
    <3>2. \A j : P(j) => j = Len(rows)
      BY <2>3
    <3>3. (CHOOSE j : P(j)) = Len(rows)
      BY <3>1, <3>2
    <3>4. (CHOOSE j \in same : \A i \in same : i <= j) = CHOOSE j : P(j)
      OBVIOUS
    <3> QED BY <3>3, <3>4
  <2>5. At(s, session) = Place(s, Len(rows))
    BY <1>2, <2>4 DEF At
  <2>6. At(s, session) =
          Prev.at + (IF s.order = Prev.order THEN s.wall - Prev.wall ELSE Guard)
    BY <2>1, <2>5, PrevParts DEF Place
  <2>7. s.device = Prev.device
    BY <2>2 DEF SessionOf
  <2>8. /\ Prev.at \in Nat /\ Prev.wall \in Nat /\ Prev.device \in Nat
        /\ s.wall \in Nat /\ s.device \in Nat
    BY <2>1, PrevParts, RowParts, SampleParts
  <2>9. s.wall >= Prev.wall
    BY <2>1, <2>7, <2>8 DEF Follows
  <2> QED BY <2>6, <2>8, <2>9, WindowAssumption
<1> QED BY <1>1, <1>2

-----------------------------------------------------------------------------
\* Adding up the axis: one more sample of the last sample's batch ...
LEMMA OneStep ==
  ASSUME NEW po \in Nat, NEW pw \in Nat, NEW pa \in Nat,
         NEW vo \in Nat, NEW vw \in Nat, NEW va \in Nat,
         NEW w \in Nat, w >= vw, NEW g \in Nat, po <= vo,
         IF po = vo THEN va + pw = pa + vw
         ELSE va >= pa + g /\ va + pw <= pa + vw + g * (vo - po)
  PROVE  IF po = vo THEN (va + (w - vw)) + pw = pa + w
         ELSE /\ va + (w - vw) >= pa + g
              /\ (va + (w - vw)) + pw <= pa + w + g * (vo - po)
<1>1. g * (vo - po) \in Nat
  OBVIOUS
<1> DEFINE x == g * (vo - po)
<1> HIDE DEF x
<1>2. x \in Nat
  BY <1>1 DEF x
<1>3. IF po = vo THEN va + pw = pa + vw
      ELSE va >= pa + g /\ va + pw <= pa + vw + x
  BY DEF x
<1>4. IF po = vo THEN (va + (w - vw)) + pw = pa + w
      ELSE va + (w - vw) >= pa + g /\ (va + (w - vw)) + pw <= pa + w + x
  BY <1>2, <1>3
<1> QED BY <1>4 DEF x

\* ... or the first sample of the next one.
LEMMA BatchStep ==
  ASSUME NEW po \in Nat, NEW pw \in Nat, NEW pa \in Nat,
         NEW vo \in Nat, NEW vw \in Nat, NEW va \in Nat,
         NEW w \in Nat, w >= vw, NEW g \in Nat, po <= vo, pw <= vw,
         IF po = vo THEN va + pw = pa + vw
         ELSE va >= pa + g /\ va + pw <= pa + vw + g * (vo - po)
  PROVE  /\ po # vo + 1
         /\ va + g >= pa + g
         /\ (va + g) + pw <= pa + w + g * (vo + 1 - po)
<1> DEFINE x == g * (vo - po)
<1>1. x \in Nat /\ (po = vo => x = 0)
  OBVIOUS
<1>2. g * (vo + 1 - po) = x + g
  OBVIOUS
<1> HIDE DEF x
<1>3. IF po = vo THEN va + pw = pa + vw
      ELSE va >= pa + g /\ va + pw <= pa + vw + x
  BY DEF x
<1>4. va + g >= pa + g /\ (va + g) + pw <= pa + w + (x + g)
  BY <1>1, <1>3
<1> QED BY <1>2, <1>4

\* A sample that follows the stream extends it: the invariant holds of the
\* longer stream.
LEMMA Extend ==
  ASSUME StreamInv, NEW s \in Sample, s.day = DayOf[s.wall], Follows(s), Append1(s)
  PROVE  StreamInv'
<1> DEFINE n == Len(rows)
           session == <<s.device, s.day, Seg(s)>>
           r == [device |-> s.device, order |-> s.order, base |-> s.base,
                 up |-> s.up, pkg |-> s.pkg, first |-> s.first,
                 wall |-> s.wall, day |-> s.day,
                 seg |-> Seg(s), at |-> At(s, session)]
<1>1. rows' = Append(rows, r)
  BY DEF Append1
<1>2. r \in Row
  <2>1. Seg(s) \in Nat
    BY SegFollows
  <2>2. At(s, session) \in Nat
    BY Placed
  <2> QED BY <2>1, <2>2 DEF Sample, Row
<1>3. rows \in Seq(Row) /\ n \in Nat
  BY DEF StreamInv
<1>4. /\ rows' \in Seq(Row) /\ Len(rows') = n + 1
      /\ \A i \in 1 .. n : rows'[i] = rows[i]
      /\ rows'[n + 1] = r
  BY <1>1, <1>2, <1>3
<1>5. /\ Indices = 1 .. n /\ Indices' = 1 .. n + 1
      /\ \A i \in Indices' : i \in Indices \/ i = n + 1
  BY <1>3, <1>4 DEF Indices
<1>6. SessionOf(r) = session
  BY DEF SessionOf
<1>7. \A i \in Indices' : rows'[i].day = DayOf[rows'[i].wall]
  BY <1>4, <1>5 DEF StreamInv
<1>8. \A i \in Indices : Before(rows[i], r)
  <2> SUFFICES ASSUME NEW i \in Indices PROVE Before(rows[i], r)
    OBVIOUS
  <2>1. rows # <<>> /\ i <= n /\ n \in Indices
    BY <1>3, <1>5
  <2>2. rows[i] \in Row /\ Prev \in Row /\ Before(rows[i], Prev)
    <3>1. rows[i] \in Row
      BY <1>3, <1>5
    <3>2. Prev = rows[n] /\ Prev \in Row
      BY <2>1, PrevParts
    <3>3. Before(rows[i], rows[n])
      BY <2>1 DEF StreamInv, Sorted
    <3> QED BY <3>1, <3>2, <3>3
  <2>3. /\ Prev.device \in Nat /\ Prev.order \in Nat /\ Prev.wall \in Nat
        /\ Prev.day \in Nat /\ Prev.seg \in Nat
        /\ rows[i].device \in Nat /\ rows[i].order \in Nat /\ rows[i].wall \in Nat
        /\ rows[i].day \in Nat /\ rows[i].seg \in Nat
    BY <2>2, RowParts
  <2>4. /\ s.device \in Nat /\ s.order \in Nat /\ s.wall \in Nat
        /\ s.day \in Nat /\ Seg(s) \in Nat
    BY SampleParts, SegFollows
  <2>5. s.device > Prev.device
        \/ /\ s.device = Prev.device /\ s.wall >= Prev.wall /\ s.order >= Prev.order
           /\ s.day >= Prev.day /\ (s.day = Prev.day => Seg(s) >= Prev.seg)
    BY <2>1, <2>3, <2>4, SegFollows DEF Follows
  <2> QED BY <2>2, <2>3, <2>4, <2>5 DEF Before
<1>9. Sorted'
  <2> SUFFICES ASSUME NEW i \in Indices', NEW j \in Indices', i <= j
               PROVE  Before(rows'[i], rows'[j])
    BY DEF Sorted
  <2>1. CASE j \in Indices
    BY <1>3, <1>4, <1>5, <2>1 DEF StreamInv, Sorted
  <2>2. CASE i \in Indices /\ j = n + 1
    BY <1>4, <1>5, <1>8, <2>2
  <2>3. CASE i = n + 1 /\ j = n + 1
    <3>1. Before(r, r)
      BY <1>2, RowParts DEF Before
    <3> QED BY <1>4, <2>3, <3>1
  <2> QED BY <1>3, <1>5, <2>1, <2>2, <2>3
<1>10. Neighbours'
  <2> SUFFICES ASSUME NEW i \in Indices', i + 1 \in Indices',
                      SessionOf(rows'[i]) = SessionOf(rows'[i + 1])
               PROVE  Together(rows'[i], rows'[i + 1])
    BY DEF Neighbours, SessionOf
  <2>1. CASE i + 1 \in Indices
    <3>1. i \in Indices /\ rows'[i] = rows[i] /\ rows'[i + 1] = rows[i + 1]
      BY <1>3, <1>4, <1>5, <2>1
    <3> QED BY <2>1, <3>1 DEF StreamInv, Neighbours
  <2>2. CASE i = n /\ n \in Indices
    <3>1. rows # <<>> /\ rows'[i] = Prev /\ rows'[i + 1] = r
      BY <1>3, <1>4, <1>5, <2>2, PrevParts
    <3>2. Together(Prev, s)
      BY <1>6, <3>1, SegFollows
    <3> QED BY <3>1, <3>2 DEF Together
  <2> QED BY <1>3, <1>5, <2>1, <2>2
<1>11. AxisKeepsTime'
  <2> SUFFICES ASSUME NEW i \in Indices', NEW j \in Indices', i < j,
                      SessionOf(rows'[i]) = SessionOf(rows'[j])
               PROVE  LET p == rows'[i]
                          q == rows'[j]
                      IN  IF p.order = q.order THEN q.at + p.wall = p.at + q.wall
                          ELSE /\ q.at >= p.at + Guard
                               /\ q.at + p.wall
                                    <= p.at + q.wall + Guard * (q.order - p.order)
    BY DEF AxisKeepsTime, SessionOf
  <2>1. CASE j \in Indices
    <3>1. i \in Indices /\ rows'[i] = rows[i] /\ rows'[j] = rows[j]
      BY <1>3, <1>4, <1>5, <2>1
    <3> QED BY <2>1, <3>1 DEF StreamInv, AxisKeepsTime
  <2>2. CASE i \in Indices /\ j = n + 1
    <3>1. rows # <<>> /\ rows'[i] = rows[i] /\ rows'[j] = r
      BY <1>3, <1>4, <1>5, <2>2
    <3>2. SessionOf(rows[i]) = session
      BY <1>6, <3>1
    <3>3. SessionOf(Prev) = session
      BY <2>2, <3>2, SessionAtEnd
    <3>4. r.at = Prev.at + (IF s.order = Prev.order THEN s.wall - Prev.wall ELSE Guard)
      BY <3>1, <3>3, Placed
    <3> DEFINE p == rows[i]
    <3>5. /\ p.order \in Nat /\ p.wall \in Nat /\ p.at \in Nat /\ p.device \in Nat
          /\ Prev.order \in Nat /\ Prev.wall \in Nat /\ Prev.at \in Nat
          /\ Prev.device \in Nat /\ p.seg \in Nat /\ p.day \in Nat
          /\ s.order \in Nat /\ s.wall \in Nat /\ s.device \in Nat
      <4>1. p \in Row /\ Prev \in Row
        BY <1>3, <1>5, <2>2, <3>1, PrevParts
      <4> QED BY <4>1, RowParts, SampleParts
    <3>6. p.device = s.device /\ Prev.device = s.device
      BY <3>2, <3>3 DEF SessionOf
    <3>7. p.order <= Prev.order /\ p.wall <= Prev.wall
      <4>1. n \in Indices /\ i <= n /\ Prev = rows[n]
        BY <1>3, <1>5, <2>2, <3>1, PrevParts
      <4>2. Before(p, Prev)
        BY <2>2, <4>1 DEF StreamInv, Sorted
      <4> QED BY <3>5, <3>6, <4>2 DEF Before
    <3>8. s.wall >= Prev.wall /\ (s.order = Prev.order \/ s.order = Prev.order + 1)
      BY <3>1, <3>5, <3>6 DEF Follows
    <3>9. IF p.order = Prev.order THEN Prev.at + p.wall = p.at + Prev.wall
          ELSE /\ Prev.at >= p.at + Guard
               /\ Prev.at + p.wall
                    <= p.at + Prev.wall + Guard * (Prev.order - p.order)
      <4>1. n \in Indices /\ Prev = rows[n] /\ (i < n \/ i = n)
        BY <1>3, <1>5, <2>2, <3>1, PrevParts
      <4>2. CASE i = n
        BY <3>5, <4>1, <4>2
      <4>3. CASE i < n
        BY <2>2, <3>2, <3>3, <4>1, <4>3 DEF StreamInv, AxisKeepsTime
      <4> QED BY <4>1, <4>2, <4>3
    <3>10. Guard \in Nat
      BY WindowAssumption
    <3>11. r.order = s.order /\ r.wall = s.wall
      OBVIOUS
    <3>12. IF p.order = s.order THEN r.at + p.wall = p.at + s.wall
           ELSE /\ r.at >= p.at + Guard
                /\ r.at + p.wall <= p.at + s.wall + Guard * (s.order - p.order)
      <4> HIDE DEF r, p
      <4>1. CASE s.order = Prev.order
        <5>1. r.at = Prev.at + (s.wall - Prev.wall)
          BY <3>4, <4>1
        <5> QED BY <3>5, <3>7, <3>8, <3>9, <3>10, <4>1, <5>1, OneStep
      <4>2. CASE s.order = Prev.order + 1
        <5>1. r.at = Prev.at + Guard
          BY <3>4, <3>5, <4>2
        <5> QED BY <3>5, <3>7, <3>8, <3>9, <3>10, <4>2, <5>1, BatchStep
      <4> QED BY <3>8, <4>1, <4>2
    <3> QED BY <3>1, <3>11, <3>12
  <2> QED BY <1>3, <1>5, <2>1, <2>2
<1> QED BY <1>4, <1>7, <1>9, <1>10, <1>11 DEF StreamInv

-----------------------------------------------------------------------------
\* Where nothing but the stage changes, the stream stays as it is.
LEMMA StreamKept == StreamInv /\ UNCHANGED rows => StreamInv'
BY DEF StreamInv, Sorted, Neighbours, AxisKeepsTime, Indices, SessionOf

\* The next batch, or the next sample of the batch, follows the stream.
LEMMA StreamStep ==
  ASSUME ~SteppedClock, StreamInv, StartBatch \/ NextSample
  PROVE  StreamInv'
<1>1. CASE StartBatch
  <2>1. PICK d \in Device, b \in Base, u \in Uploaded, k \in Package, w \in Wall :
          /\ rows # <<>> => d >= Prev.device
          /\ rows # <<>> /\ d = Prev.device => w >= Prev.wall
          /\ Append1([device |-> d, base |-> b, up |-> u, pkg |-> k,
                      first |-> w, wall |-> w, day |-> DayOf[w],
                      order |-> IF rows = <<>> \/ d # Prev.device THEN 0
                                ELSE Prev.order + 1])
    BY <1>1 DEF StartBatch
  <2> DEFINE o == IF rows = <<>> \/ d # Prev.device THEN 0 ELSE Prev.order + 1
             s == [device |-> d, base |-> b, up |-> u, pkg |-> k,
                   first |-> w, wall |-> w, day |-> DayOf[w], order |-> o]
  <2>2. o \in Nat
    BY PrevParts, RowParts
  <2>3. DayOf[w] \in Nat
    BY StreamAssumption
  <2>4. s \in Sample /\ s.day = DayOf[s.wall]
    BY <2>2, <2>3 DEF Sample
  <2>5. Follows(s)
    <3> SUFFICES ASSUME rows # <<>>
                 PROVE  \/ d > Prev.device
                        \/ d = Prev.device /\ w >= Prev.wall /\ o = Prev.order + 1
      BY DEF Follows
    <3>1. Prev.device \in Nat /\ d \in Nat
      BY PrevParts, RowParts, Numbers
    <3> QED BY <2>1, <3>1
  <2>6. Append1(s)
    BY <2>1
  <2> HIDE DEF s
  <2> QED BY <2>4, <2>5, <2>6, Extend
<1>2. CASE NextSample
  <2>1. rows # <<>> /\ Prev \in Row
    BY <1>2, PrevParts DEF NextSample
  <2>2. PICK w \in Prev.wall .. MaxWall :
          Append1([device |-> Prev.device, base |-> Prev.base, up |-> Prev.up,
                   pkg |-> Prev.pkg, first |-> Prev.first, order |-> Prev.order,
                   wall |-> w, day |-> DayOf[w]])
    BY <1>2 DEF NextSample
  <2> DEFINE s == [device |-> Prev.device, base |-> Prev.base, up |-> Prev.up,
                   pkg |-> Prev.pkg, first |-> Prev.first, order |-> Prev.order,
                   wall |-> w, day |-> DayOf[w]]
  <2>3. Prev.wall \in Nat /\ MaxWall \in Nat
    BY <2>1, RowParts, StreamAssumption
  <2>4. w \in Wall /\ w >= Prev.wall
    BY <2>3 DEF Wall
  <2>5. DayOf[w] \in Nat
    BY <2>4, StreamAssumption
  <2>6. s \in Sample /\ s.day = DayOf[s.wall]
    BY <2>1, <2>4, <2>5 DEF Sample, Row
  <2>7. Follows(s)
    BY <2>4 DEF Follows
  <2>8. Append1(s)
    BY <2>2
  <2> HIDE DEF s
  <2> QED BY <2>6, <2>7, <2>8, Extend
<1> QED BY <1>1, <1>2

\* The stream of a phone whose clock is never set back is sorted, and its axis
\* adds up.
THEOREM StreamIsSound ==
  ASSUME ~SteppedClock
  PROVE  Spec => []StreamInv
<1>1. Init => StreamInv
  BY DEF Init, StreamInv, Sorted, Neighbours, AxisKeepsTime, Indices
<1>2. StreamInv /\ [Next]_vars => StreamInv'
  BY StreamKept, StreamStep
     DEF Next, vars, LoadAll, LoadRaises, MakeWindows
<1> QED BY <1>1, <1>2, PTL DEF Spec

\* sessionize(): two samples with one session id enclose only samples with that
\* id, and all of them belong together.
LEMMA RunsFromStream == StreamInv => SessionsAreRuns
<1> SUFFICES ASSUME StreamInv, NEW i \in Indices, NEW j \in Indices, i < j,
                    SessionOf(rows[i]) = SessionOf(rows[j]),
                    NEW k \in i .. j - 1
             PROVE  /\ SessionOf(rows[k]) = SessionOf(rows[j])
                    /\ Together(rows[k], rows[k + 1])
  BY DEF SessionsAreRuns
<1>1. Len(rows) \in Nat /\ rows \in Seq(Row)
  BY DEF StreamInv
<1>2. k \in Indices /\ k + 1 \in Indices /\ i <= k /\ k <= j /\ k + 1 <= j /\ i <= k + 1
  BY <1>1 DEF Indices
<1>3. \A m \in Indices : i <= m /\ m <= j => SessionOf(rows[m]) = SessionOf(rows[j])
  <2> SUFFICES ASSUME NEW m \in Indices, i <= m, m <= j
               PROVE  SessionOf(rows[m]) = SessionOf(rows[j])
    OBVIOUS
  <2>1. Before(rows[i], rows[m]) /\ Before(rows[m], rows[j])
    BY DEF StreamInv, Sorted
  <2>2. rows[i] \in Row /\ rows[m] \in Row /\ rows[j] \in Row
    BY <1>1 DEF Indices
  <2>3. /\ rows[i].device \in Nat /\ rows[i].day \in Nat /\ rows[i].seg \in Nat
        /\ rows[m].device \in Nat /\ rows[m].day \in Nat /\ rows[m].seg \in Nat
        /\ rows[j].device \in Nat /\ rows[j].day \in Nat /\ rows[j].seg \in Nat
    BY <2>2, RowParts
  <2>4. /\ rows[i].device = rows[j].device /\ rows[i].day = rows[j].day
        /\ rows[i].seg = rows[j].seg
    BY DEF SessionOf
  <2>5. /\ rows[m].device = rows[j].device /\ rows[m].day = rows[j].day
        /\ rows[m].seg = rows[j].seg
    BY <2>1, <2>3, <2>4 DEF Before
  <2> QED BY <2>5 DEF SessionOf
<1>4. SessionOf(rows[k]) = SessionOf(rows[j]) /\ SessionOf(rows[k + 1]) = SessionOf(rows[j])
  BY <1>2, <1>3
<1>5. Together(rows[k], rows[k + 1])
  BY <1>2, <1>4 DEF StreamInv, Neighbours
<1> QED BY <1>4, <1>5

\* No session id is given to two stretches of the stream, for any number of
\* phones, batches and samples.
THEOREM SessionsStayRuns ==
  ASSUME ~SteppedClock
  PROVE  Spec => []SessionsAreRuns
BY StreamIsSound, RunsFromStream, PTL

\* The axis that windows are cut on keeps the time inside a batch, never runs
\* backwards, and is no longer than the wall clock and the guards make it.
THEOREM AxisStaysTrue ==
  ASSUME ~SteppedClock
  PROVE  Spec => []AxisKeepsTime
<1>1. StreamInv => AxisKeepsTime
  BY DEF StreamInv
<1> QED BY <1>1, StreamIsSound, PTL

-----------------------------------------------------------------------------
(* Whatever the clocks do. *)

\* A set of numbers that has a member has a least one.
LEMMA Least ==
  ASSUME NEW S \in SUBSET Nat, S # {}
  PROVE  \E m \in S : \A k \in S : m <= k
<1> DEFINE R == OpToRel(<, Nat)
<1>1. IsWellFoundedOn(R, Nat)
  BY NatLessThanWellFounded
<1>2. \A a, b \in Nat : <<a, b>> \in R <=> a < b
  BY DEF OpToRel
<1> HIDE DEF R
<1>3. PICK m \in S : \A k \in S : <<k, m>> \notin R
  BY <1>1, WFMin
<1>4. \A k \in S : m <= k
  <2> TAKE k \in S
  <2>1. k \in Nat /\ m \in Nat /\ ~(k < m)
    BY <1>2, <1>3
  <2> QED BY <2>1
<1> QED BY <1>4

\* Of the numbers that a function gives to finitely many indices one is largest.
LEMMA Largest ==
  ASSUME NEW n \in Nat, NEW S \in SUBSET (0 .. n), S # {},
         NEW f, \A i \in S : f[i] \in Nat
  PROVE  \E i \in S : \A j \in S : f[j] <= f[i]
<1> DEFINE Upto(k) == {i \in S : i <= k}
           Bad == {k \in 0 .. n : /\ Upto(k) # {}
                                  /\ \A i \in Upto(k) : \E j \in Upto(k) : ~(f[j] <= f[i])}
<1>1. \A i \in S : i \in Nat /\ i <= n /\ f[i] \in Nat
  OBVIOUS
<1>2. Bad = {}
  <2> SUFFICES ASSUME Bad # {} PROVE FALSE
    OBVIOUS
  <2>1. Bad \in SUBSET Nat
    OBVIOUS
  <2>2. PICK m \in Bad : \A k \in Bad : m <= k
    <3> HIDE DEF Bad
    <3> QED BY <2>1, Least
  <2>3. m \in 0 .. n /\ m \in Nat /\ m - 1 \notin Bad
    BY <2>1, <2>2
  <2>4. Upto(m) # {} /\ \A i \in Upto(m) : \E j \in Upto(m) : ~(f[j] <= f[i])
    BY <2>2
  <2>5. \A i \in S : i <= m <=> i <= m - 1 \/ i = m
    BY <1>1, <2>3
  <2>6. CASE Upto(m - 1) = {}
    <3>1. \A i \in Upto(m) : i = m
      BY <2>5, <2>6
    <3>2. m \in Upto(m) /\ f[m] \in Nat
      BY <1>1, <2>4, <3>1
    <3>3. f[m] <= f[m]
      BY <3>2
    <3> QED BY <2>4, <3>1, <3>2, <3>3
  <2>7. CASE Upto(m - 1) # {}
    <3>1. PICK i \in S : i <= m - 1
      BY <2>7
    <3>2. m - 1 \in 0 .. n
      BY <1>1, <2>3, <3>1
    <3>3. PICK h \in Upto(m - 1) : \A j \in Upto(m - 1) : f[j] <= f[h]
      BY <2>3, <2>7, <3>2
    <3>4. h \in Upto(m) /\ h \in S
      BY <2>5, <3>3
    <3>5. PICK j \in Upto(m) : ~(f[j] <= f[h])
      BY <2>4, <3>4
    <3>6. j = m /\ m \in S
      BY <2>5, <3>3, <3>5
    <3>7. f[m] \in Nat /\ f[h] \in Nat /\ f[h] <= f[m]
      BY <1>1, <3>4, <3>5, <3>6
    <3>8. ASSUME NEW k \in Upto(m) PROVE f[k] <= f[m]
      <4>1. f[k] \in Nat /\ (k = m \/ f[k] <= f[h])
        BY <1>1, <2>5, <3>3
      <4> QED BY <3>7, <4>1
    <3>9. m \in Upto(m)
      BY <3>5, <3>6
    <3> QED BY <2>4, <3>8, <3>9
  <2> QED BY <2>6, <2>7
<1>3. Upto(n) = S
  BY <1>1
<1>4. n \in 0 .. n
  OBVIOUS
<1> QED BY <1>2, <1>3, <1>4

\* Samples come by device, then by batch, then by wall time.
InOrder(r, s) ==
  \/ r.device < s.device
  \/ r.device = s.device /\ r.order < s.order
  \/ r.device = s.device /\ r.order = s.order /\ r.wall <= s.wall

BatchInv ==
  /\ rows \in Seq(Row)
  /\ \A i, j \in Indices : i <= j => InOrder(rows[i], rows[j])
  /\ \A i, j \in Indices :
       j = i + 1 /\ SessionOf(rows[i]) = SessionOf(rows[j]) => rows[i].at <= rows[j].at

\* The last sample, and the last sample of a session.
LEMMA LastSample ==
  ASSUME BatchInv, rows # <<>>
  PROVE  /\ Len(rows) \in Indices /\ Len(rows) \in Nat
         /\ Prev = rows[Len(rows)] /\ Prev \in Row
<1>1. Len(rows) \in Nat \ {0} /\ rows \in Seq(Row)
  BY DEF BatchInv
<1>2. Len(rows) \in Indices
  BY <1>1 DEF Indices
<1> QED BY <1>1, <1>2 DEF Prev

\* A set of indices has a last one.
LEMMA LastIndex ==
  ASSUME BatchInv, NEW S \in SUBSET Indices, S # {}
  PROVE  LET j == CHOOSE j \in S : \A i \in S : i <= j
         IN j \in S /\ \A i \in S : i <= j
<1>1. Len(rows) \in Nat
  BY DEF BatchInv
<1>2. S \in SUBSET (0 .. Len(rows)) /\ \A i \in S : i \in Nat
  BY <1>1 DEF Indices
<1> DEFINE f == [i \in S |-> i]
<1>3. \A i \in S : f[i] \in Nat /\ f[i] = i
  BY <1>2
<1> HIDE DEF f
<1>4. PICK j \in S : \A i \in S : f[i] <= f[j]
  BY <1>1, <1>2, <1>3, Largest
<1>5. \A i \in S : i <= j
  BY <1>3, <1>4
<1> QED BY <1>5

\* A sample that comes after the last one extends the stream in order, at a
\* place on its axis that is a number.
LEMMA ExtendBatches ==
  ASSUME BatchInv, NEW s \in Sample, rows # <<>> => InOrder(Prev, s), Append1(s)
  PROVE  BatchInv'
<1> DEFINE n == Len(rows)
           session == <<s.device, s.day, Seg(s)>>
           r == [device |-> s.device, order |-> s.order, base |-> s.base,
                 up |-> s.up, pkg |-> s.pkg, first |-> s.first,
                 wall |-> s.wall, day |-> s.day,
                 seg |-> Seg(s), at |-> At(s, session)]
           same == {i \in Indices : SessionOf(rows[i]) = session}
<1>1. rows \in Seq(Row) /\ n \in Nat /\ Indices = 1 .. n
  BY DEF BatchInv, Indices
<1>2. /\ s.device \in Nat /\ s.order \in Nat /\ s.wall \in Nat
  BY SampleParts
<1>3. \A i \in Indices : /\ rows[i] \in Row /\ rows[i].device \in Nat /\ rows[i].order \in Nat
                         /\ rows[i].wall \in Nat /\ rows[i].at \in Nat
  BY <1>1, RowParts
<1>4. \A i \in Indices : InOrder(rows[i], s)
  <2> SUFFICES ASSUME NEW i \in Indices PROVE InOrder(rows[i], s)
    OBVIOUS
  <2>1. rows # <<>> /\ i <= n
    BY <1>1
  <2>2. n \in Indices /\ Prev = rows[n] /\ InOrder(Prev, s)
    BY <2>1, LastSample
  <2>3. InOrder(rows[i], Prev)
    BY <2>1, <2>2 DEF BatchInv
  <2> QED BY <1>2, <1>3, <2>2, <2>3 DEF InOrder
<1>5. Seg(s) \in Nat
  <2>1. rows # <<>> => Prev.seg \in Nat
    BY LastSample, RowParts
  <2> QED BY <2>1 DEF Seg
<1>6. At(s, session) \in Nat /\ (n \in same => rows[n].at <= At(s, session))
  <2>1. CASE same = {}
    BY <2>1 DEF At
  <2>2. CASE same # {}
    <3> DEFINE j == CHOOSE j \in same : \A i \in same : i <= j
    <3>1. j \in same /\ \A i \in same : i <= j
      BY <2>2, LastIndex
    <3>2. At(s, session) = Place(s, j)
      BY <2>2 DEF At
    <3> HIDE DEF j
    <3>3. j \in Indices /\ rows[j].device = s.device /\ InOrder(rows[j], s)
      BY <1>4, <3>1 DEF SessionOf
    <3>4. s.order = rows[j].order => s.wall >= rows[j].wall
      BY <1>2, <1>3, <3>3 DEF InOrder
    <3>5. At(s, session) \in Nat /\ rows[j].at <= At(s, session)
      BY <1>2, <1>3, <3>2, <3>3, <3>4, WindowAssumption DEF Place
    <3>6. n \in same => j = n
      BY <1>1, <3>1, <3>3
    <3> QED BY <3>5, <3>6
  <2> QED BY <2>1, <2>2
<1>7. r \in Row
  BY <1>5, <1>6 DEF Sample, Row
<1>8. rows' = Append(rows, r)
  BY DEF Append1
<1>9. /\ rows' \in Seq(Row) /\ Len(rows') = n + 1
      /\ \A i \in 1 .. n : rows'[i] = rows[i]
      /\ rows'[n + 1] = r
  BY <1>1, <1>7, <1>8
<1>10. Indices' = 1 .. n + 1 /\ \A i \in Indices' : i \in Indices \/ i = n + 1
  BY <1>1, <1>9 DEF Indices
<1>11. /\ \A i \in Indices : InOrder(rows[i], r)
       /\ InOrder(r, r)
  <2>1. r.device = s.device /\ r.order = s.order /\ r.wall = s.wall
    OBVIOUS
  <2> HIDE DEF r
  <2> QED BY <1>2, <1>4, <2>1 DEF InOrder
<1> HIDE DEF r
<1>12. ASSUME NEW i \in Indices', NEW j \in Indices', i <= j
       PROVE  InOrder(rows'[i], rows'[j])
  <2>1. CASE j \in Indices
    BY <1>1, <1>9, <1>10, <1>12, <2>1 DEF BatchInv
  <2>2. CASE j = n + 1
    BY <1>1, <1>9, <1>10, <1>11, <1>12, <2>2
  <2> QED BY <1>10, <2>1, <2>2
<1>13. ASSUME NEW i \in Indices', NEW j \in Indices', j = i + 1,
              SessionOf(rows'[i]) = SessionOf(rows'[j])
       PROVE  rows'[i].at <= rows'[j].at
  <2>1. CASE j \in Indices
    BY <1>1, <1>9, <1>10, <1>13, <2>1 DEF BatchInv
  <2>2. CASE j = n + 1
    <3>1. i = n /\ n \in Indices /\ rows'[i] = rows[n] /\ rows'[j] = r
      BY <1>1, <1>9, <1>10, <1>13, <2>2
    <3>2. SessionOf(r) = session /\ r.at = At(s, session)
      BY DEF SessionOf, r
    <3>3. n \in same
      BY <1>13, <3>1, <3>2
    <3> QED BY <1>6, <3>1, <3>2, <3>3
  <2> QED BY <1>10, <2>1, <2>2
<1> QED BY <1>9, <1>12, <1>13 DEF BatchInv, SessionOf

\* Both actions add a sample that comes after the last one.
LEMMA BatchesGrow ==
  ASSUME BatchInv, StartBatch \/ NextSample
  PROVE  BatchInv'
<1>1. CASE StartBatch
  <2>1. PICK d \in Device, b \in Base, u \in Uploaded, k \in Package, w \in Wall :
          /\ rows # <<>> => d >= Prev.device
          /\ Append1([device |-> d, base |-> b, up |-> u, pkg |-> k,
                      first |-> w, wall |-> w, day |-> DayOf[w],
                      order |-> IF rows = <<>> \/ d # Prev.device THEN 0
                                ELSE Prev.order + 1])
    BY <1>1 DEF StartBatch
  <2> DEFINE o == IF rows = <<>> \/ d # Prev.device THEN 0 ELSE Prev.order + 1
             s == [device |-> d, base |-> b, up |-> u, pkg |-> k,
                   first |-> w, wall |-> w, day |-> DayOf[w], order |-> o]
  <2>2. rows # <<>> => Prev.device \in Nat /\ Prev.order \in Nat
    BY LastSample, RowParts
  <2>3. o \in Nat /\ d \in Nat /\ DayOf[w] \in Nat
    BY <2>2, Numbers, StreamAssumption
  <2>4. s \in Sample
    BY <2>3 DEF Sample
  <2>5. rows # <<>> => InOrder(Prev, s)
    BY <2>1, <2>2, <2>3 DEF InOrder
  <2>6. Append1(s)
    BY <2>1
  <2> HIDE DEF s
  <2> QED BY <2>4, <2>5, <2>6, ExtendBatches
<1>2. CASE NextSample
  <2>1. rows # <<>> /\ Prev \in Row
    BY <1>2, LastSample DEF NextSample
  <2>2. PICK w \in Prev.wall .. MaxWall :
          Append1([device |-> Prev.device, base |-> Prev.base, up |-> Prev.up,
                   pkg |-> Prev.pkg, first |-> Prev.first, order |-> Prev.order,
                   wall |-> w, day |-> DayOf[w]])
    BY <1>2 DEF NextSample
  <2> DEFINE s == [device |-> Prev.device, base |-> Prev.base, up |-> Prev.up,
                   pkg |-> Prev.pkg, first |-> Prev.first, order |-> Prev.order,
                   wall |-> w, day |-> DayOf[w]]
  <2>3. Prev.wall \in Nat /\ MaxWall \in Nat
    BY <2>1, RowParts, StreamAssumption
  <2>4. w \in Wall /\ w >= Prev.wall
    BY <2>3 DEF Wall
  <2>5. DayOf[w] \in Nat
    BY <2>4, StreamAssumption
  <2>6. s \in Sample
    BY <2>1, <2>4, <2>5 DEF Sample, Row
  <2>7. InOrder(Prev, s)
    BY <2>4 DEF InOrder
  <2>8. Append1(s)
    BY <2>2
  <2> HIDE DEF s
  <2> QED BY <2>6, <2>7, <2>8, ExtendBatches
<1> QED BY <1>1, <1>2

\* Once cut, the windows are those of the sessions that were kept.
CutInv == stage = "windows" => windows = UNION {WindowsOf(s) : s \in Kept}

WindowInv == BatchInv /\ CutInv /\ (stage # "windows" => windows = {})

\* The stream is in order and its windows are cut from the whole of it, even if
\* a phone's clock is set back.
THEOREM WindowsAreCut == Spec => []WindowInv
<1>1. Init => WindowInv
  BY DEF Init, WindowInv, BatchInv, CutInv, Indices
<1>2. WindowInv /\ [Next]_vars => WindowInv'
  <2> SUFFICES ASSUME WindowInv, [Next]_vars PROVE WindowInv'
    OBVIOUS
  <2>1. CASE StartBatch \/ NextSample
    <3>1. stage = "rows" /\ UNCHANGED <<stage, windows>>
      BY <2>1 DEF StartBatch, NextSample
    <3> QED BY <2>1, <3>1, BatchesGrow DEF WindowInv, CutInv
  <2>2. CASE MakeWindows
    BY <2>2 DEF MakeWindows, WindowInv, BatchInv, CutInv, Indices, Kept, Own, Sessions, Long,
       Members, WindowsOf, LastAt, Inside, SessionOf
  <2>3. CASE LoadAll \/ LoadRaises
    <3>1. stage = "load" /\ stage' # "windows" /\ UNCHANGED <<rows, windows>>
      BY <2>3 DEF LoadAll, LoadRaises
    <3>2. BatchInv'
      BY <3>1 DEF WindowInv, BatchInv, Indices
    <3> QED BY <3>1, <3>2 DEF WindowInv, CutInv
  <2>4. CASE UNCHANGED vars
    <3>1. UNCHANGED <<stage, rows, windows>>
      BY <2>4 DEF vars
    <3>2. BatchInv'
      BY <3>1 DEF WindowInv, BatchInv, Indices
    <3>3. UNION {WindowsOf(s) : s \in Kept}' = UNION {WindowsOf(s) : s \in Kept}
      BY <3>1 DEF Indices, Kept, Own, Sessions, Long, Members, WindowsOf, LastAt, Inside,
         SessionOf
    <3> QED BY <3>1, <3>2, <3>3 DEF WindowInv, CutInv
  <2> QED BY <2>1, <2>2, <2>3, <2>4 DEF Next
<1> QED BY <1>1, <1>2, PTL DEF Spec

-----------------------------------------------------------------------------
(* Windows miss nothing. *)

\* The product of two numbers is one, and a positive factor makes it no smaller.
LEMMA Multiples ==
  \A m \in Nat : /\ m * Stride \in Nat
                 /\ m <= m * Stride
                 /\ (m + 1) * Stride = m * Stride + Stride
  BY WindowAssumption

\* The last window that starts before a place on the axis reaches beyond it: it
\* is left by then only where the next one would not fit any more.
LEMMA LastStart ==
  ASSUME NEW a \in Nat, NEW L \in Nat, a <= L, L + Stride >= Window
  PROVE  \E b \in Starts(L) : /\ b \in Nat
                              /\ b <= a /\ a < b + Window
                              /\ a < b + Stride \/ L < b + Window
<1> DEFINE Good == {m \in 0 .. L : m * Stride + Window <= L + Stride /\ m * Stride <= a}
           f == [m \in Good |-> m]
<1>1. Stride \in Nat /\ Window \in Nat /\ 1 <= Stride /\ Stride <= Window
  BY WindowAssumption
<1>2. 0 \in Good
  BY <1>1
<1>3. Good \in SUBSET (0 .. L) /\ \A m \in Good : f[m] \in Nat /\ f[m] = m
  OBVIOUS
<1>4. PICK m \in Good : \A k \in Good : k <= m
  <2> HIDE DEF Good, f
  <2>1. PICK m \in Good : \A k \in Good : f[k] <= f[m]
    BY <1>2, <1>3, Largest
  <2> QED BY <1>3, <2>1
<1>5. m \in Nat /\ m <= L /\ m * Stride + Window <= L + Stride /\ m * Stride <= a
  BY <1>3, <1>4
<1>6. /\ m * Stride \in Nat /\ m + 1 \in Nat /\ m + 1 <= (m + 1) * Stride
      /\ (m + 1) * Stride = m * Stride + Stride
  BY <1>5, Multiples
<1>7. m + 1 \notin Good
  BY <1>4, <1>5
<1> DEFINE b == m * Stride
           c == (m + 1) * Stride
<1>8. m + 1 \notin 0 .. L \/ ~(c + Window <= L + Stride) \/ ~(c <= a)
  BY <1>7
<1>9. b \in Starts(L)
  BY <1>4, <1>5 DEF Starts
<1>10. b \in Nat /\ c = b + Stride /\ m + 1 <= c /\ b + Window <= L + Stride /\ b <= a
  BY <1>5, <1>6
<1> HIDE DEF b, c, Good
<1>11. a < b + Stride \/ L < b + Window
  BY <1>1, <1>5, <1>8, <1>10
<1>12. a < b + Window
  BY <1>1, <1>10, <1>11
<1> QED BY <1>9, <1>10, <1>11, <1>12

\* The end of a session's axis is the place of its last sample.
LEMMA EndOfAxis ==
  ASSUME BatchInv, NEW s \in Sessions
  PROVE  /\ LastAt(s) \in Nat
         /\ \A i \in Members(s) : rows[i].at \in Nat /\ rows[i].at <= LastAt(s)
<1> DEFINE n == Len(rows)
           f == [i \in Members(s) |-> rows[i].at]
<1>1. rows \in Seq(Row) /\ n \in Nat /\ Indices = 1 .. n
  BY DEF BatchInv, Indices
<1>2. Members(s) \in SUBSET (0 .. n) /\ Members(s) # {}
  BY <1>1 DEF Members, Sessions
<1>3. \A i \in Members(s) : rows[i].at \in Nat /\ f[i] = rows[i].at
  BY <1>1, RowParts DEF Members
<1> HIDE DEF f
<1>4. PICK i \in Members(s) : \A j \in Members(s) : f[j] <= f[i]
  BY <1>1, <1>2, <1>3, Largest
<1>5. \E a \in {rows[j].at : j \in Members(s)} : \A j \in Members(s) : rows[j].at <= a
  BY <1>3, <1>4
<1>6. /\ LastAt(s) \in {rows[j].at : j \in Members(s)}
      /\ \A j \in Members(s) : rows[j].at <= LastAt(s)
  BY <1>5 DEF LastAt
<1> QED BY <1>3, <1>6

\* A sample of a session that is long enough is inside one of its windows, and
\* so are the samples after it that come soon enough.
LEMMA SampleIsInside ==
  ASSUME WindowInv, stage = "windows", NEW s \in Kept, Spans(s), NEW i \in Members(s)
  PROVE  \E w \in windows :
           /\ w.session = s /\ i \in w.samples
           /\ \A j \in Members(s) :
                /\ rows[i].at <= rows[j].at
                /\ rows[j].at + Stride <= rows[i].at + Window
                => j \in w.samples
<1> DEFINE L == LastAt(s)
           a == rows[i].at
<1>1. BatchInv /\ s \in Sessions /\ windows = UNION {WindowsOf(k) : k \in Kept}
  BY DEF WindowInv, CutInv, Kept
<1>2. L \in Nat /\ \A j \in Members(s) : rows[j].at \in Nat /\ rows[j].at <= L
  BY <1>1, EndOfAxis
<1>3. a \in Nat /\ a <= L /\ L + Stride >= Window
  BY <1>2 DEF Spans
<1> HIDE DEF L, a
<1>4. PICK b \in Starts(L) : /\ b \in Nat
                             /\ b <= a /\ a < b + Window
                             /\ a < b + Stride \/ L < b + Window
  BY <1>2, <1>3, LastStart
<1> DEFINE w == [session |-> s, start |-> b, samples |-> Inside(s, b)]
<1>5. i \in Inside(s, b)
  BY <1>4 DEF Inside, a
<1>6. w \in WindowsOf(s)
  <2>1. Inside(s, b) \in SUBSET Members(s)
    BY DEF Inside
  <2> QED BY <1>4, <1>5, <2>1 DEF WindowsOf, L
<1>7. ASSUME NEW j \in Members(s), a <= rows[j].at, rows[j].at + Stride <= a + Window
      PROVE  j \in Inside(s, b)
  <2>1. rows[j].at \in Nat /\ rows[j].at <= L
    BY <1>2
  <2>2. Stride \in Nat /\ Window \in Nat
    BY WindowAssumption
  <2>3. b <= rows[j].at /\ rows[j].at < b + Window
    BY <1>2, <1>3, <1>4, <1>7, <2>1, <2>2
  <2> QED BY <2>3 DEF Inside
<1> QED BY <1>1, <1>5, <1>6, <1>7 DEF a

\* A window is one of a session that was kept and spans a whole window.
LEMMA WindowsSpan ==
  ASSUME WindowInv, stage = "windows", NEW w \in windows
  PROVE  w.session \in Kept /\ Spans(w.session)
<1>1. PICK s \in Kept : w \in WindowsOf(s)
  BY DEF WindowInv, CutInv
<1>2. w.session = s /\ w.start \in Starts(LastAt(s))
  BY <1>1 DEF WindowsOf
<1>3. LastAt(s) \in Nat
  BY <1>1, EndOfAxis DEF WindowInv, Kept
<1>4. PICK m \in 0 .. LastAt(s) : m * Stride + Window <= LastAt(s) + Stride
  BY <1>2 DEF Starts
<1>5. m * Stride \in Nat /\ Window \in Nat /\ Stride \in Nat
  BY <1>3, Multiples, WindowAssumption
<1> QED BY <1>1, <1>2, <1>3, <1>4, <1>5 DEF Spans

\* No sample of a session that is long enough falls between two windows or off
\* its end, and sessions that are too short give no window, whatever the gap,
\* the window, the stride and the guard, and even if clocks are set back.
THEOREM SamplesAreWindowed == Spec => []EverySampleWindowed
<1>1. WindowInv => EverySampleWindowed
  BY SampleIsInside, WindowsSpan DEF EverySampleWindowed
<1> QED BY <1>1, WindowsAreCut, PTL

\* Whatever happened between two samples of a session falls into the wall
\* bounds of one of its windows, unless a batch was silent for longer than two
\* windows share; a pause between two batches loses nothing, however long.
THEOREM MomentsAreSeen == Spec => []EveryMomentIsSeen
<1>1. WindowInv => EveryMomentIsSeen
  <2> SUFFICES ASSUME WindowInv, stage = "windows", NEW s \in Kept, Spans(s),
                      NEW i \in Members(s), i + 1 \in Members(s),
                      rows[i + 1].at + Stride <= rows[i].at + Window,
                      NEW t \in rows[i].wall .. rows[i + 1].wall
               PROVE  \E w \in windows : w.session = s /\ Sees(w, t)
    BY DEF EveryMomentIsSeen
  <2>1. rows \in Seq(Row) /\ Len(rows) \in Nat /\ Indices = 1 .. Len(rows)
    BY DEF WindowInv, BatchInv, Indices
  <2>2. /\ i \in Indices /\ i + 1 \in Indices
        /\ SessionOf(rows[i]) = SessionOf(rows[i + 1])
    BY DEF Members
  <2>3. rows[i].at <= rows[i + 1].at
    BY <2>2 DEF WindowInv, BatchInv
  <2>4. PICK w \in windows : w.session = s /\ i \in w.samples /\ i + 1 \in w.samples
    BY <2>3, SampleIsInside
  <2>5. rows[i].wall \in Nat /\ rows[i + 1].wall \in Nat
    BY <2>1, <2>2, RowParts
  <2>6. t \in Int /\ rows[i].wall <= t /\ t < rows[i + 1].wall + 1
    BY <2>5
  <2> QED BY <2>4, <2>6 DEF Sees
<1> QED BY <1>1, WindowsAreCut, PTL

-----------------------------------------------------------------------------
(* Types. *)

Ranges ==
  /\ stage \in {"load", "rows", "windows", "raised"}
  /\ damage \subseteq {"torn", "invalid", "garbled"}

\* Windows hold samples of the stream and start at a number on a session's axis.
LEMMA WindowTypes ==
  ASSUME WindowInv, NEW w \in windows
  PROVE  w \in [session : Sessions, start : Nat, samples : SUBSET Indices]
<1>1. stage = "windows" /\ BatchInv
  BY DEF WindowInv
<1>2. PICK s \in Kept : w \in WindowsOf(s)
  BY <1>1 DEF WindowInv, CutInv
<1>3. s \in Sessions /\ LastAt(s) \in Nat
  BY <1>1, EndOfAxis DEF Kept
<1>4. Starts(LastAt(s)) \subseteq Nat
  BY <1>3, Multiples DEF Starts
<1>5. Members(s) \subseteq Indices
  BY DEF Members
<1> QED BY <1>2, <1>3, <1>4, <1>5 DEF WindowsOf

\* The stream and the windows have their types, whatever the clocks do.
THEOREM Typing == Spec => []TypeOK
<1>1. Init => Ranges
  BY DEF Init, Ranges
<1>2. Ranges /\ [Next]_vars => Ranges'
  BY DEF Ranges, Next, LoadAll, LoadRaises, StartBatch, NextSample, MakeWindows, vars
<1>3. WindowInv /\ Ranges => TypeOK
  <2> SUFFICES ASSUME WindowInv, Ranges PROVE TypeOK
    OBVIOUS
  <2>1. \A i \in Indices : rows[i] \in Row
    BY DEF WindowInv, BatchInv, Indices
  <2>2. windows \subseteq [session : Sessions, start : Nat, samples : SUBSET Indices]
    BY WindowTypes
  <2> QED BY <2>1, <2>2 DEF TypeOK, Ranges
<1> QED BY <1>1, <1>2, <1>3, WindowsAreCut, PTL DEF Spec

=============================================================================
