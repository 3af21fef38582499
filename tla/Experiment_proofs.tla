------------------------- MODULE Experiment_proofs -------------------------
(***************************************************************************)
(* What holds of every window table: no build fails its own leakage check, *)
(* what a protocol holds out is unseen, and the scores of an experiment    *)
(* over a directory that is built once come from unseen sessions.          *)
(***************************************************************************)
EXTENDS Validation, TLAPS, FiniteSetTheorems, WellFoundedInduction

Disjoint(t, s, col) ==
  /\ Apart(t, s.train, s.test, col)
  /\ Apart(t, s.val, s.test, col)
  /\ Apart(t, s.train, s.val, col)

\* Rows with one key get one label, so that no key is dealt to two splits.
LEMMA DealByKey ==
  ASSUME NEW t, NEW label, NEW col, NEW cols, NEW notes,
         DOMAIN label = DOMAIN t,
         \A i, j \in DOMAIN t : t[i][col] = t[j][col] => label[i] = label[j]
  PROVE  Disjoint(t, Deal(label, cols, notes), col)
BY DEF Disjoint, Apart, Values, Deal

\* What is dealt out are rows of the table.
LEMMA DealTypes ==
  ASSUME NEW t, NEW label, NEW cols, NEW notes, DOMAIN label = DOMAIN t
  PROVE  LET s == Deal(label, cols, notes)
         IN /\ s.train \subseteq DOMAIN t /\ s.val \subseteq DOMAIN t /\ s.test \subseteq DOMAIN t
            /\ s.cols = cols
BY DEF Deal

\* A session has one user, one day and one app.
LEMMA OneOfEach ==
  ASSUME NEW p \in Protocol, NEW t \in Tables[p],
         NEW i \in DOMAIN t, NEW j \in DOMAIN t, t[i].session = t[j].session
  PROVE  t[i].user = t[j].user /\ t[i].day = t[j].day /\ t[i].app = t[j].app
BY TablesAssumption

SplitIsSound(t, s) ==
  /\ s.train \subseteq DOMAIN t /\ s.val \subseteq DOMAIN t /\ s.test \subseteq DOMAIN t
  /\ s.cols \subseteq {"session", "day", "app"}
  /\ Apart(t, s.train, s.test, "session") /\ Apart(t, s.val, s.test, "session")
  /\ "day" \in s.cols => Apart(t, s.train, s.test, "day")
  /\ "app" \in s.cols => Apart(t, s.train, s.test, "app")
  /\ \/ Apart(t, s.val, s.train, "session")
     \/ "combined_empty_val_borrowed_train" \in s.notes

\* Keys that are apart one way are apart the other.
LEMMA ApartBothWays ==
  ASSUME NEW t, NEW R, NEW S, NEW col
  PROVE  Apart(t, R, S, col) <=> Apart(t, S, R, col)
BY DEF Apart

\* leave_session_out keeps every session in one split.
LEMMA SessionOutIsSound ==
  ASSUME NEW p \in Protocol, NEW t \in Tables[p], NEW rank
  PROVE  SplitIsSound(t, LeaveSessionOut(t, rank))
<1> DEFINE label == [i \in DOMAIN t |->
              Label(rank, SessionsOf(t, t[i].user), t[i].session, Fraction("leave_session_out"))]
           notes == IF \E u \in Keys(t, "user") : Cardinality(SessionsOf(t, u)) = 1
                    THEN {"user_single_session_not_testable"} ELSE {}
<1>1. LeaveSessionOut(t, rank) = Deal(label, {"session"}, notes)
  BY DEF LeaveSessionOut
<1>2. \A i, j \in DOMAIN t : t[i].session = t[j].session => label[i] = label[j]
  BY OneOfEach
<1>3. DOMAIN label = DOMAIN t
  OBVIOUS
<1> HIDE DEF label, notes
<1>4. \A i, j \in DOMAIN t : t[i]["session"] = t[j]["session"] => label[i] = label[j]
  BY <1>2
<1>5. Disjoint(t, Deal(label, {"session"}, notes), "session")
  BY <1>3, <1>4, DealByKey
<1> QED
  BY <1>1, <1>3, <1>5, DealTypes, ApartBothWays DEF SplitIsSound, Disjoint

\* leave_app_out keeps every bucket, hence every session, in one split.
LEMMA AppOutIsSound ==
  ASSUME NEW p \in Protocol, NEW t \in Tables[p], NEW rank
  PROVE  LET s == LeaveAppOut(t, rank)
         IN SplitIsSound(t, s) /\ Disjoint(t, s, "app")
<1> DEFINE label == [i \in DOMAIN t |->
              Label(rank, Keys(t, "app"), t[i].app, Fraction("leave_app_out"))]
<1>1. LeaveAppOut(t, rank) = Deal(label, {"app"}, {})
  BY DEF LeaveAppOut
<1>2. \A i, j \in DOMAIN t : t[i].app = t[j].app => label[i] = label[j]
  OBVIOUS
<1>3. DOMAIN label = DOMAIN t
  OBVIOUS
<1> HIDE DEF label
<1>4. \A i, j \in DOMAIN t : t[i].session = t[j].session => label[i] = label[j]
  BY <1>2, OneOfEach
<1>5. Disjoint(t, Deal(label, {"app"}, {}), "app")
  BY <1>2, <1>3, DealByKey
<1>6. Disjoint(t, Deal(label, {"app"}, {}), "session")
  BY <1>4, <1>3, DealByKey
<1> QED
  BY <1>1, <1>3, <1>5, <1>6, DealTypes, ApartBothWays DEF SplitIsSound, Disjoint

\* leave_day_out over two days keeps sessions and test days apart.
LEMMA TwoDayIsSound ==
  ASSUME NEW p \in Protocol, NEW t \in Tables[p]
  PROVE  LET s == Deal([i \in DOMAIN t |-> TwoDay(t, i)], {"day"}, {})
         IN SplitIsSound(t, s) /\ Apart(t, s.val, s.test, "day")
<1> DEFINE label == [i \in DOMAIN t |-> TwoDay(t, i)]
           s == Deal(label, {"day"}, {})
<1>1. DOMAIN label = DOMAIN t
  OBVIOUS
<1>2. \A i, j \in DOMAIN t : t[i].session = t[j].session => label[i] = label[j]
  <2> SUFFICES ASSUME NEW i \in DOMAIN t, NEW j \in DOMAIN t, t[i].session = t[j].session
               PROVE  TwoDay(t, i) = TwoDay(t, j)
    OBVIOUS
  <2>1. t[i].day = t[j].day
    BY OneOfEach
  <2> QED
    BY <2>1 DEF TwoDay
<1>3. \A i, j \in DOMAIN t : t[i].day = t[j].day /\ label[i] = "test" => label[j] = "test"
  <2> SUFFICES ASSUME NEW i \in DOMAIN t, NEW j \in DOMAIN t,
                      t[i].day = t[j].day, TwoDay(t, i) = "test"
               PROVE  TwoDay(t, j) = "test"
    OBVIOUS
  <2>1. \A d \in Keys(t, "day") : d <= t[i].day
    BY DEF TwoDay
  <2> QED
    BY <2>1 DEF TwoDay
<1> HIDE DEF label
<1>4. Disjoint(t, s, "session")
  BY <1>1, <1>2, DealByKey
<1>5. Apart(t, s.train, s.test, "day") /\ Apart(t, s.val, s.test, "day")
  BY <1>1, <1>3 DEF Apart, Values, Deal
<1> QED
  BY <1>1, <1>4, <1>5, DealTypes, ApartBothWays DEF SplitIsSound, Disjoint, label

\* leave_day_out over three days or more keeps every day in one split.
LEMMA ManyDaysIsSound ==
  ASSUME NEW p \in Protocol, NEW t \in Tables[p]
  PROVE  LET s == Deal([i \in DOMAIN t |-> ManyDays(t, i)], {"day"}, {})
         IN SplitIsSound(t, s) /\ Disjoint(t, s, "day")
<1> DEFINE label == [i \in DOMAIN t |-> ManyDays(t, i)]
           s == Deal(label, {"day"}, {})
<1>1. DOMAIN label = DOMAIN t
  OBVIOUS
<1>2. \A i, j \in DOMAIN t : t[i].day = t[j].day => label[i] = label[j]
  BY DEF ManyDays
<1> HIDE DEF label
<1>3. \A i, j \in DOMAIN t : t[i].session = t[j].session => label[i] = label[j]
  BY <1>2, OneOfEach
<1>4. Disjoint(t, s, "session")
  BY <1>1, <1>3, DealByKey
<1>5. Disjoint(t, s, "day")
  BY <1>1, <1>2, DealByKey
<1> QED
  BY <1>1, <1>4, <1>5, DealTypes, ApartBothWays DEF SplitIsSound, Disjoint, label

\* leave_day_out is sound with any number of days, the fallback included.
LEMMA DayOutIsSound ==
  ASSUME NEW p \in Protocol, NEW t \in Tables[p], NEW rank
  PROVE  LET s == LeaveDayOut(t, rank)
         IN SplitIsSound(t, s)
<1> DEFINE F == LeaveSessionOut(t, rank)
<1>1. SplitIsSound(t, [F EXCEPT
         !.notes = @ \cup {"leave_day_out_fell_back_to_leave_session_out"}])
  <2>1. SplitIsSound(t, F)
    BY SessionOutIsSound
  <2> QED
    BY <2>1 DEF SplitIsSound, LeaveSessionOut, Deal
<1> QED
  BY <1>1, TwoDayIsSound, ManyDaysIsSound DEF LeaveDayOut

(* The strictest protocol. *)

\* The fallbacks leave train alone, and hand a row out twice only to val.
LEMMA FilledFrom ==
  ASSUME NEW label, NEW cols, NEW notes
  PROVE  LET raw == Deal(label, cols, notes)
             s == FillVal(FillTest(raw))
         IN /\ s.train = raw.train /\ s.cols = raw.cols
            /\ \/ s.test = raw.test /\ s.val \in {raw.val, LastRow(raw.train)}
               \/ s.test = raw.val /\ s.val = LastRow(raw.train)
            /\ \/ s.val = {}
               \/ s.test = raw.test /\ s.val = raw.val
               \/ "combined_empty_val_borrowed_train" \in s.notes
<1> DEFINE raw == Deal(label, cols, notes)
           mid == FillTest(raw)
           s == FillVal(mid)
<1>1. raw = [train |-> raw.train, val |-> raw.val, test |-> raw.test,
             cols |-> raw.cols, notes |-> raw.notes]
  BY DEF Deal
<1> HIDE DEF raw
<1>2. /\ mid = [train |-> mid.train, val |-> mid.val, test |-> mid.test,
                cols |-> mid.cols, notes |-> mid.notes]
      /\ mid.train = raw.train /\ mid.cols = raw.cols
      /\ \/ mid.test = raw.test /\ mid.val = raw.val
         \/ mid.test = raw.val /\ mid.val = {}
  BY <1>1 DEF FillTest
<1> HIDE DEF mid
<1>3. /\ s.train = mid.train /\ s.cols = mid.cols /\ s.test = mid.test
      /\ \/ /\ s.val = LastRow(mid.train)
            /\ "combined_empty_val_borrowed_train" \in s.notes
         \/ s.val = mid.val /\ (mid.val # {} \/ mid.train = {})
  BY <1>2 DEF FillVal
<1>4. mid.train = {} => LastRow(mid.train) = {}
  BY DEF LastRow
<1> HIDE DEF s
<1>5. /\ s.train = raw.train /\ s.cols = raw.cols
      /\ \/ s.test = raw.test /\ s.val \in {raw.val, LastRow(raw.train)}
         \/ s.test = raw.val /\ s.val = LastRow(raw.train)
      /\ \/ s.val = {}
         \/ s.test = raw.test /\ s.val = raw.val
         \/ "combined_empty_val_borrowed_train" \in s.notes
  BY <1>2, <1>3, <1>4
<1> QED
  BY <1>5 DEF s, mid, raw

\* combined_day_app is sound in each of its fallbacks; only val and train may
\* share a row.
LEMMA CombinedIsSound ==
  ASSUME NEW p \in Protocol, NEW t \in Tables[p], NEW rank
  PROVE  LET s == Combined(t, rank)
         IN /\ SplitIsSound(t, s)
            /\ Apart(t, s.train \cup s.val, s.test, "app")
<1> DEFINE T == Buckets(t, rank, "test")
           V == Buckets(t, rank, "val")
           label == [i \in DOMAIN t |-> CombinedLabel(t, T, V, i)]
           notes == IF SingleDay(t) THEN {"combined_fell_back_to_app_only"} ELSE {}
           raw == Deal(label, CombinedCols(t), notes)
           s == Combined(t, rank)
<1>1. DOMAIN label = DOMAIN t
  OBVIOUS
<1>2. \A i, j \in DOMAIN t : t[i].session = t[j].session => label[i] = label[j]
  <2> SUFFICES ASSUME NEW i \in DOMAIN t, NEW j \in DOMAIN t, t[i].session = t[j].session
               PROVE  CombinedLabel(t, T, V, i) = CombinedLabel(t, T, V, j)
    OBVIOUS
  <2>1. t[i].day = t[j].day /\ t[i].app = t[j].app
    BY OneOfEach
  <2> QED
    BY <2>1 DEF CombinedLabel
<1>3. Apart(t, raw.train, raw.test \cup raw.val, "app")
  BY DEF Apart, Values, Deal, CombinedLabel
<1>4. Apart(t, raw.val, raw.test, "app")
  <2> SUFFICES ASSUME NEW i \in raw.val, NEW j \in raw.test, t[i].app = t[j].app
               PROVE  FALSE
    BY DEF Apart, Values
  <2>1. CombinedLabel(t, T, V, i) = "val" /\ CombinedLabel(t, T, V, j) = "test"
    BY DEF Deal
  <2> QED
    BY <2>1 DEF CombinedLabel
<1>5. ~SingleDay(t) => Apart(t, raw.train, raw.test \cup raw.val, "day")
  BY DEF Apart, Values, Deal, CombinedLabel
<1> HIDE DEF label
<1>6. Disjoint(t, raw, "session")
  BY <1>1, <1>2, DealByKey
<1>7. /\ raw.train \subseteq DOMAIN t /\ raw.val \subseteq DOMAIN t
      /\ raw.test \subseteq DOMAIN t /\ raw.cols = CombinedCols(t)
  BY <1>1, DealTypes
<1>8. /\ s.train = raw.train /\ s.cols = raw.cols
      /\ \/ s.test = raw.test /\ s.val \in {raw.val, LastRow(raw.train)}
         \/ s.test = raw.val /\ s.val = LastRow(raw.train)
      /\ \/ s.val = {}
         \/ s.test = raw.test /\ s.val = raw.val
         \/ "combined_empty_val_borrowed_train" \in s.notes
  BY FilledFrom DEF Combined, CombinedDeal, label
<1>9. LastRow(raw.train) \subseteq raw.train
  BY DEF LastRow
<1> HIDE DEF raw, s
<1>10. s.train \subseteq DOMAIN t /\ s.val \subseteq DOMAIN t /\ s.test \subseteq DOMAIN t
  BY <1>7, <1>8, <1>9
<1>11. Apart(t, s.train, s.test, "session") /\ Apart(t, s.val, s.test, "session")
  BY <1>6, <1>8, <1>9 DEF Disjoint, Apart, Values
<1>12. Apart(t, s.train \cup s.val, s.test, "app")
  BY <1>3, <1>4, <1>8, <1>9 DEF Apart, Values
<1>13. ~SingleDay(t) => Apart(t, s.train, s.test, "day")
  BY <1>5, <1>8 DEF Apart, Values
<1>14. s.cols \subseteq {"session", "day", "app"} /\ ("day" \in s.cols => ~SingleDay(t))
  BY <1>7, <1>8 DEF CombinedCols
<1>15. Apart(t, s.train, s.test, "app")
  BY <1>12 DEF Apart, Values
<1>16. \/ Apart(t, s.val, s.train, "session")
       \/ "combined_empty_val_borrowed_train" \in s.notes
  BY <1>6, <1>8 DEF Disjoint, Apart, Values
<1> QED
  BY <1>10, <1>11, <1>12, <1>13, <1>14, <1>15, <1>16 DEF SplitIsSound, s

\* Whatever the protocol, a split is sound on the axes it claims to hold out.
LEMMA MakeSplitIsSound ==
  ASSUME NEW p \in Protocol, NEW t \in Tables[p], NEW rank
  PROVE  SplitIsSound(t, MakeSplit(t, p, rank))
BY SessionOutIsSound, DayOutIsSound, AppOutIsSound, CombinedIsSound DEF MakeSplit, Protocol

\* Sampled pairs are of two tested windows of different users.
LEMMA PairsAreSound ==
  ASSUME NEW t, NEW s, NEW pairs \in ImpostorPairs(t, s), NEW q \in pairs
  PROVE  q \in s.test \X s.test /\ t[q[1]].user # t[q[2]].user
<1>1. PICK d \in [s.test -> UNION {Draws(t, s, g) : g \in s.test}] :
        /\ \A g \in s.test : d[g] \in Draws(t, s, g)
        /\ pairs = {r \in s.test \X Pool(t, s) : r[2] \in d[r[1]]}
  BY DEF ImpostorPairs
<1>2. q \in s.test \X s.test /\ q[2] \in d[q[1]]
  BY <1>1 DEF Pool
<1>3. d[q[1]] \subseteq Strangers(t, s, q[1])
  BY <1>1, <1>2 DEF Draws, Candidates, Exact
<1> QED
  BY <1>2, <1>3 DEF Strangers

-----------------------------------------------------------------------------
(* What the running build will write is sound, whichever action comes next. *)

Shape ==
  /\ job = [step |-> job.step, split |-> job.split, pairs |-> job.pairs,
            manifest |-> job.manifest]
  /\ dir = [has |-> dir.has, torn |-> dir.torn, data |-> dir.data]
  /\ dir.data = [train |-> dir.data.train, val |-> dir.data.val, test |-> dir.data.test,
                 pairs |-> dir.data.pairs, manifest |-> dir.data.manifest]

PairsSound(t, s, pairs) ==
  pairs \subseteq s.test \X s.test /\ \A q \in pairs : t[q[1]].user # t[q[2]].user

JobInv ==
  /\ protocol \in Protocol /\ table \in Tables[protocol]
  /\ Shape
  /\ job.step \in 0 .. 7
  /\ job.step # 0 =>
       /\ \E rank \in Ranks(Ranked(table, protocol)) :
            job.split = MakeSplit(table, protocol, rank)
       /\ PairsSound(table, job.split, job.pairs)

\* The order in which build_dataset writes its files.
LEMMA SixFiles == Len(Files) = 6 /\ Files \in Seq(FileName)
  /\ Files[1] = "train" /\ Files[2] = "val" /\ Files[3] = "test"
  /\ Files[4] = "pairs" /\ Files[5] = "feature" /\ Files[6] = "manifest"
BY DEF Files, FileName

\* A file that is written keeps the shape of the directory's contents.
LEMMA WrittenShape ==
  ASSUME Shape, NEW f \in FileName
  PROVE  LET w == Written(dir.data, f)
         IN /\ w = [train |-> w.train, val |-> w.val, test |-> w.test,
                    pairs |-> w.pairs, manifest |-> w.manifest]
            /\ w.train = IF f = "train" THEN job.split.train ELSE dir.data.train
            /\ w.val = IF f = "val" THEN job.split.val ELSE dir.data.val
            /\ w.test = IF f = "test" THEN job.split.test ELSE dir.data.test
            /\ w.pairs = IF f = "pairs" THEN job.pairs ELSE dir.data.pairs
BY DEF Shape, Written, FileName

\* A running build is about to write a split that make_split made of the table,
\* and pairs of tested windows of different users.
THEOREM JobInvariant == Spec => []JobInv
<1>1. Init => JobInv
  BY DEF Init, BuildInit, JobInv, Shape, Idle, Empty, NoSplit
<1>2. JobInv /\ [Next]_vars => JobInv'
  <2> SUFFICES ASSUME JobInv, [Next]_vars
               PROVE  JobInv'
    OBVIOUS
  <2> USE SixFiles DEF JobInv
  <2>1. CASE Build
    <3> DEFINE Plan(s, pairs) ==
                 [step |-> 1, split |-> s, pairs |-> pairs,
                  manifest |-> [noEnroll |-> NoEnroll(table, s),
                                neverTested |-> NeverTested(table, s),
                                warnings |-> Warnings(table, s, pairs)]]
    <3>a. PICK rank \in Ranks(Ranked(table, protocol)) :
            \E pairs \in ImpostorPairs(table, MakeSplit(table, protocol, rank)) :
            job' = Plan(MakeSplit(table, protocol, rank), pairs)
      BY <2>1 DEF Build
    <3>1. PICK pairs \in ImpostorPairs(table, MakeSplit(table, protocol, rank)) :
            job' = Plan(MakeSplit(table, protocol, rank), pairs)
      BY <3>a
    <3>2. UNCHANGED <<protocol, table, dir>>
      BY <2>1 DEF Build
    <3>3. PairsSound(table, MakeSplit(table, protocol, rank), pairs)
      <4> DEFINE s == MakeSplit(table, protocol, rank)
      <4>1. \A q \in pairs : q \in s.test \X s.test /\ table[q[1]].user # table[q[2]].user
        BY <3>1, PairsAreSound
      <4> QED
        BY <4>1 DEF PairsSound
    <3> QED
      BY <3>1, <3>2, <3>3 DEF Shape
  <2>2. CASE WriteFile
    <3>1. Files[job.step] \in FileName
      BY <2>2 DEF WriteFile, FileName
    <3>2. dir' = [has |-> dir.has \cup {Files[job.step]}, torn |-> dir.torn \ {Files[job.step]},
                  data |-> Written(dir.data, Files[job.step])]
      BY <2>2 DEF WriteFile
    <3>3. Shape'
      BY <2>2, <3>1, <3>2, WrittenShape DEF WriteFile, Shape
    <3> QED
      BY <2>2, <3>3 DEF WriteFile, Shape
  <2>3. CASE Assert
    BY <2>3 DEF Assert, Idle, Shape
  <2>4. CASE Die
    <3>1. job' = Idle /\ UNCHANGED <<protocol, table>>
      BY <2>4 DEF Die
    <3>2. CASE UNCHANGED dir
      BY <3>1, <3>2 DEF Idle, Shape
    <3>3. CASE dir' = [dir EXCEPT !.has = @ \cup {Files[job.step]},
                                  !.torn = @ \cup {Files[job.step]}]
      <4>1. dir' = [has |-> dir.has \cup {Files[job.step]},
                    torn |-> dir.torn \cup {Files[job.step]}, data |-> dir.data]
        BY <3>3 DEF Shape
      <4>2. Shape'
        BY <3>1, <4>1 DEF Idle, Shape
      <4> QED
        BY <3>1, <4>2 DEF Idle
    <3> QED
      BY <2>4, <3>2, <3>3 DEF Die
  <2>5. CASE UNCHANGED buildVars
    BY <2>5 DEF buildVars, Shape
  <2> QED
    BY <2>1, <2>2, <2>3, <2>4, <2>5 DEF Next, BuildNext, Load, Evaluate, vars
<1> QED
  BY <1>1, <1>2, PTL DEF Spec

\* The split of a running build passes the leakage check.
LEMMA SplitOfJob ==
  ASSUME JobInv, job.step # 0
  PROVE  SplitIsSound(table, job.split) /\ PairsSound(table, job.split, job.pairs)
BY MakeSplitIsSound DEF JobInv

-----------------------------------------------------------------------------
(* Everything is in range. *)

TypeInv ==
  /\ SplitOfRows(job.split) /\ job.pairs \subseteq Rows \X Rows
  /\ builds \in 0 .. MaxBuilds /\ crashes \in 0 .. MaxCrashes
  /\ dir.has \subseteq FileName /\ dir.torn \subseteq dir.has
  /\ dir.data.train \subseteq Rows /\ dir.data.val \subseteq Rows
  /\ dir.data.test \subseteq Rows /\ dir.data.pairs \subseteq Rows \X Rows
  /\ bundle.loaded \in BOOLEAN
  /\ bundle.train \subseteq Rows /\ bundle.val \subseteq Rows /\ bundle.test \subseteq Rows
  /\ result.outcome \in {"none", "empty", "raised", "scored"}
  /\ result.genuine \subseteq Rows /\ result.impostor \subseteq Rows \X Rows
  /\ result.dropped \subseteq Keys(table, "user")

\* What a build deals out are rows of the table.
LEMMA JobTyped ==
  ASSUME JobInv, job.step # 0
  PROVE  SplitOfRows(job.split) /\ job.pairs \subseteq Rows \X Rows
BY SplitOfJob DEF SplitIsSound, PairsSound, SplitOfRows, Rows

\* Every reachable state is in range, whatever the table: what is dealt out,
\* written, loaded and scored are its rows, and whom evaluate drops its users.
THEOREM Typing == Spec => []TypeOK
<1>1. Init => TypeInv
  BY DatasetsAssumption
     DEF Init, BuildInit, TypeInv, SplitOfRows, Idle, Empty, NoSplit, NotLoaded, NoResult
<1>2. JobInv /\ JobInv' /\ TypeInv /\ [Next]_vars => TypeInv'
  <2> SUFFICES ASSUME JobInv, JobInv', TypeInv, [Next]_vars
               PROVE  TypeInv'
    OBVIOUS
  <2> USE SixFiles
  <2>1. CASE Build /\ UNCHANGED <<bundle, result>>
    <3>1. job'.step = 1 /\ UNCHANGED <<protocol, table, dir, crashes, bundle, result>>
      BY <2>1 DEF Build
    <3>2. builds' \in 0 .. MaxBuilds
      BY <2>1, DatasetsAssumption DEF Build, TypeInv
    <3>3. SplitOfRows(job.split)' /\ (job.pairs \subseteq Rows \X Rows)'
      <4>1. job'.split = MakeSplit(table', protocol', CHOOSE r \in Ranks(Ranked(table', protocol')) :
                           job'.split = MakeSplit(table', protocol', r))
        BY <3>1 DEF JobInv
      <4>2. SplitIsSound(table', job'.split) /\ PairsSound(table', job'.split, job'.pairs)
        BY <3>1, <4>1, MakeSplitIsSound DEF JobInv
      <4> QED
        BY <4>2 DEF SplitIsSound, PairsSound, SplitOfRows, Rows
    <3> QED
      BY <3>1, <3>2, <3>3 DEF TypeInv, Rows, Keys, Values
  <2>2. CASE WriteFile /\ UNCHANGED <<bundle, result>>
    <3> DEFINE f == Files[job.step]  data == Written(dir.data, f)
    <3>1. job.step \in 1 .. 6 /\ f \in FileName
      BY <2>2 DEF WriteFile, FileName
    <3>2. dir' = [has |-> dir.has \cup {f}, torn |-> dir.torn \ {f}, data |-> data]
      BY <2>2 DEF WriteFile
    <3>3. /\ data.train \in {job.split.train, dir.data.train}
          /\ data.val \in {job.split.val, dir.data.val}
          /\ data.test \in {job.split.test, dir.data.test}
          /\ data.pairs \in {job.pairs, dir.data.pairs}
      BY <3>1, WrittenShape DEF JobInv
    <3>4. /\ job'.split = job.split /\ job'.pairs = job.pairs
          /\ UNCHANGED <<table, builds, crashes, bundle, result>>
      BY <2>2 DEF WriteFile, JobInv, Shape
    <3> HIDE DEF f, data
    <3>5. /\ dir'.has \subseteq FileName /\ dir'.torn \subseteq dir'.has
          /\ dir'.data = data
      BY <3>1, <3>2 DEF TypeInv
    <3> QED
      BY <3>3, <3>4, <3>5 DEF TypeInv, SplitOfRows, Rows, Keys, Values
  <2>3. CASE Assert /\ UNCHANGED <<bundle, result>>
    BY <2>3 DEF Assert, Idle, NoSplit, TypeInv, SplitOfRows, Rows, Keys, Values
  <2>4. CASE Die /\ UNCHANGED <<bundle, result>>
    <3>1. job' = Idle /\ UNCHANGED <<table, builds, bundle, result>>
      BY <2>4 DEF Die
    <3>2. crashes' \in 0 .. MaxCrashes
      BY <2>4, DatasetsAssumption DEF Die, TypeInv
    <3>3. /\ dir'.has \subseteq FileName /\ dir'.torn \subseteq dir'.has
          /\ dir'.data = dir.data
      <4>1. CASE UNCHANGED dir
        BY <4>1 DEF TypeInv
      <4>2. CASE /\ job.step \in 1 .. Len(Files)
                 /\ dir' = [dir EXCEPT !.has = @ \cup {Files[job.step]},
                                       !.torn = @ \cup {Files[job.step]}]
        <5>1. dir' = [has |-> dir.has \cup {Files[job.step]},
                      torn |-> dir.torn \cup {Files[job.step]}, data |-> dir.data]
          BY <4>2 DEF JobInv, Shape
        <5>2. Files[job.step] \in FileName
          BY <4>2
        <5> QED
          BY <5>1, <5>2 DEF TypeInv
      <4> QED
        BY <2>4, <4>1, <4>2 DEF Die
    <3> QED
      BY <3>1, <3>2, <3>3 DEF TypeInv, SplitOfRows, Idle, NoSplit, Rows, Keys, Values
  <2>5. CASE Load
    <3>1. UNCHANGED <<table, job, dir, builds, crashes, result>>
      BY <2>5 DEF Load, buildVars
    <3>2. bundle' = [loaded |-> TRUE, train |-> dir.data.train,
                     val |-> dir.data.val, test |-> dir.data.test]
      BY <2>5 DEF Load
    <3> QED
      BY <3>1, <3>2 DEF TypeInv, SplitOfRows, Rows, Keys, Values
  <2>6. CASE Evaluate
    <3>1. UNCHANGED <<table, job, dir, builds, crashes, bundle>>
      BY <2>6 DEF Evaluate, buildVars
    <3>2. /\ result'.outcome \in {"empty", "raised", "scored"}
          /\ result'.genuine \subseteq bundle.test
          /\ result'.impostor \subseteq dir.data.pairs
          /\ result'.dropped \subseteq Values(table, bundle.test, "user")
      BY <2>6 DEF Evaluate, NoResult
    <3>3. Values(table, bundle.test, "user") \subseteq Keys(table, "user")
      BY DEF TypeInv, Keys, Values, Rows
    <3> QED
      BY <3>1, <3>2, <3>3 DEF TypeInv, SplitOfRows, Rows, Keys, Values
  <2>7. CASE UNCHANGED vars
    BY <2>7 DEF vars, buildVars, TypeInv, SplitOfRows, Rows, Keys, Values
  <2> QED
    BY <2>1, <2>2, <2>3, <2>4, <2>5, <2>6, <2>7 DEF Next, BuildNext
<1>3. JobInv /\ TypeInv => TypeOK
  <2> SUFFICES ASSUME JobInv, TypeInv
               PROVE  TypeOK
    OBVIOUS
  <2>1. table \in Seq(WindowRow)
    BY TablesAssumption DEF JobInv
  <2>2. BuildTypeOK
    BY <2>1, SixFiles DEF JobInv, TypeInv, BuildTypeOK
  <2> QED
    BY <2>2 DEF TypeInv, TypeOK, Split
<1> QED
  BY <1>1, <1>2, <1>3, JobInvariant, PTL DEF Spec

-----------------------------------------------------------------------------
\* No build ends in an AssertionError: the leakage check of build_dataset holds
\* for every table, every protocol and every order of the keys.
THEOREM BuildsNeverFail == Spec => []NoBuildFails
<1>1. JobInv => NoBuildFails
  <2> SUFFICES ASSUME JobInv, job.step = Len(Files) + 1
               PROVE  Checked(job.split, job.pairs)
    BY DEF NoBuildFails
  <2> DEFINE s == job.split
  <2>1. SplitIsSound(table, s) /\ PairsSound(table, s, job.pairs)
    BY SplitOfJob, SixFiles
  <2>2. Apart(table, s.train \cup s.val, s.test, "session")
    BY <2>1 DEF SplitIsSound, Apart, Values
  <2>3. /\ \A q \in job.pairs : table[q[1]].user # table[q[2]].user
        /\ \A q \in job.pairs : q[2] \in s.test
    BY <2>1 DEF PairsSound
  <2> DEFINE L == LeakageCheck(table, s, job.pairs)
  <2>4. /\ L.no_session_leak /\ L.no_day_leak /\ L.no_app_leak
        /\ L.enroll_query_sessions_disjoint
        /\ L.impostor_pool_user_disjoint /\ L.impostor_windows_test_only
    <3> HIDE DEF s
    <3> QED
      BY <2>1, <2>2, <2>3 DEF LeakageCheck, SplitIsSound
  <2>5. DOMAIN L = {"no_session_leak", "no_day_leak", "no_app_leak",
                    "enroll_query_sessions_disjoint", "impostor_pool_user_disjoint",
                    "impostor_windows_test_only"}
    BY DEF LeakageCheck
  <2>6. \A c \in DOMAIN L : L[c]
    <3> HIDE DEF L
    <3> QED
      BY <2>4, <2>5
  <2> QED
    BY <2>6 DEF Checked
<1> QED
  BY <1>1, JobInvariant, PTL

-----------------------------------------------------------------------------
(* A directory that is built once: its files only ever come from one split. *)

\* What has been written by the time the build comes to its next file.
Progress ==
  /\ job.step # 0 =>
       /\ builds = 1
       /\ dir.data.train \in {{}, job.split.train}
       /\ dir.data.val \in {{}, job.split.val}
       /\ dir.data.test \in {{}, job.split.test}
       /\ dir.data.pairs \in {{}, job.pairs}
       /\ job.step > 3 => dir.data.test = job.split.test
       /\ job.step <= 4 => dir.data.pairs = {}
  /\ builds \in {0, 1}
  /\ builds = 0 =>
       /\ dir.has = {} /\ dir.data.train = {} /\ dir.data.val = {}
       /\ dir.data.test = {} /\ dir.data.pairs = {}
  /\ "feature" \in dir.has => builds = 1 /\ job.step \in {0, 6, 7}

Sound(data) ==
  /\ Apart(table, data.train \cup data.val, data.test, "session")
  /\ data.pairs \subseteq data.test \X data.test

Reading ==
  /\ bundle.loaded =>
       /\ "feature" \in dir.has
       /\ bundle.train = dir.data.train /\ bundle.val = dir.data.val
       /\ bundle.test = dir.data.test
  /\ result.outcome = "none" => result = NoResult
  /\ result.outcome # "none" => bundle.loaded
  /\ result.genuine \subseteq bundle.test
  /\ result.impostor \subseteq dir.data.pairs

OnceInv == Progress /\ Sound(dir.data) /\ Reading

\* The build leaves the reader alone, and the files it has read are finished.
LEMMA ReadingIsKept ==
  ASSUME OnceInv, UNCHANGED <<bundle, result>>,
         dir.has \subseteq dir'.has,
         "feature" \in dir.has =>
           /\ dir'.data.train = dir.data.train /\ dir'.data.val = dir.data.val
           /\ dir'.data.test = dir.data.test,
         dir.data.pairs \subseteq dir'.data.pairs
  PROVE  Reading'
BY DEF OnceInv, Reading, NoResult

\* Writing the next file of the only build keeps the directory sound.
LEMMA OnceWrite ==
  ASSUME JobInv, OnceInv, WriteFile, UNCHANGED <<bundle, result>>
  PROVE  OnceInv'
<1> DEFINE f == Files[job.step]  data == Written(dir.data, f)
<1>1. job.step \in 1 .. 6 /\ f \in FileName
  BY SixFiles DEF WriteFile, FileName
<1>2. dir' = [has |-> dir.has \cup {f}, torn |-> dir.torn \ {f}, data |-> data]
  BY DEF WriteFile
<1>3. /\ data.train = IF f = "train" THEN job.split.train ELSE dir.data.train
      /\ data.val = IF f = "val" THEN job.split.val ELSE dir.data.val
      /\ data.test = IF f = "test" THEN job.split.test ELSE dir.data.test
      /\ data.pairs = IF f = "pairs" THEN job.pairs ELSE dir.data.pairs
  BY <1>1, WrittenShape DEF JobInv
<1>4. /\ job.step = 1 => f = "train"
      /\ job.step = 2 => f = "val"
      /\ job.step = 3 => f = "test"
      /\ job.step = 4 => f = "pairs"
      /\ job.step = 5 => f = "feature"
      /\ job.step = 6 => f = "manifest"
  BY SixFiles
<1>5. /\ job'.step = job.step + 1 /\ job'.split = job.split /\ job'.pairs = job.pairs
      /\ UNCHANGED <<table, builds>>
  BY DEF WriteFile, JobInv, Shape
<1>6. SplitIsSound(table, job.split) /\ PairsSound(table, job.split, job.pairs)
  BY <1>1, SplitOfJob
<1> HIDE DEF f, data
<1>7. /\ dir'.has = dir.has \cup {f} /\ dir'.data = data
  BY <1>2
<1>8. Progress'
  BY <1>1, <1>3, <1>4, <1>5, <1>7 DEF OnceInv, Progress
<1>9. Sound(dir.data)'
  <2>1. /\ data.train \subseteq job.split.train /\ data.val \subseteq job.split.val
        /\ data.test \in {{}, job.split.test}
    BY <1>1, <1>3, <1>4 DEF OnceInv, Progress
  <2>2. Apart(table, data.train \cup data.val, data.test, "session")
    BY <1>6, <2>1 DEF SplitIsSound, Apart, Values
  <2>3. data.pairs \subseteq data.test \X data.test
    BY <1>1, <1>3, <1>4, <1>6 DEF OnceInv, Progress, PairsSound
  <2> QED
    BY <1>5, <1>7, <2>2, <2>3 DEF Sound
<1>10. Reading'
  <2>1. "feature" \in dir.has => job.step = 6
    BY <1>1 DEF OnceInv, Progress
  <2>2. "feature" \in dir.has => /\ data.train = dir.data.train /\ data.val = dir.data.val
                                 /\ data.test = dir.data.test
    BY <1>3, <1>4, <2>1
  <2>3. dir.data.pairs \subseteq data.pairs
    BY <1>1, <1>3, <1>4 DEF OnceInv, Progress
  <2> QED
    BY <1>7, <2>2, <2>3, ReadingIsKept
<1> QED
  BY <1>8, <1>9, <1>10 DEF OnceInv

\* In a directory that is built once every file that is there and whole is the
\* running or the finished build's, and so is what a reader has loaded of it.
THEOREM OnceInvariant ==
  ASSUME MaxBuilds \in {0, 1}
  PROVE  Spec => []OnceInv
<1>1. Init => OnceInv
  BY DEF Init, BuildInit, OnceInv, Progress, Sound, Reading, Idle, Empty, NotLoaded,
         NoResult, Apart, Values
<1>2. JobInv /\ JobInv' /\ OnceInv /\ [Next]_vars => OnceInv'
  <2> SUFFICES ASSUME JobInv, JobInv', OnceInv, [Next]_vars
               PROVE  OnceInv'
    OBVIOUS
  <2>1. CASE Build /\ UNCHANGED <<bundle, result>>
    <3>1. builds = 0 /\ builds' = 1 /\ job'.step = 1 /\ UNCHANGED <<table, dir>>
      BY <2>1 DEF Build, OnceInv, Progress
    <3>2. Progress'
      BY <3>1 DEF OnceInv, Progress
    <3>3. Reading'
      BY <2>1, <3>1 DEF OnceInv, Reading, NoResult
    <3> QED
      BY <3>1, <3>2, <3>3 DEF OnceInv, Sound
  <2>2. CASE WriteFile /\ UNCHANGED <<bundle, result>>
    BY <2>2, OnceWrite
  <2>3. CASE Assert /\ UNCHANGED <<bundle, result>>
    <3>1. job'.step = 0 /\ UNCHANGED <<table, dir, builds>>
      BY <2>3 DEF Assert, Idle
    <3>2. Progress'
      BY <3>1 DEF OnceInv, Progress
    <3> QED
      BY <2>3, <3>1, <3>2 DEF OnceInv, Sound, Reading, NoResult
  <2>4. CASE Die /\ UNCHANGED <<bundle, result>>
    <3>1. /\ job.step # 0 /\ job'.step = 0 /\ UNCHANGED <<table, builds>>
      BY <2>4 DEF Die, Idle
    <3>2. dir.has \subseteq dir'.has /\ dir'.data = dir.data
      <4>1. CASE UNCHANGED dir
        BY <4>1
      <4>2. CASE dir' = [dir EXCEPT !.has = @ \cup {Files[job.step]},
                                    !.torn = @ \cup {Files[job.step]}]
        <5>1. dir' = [has |-> dir.has \cup {Files[job.step]},
                      torn |-> dir.torn \cup {Files[job.step]}, data |-> dir.data]
          BY <4>2 DEF JobInv, Shape
        <5> QED
          BY <5>1
      <4> QED
        BY <2>4, <4>1, <4>2 DEF Die
    <3>3. Progress'
      BY <3>1, <3>2 DEF OnceInv, Progress
    <3>4. Reading'
      BY <2>4, <3>2, ReadingIsKept
    <3> QED
      BY <3>1, <3>2, <3>3, <3>4 DEF OnceInv, Sound
  <2>5. CASE Load
    <3>1. UNCHANGED <<table, job, dir, builds, result>>
      BY <2>5 DEF Load, buildVars
    <3>2. /\ ~bundle.loaded /\ "feature" \in dir.has
          /\ bundle' = [loaded |-> TRUE, train |-> dir.data.train,
                        val |-> dir.data.val, test |-> dir.data.test]
      BY <2>5 DEF Load
    <3>3. Reading'
      BY <3>1, <3>2 DEF OnceInv, Reading, NoResult
    <3> QED
      BY <3>1, <3>3 DEF OnceInv, Progress, Sound
  <2>6. CASE Evaluate
    <3>1. UNCHANGED <<table, job, dir, builds, bundle>>
      BY <2>6 DEF Evaluate, buildVars
    <3>2. /\ bundle.loaded
          /\ result'.outcome # "none"
          /\ result'.genuine \subseteq bundle.test
          /\ result'.impostor \subseteq dir.data.pairs
      BY <2>6 DEF Evaluate, NoResult
    <3>3. Reading'
      BY <3>1, <3>2 DEF OnceInv, Reading
    <3> QED
      BY <3>1, <3>3 DEF OnceInv, Progress, Sound
  <2>7. CASE UNCHANGED vars
    BY <2>7 DEF vars, buildVars, OnceInv, Progress, Sound, Reading
  <2> QED
    BY <2>1, <2>2, <2>3, <2>4, <2>5, <2>6, <2>7 DEF Next, BuildNext
<1> QED
  BY <1>1, <1>2, JobInvariant, PTL DEF Spec

\* Whatever the table, the protocol and the order of the keys, and wherever the
\* build dies: an experiment over a directory that is built once scores no window
\* of a session that it trained or enrolled on.
THEOREM BuiltOnceScoresAreUnseen ==
  ASSUME MaxBuilds \in {0, 1}
  PROVE  Spec => []ScoresAreUnseen
<1>1. OnceInv => ScoresAreUnseen
  <2> SUFFICES ASSUME OnceInv
               PROVE  ScoresAreUnseen
    OBVIOUS
  <2>1. CASE ~bundle.loaded
    <3>1. result = NoResult
      BY <2>1 DEF OnceInv, Reading
    <3> QED
      BY <3>1 DEF ScoresAreUnseen, Scored, NoResult, Values
  <2>2. CASE bundle.loaded
    <3>1. Scored \subseteq bundle.test
      BY <2>2 DEF OnceInv, Reading, Sound, Scored
    <3>2. Apart(table, bundle.train \cup bundle.val, bundle.test, "session")
      BY <2>2 DEF OnceInv, Reading, Sound
    <3> QED
      BY <3>1, <3>2 DEF ScoresAreUnseen, EnrolledSessions, Apart, Values
  <2> QED
    BY <2>1, <2>2
<1> QED
  BY <1>1, OnceInvariant, PTL

-----------------------------------------------------------------------------
(* What a protocol holds out. *)

Before(t, R, S) == \A i \in R, j \in S : t[i].day < t[j].day

\* Days can be compared.
LEMMA DaysAreNumbers ==
  ASSUME NEW p \in Protocol, NEW t \in Tables[p]
  PROVE  /\ \A i \in DOMAIN t : t[i].day \in Nat
         /\ IsFiniteSet(Keys(t, "day")) /\ Keys(t, "day") \subseteq Nat
<1>1. t \in Seq(WindowRow)
  BY TablesAssumption
<1>2. \A i \in DOMAIN t : t[i].day \in Nat
  <2>1. \A i \in DOMAIN t : t[i] \in WindowRow
    BY <1>1
  <2> QED
    BY <2>1 DEF WindowRow
<1>3. IsFiniteSet(DOMAIN t)
  <2>1. DOMAIN t = 1 .. Len(t) /\ Len(t) \in Nat
    BY <1>1
  <2> QED
    BY <2>1, FS_Interval
<1>4. IsFiniteSet({t[i]["day"] : i \in DOMAIN t})
  <2> DEFINE days == {t[i]["day"] : i \in DOMAIN t}
             f == [i \in DOMAIN t |-> t[i]["day"]]
  <2>1. f \in Surjection(DOMAIN t, days)
    BY DEF Surjection
  <2> QED
    BY <1>3, <2>1, FS_Surjection
<1> QED
  BY <1>2, <1>4 DEF Keys, Values

\* Over two days test comes after train and val.
LEMMA TwoDayOrder ==
  ASSUME NEW p \in Protocol, NEW t \in Tables[p]
  PROVE  LET s == Deal([i \in DOMAIN t |-> TwoDay(t, i)], {"day"}, {})
         IN Before(t, s.train \cup s.val, s.test)
<1> DEFINE s == Deal([i \in DOMAIN t |-> TwoDay(t, i)], {"day"}, {})
<1> SUFFICES ASSUME NEW i \in s.train \cup s.val, NEW j \in s.test
             PROVE  t[i].day < t[j].day
  BY DEF Before
<1>1. i \in DOMAIN t /\ j \in DOMAIN t /\ TwoDay(t, i) # "test" /\ TwoDay(t, j) = "test"
  BY DEF Deal
<1>2. PICK d \in Keys(t, "day") : ~(d <= t[i].day)
  BY <1>1 DEF TwoDay
<1>3. d <= t[j].day
  BY <1>1 DEF TwoDay
<1> QED
  BY <1>1, <1>2, <1>3, DaysAreNumbers

\* Over more days test comes after train and val.
LEMMA ManyDaysOrder ==
  ASSUME NEW p \in Protocol, NEW t \in Tables[p]
  PROVE  LET s == Deal([i \in DOMAIN t |-> ManyDays(t, i)], {"day"}, {})
         IN Before(t, s.train \cup s.val, s.test)
<1> DEFINE s == Deal([i \in DOMAIN t |-> ManyDays(t, i)], {"day"}, {})
           days == Keys(t, "day")
           From(k) == {d \in days : d >= t[k].day}
           held == Sizes(Cardinality(days), Fraction("leave_day_out")).test
<1> SUFFICES ASSUME NEW i \in s.train \cup s.val, NEW j \in s.test
             PROVE  t[i].day < t[j].day
  BY DEF Before
<1>1. i \in DOMAIN t /\ j \in DOMAIN t /\ ManyDays(t, i) # "test" /\ ManyDays(t, j) = "test"
  BY DEF Deal
<1>2. ~(Cardinality(From(i)) <= held) /\ Cardinality(From(j)) <= held
  BY <1>1 DEF ManyDays, Side
<1>3. IsFiniteSet(days) /\ days \subseteq Nat /\ t[i].day \in Nat /\ t[j].day \in Nat
  BY <1>1, DaysAreNumbers
<1>4. SUFFICES ASSUME ~(t[i].day < t[j].day)
               PROVE  FALSE
  OBVIOUS
<1>5. From(i) \subseteq From(j)
  BY <1>3, <1>4
<1>6. IsFiniteSet(From(j))
  BY <1>3, FS_Subset
<1>7. /\ Cardinality(From(i)) <= Cardinality(From(j))
      /\ Cardinality(From(i)) \in Nat /\ Cardinality(From(j)) \in Nat
  BY <1>5, <1>6, FS_Subset, FS_CardinalityType
<1>8. held \in Int
  <2>1. Cardinality(days) \in Nat
    BY <1>3, FS_CardinalityType
  <2> HIDE DEF days
  <2> QED
    BY <2>1 DEF Sizes, Shrunk, Fraction, AtLeastOne, Round
<1> QED
  BY <1>2, <1>7, <1>8

\* Under combined_day_app test comes after train, unless there is one day.
LEMMA CombinedOrder ==
  ASSUME NEW p \in Protocol, NEW t \in Tables[p], NEW rank, ~SingleDay(t)
  PROVE  LET s == Combined(t, rank)
         IN Before(t, s.train, s.test)
<1> DEFINE T == Buckets(t, rank, "test")
           V == Buckets(t, rank, "val")
           raw == CombinedDeal(t, T, V)
           s == Combined(t, rank)
<1> SUFFICES ASSUME NEW i \in s.train, NEW j \in s.test
             PROVE  t[i].day < t[j].day
  BY DEF Before
<1>1. s.train = raw.train /\ s.test \in {raw.test, raw.val}
  BY DEF Combined, CombinedDeal, FillTest, FillVal, Deal
<1>2. /\ i \in DOMAIN t /\ j \in DOMAIN t
      /\ CombinedLabel(t, T, V, i) = "train"
      /\ CombinedLabel(t, T, V, j) \in {"test", "val"}
  BY <1>1 DEF CombinedDeal, Deal
<1>3. PICK d \in Keys(t, "day") : ~(d <= t[i].day)
  BY <1>2 DEF CombinedLabel
<1>4. d <= t[j].day
  BY <1>2 DEF CombinedLabel
<1> QED
  BY <1>2, <1>3, <1>4, DaysAreNumbers

\* However the hash falls, tested days come after the days enrolled with, and
\* tested apps are not enrolled with.
THEOREM WhatIsHeldOutIsUnseen == Spec => []HeldOutIsUnseen
<1>1. JobInv => HeldOutIsUnseen
  <2> SUFFICES ASSUME JobInv, job.step # 0
               PROVE  HeldOutIsUnseen
    BY DEF HeldOutIsUnseen, Building
  <2> DEFINE s == job.split
  <2>1. protocol \in Protocol /\ table \in Tables[protocol]
    BY DEF JobInv
  <2>2. PICK rank : s = MakeSplit(table, protocol, rank)
    BY DEF JobInv
  <2>3. ASSUME protocol = "leave_day_out", ~SingleDay(table)
        PROVE  Earlier(Enrolled, s.test)
    <3>1. s = LeaveDayOut(table, rank)
      BY <2>2, <2>3 DEF MakeSplit
    <3>2. ~(Cardinality(Keys(table, "day")) <= 1)
      BY <2>3 DEF SingleDay
    <3>3. Before(table, s.train \cup s.val, s.test)
      BY <2>1, <3>1, <3>2, TwoDayOrder, ManyDaysOrder DEF LeaveDayOut
    <3> QED
      BY <3>3 DEF Before, Earlier, Enrolled
  <2>4. ASSUME protocol = "leave_app_out"
        PROVE  Apart(table, Enrolled, s.test, "app")
    <3>1. s = LeaveAppOut(table, rank)
      BY <2>2, <2>4 DEF MakeSplit
    <3>2. Disjoint(table, s, "app")
      BY <2>1, <3>1, AppOutIsSound
    <3> QED
      BY <3>2 DEF Disjoint, Apart, Values, Enrolled
  <2>5. ASSUME protocol = "combined_day_app"
        PROVE  /\ Apart(table, Enrolled, s.test, "app")
               /\ SingleDay(table) \/ Earlier(s.train, s.test)
    <3>1. s = Combined(table, rank)
      BY <2>2, <2>5 DEF MakeSplit
    <3>2. Apart(table, Enrolled, s.test, "app")
      BY <2>1, <3>1, CombinedIsSound DEF Enrolled
    <3>3. ~SingleDay(table) => Before(table, s.train, s.test)
      BY <2>1, <3>1, CombinedOrder
    <3> QED
      BY <3>2, <3>3 DEF Before, Earlier
  <2> QED
    BY <2>3, <2>4, <2>5 DEF HeldOutIsUnseen, Building
<1> QED
  BY <1>1, JobInvariant, PTL

-----------------------------------------------------------------------------
(* leave_session_out: every user with two sessions is on both sides. *)

\* A set of numbers that has a member has a least one.
LEMMA LeastNat ==
  ASSUME NEW S \in SUBSET Nat, S # {}
  PROVE  \E m \in S : \A k \in S : m <= k
<1> DEFINE R == OpToRel(<, Nat)
<1>1. IsWellFoundedOn(R, Nat)
  BY NatLessThanWellFounded
<1>2. \A a, b \in Nat : <<a, b>> \in R <=> a < b
  BY DEF OpToRel
<1> HIDE DEF R
<1>3. PICK m \in S : \A k \in S : <<k, m>> \notin R
  BY <1>1, WFMin
<1>4. \A k \in S : ~(k < m)
  <2> TAKE k \in S
  <2>1. k \in Nat /\ m \in Nat
    OBVIOUS
  <2>2. <<k, m>> \notin R
    BY <1>3
  <2> QED
    BY <1>2, <2>1, <2>2
<1> QED
  BY <1>4

\* A finite set of numbers that has a member has a greatest one.
LEMMA GreatestNat ==
  ASSUME NEW n \in Nat, NEW S \in SUBSET (0 .. n), S # {}
  PROVE  \E m \in S : \A k \in S : k <= m
<1> DEFINE T == {n - k : k \in S}
<1>1. T \in SUBSET Nat /\ T # {}
  <2>1. \A k \in S : k \in Int /\ 0 <= k /\ k <= n
    OBVIOUS
  <2>2. \A k \in S : n - k \in Nat
    BY <2>1
  <2> QED
    BY <2>2
<1>2. PICK m \in T : \A k \in T : m <= k
  BY <1>1, LeastNat
<1>3. PICK k \in S : m = n - k
  OBVIOUS
<1>4. \A j \in S : n - k <= n - j
  BY <1>2, <1>3
<1> QED
  BY <1>4

Upto(r, K, k) == {j \in K : r[j] <= r[k]}

\* In any order some key comes first and some key comes last.
LEMMA FirstAndLast ==
  ASSUME NEW A, NEW n \in Nat, NEW r \in [A -> 1 .. n],
         \A j, k \in A : r[j] = r[k] => j = k,
         NEW K \in SUBSET A, K # {}
  PROVE  /\ \E k \in K : Cardinality(Upto(r, K, k)) = 1
         /\ \E k \in K : Cardinality(Upto(r, K, k)) = Cardinality(K)
<1> DEFINE S == {r[k] : k \in K}
<1>1. S \in SUBSET Nat /\ S \in SUBSET (0 .. n) /\ S # {}
  OBVIOUS
<1>2. PICK a \in K : \A k \in K : r[a] <= r[k]
  <2>1. PICK m \in S : \A k \in S : m <= k
    BY <1>1, LeastNat
  <2> QED
    BY <2>1
<1>3. PICK b \in K : \A k \in K : r[k] <= r[b]
  <2>1. PICK m \in S : \A k \in S : k <= m
    BY <1>1, GreatestNat
  <2> QED
    BY <2>1
<1>4. Upto(r, K, a) = {a}
  BY <1>2 DEF Upto
<1>5. Upto(r, K, b) = K
  BY <1>3 DEF Upto
<1> QED
  BY <1>4, <1>5, FS_Singleton

\* The shrink loop leaves a key for train, and takes one for test.
LEMMA SizesLeaveOne ==
  ASSUME NEW n \in Nat, n >= 3, NEW protocolName
  PROVE  LET z == Sizes(n, Fraction(protocolName))
         IN /\ z.test \in Nat /\ z.val \in Nat
            /\ z.test >= 1 /\ z.val >= 1 /\ z.test + z.val < n
<1> DEFINE f == Fraction(protocolName)
           v == AtLeastOne(Round(n, f.val))
           w == AtLeastOne(Round(n, f.test))
           fewer == IF v + w < n THEN v ELSE AtLeastOne(n - 1 - w)
           fewest == IF fewer + w < n THEN w ELSE AtLeastOne(n - 1 - fewer)
<1>1. f.val \in Nat /\ f.test \in Nat
  BY DEF Fraction
<1>2. Round(n, f.val) \in Int /\ Round(n, f.test) \in Int
  BY <1>1 DEF Round
<1>3. v \in Int /\ v >= 1 /\ w \in Int /\ w >= 1
  BY <1>2 DEF AtLeastOne
<1>4. Sizes(n, f) = [val |-> fewer, test |-> fewest]
  BY DEF Sizes, Shrunk
<1> HIDE DEF v, w
<1>5. fewer \in Int /\ fewer >= 1 /\ fewest \in Int /\ fewest >= 1 /\ fewest + fewer < n
  BY <1>3 DEF AtLeastOne
<1> QED
  BY <1>4, <1>5

\* Of two keys or more the first and the last are on different sides.
LEMMA EndsApart ==
  ASSUME NEW n \in Nat, n >= 2, NEW protocolName
  PROVE  \/ /\ Place(1, n, Fraction(protocolName)) = "train"
            /\ Place(n, n, Fraction(protocolName)) = "test"
         \/ /\ Place(1, n, Fraction(protocolName)) = "test"
            /\ Place(n, n, Fraction(protocolName)) = "train"
<1>1. CASE n = 2
  BY <1>1 DEF Place
<1>2. CASE n >= 3
  BY <1>2, SizesLeaveOne DEF Place, Side
<1> QED
  BY <1>1, <1>2

\* A user of a table has finitely many sessions, at least one.
LEMMA SessionsAreFinite ==
  ASSUME NEW p \in Protocol, NEW t \in Tables[p], NEW u \in Keys(t, "user")
  PROVE  /\ IsFiniteSet(SessionsOf(t, u)) /\ SessionsOf(t, u) # {}
         /\ SessionsOf(t, u) \subseteq Keys(t, "session")
         /\ IsFiniteSet(Keys(t, "session"))
<1> DEFINE sessions == {t[i]["session"] : i \in DOMAIN t}
           f == [i \in DOMAIN t |-> t[i]["session"]]
<1>1. IsFiniteSet(DOMAIN t)
  <2>1. t \in Seq(WindowRow)
    BY TablesAssumption
  <2>2. DOMAIN t = 1 .. Len(t) /\ Len(t) \in Nat
    BY <2>1
  <2> QED
    BY <2>2, FS_Interval
<1>2. f \in Surjection(DOMAIN t, sessions)
  BY DEF Surjection
<1>3. IsFiniteSet(sessions)
  BY <1>1, <1>2, FS_Surjection
<1>4. SessionsOf(t, u) \subseteq sessions
  BY DEF SessionsOf
<1>5. SessionsOf(t, u) # {}
  BY DEF SessionsOf, Keys, Values
<1>6. Keys(t, "session") = sessions
  BY DEF Keys, Values
<1> QED
  BY <1>3, <1>4, <1>5, <1>6, FS_Subset

\* leave_session_out enrolls every user and tests those with two sessions.
LEMMA SessionOutCovers ==
  ASSUME NEW p \in Protocol, NEW t \in Tables[p], NEW rank \in Ranks(Keys(t, "session")),
         NEW u \in Keys(t, "user")
  PROVE  LET s == LeaveSessionOut(t, rank)
         IN /\ u \in Values(t, s.train \cup s.val, "user")
            /\ Cardinality(SessionsOf(t, u)) >= 2 <=> u \in Values(t, s.test, "user")
<1> DEFINE K == SessionsOf(t, u)
           F == Fraction("leave_session_out")
           label == [i \in DOMAIN t |-> Label(rank, SessionsOf(t, t[i].user), t[i].session, F)]
           s == LeaveSessionOut(t, rank)
<1>1. /\ IsFiniteSet(K) /\ K # {} /\ K \subseteq Keys(t, "session")
      /\ Cardinality(Keys(t, "session")) \in Nat /\ Cardinality(K) \in Nat
  BY SessionsAreFinite, FS_CardinalityType
<1>2. Cardinality(K) # 0
  BY <1>1, FS_EmptySet
<1>3. /\ s.train = {i \in DOMAIN t : label[i] = "train"}
      /\ s.test = {i \in DOMAIN t : label[i] = "test"}
  BY DEF LeaveSessionOut, Deal
<1>4. \A k \in K : \E i \in DOMAIN t :
        /\ t[i].user = u /\ t[i].session = k
        /\ label[i] = Place(Cardinality(Upto(rank, K, k)), Cardinality(K), F)
  BY DEF SessionsOf, Label, Upto
<1>5. \A i \in DOMAIN t : t[i].user = u =>
        label[i] = Place(Cardinality(Upto(rank, K, t[i].session)), Cardinality(K), F)
  BY DEF SessionsOf, Label, Upto
<1>6. PICK first, last \in K : /\ Cardinality(Upto(rank, K, first)) = 1
                             /\ Cardinality(Upto(rank, K, last)) = Cardinality(K)
  BY <1>1, FirstAndLast DEF Ranks
<1>7. CASE Cardinality(K) >= 2
  <2>1. \/ /\ Place(1, Cardinality(K), F) = "train"
           /\ Place(Cardinality(K), Cardinality(K), F) = "test"
        \/ /\ Place(1, Cardinality(K), F) = "test"
           /\ Place(Cardinality(K), Cardinality(K), F) = "train"
    BY <1>1, <1>7, EndsApart
  <2>2. \E i \in DOMAIN t : t[i].user = u /\ label[i] = "train"
    BY <1>4, <1>6, <2>1
  <2>3. \E i \in DOMAIN t : t[i].user = u /\ label[i] = "test"
    BY <1>4, <1>6, <2>1
  <2> HIDE DEF label, s, K
  <2> QED
    BY <1>3, <1>7, <2>2, <2>3 DEF Values, K, s
<1>8. CASE Cardinality(K) = 1
  <2>1. \A i \in DOMAIN t : t[i].user = u => label[i] = "train"
    BY <1>5, <1>8 DEF Place
  <2>2. PICK i \in DOMAIN t : t[i].user = u
    BY DEF Keys, Values
  <2> HIDE DEF label, s, K
  <2> QED
    BY <1>3, <1>8, <2>1, <2>2 DEF Values, K, s
<1> QED
  BY <1>1, <1>2, <1>7, <1>8

\* However the hash falls, leave_session_out tests exactly the users who have two
\* sessions or more, and gives every user something to enroll with.
THEOREM EveryoneIsEnrolled == Spec => []EnrolledAndQueried
<1>1. JobInv => EnrolledAndQueried
  <2> SUFFICES ASSUME JobInv, job.step # 0, protocol = "leave_session_out",
                      NEW u \in Keys(table, "user")
               PROVE  /\ u \in Values(table, Enrolled, "user")
                      /\ Cardinality(SessionsOf(table, u)) >= 2
                         <=> u \in Values(table, job.split.test, "user")
    BY DEF EnrolledAndQueried, Building
  <2>1. PICK rank \in Ranks(Keys(table, "session")) : job.split = LeaveSessionOut(table, rank)
    BY DEF JobInv, Ranked, MakeSplit
  <2>2. protocol \in Protocol /\ table \in Tables[protocol]
    BY DEF JobInv
  <2> QED
    BY <2>1, <2>2, SessionOutCovers DEF Enrolled
<1> QED
  BY <1>1, JobInvariant, PTL

-----------------------------------------------------------------------------
(* Whom a directory that is built once lets attack, and what its manifest says. *)

\* A pair is of an exact match or, where there is none, of a relaxed one; and a
\* tested window that has a match of either kind is in a pair.
LEMMA PairsAreMatched ==
  ASSUME NEW t, NEW s, NEW pairs \in ImpostorPairs(t, s), IsFiniteSet(s.test), NPerGenuine # 0
  PROVE  /\ \A q \in pairs :
              /\ q \in s.test \X s.test /\ t[q[1]].user # t[q[2]].user
              /\ \/ t[q[2]].top1 = t[q[1]].top1
                 \/ /\ t[q[1]].top1 \in t[q[2]].topk
                    /\ \A j \in s.test :
                         t[j].top1 = t[q[1]].top1 => t[j].user = t[q[1]].user
         /\ \A g \in s.test :
              (\E i \in s.test : /\ t[i].user # t[g].user
                                 /\ t[i].top1 = t[g].top1 \/ t[g].top1 \in t[i].topk)
              => \E q \in pairs : q[1] = g
<1>1. PICK d \in [s.test -> UNION {Draws(t, s, g) : g \in s.test}] :
        /\ \A g \in s.test : d[g] \in Draws(t, s, g)
        /\ pairs = {r \in s.test \X Pool(t, s) : r[2] \in d[r[1]]}
  BY DEF ImpostorPairs
<1>2. ASSUME NEW q \in pairs
      PROVE  /\ q \in s.test \X s.test /\ t[q[1]].user # t[q[2]].user
             /\ \/ t[q[2]].top1 = t[q[1]].top1
                \/ /\ t[q[1]].top1 \in t[q[2]].topk
                   /\ \A j \in s.test :
                        t[j].top1 = t[q[1]].top1 => t[j].user = t[q[1]].user
  <2>1. q \in s.test \X s.test /\ q[1] \in s.test /\ q[2] \in Candidates(t, s, q[1])
    BY <1>1, <1>2 DEF Pool, Draws
  <2>2. CASE Exact(t, s, q[1]) # {}
    BY <2>1, <2>2 DEF Candidates, Exact, Strangers
  <2>3. CASE Exact(t, s, q[1]) = {}
    BY <2>1, <2>3 DEF Candidates, Exact, Strangers, Pool
  <2> QED
    BY <2>2, <2>3
<1>3. ASSUME NEW g \in s.test,
             NEW i \in s.test, t[i].user # t[g].user,
             t[i].top1 = t[g].top1 \/ t[g].top1 \in t[i].topk
      PROVE  \E q \in pairs : q[1] = g
  <2> DEFINE C == Candidates(t, s, g)
  <2>0. C \subseteq s.test
    BY DEF Candidates, Exact, Strangers, Pool
  <2>1. C # {}
    <3>1. CASE Exact(t, s, g) # {}
      BY <3>1 DEF Candidates
    <3>2. CASE Exact(t, s, g) = {}
      <4>1. i \in Strangers(t, s, g) /\ t[i].top1 # t[g].top1
        BY <1>3, <3>2 DEF Exact, Strangers, Pool
      <4> QED
        BY <1>3, <3>2, <4>1 DEF Candidates
    <3> QED
      BY <3>1, <3>2
  <2>2. IsFiniteSet(C) /\ Cardinality(C) \in Nat /\ Cardinality(C) # 0
    BY <2>0, <2>1, FS_Subset, FS_CardinalityType, FS_EmptySet
  <2>3. d[g] \in SUBSET C /\ Cardinality(d[g]) # 0
    <3>1. d[g] \in SUBSET C /\ Cardinality(d[g]) \in {NPerGenuine, Cardinality(C)}
      BY <1>1 DEF Draws
    <3> QED
      BY <2>2, <3>1
  <2>4. PICK a \in d[g] : TRUE
    BY <2>3, FS_EmptySet
  <2>5. <<g, a>> \in pairs
    BY <1>1, <2>0, <2>3, <2>4 DEF Pool
  <2> QED
    BY <2>5
<1> QED
  BY <1>2, <1>3

ManifestOf(s, pairs) ==
  [noEnroll |-> NoEnroll(table, s), neverTested |-> NeverTested(table, s),
   warnings |-> Warnings(table, s, pairs)]

\* What the running build will write was drawn from, and says what holds of, its
\* own split.
PlanInv ==
  job.step # 0 =>
    /\ job.pairs \in ImpostorPairs(table, job.split)
    /\ job.manifest = ManifestOf(job.split, job.pairs)

\* What the only build has written.
FilesInv ==
  job.step # 0 =>
    /\ job.step > 1 => dir.data.train = job.split.train
    /\ job.step > 2 => dir.data.val = job.split.val
    /\ job.step > 3 => dir.data.test = job.split.test
    /\ job.step > 4 => dir.data.pairs = job.pairs
    /\ job.step <= 6 => "manifest" \notin dir.has

\* A directory that can be loaded is one split's, with its pairs and its manifest.
MadeBy(rank) ==
  LET s == MakeSplit(table, protocol, rank)
  IN /\ dir.data.train = s.train /\ dir.data.val = s.val /\ dir.data.test = s.test
     /\ dir.data.pairs \in ImpostorPairs(table, s)
     /\ "manifest" \in dir.has \ dir.torn => dir.data.manifest = ManifestOf(s, dir.data.pairs)
     /\ job.step # 0 => job.split = s /\ job.pairs = dir.data.pairs

DirInv == "feature" \in dir.has => \E rank \in Ranks(Ranked(table, protocol)) : MadeBy(rank)

\* What evaluate answered follows from what was loaded and from the pairs.
ResultInv ==
  /\ result.outcome # "none" =>
       result.outcome = IF bundle.test = {} THEN "empty"
                        ELSE IF bundle.train \cup bundle.val = {} THEN "raised"
                        ELSE "scored"
  /\ result.outcome = "scored" =>
       /\ result.genuine = {i \in bundle.test : table[i].user \in Prototypes}
       /\ result.impostor =
            {p \in dir.data.pairs :
               /\ table[p[1]].user \in Prototypes
               /\ p[2] \in bundle.train \cup bundle.val \cup bundle.test}
       /\ result.dropped = Values(table, bundle.test, "user") \ Prototypes

MadeInv == PlanInv /\ FilesInv /\ DirInv /\ ResultInv

\* Each file that is written is the build's own.
LEMMA MadeWrite ==
  ASSUME JobInv, OnceInv, MadeInv, WriteFile, UNCHANGED <<bundle, result>>
  PROVE  MadeInv'
<1> DEFINE f == Files[job.step]  data == Written(dir.data, f)
<1>1. job.step \in 1 .. 6 /\ f \in FileName
  BY SixFiles DEF WriteFile, FileName
<1>2. dir' = [has |-> dir.has \cup {f}, torn |-> dir.torn \ {f}, data |-> data]
  BY DEF WriteFile
<1>3. /\ data.train = IF f = "train" THEN job.split.train ELSE dir.data.train
      /\ data.val = IF f = "val" THEN job.split.val ELSE dir.data.val
      /\ data.test = IF f = "test" THEN job.split.test ELSE dir.data.test
      /\ data.pairs = IF f = "pairs" THEN job.pairs ELSE dir.data.pairs
  BY <1>1, WrittenShape DEF JobInv
<1>4. /\ job.step = 1 => f = "train"
      /\ job.step = 2 => f = "val"
      /\ job.step = 3 => f = "test"
      /\ job.step = 4 => f = "pairs"
      /\ job.step = 5 => f = "feature"
      /\ job.step = 6 => f = "manifest"
  BY SixFiles
<1>5. f = "manifest" => data.manifest = job.manifest
  BY DEF Written, JobInv, Shape
<1>6. /\ job'.step = job.step + 1 /\ job'.split = job.split /\ job'.pairs = job.pairs
      /\ job'.manifest = job.manifest /\ UNCHANGED <<table, protocol>>
  BY DEF WriteFile, JobInv, Shape
<1> HIDE DEF f, data
<1>7. /\ dir'.has = dir.has \cup {f} /\ dir'.torn = dir.torn \ {f} /\ dir'.data = data
  BY <1>2
<1>8. PlanInv'
  BY <1>1, <1>6 DEF MadeInv, PlanInv, ManifestOf
<1>9. FilesInv'
  BY <1>1, <1>3, <1>4, <1>6, <1>7 DEF MadeInv, FilesInv
<1>10. DirInv'
  <2>1. CASE job.step < 5
    <3>1. "feature" \notin dir.has
      BY <1>1, <2>1 DEF OnceInv, Progress
    <3> QED
      BY <1>1, <1>4, <1>7, <2>1, <3>1 DEF DirInv
  <2>2. CASE job.step >= 5
    <3>1. PICK rank \in Ranks(Ranked(table, protocol)) :
            job.split = MakeSplit(table, protocol, rank)
      BY <1>1 DEF JobInv
    <3>2. /\ data.train = job.split.train /\ data.val = job.split.val
          /\ data.test = job.split.test /\ data.pairs = job.pairs
      BY <1>1, <1>3, <1>4, <2>2 DEF MadeInv, FilesInv
    <3>3. "manifest" \in dir'.has => data.manifest = job.manifest
      BY <1>1, <1>4, <1>5, <1>7, <2>2 DEF MadeInv, FilesInv
    <3>4. MadeBy(rank)'
      BY <1>1, <1>6, <1>7, <3>1, <3>2, <3>3 DEF MadeBy, MadeInv, PlanInv, ManifestOf
    <3> QED
      BY <1>6, <3>1, <3>4 DEF DirInv
  <2> QED
    BY <1>1, <2>1, <2>2
<1>11. ResultInv'
  <2>1. CASE ~bundle.loaded
    BY <2>1 DEF OnceInv, Reading, NoResult, ResultInv
  <2>2. CASE bundle.loaded
    <3>1. job.step = 6
      BY <1>1, <2>2 DEF OnceInv, Progress, Reading
    <3>2. data.pairs = dir.data.pairs
      BY <1>3, <1>4, <3>1
    <3> QED
      BY <1>6, <1>7, <3>2 DEF MadeInv, ResultInv, Prototypes
  <2> QED
    BY <2>1, <2>2
<1> QED
  BY <1>8, <1>9, <1>10, <1>11 DEF MadeInv

\* In a directory that is built once the splits, the pairs and the manifest are
\* of one build, and evaluate's answer is read off them.
THEOREM MadeInvariant ==
  ASSUME MaxBuilds \in {0, 1}
  PROVE  Spec => []MadeInv
<1>1. Init => MadeInv
  BY DEF Init, BuildInit, MadeInv, PlanInv, FilesInv, DirInv, ResultInv, Idle, NotLoaded, NoResult
<1>2. JobInv /\ OnceInv /\ MadeInv /\ [Next]_vars => MadeInv'
  <2> SUFFICES ASSUME JobInv, OnceInv, MadeInv, [Next]_vars
               PROVE  MadeInv'
    OBVIOUS
  <2>1. CASE Build /\ UNCHANGED <<bundle, result>>
    <3>1. /\ builds = 0 /\ job'.step = 1 /\ UNCHANGED <<table, protocol, dir>>
          /\ job'.pairs \in ImpostorPairs(table, job'.split)
          /\ job'.manifest = ManifestOf(job'.split, job'.pairs)
      BY <2>1 DEF Build, OnceInv, Progress, ManifestOf
    <3>2. PlanInv'
      BY <3>1 DEF PlanInv, ManifestOf
    <3>3. dir.has = {}
      BY <3>1 DEF OnceInv, Progress
    <3>4. FilesInv' /\ DirInv'
      BY <3>1, <3>3 DEF FilesInv, DirInv
    <3>5. ResultInv'
      BY <2>1, <3>1 DEF MadeInv, ResultInv, Prototypes
    <3> QED
      BY <3>2, <3>4, <3>5 DEF MadeInv
  <2>2. CASE WriteFile /\ UNCHANGED <<bundle, result>>
    BY <2>2, MadeWrite
  <2>3. CASE (Assert \/ Die) /\ UNCHANGED <<bundle, result>>
    <3>1. job'.step = 0 /\ UNCHANGED <<table, protocol>>
      BY <2>3 DEF Assert, Die, Idle
    <3>2. /\ dir'.data = dir.data
          /\ dir'.has \ dir'.torn \subseteq dir.has \ dir.torn
          /\ "feature" \in dir'.has \ dir.has => job.step = 5
      <4>1. CASE UNCHANGED dir
        BY <4>1
      <4>2. CASE /\ job.step \in 1 .. Len(Files)
                 /\ dir' = [dir EXCEPT !.has = @ \cup {Files[job.step]},
                                       !.torn = @ \cup {Files[job.step]}]
        <5>1. dir' = [has |-> dir.has \cup {Files[job.step]},
                      torn |-> dir.torn \cup {Files[job.step]}, data |-> dir.data]
          BY <4>2 DEF JobInv, Shape
        <5>2. Files[job.step] = "feature" => job.step = 5
          BY <4>2, SixFiles
        <5> QED
          BY <5>1, <5>2
      <4> QED
        BY <2>3, <4>1, <4>2 DEF Assert, Die
    <3>3. PlanInv' /\ FilesInv'
      BY <3>1 DEF PlanInv, FilesInv
    <3>4. DirInv'
      <4>1. CASE "feature" \in dir.has
        BY <3>1, <3>2, <4>1 DEF MadeInv, DirInv, MadeBy, ManifestOf
      <4>2. CASE "feature" \in dir'.has /\ "feature" \notin dir.has
        <5>1. job.step = 5
          BY <3>2, <4>2
        <5>2. PICK rank \in Ranks(Ranked(table, protocol)) :
                job.split = MakeSplit(table, protocol, rank)
          BY <5>1 DEF JobInv
        <5>3. MadeBy(rank)'
          BY <3>1, <3>2, <5>1, <5>2 DEF MadeBy, MadeInv, PlanInv, FilesInv
        <5> QED
          BY <3>1, <5>2, <5>3 DEF DirInv
      <4>3. CASE "feature" \notin dir'.has
        BY <4>3 DEF DirInv
      <4> QED
        BY <4>1, <4>2, <4>3
    <3>5. ResultInv'
      BY <2>3, <3>1, <3>2 DEF MadeInv, ResultInv, Prototypes
    <3> QED
      BY <3>3, <3>4, <3>5 DEF MadeInv
  <2>4. CASE Load
    <3>1. UNCHANGED <<table, protocol, job, dir, result>> /\ ~bundle.loaded
      BY <2>4 DEF Load, buildVars
    <3>2. result = NoResult
      BY <3>1 DEF OnceInv, Reading
    <3>3. ResultInv'
      BY <3>1, <3>2 DEF ResultInv, NoResult
    <3> QED
      BY <3>1, <3>3 DEF MadeInv, PlanInv, FilesInv, DirInv, MadeBy, ManifestOf
  <2>5. CASE Evaluate
    <3>1. UNCHANGED <<table, protocol, job, dir, bundle>>
      BY <2>5 DEF Evaluate, buildVars
    <3>2. ResultInv'
      BY <2>5, <3>1 DEF Evaluate, ResultInv, NoResult, Prototypes
    <3> QED
      BY <3>1, <3>2 DEF MadeInv, PlanInv, FilesInv, DirInv, MadeBy, ManifestOf
  <2>6. CASE UNCHANGED vars
    BY <2>6 DEF vars, buildVars, MadeInv, PlanInv, FilesInv, DirInv, MadeBy, ManifestOf,
       ResultInv, Prototypes
  <2> QED
    BY <2>1, <2>2, <2>3, <2>4, <2>5, <2>6 DEF Next, BuildNext
<1> QED
  BY <1>1, <1>2, JobInvariant, OnceInvariant, PTL DEF Spec

\* What was loaded is a split that make_split made, of finitely many rows, with
\* its own pairs and, once it is whole, its own manifest.
LEMMA LoadedSplit ==
  ASSUME JobInv, OnceInv, MadeInv, bundle.loaded
  PROVE  \E rank :
           LET s == MakeSplit(table, protocol, rank)
           IN /\ SplitIsSound(table, s) /\ IsFiniteSet(s.test)
              /\ bundle.train = s.train /\ bundle.val = s.val /\ bundle.test = s.test
              /\ dir.data.pairs \in ImpostorPairs(table, s)
              /\ "manifest" \in dir.has \ dir.torn =>
                   dir.data.manifest = ManifestOf(s, dir.data.pairs)
<1>1. PICK rank \in Ranks(Ranked(table, protocol)) : MadeBy(rank)
  BY DEF OnceInv, Reading, MadeInv, DirInv
<1> DEFINE s == MakeSplit(table, protocol, rank)
<1>2. SplitIsSound(table, s)
  BY MakeSplitIsSound DEF JobInv
<1>3. IsFiniteSet(s.test)
  <2>1. table \in Seq(WindowRow)
    BY TablesAssumption DEF JobInv
  <2>2. IsFiniteSet(DOMAIN table)
    BY <2>1, FS_Interval
  <2> QED
    BY <1>2, <2>2, FS_Subset DEF SplitIsSound
<1> QED
  BY <1>1, <1>2, <1>3 DEF OnceInv, Reading, MadeBy

\* Each impostor attacks another user's window in a scene it may be in, the
\* relaxed match only where the exact one has nobody, and no window is spared that
\* another user's may be matched with, be it only by the relaxed match.
THEOREM ImpostorsAreMatched ==
  ASSUME MaxBuilds \in {0, 1}, NPerGenuine # 0
  PROVE  Spec => []AttackersAreMatched
<1>1. JobInv /\ OnceInv /\ MadeInv => AttackersAreMatched
  <2> SUFFICES ASSUME JobInv, OnceInv, MadeInv, result.outcome = "scored"
               PROVE  AttackersAreMatched
    BY DEF AttackersAreMatched
  <2>1. bundle.loaded
    BY DEF OnceInv, Reading
  <2>2. PICK rank :
          LET s == MakeSplit(table, protocol, rank)
          IN /\ IsFiniteSet(s.test) /\ bundle.test = s.test
             /\ dir.data.pairs \in ImpostorPairs(table, s)
    BY <2>1, LoadedSplit
  <2> DEFINE s == MakeSplit(table, protocol, rank)
  <2>3. /\ result.impostor = {p \in dir.data.pairs :
             /\ table[p[1]].user \in Prototypes
             /\ p[2] \in bundle.train \cup bundle.val \cup bundle.test}
        /\ result.genuine = {i \in bundle.test : table[i].user \in Prototypes}
    BY DEF MadeInv, ResultInv
  <2> HIDE DEF s
  <2>4. IsFiniteSet(s.test) /\ bundle.test = s.test /\ dir.data.pairs \in ImpostorPairs(table, s)
    BY <2>2 DEF s
  <2>5. ASSUME NEW q \in result.impostor
        PROVE  /\ table[q[1]].user # table[q[2]].user
               /\ \/ table[q[2]].top1 = table[q[1]].top1
                  \/ /\ table[q[1]].top1 \in table[q[2]].topk
                     /\ \A j \in bundle.test :
                          table[j].top1 = table[q[1]].top1 => table[j].user = table[q[1]].user
    BY <2>3, <2>4, <2>5, PairsAreMatched
  <2>6. ASSUME NEW g \in result.genuine,
               NEW i \in bundle.test, table[i].user # table[g].user,
               table[i].top1 = table[g].top1 \/ table[g].top1 \in table[i].topk
        PROVE  \E q \in result.impostor : q[1] = g
    <3>1. PICK q \in dir.data.pairs : q[1] = g
      BY <2>3, <2>4, <2>6, PairsAreMatched
    <3>2. q[2] \in bundle.test
      BY <2>4, <3>1, PairsAreMatched
    <3> QED
      BY <2>3, <3>1, <3>2
  <2> QED
    BY <2>5, <2>6 DEF AttackersAreMatched
<1> QED
  BY <1>1, JobInvariant, OnceInvariant, MadeInvariant, PTL

\* evaluate drops exactly the users whom the manifest calls unenrolled, and
\* scores none whom it calls never tested.
THEOREM DropsAreForetold ==
  ASSUME MaxBuilds \in {0, 1}
  PROVE  Spec => []ManifestForetellsDrops
<1>1. JobInv /\ OnceInv /\ MadeInv => ManifestForetellsDrops
  <2> SUFFICES ASSUME JobInv, OnceInv, MadeInv, result.outcome = "scored",
                      "manifest" \in dir.has \ dir.torn
               PROVE  /\ result.dropped = dir.data.manifest.noEnroll
                      /\ Values(table, result.genuine, "user")
                           \cap dir.data.manifest.neverTested = {}
    BY DEF ManifestForetellsDrops
  <2>1. bundle.loaded
    BY DEF OnceInv, Reading
  <2>2. PICK rank :
          LET s == MakeSplit(table, protocol, rank)
          IN /\ bundle.train = s.train /\ bundle.val = s.val /\ bundle.test = s.test
             /\ dir.data.manifest = ManifestOf(s, dir.data.pairs)
    BY <2>1, LoadedSplit
  <2>3. /\ dir.data.manifest.noEnroll = Values(table, bundle.test, "user") \ Prototypes
        /\ dir.data.manifest.neverTested = Keys(table, "user") \ Values(table, bundle.test, "user")
    BY <2>2 DEF ManifestOf, NoEnroll, NeverTested, Prototypes
  <2>4. /\ result.genuine \subseteq bundle.test
        /\ result.dropped = Values(table, bundle.test, "user") \ Prototypes
    BY DEF MadeInv, ResultInv
  <2> QED
    BY <2>3, <2>4 DEF Values
<1> QED
  BY <1>1, JobInvariant, OnceInvariant, MadeInvariant, PTL

\* A manifest without a warning is of an experiment that scores every user of the
\* table and in which somebody attacks.
THEOREM SilenceIsSound ==
  ASSUME MaxBuilds \in {0, 1}
  PROVE  Spec => []QuietManifestIsSound
<1>1. JobInv /\ OnceInv /\ MadeInv => QuietManifestIsSound
  <2> SUFFICES ASSUME JobInv, OnceInv, MadeInv, result.outcome # "none",
                      "manifest" \in dir.has \ dir.torn, dir.data.manifest.warnings = {}
               PROVE  /\ result.outcome = "scored"
                      /\ Values(table, result.genuine, "user") = Keys(table, "user")
                      /\ result.impostor # {}
    BY DEF QuietManifestIsSound
  <2> DEFINE pairs == dir.data.pairs
  <2>1. bundle.loaded
    BY DEF OnceInv, Reading
  <2>2. PICK rank :
          LET s == MakeSplit(table, protocol, rank)
          IN /\ SplitIsSound(table, s)
             /\ bundle.train = s.train /\ bundle.val = s.val /\ bundle.test = s.test
             /\ pairs \in ImpostorPairs(table, s)
             /\ dir.data.manifest = ManifestOf(s, pairs)
    BY <2>1, LoadedSplit
  <2> DEFINE s == MakeSplit(table, protocol, rank)
  <2>3. pairs # {} /\ NeverTested(table, s) = {} /\ NoEnroll(table, s) = {}
    BY <2>2 DEF ManifestOf, Warnings
  <2>4. /\ bundle.test \subseteq DOMAIN table
        /\ pairs \in ImpostorPairs(table, s) /\ bundle.test = s.test
    BY <2>2 DEF SplitIsSound
  <2>5. /\ Keys(table, "user") \subseteq Values(table, bundle.test, "user")
        /\ Values(table, bundle.test, "user") \subseteq Prototypes
    BY <2>2, <2>3 DEF NeverTested, NoEnroll, Prototypes
  <2> HIDE DEF s
  <2>6. PICK q \in pairs : q \in bundle.test \X bundle.test
    BY <2>3, <2>4, PairsAreSound
  <2>7. bundle.test # {} /\ table[q[1]].user \in Prototypes
    BY <2>5, <2>6 DEF Values
  <2>8. bundle.train \cup bundle.val # {}
    BY <2>7 DEF Prototypes, Values
  <2>9. result.outcome = "scored"
    BY <2>7, <2>8 DEF MadeInv, ResultInv
  <2>10. result.genuine = bundle.test
    BY <2>5, <2>9 DEF MadeInv, ResultInv, Values
  <2>11. Values(table, bundle.test, "user") \subseteq Keys(table, "user")
    BY <2>4 DEF Keys, Values
  <2>12. q \in result.impostor
    BY <2>6, <2>7, <2>9 DEF MadeInv, ResultInv
  <2> QED
    BY <2>5, <2>9, <2>10, <2>11, <2>12
<1> QED
  BY <1>1, JobInvariant, OnceInvariant, MadeInvariant, PTL

-----------------------------------------------------------------------------
(* The validation side. *)

\* An experiment with its validation side is an experiment.
LEMMA ValidationRefines == ValSpec => Spec
<1>1. ValInit => Init
  BY DEF ValInit
<1>2. [ValNext]_valVars => [Next]_vars
  BY DEF ValNext, EvaluateVal, valVars, vars
<1> QED
  BY <1>1, <1>2, PTL DEF ValSpec, Spec

\* What is scored on val was loaded as val, and no user attacks himself.
ValInv ==
  /\ ~bundle.loaded => val = NoVal
  /\ val.genuine \subseteq bundle.val
  /\ \A p \in val.impostor : p[2] \in bundle.val /\ table[p[2]].user # p[1]

\* Attackers are windows of val by other users, matched or not.
LEMMA ValPairs ==
  ASSUME NEW pairs \in {LoosePairs} \cup MatchedPairs, NEW p \in pairs
  PROVE  p[2] \in bundle.val /\ table[p[2]].user # p[1]
<1>1. CASE pairs = LoosePairs
  BY <1>1 DEF LoosePairs, Queries
<1>2. CASE pairs \in MatchedPairs
  <2>1. PICK f \in [Attacked -> Queries] :
          /\ \A g \in Attacked : f[g] \in Attackers(g)
          /\ pairs = {<<table[g].user, f[g]>> :
                       g \in {g \in Attacked : table[g].user \in TrainPrototypes}}
    BY <1>2 DEF MatchedPairs
  <2>2. PICK g \in Attacked : p = <<table[g].user, f[g]>>
    BY <2>1
  <2>3. f[g] \in Candidates(table, [test |-> Queries], g)
    BY <2>1 DEF Attackers
  <2>4. f[g] \in Queries /\ table[f[g]].user # table[g].user
    BY <2>3 DEF Candidates, Exact, Strangers, Pool
  <2> QED
    BY <2>2, <2>4 DEF Queries
<1> QED
  BY <1>1, <1>2

\* The validation scores are of the windows that were loaded as val.
THEOREM ValInvariant == ValSpec => []ValInv
<1>1. ValInit => ValInv
  BY DEF ValInit, ValInv, NoVal
<1>2. ValInv /\ JobInv /\ [ValNext]_valVars => ValInv'
  <2> SUFFICES ASSUME ValInv, JobInv, [ValNext]_valVars
               PROVE  ValInv'
    OBVIOUS
  <2>1. UNCHANGED table
    BY DEF ValNext, Next, BuildNext, Build, WriteFile, Assert, Die, Load, Evaluate,
       EvaluateVal, valVars, vars, buildVars
  <2>2. CASE EvaluateVal
    <3>1. bundle.loaded /\ UNCHANGED bundle
      BY <2>2 DEF EvaluateVal, vars
    <3>2. CASE val' = [NoVal EXCEPT !.matching = "empty"]
      BY <3>1, <3>2 DEF ValInv, NoVal
    <3>3. CASE \E pairs \in {LoosePairs} \cup MatchedPairs : \E m :
                 val' = [matching |-> m, impostor |-> pairs,
                         genuine |-> {i \in Queries : table[i].user \in TrainPrototypes}]
      <4>1. PICK pairs \in {LoosePairs} \cup MatchedPairs :
              /\ val'.impostor = pairs
              /\ val'.genuine = {i \in Queries : table[i].user \in TrainPrototypes}
        BY <3>3
      <4>2. \A p \in pairs : p[2] \in bundle.val /\ table[p[2]].user # p[1]
        BY <4>1, ValPairs
      <4> QED
        BY <2>1, <3>1, <4>1, <4>2 DEF ValInv, Queries
    <3> QED
      BY <2>2, <3>2, <3>3 DEF EvaluateVal
  <2>3. CASE UNCHANGED val
    <3>1. UNCHANGED bundle \/ ~bundle.loaded
      BY <2>2, <2>3 DEF ValNext, Next, Load, Evaluate, EvaluateVal, valVars, vars
    <3> QED
      BY <2>1, <2>3, <3>1 DEF ValInv, NoVal
  <2> QED
    BY <2>2, <2>3 DEF ValNext, valVars
<1>3. ValSpec => []JobInv
  BY ValidationRefines, JobInvariant, PTL
<1> QED
  BY <1>1, <1>2, <1>3, PTL DEF ValSpec

\* Over a directory that is built once, what is chosen on val is chosen on
\* sessions that are not tested, nor trained on unless the manifest says so.
THEOREM ValidationIsHonest ==
  ASSUME MaxBuilds \in {0, 1}
  PROVE  ValSpec => []ValidationIsUnseenOrNoted
<1>1. JobInv /\ OnceInv /\ MadeInv /\ ValInv => ValidationIsUnseenOrNoted
  <2> SUFFICES ASSUME JobInv, OnceInv, MadeInv, ValInv
               PROVE  ValidationIsUnseenOrNoted
    OBVIOUS
  <2>1. ValScored \subseteq bundle.val /\ \A p \in val.impostor : table[p[2]].user # p[1]
    BY DEF ValInv, ValScored
  <2>2. CASE ~bundle.loaded
    <3>1. ValScored = {}
      BY <2>2 DEF ValInv, ValScored, NoVal
    <3> QED
      BY <2>1, <3>1 DEF ValidationIsUnseenOrNoted, Values
  <2>3. CASE bundle.loaded
    <3>1. PICK rank :
            LET s == MakeSplit(table, protocol, rank)
            IN /\ SplitIsSound(table, s)
               /\ bundle.train = s.train /\ bundle.val = s.val /\ bundle.test = s.test
               /\ "manifest" \in dir.has \ dir.torn =>
                    dir.data.manifest = ManifestOf(s, dir.data.pairs)
      BY <2>3, LoadedSplit
    <3>2. Apart(table, bundle.val, bundle.test, "session")
      BY <3>1 DEF SplitIsSound
    <3>3. \/ Apart(table, bundle.val, bundle.train, "session")
          \/ "manifest" \notin dir.has \ dir.torn
          \/ "combined_empty_val_borrowed_train" \in dir.data.manifest.warnings
      BY <3>1 DEF SplitIsSound, ManifestOf, Warnings
    <3> QED
      BY <2>1, <3>2, <3>3 DEF ValidationIsUnseenOrNoted, Apart, Values
  <2> QED
    BY <2>2, <2>3
<1> QED
  BY <1>1, ValidationRefines, JobInvariant, OnceInvariant, MadeInvariant, ValInvariant, PTL

=============================================================================
