------------------------------- MODULE Splits -------------------------------
(***************************************************************************)
(* research/datasets/splits.py: how the windows of windows.parquet are     *)
(* dealt out to train, val and test.  A table is a sequence of windows, a  *)
(* row an index into it.  Session ids, days and package buckets are        *)
(* numbers in the order in which the code sorts the strings.               *)
(*                                                                         *)
(* The code orders keys by a salted hash.  A rank stands for that order:   *)
(* one-to-one from keys to numbers and, as far as the seed goes, any such. *)
(***************************************************************************)
EXTENDS Integers, Sequences, FiniteSets

CONSTANTS
  Scene,         \* the weak labels
  Tables         \* per protocol, the tables it is given

Protocol == {"leave_session_out", "leave_day_out", "leave_app_out", "combined_day_app"}

WindowRow == [session : Nat, user : Nat, day : Nat, app : Nat,
              top1 : Scene, topk : SUBSET Scene]

(* A session is one run of one phone's samples on one day in one app.      *)
ASSUME TablesAssumption ==
  /\ DOMAIN Tables = Protocol
  /\ \A p \in Protocol : \A t \in Tables[p] :
       /\ t \in Seq(WindowRow) /\ t # <<>>
       /\ \A i, j \in DOMAIN t :
            t[i].session = t[j].session =>
              t[i].user = t[j].user /\ t[i].day = t[j].day /\ t[i].app = t[j].app

Values(t, rows, col) == {t[i][col] : i \in rows}

Keys(t, col) == Values(t, DOMAIN t, col)

Ranks(K) ==
  {r \in [K -> 1 .. Cardinality(K)] : \A j, k \in K : r[j] = r[k] => j = k}

-----------------------------------------------------------------------------
(* Mutants: definitions with a bug a change could introduce. *)

\* A user's sessions are looked up in the whole table.
AllSessions(t, u) == Keys(t, "session")

\* The last day is split by session as the first is.
TwoDayUnsplit(t, i) ==
  IF \A j \in DOMAIN t : t[j].session <= t[i].session THEN "val"
  ELSE IF \A d \in Keys(t, "day") : d <= t[i].day THEN "test"
  ELSE "train"

\* The day is asserted on although there is only one.
DayAndApp(t) == {"day", "app"}

-----------------------------------------------------------------------------
(* How many of n keys go to val and test. *)

\* The fractions that the protocols default to, in percent.
Fraction(protocol) ==
  [val |-> IF protocol = "leave_app_out" THEN 25 ELSE 20,
   test |-> IF protocol \in {"leave_app_out", "combined_day_app"} THEN 25 ELSE 20]

\* Python's round: halves go to the even neighbour.
Round(n, pct) ==
  LET q == (n * pct) \div 100
      r == (n * pct) % 100
  IN IF r > 50 \/ (r = 50 /\ q % 2 = 1) THEN q + 1 ELSE q

AtLeastOne(k) == IF k < 1 THEN 1 ELSE k

\* What the shrink loop ends with: val gives way first, then test, neither below
\* one, until a key is left for train.
Shrunk(n, val, test) ==
  LET fewer == IF val + test < n THEN val ELSE AtLeastOne(n - 1 - test)
  IN [val |-> fewer,
      test |-> IF fewer + test < n THEN test ELSE AtLeastOne(n - 1 - fewer)]

Sizes(n, f) == Shrunk(n, AtLeastOne(Round(n, f.val)), AtLeastOne(Round(n, f.test)))

Side(i, size) ==
  IF i <= size.test THEN "test"
  ELSE IF i <= size.test + size.val THEN "val"
  ELSE "train"

\* The split of the i-th of n ordered keys.
Place(i, n, f) ==
  IF n = 1 THEN "train"
  ELSE IF n = 2 THEN (IF i = 1 THEN "train" ELSE "test")
  ELSE Side(i, Sizes(n, f))

Label(rank, K, k, f) ==
  Place(Cardinality({j \in K : rank[j] <= rank[k]}), Cardinality(K), f)

Deal(label, cols, notes) ==
  [train |-> {i \in DOMAIN label : label[i] = "train"},
   val   |-> {i \in DOMAIN label : label[i] = "val"},
   test  |-> {i \in DOMAIN label : label[i] = "test"},
   cols  |-> cols,
   notes |-> notes]

-----------------------------------------------------------------------------
(* The four protocols. *)

SessionsOf(t, u) == {t[i].session : i \in {j \in DOMAIN t : t[j].user = u}}

LeaveSessionOut(t, rank) ==
  Deal([i \in DOMAIN t |->
          Label(rank, SessionsOf(t, t[i].user), t[i].session, Fraction("leave_session_out"))],
       {"session"},
       IF \E u \in Keys(t, "user") : Cardinality(SessionsOf(t, u)) = 1
       THEN {"user_single_session_not_testable"} ELSE {})

\* Two days: the later is test; the last session of the earlier one is val, if
\* it has another.
TwoDay(t, i) ==
  LET early == {t[j].session : j \in {k \in DOMAIN t : t[k].day = t[i].day}}
  IN IF \A d \in Keys(t, "day") : d <= t[i].day THEN "test"
     ELSE IF Cardinality(early) >= 2 /\ \A s \in early : s <= t[i].session THEN "val"
     ELSE "train"

\* More: days in order, the last for test, those before them for val.
ManyDays(t, i) ==
  LET days == Keys(t, "day")
  IN Side(Cardinality({d \in days : d >= t[i].day}),
          Sizes(Cardinality(days), Fraction("leave_day_out")))

LeaveDayOut(t, rank) ==
  CASE Cardinality(Keys(t, "day")) <= 1 ->
         [LeaveSessionOut(t, rank) EXCEPT
            !.notes = @ \cup {"leave_day_out_fell_back_to_leave_session_out"}]
    [] Cardinality(Keys(t, "day")) = 2 ->
         Deal([i \in DOMAIN t |-> TwoDay(t, i)], {"day"}, {})
    [] OTHER ->
         Deal([i \in DOMAIN t |-> ManyDays(t, i)], {"day"}, {})

LeaveAppOut(t, rank) ==
  Deal([i \in DOMAIN t |->
          Label(rank, Keys(t, "app"), t[i].app, Fraction("leave_app_out"))],
       {"app"}, {})

SingleDay(t) == Cardinality(Keys(t, "day")) <= 1

CombinedCols(t) == IF SingleDay(t) THEN {"app"} ELSE {"day", "app"}

\* The buckets that are held out for one split; test gets one in any case.
Buckets(t, rank, split) ==
  LET B == {b \in Keys(t, "app") :
              Label(rank, Keys(t, "app"), b, Fraction("combined_day_app")) = split}
  IN IF split = "test" /\ B = {}
     THEN {b \in Keys(t, "app") : \A c \in Keys(t, "app") : b <= c}
     ELSE B

\* Test is on the last day in a held-out bucket, val there in a val bucket, train
\* before it in neither; the other rows are dropped.
CombinedLabel(t, tests, vals, i) ==
  LET held == \A d \in Keys(t, "day") : d <= t[i].day
  IN IF held /\ t[i].app \in tests THEN "test"
     ELSE IF held /\ t[i].app \in vals THEN "val"
     ELSE IF (SingleDay(t) \/ ~held) /\ t[i].app \notin tests \cup vals THEN "train"
     ELSE "drop"

LastRow(R) == {i \in R : \A j \in R : j <= i}

\* An empty test takes the val rows.
FillTest(s) ==
  IF s.test # {} THEN s
  ELSE [s EXCEPT !.test = s.val, !.val = {},
                 !.notes = @ \cup {IF s.val # {} THEN "combined_empty_test_used_val_rows"
                                   ELSE "combined_empty_test_returned_empty"}]

\* An empty val borrows a row of train.
FillVal(s) ==
  IF s.val # {} \/ s.train = {} THEN s
  ELSE [s EXCEPT !.val = LastRow(s.train),
                 !.notes = @ \cup {"combined_empty_val_borrowed_train"}]

CombinedDeal(t, tests, vals) ==
  Deal([i \in DOMAIN t |-> CombinedLabel(t, tests, vals, i)], CombinedCols(t),
       IF SingleDay(t) THEN {"combined_fell_back_to_app_only"} ELSE {})

Combined(t, rank) ==
  FillVal(FillTest(CombinedDeal(t, Buckets(t, rank, "test"), Buckets(t, rank, "val"))))

MakeSplit(t, protocol, rank) ==
  CASE protocol = "leave_session_out" -> LeaveSessionOut(t, rank)
    [] protocol = "leave_day_out" -> LeaveDayOut(t, rank)
    [] protocol = "leave_app_out" -> LeaveAppOut(t, rank)
    [] protocol = "combined_day_app" -> Combined(t, rank)

\* What a protocol ranks: package buckets or, also in its fallback, sessions.
Ranked(t, protocol) ==
  Keys(t, IF protocol \in {"leave_session_out", "leave_day_out"} THEN "session" ELSE "app")
=============================================================================
