---------------------------- MODULE MCExperiment ----------------------------
(***************************************************************************)
(* Small instances of Experiment: tables of five windows in up to four     *)
(* sessions, the last of which has two, by two users on up to three days   *)
(* in up to three apps.  What a protocol does not look at is fixed.        *)
(***************************************************************************)
EXTENDS Validation

Sit == "I0"
Walk == "I1"
MCScene == {Sit, Walk}

SessionAt == <<1, 2, 3, 4, 4>>

\* Numberings of the sessions from 1, each new number one above those before.
Named(n) ==
  {f \in [1 .. 4 -> 1 .. n] :
     \A i \in 1 .. 4 : f[i] = 1 \/ \E j \in 1 .. i - 1 : f[j] = f[i] - 1}

Ordered(n) == {f \in Named(n) : \A i \in 1 .. 3 : f[i] <= f[i + 1]}

\* Who may be where: scenes that match, that match only loosely, and that do not.
Labels ==
  {[top1 |-> <<Sit, Sit, Sit, Sit, Sit>>, loose |-> FALSE],
   [top1 |-> <<Sit, Walk, Sit, Walk, Sit>>, loose |-> TRUE],
   [top1 |-> <<Sit, Walk, Sit, Walk, Sit>>, loose |-> FALSE]}

Row(u, d, a, l, i) ==
  LET s == SessionAt[i]
  IN [session |-> s, user |-> u[s], day |-> d[s], app |-> a[s],
      top1 |-> l.top1[i], topk |-> IF l.loose THEN MCScene ELSE {l.top1[i]}]

TablesOf(users, days, apps) ==
  {<<Row(u, d, a, l, 1), Row(u, d, a, l, 2), Row(u, d, a, l, 3),
     Row(u, d, a, l, 4), Row(u, d, a, l, 5)>> :
     u \in users, d \in days, a \in apps, l \in Labels}

One == {[i \in 1 .. 4 |-> 1]}

MCTables ==
  [p \in Protocol |->
     CASE p = "leave_session_out" -> TablesOf(Named(2), One, One)
       [] p = "leave_day_out" -> TablesOf(Named(2), Ordered(3), One)
       [] p = "leave_app_out" -> TablesOf(Named(2), One, Named(3))
       [] p = "combined_day_app" -> TablesOf(Named(2), Ordered(3), Named(3))]
=============================================================================
