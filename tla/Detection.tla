------------------------------ MODULE Detection ------------------------------
(***************************************************************************)
(* detection.py: policies that turn the rejects of single windows into the *)
(* rejection of a session, and the choice of one of them.  Scores are      *)
(* integers, as only their order against the threshold counts; a stream is *)
(* the sequence of the scores of one session, or of one impostor's windows *)
(* against one user; time is counted in strides.                           *)
(***************************************************************************)
EXTENDS Floats, Integers, Sequences, FiniteSets, FiniteSetsExt, SequencesExt

CONSTANT Precision  \* binary digits of a double's significand, 53 in the code

ASSUME PrecisionAssumption == Precision \in Nat /\ Precision >= 2

-----------------------------------------------------------------------------
(* Policies. *)

Raw == [kind |-> "raw"]

KofN(k, n) == [kind |-> "k_of_n", k |-> k, n |-> n]

\* alpha in tenths; the trigger is one half.
Ewma(alpha) == [kind |-> "ewma", alpha |-> alpha]

\* DETECTION_GRID
Grid == <<Raw, KofN(2, 3), KofN(3, 5), Ewma(3), Ewma(5)>>

Rejects(stream, threshold) == {i \in DOMAIN stream : stream[i] < threshold}

\* Rejects among the last n windows.
Recent(rejects, i, n) == rejects \cap (i - n + 1 .. i)

\* Binary digits that a numerator has beyond the significand's.
Excess[num \in Nat] == IF num < 2^Precision THEN 0 ELSE 1 + Excess[num \div 2]

\* A numerator over a power of two, rounded to the nearest double, a tie to the
\* even one.  That doubles also end below is left out: no number near the trigger
\* tells.
Rounded(num) ==
  LET unit == 2^Excess[num]
      whole == num \div unit
      rest == num % unit
      up == 2 * rest > unit \/ (2 * rest = unit /\ whole % 2 = 1)
  IN (IF up THEN whole + 1 ELSE whole) * unit

\* Doubles between a quarter and one are numerators over this.
Scale == 2^(Precision + 1)

\* alpha, read from its tenths, and 1.0 - alpha.
Weight(alpha) == (alpha * Scale + 5) \div 10

Memory(alpha) == Rounded(Scale - Weight(alpha))

\* e = alpha * float(rej[i]) + (1.0 - alpha) * e
Averaged(e, rejected, alpha) ==
  [num |-> Rounded((IF rejected THEN Weight(alpha) * e.den ELSE 0)
                     + Rounded(Memory(alpha) * e.num)),
   den |-> Scale * e.den]

\* The weighted rate after each window.
Rate(rejects, alpha, n) ==
  LET e[i \in 0 .. n] ==
        IF i = 0 THEN [num |-> 0, den |-> 1] ELSE Averaged(e[i - 1], i \in rejects, alpha)
  IN e

\* Mutant: the trigger need only be met.
MeetsTrigger(e) == e.den - e.num <= e.num

\* More than one half.
Triggers(e) == e.den - e.num < e.num

\* policy_decisions: windows in which the policy is in its reject state.
Decisions(rejects, n, policy) ==
  CASE policy.kind = "raw" -> rejects
    [] policy.kind = "k_of_n" ->
         {i \in 1 .. n : Cardinality(Recent(rejects, i, policy.n)) >= policy.k}
    [] policy.kind = "ewma" ->
         LET e == Rate(rejects, policy.alpha, n) IN {i \in 1 .. n : Triggers(e[i])}

Rejected(stream, threshold, policy) ==
  Decisions(Rejects(stream, threshold), Len(stream), policy)

-----------------------------------------------------------------------------
(* stream_event_metrics: a result has its genuine and its attack streams.  *)

Add(seq) == FoldSeq(LAMBDA x, y : x + y, 0, seq)

\* Mutant: an attack that is not detected takes no time.
NeverIsNow(stream, threshold, policy) ==
  LET at == Rejected(stream, threshold, policy) IN IF at = {} THEN 0 ELSE Min(at) - 1

\* Strides before the first reject; the whole stream if there is none.
TimeTo(stream, threshold, policy) ==
  LET at == Rejected(stream, threshold, policy)
  IN IF at = {} THEN Len(stream) ELSE Min(at) - 1

\* A sum over the attack streams: their number is the same for every policy.
TimeToDetect(result, threshold, policy) ==
  Add([s \in DOMAIN result.attack |-> TimeTo(result.attack[s], threshold, policy)])

Detected(result, threshold, policy) ==
  Cardinality({s \in DOMAIN result.attack : Rejected(result.attack[s], threshold, policy) # {}})

\* An hour is as many strides as divide by the length of every stream.
Hour == 12

\* A sum over the genuine streams.
FalseAlarms(result, threshold, policy) ==
  Add([s \in DOMAIN result.genuine |->
         (Hour * Cardinality(Rejected(result.genuine[s], threshold, policy)))
           \div Len(result.genuine[s])])

Event(result, threshold, policy) ==
  [ttd |-> IF threshold = NaN \/ result.attack = <<>> THEN NaN
           ELSE TimeToDetect(result, threshold, policy),
   detected |-> IF threshold = NaN \/ result.attack = <<>> THEN NaN
                ELSE Detected(result, threshold, policy),
   alarms |-> IF threshold = NaN \/ result.genuine = <<>> THEN NaN
              ELSE FalseAlarms(result, threshold, policy)]

-----------------------------------------------------------------------------
(* select_detection_policy *)

\* False alarms per hour, the mean over the streams, are within the budget.
Feasible(result, threshold, policy, budget) ==
  LET alarms == Event(result, threshold, policy).alarms
  IN alarms = NaN \/ alarms <= budget * Len(result.genuine)

\* The feasible ones, or all if none is; of them the fastest; of those the first.
SelectPolicy(result, threshold, budget) ==
  IF threshold = NaN THEN Raw
  ELSE LET feasible == {i \in DOMAIN Grid : Feasible(result, threshold, Grid[i], budget)}
           pool == IF feasible = {} THEN DOMAIN Grid ELSE feasible
           ttd == [i \in pool |-> Event(result, threshold, Grid[i]).ttd]
       IN Grid[Min({i \in pool : \A j \in pool : ttd[i] <= ttd[j]})]
===============================================================================
