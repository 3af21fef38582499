------------------------------- MODULE Analysis -------------------------------
(***************************************************************************)
(* What is measured after a training: _metrics_payload of runner.py        *)
(* chooses the threshold and the detection policy on the scores of val,    *)
(* freezes them, and measures the scores of test; after the baselines      *)
(* _paired_delta_statistics corrects their p-values as one family.         *)
(***************************************************************************)
EXTENDS OperatingPoints, Statistics

CONSTANTS
  Validations,   \* streams of scores that the evaluation of val may end with
  Results,       \* and those that the evaluation of test may
  Thresholds,    \* where the equal error rate of a result may be, or NaN
  Targets,       \* rates that an operating point is asked for
  Budgets,       \* false alarms per hour that a policy may raise
  Families       \* p-values of the baselines

\* A percentage, or none.
Percentage == 0 .. 100 \cup {NaN}

ASSUME AnalysisAssumption ==
  /\ Families \subseteq Seq(Percentage)
  /\ Targets \subseteq [num : Nat, den : Nat \ {0}]
  /\ Thresholds \subseteq Nat \cup {NaN}
  /\ \A r \in Validations \cup Results :
       /\ r.genuine \in Seq(Seq(Nat)) /\ GenuineScores(r) \in Seq(Nat)
       /\ r.attack \in Seq(Seq(Nat)) /\ AttackScores(r) \in Seq(Nat)

VARIABLES
  step,          \* of run_experiment, and of the suite
  result,        \* the scores at hand
  frozen,        \* threshold and policy, and the budget they were chosen under
  metrics,       \* metrics.json
  family         \* p_value and p_value_holm of paired_deltas.csv

vars == <<step, result, frozen, metrics, family>>

NoScores == [genuine |-> <<>>, attack |-> <<>>]

NotFrozen == [threshold |-> NaN, policy |-> Raw, budget |-> 0]

NoMetrics == [frrAtFar |-> <<>>, farAtFrr |-> <<>>, event |-> <<>>]

NoFamily == [p |-> <<>>, holm |-> <<>>]

Init ==
  /\ step = "val"
  /\ result = NoScores
  /\ frozen = NotFrozen
  /\ metrics = NoMetrics
  /\ family = NoFamily

Measured(r, choice) ==
  [frrAtFar |-> [t \in Targets |-> FrrAtFar(r, t)],
   farAtFrr |-> [t \in Targets |-> FarAtFrr(r, t)],
   event |-> Event(r, choice.threshold, choice.policy)]

\* The threshold of a result, where it has one.
Threshold(r) == IF Undefined(r) THEN {NaN} ELSE Thresholds

\* A threshold of the scores of val, and the policy that is best on them.
Freeze ==
  /\ step = "val"
  /\ \E r \in Validations \ {NoScores}, budget \in Budgets :
       \E threshold \in Threshold(r) :
         /\ result' = r
         /\ frozen' = [threshold |-> threshold, budget |-> budget,
                       policy |-> SelectPolicy(r, threshold, budget)]
  /\ step' = "test"
  /\ UNCHANGED <<metrics, family>>

\* The scores of test, once, by what is frozen.
Measure ==
  /\ step = "test"
  /\ \E r \in Results :
       /\ result' = r
       /\ metrics' = Measured(r, frozen)
  /\ step' = "measured"
  /\ UNCHANGED <<frozen, family>>

\* Without scores of val, those of test give the threshold.
FallBack ==
  /\ step = "val"
  /\ \E r \in Results : \E threshold \in Threshold(r) :
       /\ result' = r
       /\ frozen' = [NotFrozen EXCEPT !.threshold = threshold]
       /\ metrics' = Measured(r, frozen')
  /\ step' = "measured"
  /\ UNCHANGED family

\* holm_correction over the baselines that were compared.
Correct ==
  /\ step = "val"
  /\ \E p \in Families : family' = [p |-> p, holm |-> Holm(p)]
  /\ step' = "corrected"
  /\ UNCHANGED <<result, frozen, metrics>>

Next == Freeze \/ FallBack \/ Measure \/ Correct

Spec == Init /\ [][Next]_vars
-----------------------------------------------------------------------------
(* Properties. *)

Tied(r) == Range(GenuineScores(r)) \cap Range(AttackScores(r)) # {}

\* What a threshold could reach: each score, or above all of them.
Reachable(r) == {FarFrr(r, t) : t \in Levels(r) \cup {Max(Levels(r)) + 1}}

\* The curve's vertices lose nothing: the FRR reported for a FAR, and the FAR for
\* an FRR, is the least that any threshold reaches, unless a genuine and an
\* impostor score are equal.
OperatingPointsAreBest ==
  step = "measured" /\ ~Undefined(result) /\ ~Tied(result) =>
    \A t \in Targets :
      /\ \A v \in Reachable(result) :
           /\ v.fa * t.den <= t.num * Len(AttackScores(result)) => metrics.frrAtFar[t] <= v.fr
           /\ v.fr * t.den <= t.num * Len(GenuineScores(result)) => metrics.farAtFrr[t] <= v.fa
      /\ \E v \in Reachable(result) :
           v.fr = metrics.frrAtFar[t] /\ v.fa * t.den <= t.num * Len(AttackScores(result))
      /\ \E v \in Reachable(result) :
           v.fa = metrics.farAtFrr[t] /\ v.fr * t.den <= t.num * Len(GenuineScores(result))

Streams(r) == Range(r.genuine) \cup Range(r.attack)

\* Rejects with another among the n - 1 windows before them.
Close(rejects, n) == {w \in rejects : \E v \in rejects : v < w /\ w < v + n}

\* No policy but raw answers a single rejected window, wherever it is; each first
\* answers at a rejected window; two of three at the first that has another among
\* the two before it; and the faster average at the first that has another before
\* it which the doubles still remember: after as many windows as they have digits
\* a reject is rounded away.
PoliciesDebounce ==
  frozen.threshold # NaN =>
    \A s \in Streams(result) :
      \E rejects \in {Rejects(s, frozen.threshold)} :
        \A i \in DOMAIN Grid :
          \E at \in {Decisions(rejects, Len(s), Grid[i])} :
            /\ at # {} => Min(at) \in rejects
            /\ Grid[i] # Raw /\ Cardinality(rejects) < 2 => at = {}
            /\ Grid[i] \in {KofN(2, 3), Ewma(5)} =>
                 LET close == Close(rejects, IF Grid[i] = Ewma(5) THEN Precision ELSE 3)
                 IN IF close = {} THEN at = {} ELSE at # {} /\ Min(at) = Min(close)

\* Raw is chosen unless it raises more false alarms than the budget allows while
\* another policy does not; so it always is without a budget, which the experiment
\* never gives.
RawUnlessTooLoud ==
  step = "test" /\ frozen.policy # Raw =>
    /\ ~Feasible(result, frozen.threshold, Raw, frozen.budget)
    /\ Feasible(result, frozen.threshold, frozen.policy, frozen.budget)

\* Hypotheses that Holm's procedure rejects at a level: those up to the first, in
\* the order of their p-values, that fails its own bound.
StepDown(p, level) ==
  LET tested == {i \in DOMAIN p : p[i] # NaN}
  IN {i \in tested :
        \A j \in tested :
          p[j] <= p[i] => p[j] * Cardinality({l \in tested : p[l] >= p[j]}) <= level}

\* A baseline differs from M7 by its corrected p-value exactly when the step-down
\* procedure rejects it, at every level; one without a p-value counts nowhere.
HolmIsStepDown ==
  step = "corrected" =>
    \A level \in 1 .. 99 :
      {i \in DOMAIN family.holm : family.holm[i] # NaN /\ family.holm[i] <= level}
        = StepDown(family.p, level)
===============================================================================
