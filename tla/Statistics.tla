------------------------------ MODULE Statistics ------------------------------
(***************************************************************************)
(* The tests that decide between two models: paired_delta and              *)
(* holm_correction of bootstrap.py, and select_kstar_pareto of runner.py,  *)
(* which uses the first.  Error rates are whole percents.                  *)
(***************************************************************************)
EXTENDS Floats, Integers, FiniteSets, FiniteSetsExt, Functions

\* A probability is a number of 2^n equally likely cases, or any other fraction.
Fraction(num, den) == [num |-> num, den |-> den]

\* Mutant: the p-value of one tail.
OneSided(tail, all) == Fraction(tail, all)

\* Two-sided: twice the smaller tail, at most 1.
TwoSided(tail, all) == Fraction(IF 2 * tail < all THEN 2 * tail ELSE all, all)

-----------------------------------------------------------------------------
(* paired_delta: d is the difference of two error rates, by user. *)

Wins(d) == {u \in DOMAIN d : d[u] > 0}

Losses(d) == {u \in DOMAIN d : d[u] < 0}

Decisive(d) == Wins(d) \cup Losses(d)

\* binomtest(min(wins, losses), decisive, 0.5)
SignTest(d) ==
  LET fewer == Min({Cardinality(Wins(d)), Cardinality(Losses(d))})
  IN TwoSided(Cardinality({S \in SUBSET Decisive(d) : Cardinality(S) <= fewer}),
              2 ^ Cardinality(Decisive(d)))

Size(x) == IF x < 0 THEN -x ELSE x

\* Sum of the ranks of a set of users, a user's rank being the number of
\* differences that are not larger than its own.
RankSum(d, S) == Cardinality({p \in S \X DOMAIN d : Size(d[p[2]]) <= Size(d[p[1]])})

\* wilcoxon: the exact distribution, every assignment of signs being as likely.
Wilcoxon(d) ==
  LET low == {S \in SUBSET DOMAIN d : RankSum(d, S) <= RankSum(d, Wins(d))}
      high == {S \in SUBSET DOMAIN d : RankSum(d, S) >= RankSum(d, Wins(d))}
  IN TwoSided(Min({Cardinality(low), Cardinality(high)}), 2 ^ Cardinality(DOMAIN d))

Untied(d) ==
  /\ Decisive(d) = DOMAIN d
  /\ \A u, v \in DOMAIN d : u # v => Size(d[u]) # Size(d[v])

\* With ties scipy approximates: on either side of the level.
Approximate == {Fraction(1, 100), Fraction(1, 2)}

\* p_value: the values it can have, none where no user decides.
PValues(d) ==
  IF Decisive(d) = {} THEN {}
  ELSE IF 2 * Cardinality(DOMAIN d \ Decisive(d)) > Cardinality(DOMAIN d) THEN {SignTest(d)}
  ELSE IF Untied(d) THEN {Wilcoxon(d)}
  ELSE Approximate

\* Significant at 5%.
Significant(p) == 20 * p.num < p.den

-----------------------------------------------------------------------------
(* select_kstar_pareto: a sweep gives each k an error rate, and each user  *)
(* with a rate of its own at that k that rate.                             *)

Tolerance == 2

Scored(sweep) == {k \in DOMAIN sweep : sweep[k].eer # NaN}

BestK(sweep) ==
  Min({k \in Scored(sweep) : \A j \in Scored(sweep) : sweep[k].eer <= sweep[j].eer})

Difference(sweep, k) ==
  LET a == sweep[k].users  b == sweep[BestK(sweep)].users
  IN [u \in DOMAIN a \cap DOMAIN b |-> a[u] - b[u]]

AsGood(sweep, k) == sweep[k].eer <= sweep[BestK(sweep)].eer + Tolerance

\* Not significantly worse, by every p-value the test can have, or by one; a test
\* that nobody decides is in favour of k.
Surely(sweep, k) ==
  AsGood(sweep, k) \/ \A p \in PValues(Difference(sweep, k)) : ~Significant(p)

Perhaps(sweep, k) ==
  Surely(sweep, k) \/ \E p \in PValues(Difference(sweep, k)) : ~Significant(p)

\* The smallest that qualifies, for every outcome of the tests.
Kstars(sweep) ==
  IF Scored(sweep) = {} THEN {IF DOMAIN sweep = {} THEN 2 ELSE Min(DOMAIN sweep)}
  ELSE LET sure == {k \in Scored(sweep) : Surely(sweep, k)}
           open == {k \in Scored(sweep) : Perhaps(sweep, k)} \ sure
       IN {Min(sure \cup Q) : Q \in SUBSET open}

-----------------------------------------------------------------------------
(* holm_correction: a family of p-values in percent, some of them NaN. *)

Finite(family) == {i \in DOMAIN family : family[i] # NaN}

\* Place in the order of argsort; of equal ones the order shows nowhere.
Place(family, i) ==
  Cardinality({j \in Finite(family) :
                 family[j] < family[i] \/ (family[j] = family[i] /\ j < i)})

AtMostOne(p) == IF p < 100 THEN p ELSE 100

Multiplied(family, i) ==
  AtMostOne((Cardinality(Finite(family)) - Place(family, i)) * family[i])

\* Mutant: the running maximum is forgotten.
NotMonotone(family, i) == Multiplied(family, i)

Monotone(family, i) ==
  Max({Multiplied(family, j) : j \in {j \in Finite(family) : Place(family, j) <= Place(family, i)}})

Holm(family) ==
  [i \in DOMAIN family |-> IF family[i] = NaN THEN NaN ELSE Monotone(family, i)]
===============================================================================
