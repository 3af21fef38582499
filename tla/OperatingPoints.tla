--------------------------- MODULE OperatingPoints ---------------------------
(***************************************************************************)
(* The operating points of metrics.py: FAR and FRR at a threshold, and the *)
(* vertices of scikit-learn's ROC curve that frr_at_far and far_at_frr     *)
(* choose from.  Rates are counts of false accepts and false rejects.      *)
(***************************************************************************)
EXTENDS Detection

GenuineScores(result) == FlattenSeq(result.genuine)

AttackScores(result) == FlattenSeq(result.attack)

\* far_frr_at_threshold: accepted is what is not below.
Accepted(scores, threshold) == Cardinality({i \in DOMAIN scores : scores[i] >= threshold})

FarFrr(result, threshold) ==
  [fa |-> Accepted(AttackScores(result), threshold),
   fr |-> Len(GenuineScores(result)) - Accepted(GenuineScores(result), threshold)]

Levels(result) == Range(GenuineScores(result)) \cup Range(AttackScores(result))

\* A vertex as far from the one above it as from the one below, in both rates,
\* is dropped (drop_intermediate).
Intermediate(result, s) ==
  LET above == {t \in Levels(result) : t > s}
      below == {t \in Levels(result) : t < s}
      At(t) == FarFrr(result, t)
  IN /\ above # {} /\ below # {}
     /\ At(Min(above)).fa + At(Max(below)).fa = 2 * At(s).fa
     /\ At(Min(above)).fr + At(Max(below)).fr = 2 * At(s).fr

\* roc_curve: a vertex per score that is not dropped, and one where nobody is
\* accepted.
RocCurve(result) ==
  {FarFrr(result, s) : s \in {s \in Levels(result) : ~Intermediate(result, s)}}
  \cup {[fa |-> 0, fr |-> Len(GenuineScores(result))]}

\* Fewer than two classes, and with them fewer than two scores.
Undefined(result) == <<>> \in {GenuineScores(result), AttackScores(result)}

\* Mutant: the budget has to be undercut.
Undercuts(count, total, target) == count * target.den < target.num * total

Within(count, total, target) == count * target.den <= target.num * total

FrrAtFar(result, target) ==
  IF Undefined(result) THEN NaN
  ELSE Min({v.fr : v \in {v \in RocCurve(result) :
                            Within(v.fa, Len(AttackScores(result)), target)}})

FarAtFrr(result, target) ==
  IF Undefined(result) THEN NaN
  ELSE Min({v.fa : v \in {v \in RocCurve(result) :
                            Within(v.fr, Len(GenuineScores(result)), target)}})
===============================================================================
