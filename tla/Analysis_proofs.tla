--------------------------- MODULE Analysis_proofs ---------------------------
(***************************************************************************)
(* Proofs about what is measured, for scores, streams and families of any  *)
(* size.                                                                   *)
(*   - holm_correction is Holm's step-down procedure.  A corrected p-value *)
(*     is at most a level below 100 exactly when every product up to its   *)
(*     place is.  Of equal p-values the first in the order of argsort has  *)
(*     the largest factor, namely the number of those that are not         *)
(*     smaller, which is the bound of the step-down procedure.             *)
(*   - The vertices of the curve suffice.  Between two neighbouring levels *)
(*     the rates do not change; and a point that has no vertex of its own  *)
(*     lies between two that differ from it in one of the rates only.      *)
(*   - The policies debounce.  Rounding to a double goes past no number    *)
(*     that the significand can hold, one half among them.  So without a   *)
(*     reject no average rises above one half, and a first reject does not *)
(*     lift it there.  The faster one is a power of two until the next     *)
(*     reject, and then above one half, or one half again if the sum has   *)
(*     more digits than the significand.                                   *)
(*   - Raw is the default.  As every policy starts to decide at a reject,  *)
(*     none detects an attack before raw does; and sums are monotonic.     *)
(***************************************************************************)
EXTENDS Analysis, TLAPS, FiniteSetTheorems, WellFoundedInduction

-----------------------------------------------------------------------------
(* Numbers. *)

\* A set of numbers that has a member has a least one.
LEMMA Least ==
  ASSUME NEW S \in SUBSET Nat, S # {}
  PROVE  \E m \in S : \A k \in S : m <= k
<1> DEFINE R == OpToRel(<, Nat)
<1>1. IsWellFoundedOn(R, Nat)
  BY NatLessThanWellFounded
<1>2. \A a, b \in Nat : <<a, b>> \in R <=> a < b
  BY DEF OpToRel
<1> HIDE DEF R
<1>3. PICK m \in S : \A k \in S : <<k, m>> \notin R
  BY <1>1, WFMin
<1>4. \A k \in S : m <= k
  <2> TAKE k \in S
  <2>1. k \in Nat /\ m \in Nat /\ ~(k < m)
    BY <1>2, <1>3
  <2> QED BY <2>1
<1> QED BY <1>4

\* A set of percentages that has a member has a largest one.
LEMMA MaxOfPercentages ==
  ASSUME NEW S \in SUBSET (0 .. 100), S # {}
  PROVE  Max(S) \in S /\ \A k \in S : k <= Max(S)
<1>0. \A k \in S : k \in Int /\ 0 <= k /\ k <= 100
  OBVIOUS
<1> DEFINE T == {100 - k : k \in S}
<1>1. T \in SUBSET Nat /\ T # {}
  <2>1. \A k \in S : 100 - k \in Nat
    BY <1>0
  <2> QED BY <2>1
<1>2. PICK m \in T : \A k \in T : m <= k
  BY <1>1, Least
<1>3. PICK x \in S : m = 100 - x
  BY <1>2
<1>4. \A k \in S : k <= x
  <2> TAKE k \in S
  <2>1. 100 - x <= 100 - k
    BY <1>2, <1>3
  <2>2. k \in Int /\ x \in Int
    BY <1>0, <1>3
  <2> HIDE DEF T
  <2> QED BY <2>1, <2>2
<1>5. \E y \in S : \A k \in S : y >= k
  BY <1>4
<1> QED BY <1>5 DEF Max

\* A product grows with its first factor.
LEMMA ProductGrows ==
  ASSUME NEW a \in Nat, NEW b \in Nat, NEW c \in Nat, a <= b
  PROVE  a * c <= b * c
OBVIOUS

-----------------------------------------------------------------------------
(* Places in the order of argsort. *)

\* Hypotheses that come before i.
Before(p, i) ==
  {j \in Finite(p) : p[j] < p[i] \/ (p[j] = p[i] /\ j < i)}

\* Hypotheses whose p-value is not smaller.
NotSmaller(p, i) == {l \in Finite(p) : p[l] >= p[i]}

\* Factor of the product of i.
Factor(p, i) == Cardinality(Finite(p)) - Place(p, i)

\* The indices of a family are numbers, and those of its p-values finitely many.
LEMMA Family ==
  ASSUME NEW p \in Seq(Percentage)
  PROVE  /\ IsFiniteSet(Finite(p))
         /\ \A i \in Finite(p) : i \in Nat /\ p[i] \in Nat /\ p[i] <= 100
<1>1. IsFiniteSet(DOMAIN p) /\ \A i \in DOMAIN p : i \in Nat
  BY FS_Interval
<1>2. \A i \in DOMAIN p : p[i] \in Percentage
  OBVIOUS
<1>3. \A x \in Percentage : x # NaN => x \in Nat /\ x <= 100
  BY DEF Percentage
<1> QED
  BY <1>1, <1>2, <1>3, FS_Subset DEF Finite

\* The factor counts the hypothesis itself and those behind it, which are among
\* those that are not smaller, and all of them where no equal one comes before it.
LEMMA Factors ==
  ASSUME NEW p \in Seq(Percentage), NEW i \in Finite(p)
  PROVE  /\ Factor(p, i) \in Nat /\ Cardinality(NotSmaller(p, i)) \in Nat
         /\ Factor(p, i) <= Cardinality(NotSmaller(p, i))
         /\ (\A j \in Finite(p) : p[j] = p[i] => i <= j)
              => Factor(p, i) = Cardinality(NotSmaller(p, i))
<1> DEFINE F == Finite(p)
<1>1. IsFiniteSet(F) /\ \A j \in F : j \in Nat /\ p[j] \in Nat
  BY Family
<1>2. Before(p, i) \subseteq F /\ NotSmaller(p, i) \subseteq F
  BY DEF Before, NotSmaller
<1>3. F \cap Before(p, i) = Before(p, i)
  BY <1>2
<1>4. /\ IsFiniteSet(F \ Before(p, i))
      /\ Cardinality(F \ Before(p, i)) = Cardinality(F) - Cardinality(Before(p, i))
  BY <1>1, <1>3, FS_Difference
<1>5. Factor(p, i) = Cardinality(F \ Before(p, i))
  BY <1>4 DEF Factor, Before, Place
<1>6. F \ Before(p, i) \subseteq NotSmaller(p, i)
  <2> SUFFICES ASSUME NEW j \in F, j \notin Before(p, i) PROVE p[j] >= p[i]
    BY DEF NotSmaller
  <2>1. ~(p[j] < p[i])
    BY DEF Before
  <2> QED BY <2>1, <1>1
<1>7. IsFiniteSet(NotSmaller(p, i))
  BY <1>1, <1>2, FS_Subset
<1>8. /\ Factor(p, i) \in Nat /\ Cardinality(NotSmaller(p, i)) \in Nat
      /\ Factor(p, i) <= Cardinality(NotSmaller(p, i))
  BY <1>4, <1>5, <1>6, <1>7, FS_CardinalityType, FS_Subset
<1>9. ASSUME \A j \in F : p[j] = p[i] => i <= j
      PROVE  NotSmaller(p, i) = F \ Before(p, i)
  <2> SUFFICES ASSUME NEW j \in F, p[j] >= p[i], j \in Before(p, i) PROVE FALSE
    BY <1>6 DEF NotSmaller
  <2>1. p[j] = p[i] /\ j < i
    BY <1>1 DEF Before
  <2> QED BY <2>1, <1>9, <1>1
<1> QED BY <1>5, <1>8, <1>9

\* The order of the places is that of the p-values.
LEMMA Places ==
  ASSUME NEW p \in Seq(Percentage), NEW i \in Finite(p), NEW j \in Finite(p)
  PROVE  /\ Place(p, i) \in Nat
         /\ p[i] < p[j] => Place(p, i) < Place(p, j)
         /\ p[j] <= p[i] /\ (\A l \in Finite(p) : p[l] = p[j] => j <= l)
              => Place(p, j) <= Place(p, i)
<1> DEFINE F == Finite(p)
<1>1. IsFiniteSet(F) /\ \A l \in F : l \in Nat /\ p[l] \in Nat
  BY Family
<1>2. /\ IsFiniteSet(Before(p, i)) /\ IsFiniteSet(Before(p, j))
      /\ Cardinality(Before(p, i)) \in Nat /\ Cardinality(Before(p, j)) \in Nat
  <2>1. Before(p, i) \in SUBSET F /\ Before(p, j) \in SUBSET F
    BY DEF Before
  <2> QED BY <1>1, <2>1, FS_Subset, FS_CardinalityType
<1>3. Place(p, i) = Cardinality(Before(p, i)) /\ Place(p, j) = Cardinality(Before(p, j))
  BY DEF Place, Before
<1>4. ASSUME p[i] < p[j] PROVE Place(p, i) < Place(p, j)
  <2>1. Before(p, i) \subseteq Before(p, j)
    <3> SUFFICES ASSUME NEW l \in F, p[l] <= p[i] PROVE p[l] < p[j]
      BY <1>1 DEF Before
    <3> QED BY <1>1, <1>4
  <2>2. i \in Before(p, j) /\ i \notin Before(p, i)
    <3>1. ~(p[i] < p[i]) /\ ~(i < i)
      BY <1>1
    <3> QED BY <3>1, <1>4 DEF Before
  <2>3. /\ Cardinality(Before(p, i)) <= Cardinality(Before(p, j))
        /\ Cardinality(Before(p, i)) # Cardinality(Before(p, j))
    BY <1>2, <2>1, <2>2, FS_Subset
  <2> QED BY <1>2, <1>3, <2>3
<1>5. ASSUME p[j] <= p[i], \A l \in F : p[l] = p[j] => j <= l
      PROVE  Place(p, j) <= Place(p, i)
  <2>1. Before(p, j) \subseteq Before(p, i)
    <3> SUFFICES ASSUME NEW l \in Before(p, j) PROVE l \in Before(p, i)
      OBVIOUS
    <3>1. l \in F /\ p[l] < p[j]
      BY <1>1, <1>5 DEF Before
    <3>2. p[l] < p[i]
      BY <3>1, <1>1, <1>5
    <3> QED BY <3>1, <3>2 DEF Before
  <2> QED BY <2>1, <1>2, <1>3, FS_Subset
<1> QED BY <1>2, <1>3, <1>4, <1>5

-----------------------------------------------------------------------------
(* The correction. *)

\* A corrected p-value is at most the level when every product up to its place is.
LEMMA Corrected ==
  ASSUME NEW p \in Seq(Percentage), NEW i \in Finite(p), NEW level \in 1 .. 99
  PROVE  /\ Holm(p)[i] \in 0 .. 100
         /\ Holm(p)[i] <= level <=>
              \A j \in Finite(p) :
                Place(p, j) <= Place(p, i) => Factor(p, j) * p[j] <= level
<1> DEFINE F == Finite(p)
           J == {j \in F : Place(p, j) <= Place(p, i)}
           Product(j) == Multiplied(p, j)
           M == {Product(j) : j \in J}
<1>1. \A j \in F : p[j] \in Nat /\ Factor(p, j) \in Nat
  BY Family, Factors
<1>2. \A j \in F : /\ Product(j) \in 0 .. 100
                   /\ Product(j) <= level <=> Factor(p, j) * p[j] <= level
  <2> SUFFICES ASSUME NEW j \in F
               PROVE  /\ Product(j) \in 0 .. 100
                      /\ Product(j) <= level <=> Factor(p, j) * p[j] <= level
    OBVIOUS
  <2> DEFINE x == Factor(p, j) * p[j]
  <2>1. x \in Nat
    BY <1>1
  <2>2. Product(j) = IF x < 100 THEN x ELSE 100
    BY DEF Multiplied, AtMostOne, Factor
  <2> HIDE DEF x, Product
  <2>3. Product(j) \in 0 .. 100 /\ (Product(j) <= level <=> x <= level)
    BY <2>1, <2>2
  <2> QED BY <2>3 DEF x
<1>3. i \in J
  BY Places
<1> HIDE DEF Product
<1>4. M \in SUBSET (0 .. 100) /\ M # {}
  BY <1>2, <1>3
<1>5. Max(M) \in M /\ \A m \in M : m <= Max(M)
  BY <1>4, MaxOfPercentages
<1>6. Holm(p)[i] = Max(M)
  BY DEF Holm, Monotone, Finite, Product
<1>7. Max(M) <= level <=> \A j \in J : Product(j) <= level
  <2>1. \A m \in M : m \in Int
    <3>1. \A m \in 0 .. 100 : m \in Int
      OBVIOUS
    <3> HIDE DEF M
    <3> QED BY <1>4, <3>1
  <2>2. Max(M) <= level <=> \A m \in M : m <= level
    <3> HIDE DEF M
    <3> QED BY <1>5, <2>1
  <2> QED BY <2>2
<1> QED BY <1>2, <1>4, <1>5, <1>6, <1>7

\* Both procedures reject the same hypotheses.
LEMMA SameRejections ==
  ASSUME NEW p \in Seq(Percentage), NEW level \in 1 .. 99, NEW i \in Finite(p)
  PROVE  Holm(p)[i] <= level <=> i \in StepDown(p, level)
<1> DEFINE F == Finite(p)
<1>1. \A j \in F : j \in Nat /\ p[j] \in Nat
  BY Family
<1>2. \A j \in F : /\ Factor(p, j) \in Nat /\ Cardinality(NotSmaller(p, j)) \in Nat
                   /\ Factor(p, j) <= Cardinality(NotSmaller(p, j))
  BY Factors
<1>3. i \in StepDown(p, level) <=>
        \A j \in F : p[j] <= p[i] => p[j] * Cardinality(NotSmaller(p, j)) <= level
  <2>1. F = {j \in DOMAIN p : p[j] # NaN}
    BY DEF Finite, NaN
  <2>2. \A j \in F : NotSmaller(p, j) = {l \in F : p[l] >= p[j]}
    BY DEF NotSmaller
  <2>3. StepDown(p, level) =
          {k \in F : \A j \in F :
             p[j] <= p[k] => p[j] * Cardinality({l \in F : p[l] >= p[j]}) <= level}
    BY <2>1 DEF StepDown
  <2> QED BY <2>2, <2>3
<1>4. ASSUME i \in StepDown(p, level) PROVE Holm(p)[i] <= level
  <2> SUFFICES ASSUME NEW j \in F, Place(p, j) <= Place(p, i)
               PROVE  Factor(p, j) * p[j] <= level
    BY Corrected
  <2>1. p[j] <= p[i]
    <3>1. ~(p[i] < p[j])
      BY Places
    <3> QED BY <3>1, <1>1
  <2>2. p[j] * Cardinality(NotSmaller(p, j)) <= level
    BY <2>1, <1>3, <1>4
  <2>3. Factor(p, j) * p[j] <= Cardinality(NotSmaller(p, j)) * p[j]
    BY <1>1, <1>2, ProductGrows
  <2> DEFINE a == Factor(p, j)  b == Cardinality(NotSmaller(p, j))  c == p[j]
  <2>4. a \in Nat /\ b \in Nat /\ c \in Nat
    BY <1>1, <1>2
  <2>5. c * b <= level /\ a * c <= b * c
    BY <2>2, <2>3
  <2> HIDE DEF a, b, c
  <2>6. a * c <= level
    BY <2>4, <2>5
  <2> QED BY <2>6 DEF a, c
<1>5. ASSUME Holm(p)[i] <= level PROVE i \in StepDown(p, level)
  <2> SUFFICES ASSUME NEW j \in F, p[j] <= p[i]
               PROVE  p[j] * Cardinality(NotSmaller(p, j)) <= level
    BY <1>3
  <2> DEFINE E == {l \in F : p[l] = p[j]}
  <2>1. PICK first \in E : \A l \in E : first <= l
    <3>1. E \subseteq Nat /\ j \in E
      BY <1>1
    <3> QED BY <3>1, Least
  <2>2. first \in F /\ p[first] = p[j] /\ \A l \in F : p[l] = p[first] => first <= l
    BY <2>1
  <2>3. Place(p, first) <= Place(p, i)
    BY <2>2, Places
  <2>4. Factor(p, first) * p[first] <= level
    BY <2>2, <2>3, <1>5, Corrected
  <2>5. Factor(p, first) = Cardinality(NotSmaller(p, first))
    BY <2>2, Factors
  <2>6. NotSmaller(p, first) = NotSmaller(p, j)
    BY <2>2 DEF NotSmaller
  <2> DEFINE a == Cardinality(NotSmaller(p, j))  c == p[j]
  <2>7. a \in Nat /\ c \in Nat /\ a * c <= level
    BY <1>1, <1>2, <2>2, <2>4, <2>5, <2>6
  <2> HIDE DEF a, c
  <2>8. c * a <= level
    BY <2>7
  <2> QED BY <2>8 DEF a, c
<1> QED BY <1>4, <1>5

\* What the family of p-values and the corrected ones are, once there are any.
FamilyInv ==
  step = "corrected" =>
    \E p \in Seq(Percentage) : family = [p |-> p, holm |-> Holm(p)]

\* For every family of p-values and every level below one, the baselines whose
\* corrected p-value is at most the level are those that Holm's procedure rejects.
THEOREM CorrectionIsStepDown == Spec => []HolmIsStepDown
<1>1. Init => FamilyInv
  BY DEF Init, FamilyInv
<1>2. FamilyInv /\ [Next]_vars => FamilyInv'
  <2> SUFFICES ASSUME FamilyInv, [Next]_vars PROVE FamilyInv'
    OBVIOUS
  <2>1. CASE Correct
    BY <2>1, AnalysisAssumption DEF Correct, FamilyInv
  <2>2. CASE Freeze \/ FallBack \/ Measure
    BY <2>2 DEF Freeze, FallBack, Measure, FamilyInv
  <2>3. CASE UNCHANGED vars
    BY <2>3 DEF vars, FamilyInv
  <2> QED BY <2>1, <2>2, <2>3 DEF Next
<1>3. FamilyInv => HolmIsStepDown
  <2> SUFFICES ASSUME FamilyInv, step = "corrected", NEW level \in 1 .. 99
               PROVE  {i \in DOMAIN family.holm : family.holm[i] # NaN /\ family.holm[i] <= level}
                        = StepDown(family.p, level)
    BY DEF HolmIsStepDown
  <2>1. PICK p \in Seq(Percentage) : family.p = p /\ family.holm = Holm(p)
    BY DEF FamilyInv
  <2>2. /\ DOMAIN Holm(p) = DOMAIN p
        /\ \A i \in DOMAIN p \ Finite(p) : Holm(p)[i] = NaN
    BY DEF Holm, Finite, NaN
  <2>3. \A i \in Finite(p) :
          /\ Holm(p)[i] # NaN
          /\ Holm(p)[i] <= level <=> i \in StepDown(p, level)
    <3>1. \A i \in Finite(p) : Holm(p)[i] \in 0 .. 100
      BY Corrected
    <3>2. \A i \in 0 .. 100 : i # NaN
      BY DEF NaN
    <3> QED BY <3>1, <3>2, SameRejections
  <2>4. Finite(p) \subseteq DOMAIN p /\ StepDown(p, level) \subseteq Finite(p)
    BY DEF Finite, NaN, StepDown
  <2> QED BY <2>1, <2>2, <2>3, <2>4
<1> QED BY <1>1, <1>2, <1>3, PTL DEF Spec
-----------------------------------------------------------------------------
(* Finite sets of numbers. *)

\* The member of a finite set that fewest are above is its largest.
LEMMA Greatest ==
  ASSUME NEW S \in SUBSET Nat, S # {}, IsFiniteSet(S)
  PROVE  \E m \in S : \A k \in S : k <= m
<1> DEFINE Above(m) == {k \in S : k > m}
           Sizes == {Cardinality(Above(m)) : m \in S}
<1>1. \A m \in S : IsFiniteSet(Above(m)) /\ Cardinality(Above(m)) \in Nat
  BY FS_Subset, FS_CardinalityType
<1>2. PICK m \in S : \A k \in S : Cardinality(Above(m)) <= Cardinality(Above(k))
  <2>1. Sizes \in SUBSET Nat /\ Sizes # {}
    BY <1>1
  <2>2. PICK n \in Sizes : \A k \in Sizes : n <= k
    <3> HIDE DEF Sizes
    <3> QED BY <2>1, Least
  <2> QED BY <2>2
<1>3. ASSUME NEW k \in S, k > m PROVE FALSE
  <2>1. Above(k) \subseteq Above(m) /\ k \in Above(m) /\ k \notin Above(k)
    <3>1. \A x \in S : x \in Nat
      OBVIOUS
    <3>2. \A x \in S : x > k => x > m
      BY <1>3, <3>1
    <3>3. ~(k > k)
      BY <3>1
    <3> QED BY <1>3, <3>2, <3>3
  <2>2. Cardinality(Above(k)) < Cardinality(Above(m))
    <3>1. Cardinality(Above(k)) <= Cardinality(Above(m)) /\ Cardinality(Above(k)) # Cardinality(Above(m))
      BY <1>1, <2>1, FS_Subset
    <3> QED BY <1>1, <3>1
  <2>3. Cardinality(Above(m)) <= Cardinality(Above(k))
    BY <1>2
  <2> HIDE DEF Above
  <2> QED BY <1>1, <2>2, <2>3
<1> QED BY <1>3

\* Min and Max are what they are called.
LEMMA Extremes ==
  ASSUME NEW S \in SUBSET Nat, S # {}, IsFiniteSet(S)
  PROVE  /\ Min(S) \in S /\ \A k \in S : Min(S) <= k
         /\ Max(S) \in S /\ \A k \in S : k <= Max(S)
<1>1. \E m \in S : \A k \in S : m <= k
  BY Least
<1>2. \E m \in S : \A k \in S : m >= k
  BY Greatest
<1> QED BY <1>1, <1>2 DEF Min, Max

\* The least of a set of numbers, finite or not.
LEMMA MinIs ==
  ASSUME NEW S \in SUBSET Nat, S # {}
  PROVE  Min(S) \in S /\ \A k \in S : Min(S) <= k
BY Least DEF Min

-----------------------------------------------------------------------------
(* Scores that are accepted. *)

\* The scores of a sequence are finitely many.
LEMMA ScoresAre ==
  ASSUME NEW s \in Seq(Nat)
  PROVE  IsFiniteSet(Range(s)) /\ Range(s) \in SUBSET Nat
<1>1. s \in Surjection(1 .. Len(s), Range(s))
  BY DEF Surjection, Range
<1>2. IsFiniteSet(1 .. Len(s))
  BY FS_Interval
<1> QED BY <1>1, <1>2, FS_Surjection DEF Range

\* Fewer are accepted the higher the threshold; the same at two between which no
\* score is; all at one that no score is below, and none at one above all.
LEMMA AcceptedIs ==
  ASSUME NEW s \in Seq(Nat), NEW t \in Nat
  PROVE  /\ Accepted(s, t) \in Nat /\ Accepted(s, t) <= Len(s)
         /\ \A u \in Nat : t <= u => Accepted(s, u) <= Accepted(s, t)
         /\ \A u \in Nat : t <= u /\ (\A x \in Range(s) : ~(t <= x /\ x < u))
                             => Accepted(s, u) = Accepted(s, t)
         /\ (\A x \in Range(s) : t <= x) => Accepted(s, t) = Len(s)
         /\ (\A x \in Range(s) : x < t) => Accepted(s, t) = 0
<1>0. Len(s) \in Nat
  OBVIOUS
<1>1. IsFiniteSet(1 .. Len(s)) /\ Cardinality(1 .. Len(s)) = Len(s)
  <2> DEFINE n == Len(s)
  <2>1. n \in Nat
    BY <1>0
  <2> HIDE DEF n
  <2>2. IsFiniteSet(1 .. n) /\ Cardinality(1 .. n) = (IF 1 > n THEN 0 ELSE n - 1 + 1)
    BY <2>1, FS_Interval
  <2>3. IsFiniteSet(1 .. n) /\ Cardinality(1 .. n) = n
    BY <2>1, <2>2
  <2> QED BY <2>3 DEF n
<1> DEFINE In(u) == {i \in DOMAIN s : s[i] >= u}
<1>2. \A u : In(u) \in SUBSET (1 .. Len(s))
  OBVIOUS
<1>3. \A u : IsFiniteSet(In(u)) /\ Cardinality(In(u)) \in Nat /\ Cardinality(In(u)) <= Len(s)
  BY <1>1, <1>2, FS_Subset, FS_CardinalityType
<1>4. \A u : Accepted(s, u) = Cardinality(In(u))
  BY DEF Accepted
<1>5. \A i \in DOMAIN s : s[i] \in Nat /\ s[i] \in Range(s)
  BY DEF Range
<1>6. ASSUME NEW u \in Nat, t <= u PROVE Accepted(s, u) <= Accepted(s, t)
  <2>1. In(u) \in SUBSET In(t)
    BY <1>5, <1>6
  <2> HIDE DEF In
  <2>2. Cardinality(In(u)) <= Cardinality(In(t))
    BY <1>3, <2>1, FS_Subset
  <2> QED BY <1>4, <2>2
<1>7. ASSUME NEW u \in Nat, t <= u, \A x \in Range(s) : ~(t <= x /\ x < u)
      PROVE  Accepted(s, u) = Accepted(s, t)
  <2>1. In(u) = In(t)
    BY <1>5, <1>7
  <2> QED BY <1>4, <2>1
<1>8. ASSUME \A x \in Range(s) : t <= x PROVE Accepted(s, t) = Len(s)
  <2>1. In(t) = 1 .. Len(s)
    BY <1>5, <1>8
  <2> QED BY <1>1, <1>4, <2>1
<1>9. ASSUME \A x \in Range(s) : x < t PROVE Accepted(s, t) = 0
  <2>1. In(t) = {}
    BY <1>5, <1>9
  <2> QED BY <1>4, <2>1, FS_EmptySet
<1> QED BY <1>3, <1>4, <1>6, <1>7, <1>8, <1>9
-----------------------------------------------------------------------------
(* The curve. *)

HasScores(r) ==
  GenuineScores(r) \in Seq(Nat) /\ AttackScores(r) \in Seq(Nat) /\ ~Undefined(r)

Top(r) == Max(Levels(r)) + 1

\* The levels of a result are finitely many, and there is one.
LEMMA LevelsAre ==
  ASSUME NEW r, HasScores(r)
  PROVE  /\ Levels(r) \in SUBSET Nat /\ Levels(r) # {} /\ IsFiniteSet(Levels(r))
         /\ Top(r) \in Nat /\ \A s \in Levels(r) : s < Top(r)
<1>1. /\ IsFiniteSet(Range(GenuineScores(r))) /\ Range(GenuineScores(r)) \in SUBSET Nat
      /\ IsFiniteSet(Range(AttackScores(r))) /\ Range(AttackScores(r)) \in SUBSET Nat
  BY ScoresAre DEF HasScores
<1>2. Levels(r) # {}
  <2>1. 1 \in DOMAIN GenuineScores(r)
    BY DEF HasScores, Undefined
  <2> QED BY <2>1 DEF Levels, Range
<1>3. Levels(r) \in SUBSET Nat /\ IsFiniteSet(Levels(r))
  BY <1>1, FS_Union DEF Levels
<1>4. Max(Levels(r)) \in Nat /\ \A s \in Levels(r) : s \in Nat /\ s <= Max(Levels(r))
  BY <1>2, <1>3, Extremes
<1> QED BY <1>2, <1>3, <1>4 DEF Top

\* How the two rates change with the threshold.
LEMMA Rates ==
  ASSUME NEW r, HasScores(r), NEW t \in Nat
  PROVE  /\ FarFrr(r, t).fa \in Nat /\ FarFrr(r, t).fr \in Nat
         /\ \A u \in Nat : t <= u => /\ FarFrr(r, u).fa <= FarFrr(r, t).fa
                                     /\ FarFrr(r, t).fr <= FarFrr(r, u).fr
         /\ \A u \in Nat : t < u /\ (\A x \in Levels(r) : ~(t < x /\ x < u)) =>
              /\ t \notin Range(AttackScores(r)) => FarFrr(r, u).fa = FarFrr(r, t).fa
              /\ t \notin Range(GenuineScores(r)) => FarFrr(r, u).fr = FarFrr(r, t).fr
         /\ (\A x \in Levels(r) : t <= x) => FarFrr(r, t).fr = 0
         /\ (\A x \in Levels(r) : x < t) =>
              FarFrr(r, t) = [fa |-> 0, fr |-> Len(GenuineScores(r))]
<1> DEFINE G == GenuineScores(r)
           A == AttackScores(r)
<1>1. G \in Seq(Nat) /\ A \in Seq(Nat) /\ Len(G) \in Nat
  BY DEF HasScores
<1>2. Range(G) \in SUBSET Nat /\ Range(A) \in SUBSET Nat /\ Levels(r) = Range(G) \cup Range(A)
  BY <1>1, ScoresAre DEF Levels
<1>3. \A u : FarFrr(r, u) = [fa |-> Accepted(A, u), fr |-> Len(G) - Accepted(G, u)]
  BY DEF FarFrr
<1>4. \A u \in Nat : /\ Accepted(G, u) \in Nat /\ Accepted(G, u) <= Len(G)
                     /\ Accepted(A, u) \in Nat
  BY <1>1, AcceptedIs
<1> HIDE DEF G, A
<1>5. FarFrr(r, t).fa \in Nat /\ FarFrr(r, t).fr \in Nat
  <2>1. FarFrr(r, t).fa = Accepted(A, t) /\ FarFrr(r, t).fr = Len(G) - Accepted(G, t)
    BY <1>3
  <2>2. /\ Accepted(G, t) \in Nat /\ Accepted(G, t) <= Len(G)
        /\ Accepted(A, t) \in Nat /\ Len(G) \in Nat
    BY <1>1, <1>4
  <2> QED BY <2>1, <2>2
<1>6. ASSUME NEW u \in Nat, t <= u
      PROVE  FarFrr(r, u).fa <= FarFrr(r, t).fa /\ FarFrr(r, t).fr <= FarFrr(r, u).fr
  <2>1. Accepted(A, u) <= Accepted(A, t) /\ Accepted(G, u) <= Accepted(G, t)
    BY <1>1, <1>6, AcceptedIs
  <2>2. /\ FarFrr(r, t).fa = Accepted(A, t) /\ FarFrr(r, t).fr = Len(G) - Accepted(G, t)
        /\ FarFrr(r, u).fa = Accepted(A, u) /\ FarFrr(r, u).fr = Len(G) - Accepted(G, u)
    BY <1>3
  <2>3. /\ Accepted(G, t) \in Nat /\ Accepted(A, t) \in Nat
        /\ Accepted(G, u) \in Nat /\ Accepted(A, u) \in Nat /\ Len(G) \in Nat
    BY <1>1, <1>4
  <2> QED BY <2>1, <2>2, <2>3
<1>7. ASSUME NEW u \in Nat, t < u, \A x \in Levels(r) : ~(t < x /\ x < u)
      PROVE  /\ t \notin Range(A) => FarFrr(r, u).fa = FarFrr(r, t).fa
             /\ t \notin Range(G) => FarFrr(r, u).fr = FarFrr(r, t).fr
  <2>1. ASSUME NEW S \in {Range(A), Range(G)}, t \notin S
        PROVE  \A x \in S : ~(t <= x /\ x < u)
    BY <1>2, <1>7, <2>1
  <2>2. t <= u
    BY <1>7
  <2>3. t \notin Range(A) => Accepted(A, u) = Accepted(A, t)
    BY <1>1, <2>1, <2>2, AcceptedIs
  <2>4. t \notin Range(G) => Accepted(G, u) = Accepted(G, t)
    BY <1>1, <2>1, <2>2, AcceptedIs
  <2> QED BY <1>3, <2>3, <2>4
<1>8. ASSUME \A x \in Levels(r) : t <= x PROVE FarFrr(r, t).fr = 0
  <2>1. Accepted(G, t) = Len(G)
    BY <1>1, <1>2, <1>8, AcceptedIs
  <2> QED BY <1>1, <1>3, <2>1
<1>9. ASSUME \A x \in Levels(r) : x < t PROVE FarFrr(r, t) = [fa |-> 0, fr |-> Len(G)]
  <2>1. Accepted(G, t) = 0 /\ Accepted(A, t) = 0
    BY <1>1, <1>2, <1>9, AcceptedIs
  <2> QED BY <1>1, <1>3, <2>1
<1> QED BY <1>5, <1>6, <1>7, <1>8, <1>9 DEF G, A

\* A vertex that is dropped has one right above it and one right below.
LEMMA Neighbours ==
  ASSUME NEW r, HasScores(r), NEW s \in Levels(r), Intermediate(r, s)
  PROVE  \E a \in Levels(r), b \in Levels(r) :
           /\ b < s /\ s < a
           /\ \A x \in Levels(r) : ~(b < x /\ x < s) /\ ~(s < x /\ x < a)
           /\ FarFrr(r, a).fa + FarFrr(r, b).fa = 2 * FarFrr(r, s).fa
           /\ FarFrr(r, a).fr + FarFrr(r, b).fr = 2 * FarFrr(r, s).fr
<1> DEFINE above == {t \in Levels(r) : t > s}
           below == {t \in Levels(r) : t < s}
<1>1. Levels(r) \in SUBSET Nat /\ IsFiniteSet(Levels(r))
  BY LevelsAre
<1>2. above # {} /\ below # {}
  BY DEF Intermediate
<1>3. /\ above \in SUBSET Nat /\ IsFiniteSet(above)
      /\ below \in SUBSET Nat /\ IsFiniteSet(below)
  BY <1>1, FS_Subset
<1>4. /\ FarFrr(r, Min(above)).fa + FarFrr(r, Max(below)).fa = 2 * FarFrr(r, s).fa
      /\ FarFrr(r, Min(above)).fr + FarFrr(r, Max(below)).fr = 2 * FarFrr(r, s).fr
  BY DEF Intermediate
<1>5. /\ Min(above) \in above /\ \A x \in above : Min(above) <= x
      /\ Max(below) \in below /\ \A x \in below : x <= Max(below)
  <2> HIDE DEF above, below
  <2> QED BY <1>2, <1>3, Extremes
<1>6. PICK a \in above : a = Min(above)
  BY <1>5
<1>7. PICK b \in below : b = Max(below)
  BY <1>5
<1>8. \A x \in Levels(r) : ~(b < x /\ x < s) /\ ~(s < x /\ x < a)
  <2>1. \A x \in above : a <= x
    BY <1>5, <1>6
  <2>2. \A x \in below : x <= b
    BY <1>5, <1>7
  <2>3. a \in Nat /\ b \in Nat /\ s \in Nat /\ \A x \in Levels(r) : x \in Nat
    BY <1>1
  <2> QED BY <2>1, <2>2, <2>3
<1> QED BY <1>4, <1>6, <1>7, <1>8
-----------------------------------------------------------------------------
(* The best vertex. *)

Target == [num : Nat, den : Nat \ {0}]

\* What is within a rate stays so where there is less of it, and nothing always is.
LEMMA WithinIs ==
  ASSUME NEW target \in Target, NEW total \in Nat
  PROVE  /\ Within(0, total, target)
         /\ \A a, b \in Nat : a <= b /\ Within(b, total, target) => Within(a, total, target)
<1>1. target.num \in Nat /\ target.den \in Nat
  BY DEF Target
<1>2. target.num * total \in Nat /\ 0 * target.den = 0
  BY <1>1
<1>3. ASSUME NEW a \in Nat, NEW b \in Nat, a <= b, Within(b, total, target)
      PROVE  Within(a, total, target)
  <2>1. a * target.den <= b * target.den
    BY <1>1, <1>3, ProductGrows
  <2>2. a * target.den \in Nat /\ b * target.den \in Nat
    BY <1>1
  <2>3. b * target.den <= target.num * total
    BY <1>3 DEF Within
  <2>4. a * target.den <= target.num * total
    <3> DEFINE p == a * target.den  q == b * target.den  m == target.num * total
    <3>1. p <= q /\ q <= m /\ p \in Nat /\ q \in Nat /\ m \in Nat
      BY <1>2, <2>1, <2>2, <2>3
    <3> HIDE DEF p, q, m
    <3>2. p <= m
      BY <3>1
    <3> QED BY <3>2 DEF p, m
  <2> QED BY <2>4 DEF Within
<1>4. Within(0, total, target)
  BY <1>2 DEF Within
<1> QED BY <1>3, <1>4

Points(r) == Levels(r) \cup {Top(r)}

\* Thresholds between and above the scores.
LEMMA PointsAre ==
  ASSUME NEW r, HasScores(r)
  PROVE  /\ Points(r) \in SUBSET Nat /\ IsFiniteSet(Points(r))
         /\ Reachable(r) = {FarFrr(r, t) : t \in Points(r)}
         /\ FarFrr(r, Top(r)) = [fa |-> 0, fr |-> Len(GenuineScores(r))]
         /\ RocCurve(r) \subseteq Reachable(r)
         /\ \A s \in Levels(r) : ~Intermediate(r, s) => FarFrr(r, s) \in RocCurve(r)
         /\ FarFrr(r, Top(r)) \in RocCurve(r)
<1>1. Points(r) \in SUBSET Nat /\ IsFiniteSet(Points(r))
  BY LevelsAre, FS_AddElement DEF Points
<1>2. Reachable(r) = {FarFrr(r, t) : t \in Points(r)}
  BY DEF Reachable, Points, Top
<1>3. FarFrr(r, Top(r)) = [fa |-> 0, fr |-> Len(GenuineScores(r))]
  BY LevelsAre, Rates
<1>4. FarFrr(r, Top(r)) \in RocCurve(r)
  BY <1>3 DEF RocCurve
<1>5. RocCurve(r) \subseteq Reachable(r)
  BY <1>2, <1>3 DEF RocCurve, Points
<1>6. \A s \in Levels(r) : ~Intermediate(r, s) => FarFrr(r, s) \in RocCurve(r)
  BY DEF RocCurve
<1> QED BY <1>1, <1>2, <1>3, <1>4, <1>5, <1>6

\* The largest of the thresholds that reject fewest genuine scores within a rate of
\* false accepts is a vertex.  If it were dropped, a genuine score would lie at it,
\* hence no attack, and the vertex below would reject fewer and accept no more.
LEMMA BestFrr ==
  ASSUME NEW r, HasScores(r), ~Tied(r), NEW target \in Target
  PROVE  \E v \in RocCurve(r) :
           /\ Within(v.fa, Len(AttackScores(r)), target)
           /\ \A w \in Reachable(r) : Within(w.fa, Len(AttackScores(r)), target) => v.fr <= w.fr
<1> DEFINE total == Len(AttackScores(r))
           ok == {t \in Points(r) : Within(FarFrr(r, t).fa, total, target)}
<1>1. total \in Nat
  BY DEF HasScores
<1>2. Points(r) \in SUBSET Nat /\ IsFiniteSet(Points(r))
  BY PointsAre
<1>3. \A t \in Points(r) : FarFrr(r, t).fa \in Nat /\ FarFrr(r, t).fr \in Nat
  BY <1>2, Rates
<1> HIDE DEF total
<1>4. Top(r) \in ok
  <2>1. FarFrr(r, Top(r)).fa = 0
    BY PointsAre
  <2>2. Within(0, total, target)
    BY <1>1, WithinIs
  <2> QED BY <2>1, <2>2 DEF Points
<1>5. PICK t \in ok : \A u \in ok : FarFrr(r, t).fr <= FarFrr(r, u).fr
  <2> DEFINE S == {FarFrr(r, u).fr : u \in ok}
  <2>1. S \in SUBSET Nat /\ S # {}
    BY <1>3, <1>4
  <2>2. PICK n \in S : \A k \in S : n <= k
    <3> HIDE DEF S
    <3> QED BY <2>1, Least
  <2> QED BY <2>2
<1> DEFINE best == {u \in ok : FarFrr(r, u).fr = FarFrr(r, t).fr}
<1>6. PICK s \in best : \A u \in best : u <= s
  <2>1. best \in SUBSET Nat /\ IsFiniteSet(best) /\ t \in best
    BY <1>2, <1>5, FS_Subset
  <2> HIDE DEF best
  <2> QED BY <2>1, Greatest
<1>7. ASSUME NEW w \in Reachable(r), Within(w.fa, total, target)
      PROVE  FarFrr(r, s).fr <= w.fr
  BY <1>5, <1>6, <1>7, PointsAre
<1>8. CASE s = Top(r)
  BY <1>6, <1>7, <1>8, PointsAre DEF total
<1>9. CASE s \in Levels(r)
  <2>1. ASSUME Intermediate(r, s) PROVE FALSE
    <3>1. PICK a \in Levels(r), b \in Levels(r) :
            /\ b < s /\ s < a
            /\ \A x \in Levels(r) : ~(b < x /\ x < s) /\ ~(s < x /\ x < a)
            /\ FarFrr(r, a).fa + FarFrr(r, b).fa = 2 * FarFrr(r, s).fa
            /\ FarFrr(r, a).fr + FarFrr(r, b).fr = 2 * FarFrr(r, s).fr
      BY <1>9, <2>1, Neighbours
    <3>2. a \in Points(r) /\ b \in Points(r) /\ a \in Nat /\ b \in Nat /\ s \in Nat
      BY <1>2, <1>9 DEF Points
    <3>3. /\ FarFrr(r, a).fa \in Nat /\ FarFrr(r, a).fr \in Nat
          /\ FarFrr(r, b).fa \in Nat /\ FarFrr(r, b).fr \in Nat
          /\ FarFrr(r, s).fa \in Nat /\ FarFrr(r, s).fr \in Nat
      BY <1>3, <1>6, <3>2
    <3>4. /\ FarFrr(r, a).fa <= FarFrr(r, s).fa /\ FarFrr(r, s).fr <= FarFrr(r, a).fr
          /\ s \notin Range(AttackScores(r)) => FarFrr(r, a).fa = FarFrr(r, s).fa
          /\ s \notin Range(GenuineScores(r)) => FarFrr(r, a).fr = FarFrr(r, s).fr
      BY <3>1, <3>2, Rates
    <3>5. a \in ok
      BY <1>1, <1>6, <3>2, <3>3, <3>4, WithinIs
    <3>6. FarFrr(r, a).fr # FarFrr(r, s).fr
      <4>1. ~(a <= s)
        BY <3>1, <3>2
      <4> QED BY <1>6, <3>5, <4>1
    <3>7. FarFrr(r, a).fa = FarFrr(r, s).fa
      BY <3>4, <3>6 DEF Tied
    <3>8. FarFrr(r, b).fa = FarFrr(r, s).fa /\ FarFrr(r, b).fr < FarFrr(r, s).fr
      BY <3>1, <3>3, <3>4, <3>6, <3>7
    <3>9. b \in ok
      BY <1>6, <3>2, <3>8
    <3>10. FarFrr(r, s).fr <= FarFrr(r, b).fr
      BY <1>5, <1>6, <3>9
    <3> QED BY <3>3, <3>8, <3>10
  <2> QED BY <1>6, <1>7, <1>9, <2>1, PointsAre DEF total
<1> QED BY <1>6, <1>8, <1>9 DEF Points

\* The smallest of the thresholds that accept fewest attacks within a rate of false
\* rejects is a vertex, as above from the other side.
LEMMA BestFar ==
  ASSUME NEW r, HasScores(r), ~Tied(r), NEW target \in Target
  PROVE  \E v \in RocCurve(r) :
           /\ Within(v.fr, Len(GenuineScores(r)), target)
           /\ \A w \in Reachable(r) : Within(w.fr, Len(GenuineScores(r)), target) => v.fa <= w.fa
<1> DEFINE total == Len(GenuineScores(r))
           ok == {t \in Points(r) : Within(FarFrr(r, t).fr, total, target)}
<1>1. total \in Nat
  BY DEF HasScores
<1>2. Points(r) \in SUBSET Nat /\ IsFiniteSet(Points(r))
  BY PointsAre
<1>3. \A t \in Points(r) : FarFrr(r, t).fa \in Nat /\ FarFrr(r, t).fr \in Nat
  BY <1>2, Rates
<1> HIDE DEF total
<1>4. Min(Levels(r)) \in ok
  <2>1. Min(Levels(r)) \in Levels(r) /\ \A x \in Levels(r) : Min(Levels(r)) <= x
    BY LevelsAre, Extremes
  <2>2. Min(Levels(r)) \in Nat
    BY <2>1, LevelsAre
  <2>3. FarFrr(r, Min(Levels(r))).fr = 0
    BY <2>1, <2>2, Rates
  <2>4. Within(0, total, target)
    BY <1>1, WithinIs
  <2> QED BY <2>1, <2>3, <2>4 DEF Points
<1>5. PICK t \in ok : \A u \in ok : FarFrr(r, t).fa <= FarFrr(r, u).fa
  <2> DEFINE S == {FarFrr(r, u).fa : u \in ok}
  <2>1. S \in SUBSET Nat /\ S # {}
    BY <1>3, <1>4
  <2>2. PICK n \in S : \A k \in S : n <= k
    <3> HIDE DEF S
    <3> QED BY <2>1, Least
  <2> QED BY <2>2
<1> DEFINE best == {u \in ok : FarFrr(r, u).fa = FarFrr(r, t).fa}
<1>6. PICK s \in best : \A u \in best : s <= u
  <2>1. best \in SUBSET Nat /\ t \in best
    BY <1>2, <1>5
  <2> HIDE DEF best
  <2> QED BY <2>1, Least
<1>7. ASSUME NEW w \in Reachable(r), Within(w.fr, total, target)
      PROVE  FarFrr(r, s).fa <= w.fa
  BY <1>5, <1>6, <1>7, PointsAre
<1>8. CASE s = Top(r)
  BY <1>6, <1>7, <1>8, PointsAre DEF total
<1>9. CASE s \in Levels(r)
  <2>1. ASSUME Intermediate(r, s) PROVE FALSE
    <3>1. PICK a \in Levels(r), b \in Levels(r) :
            /\ b < s /\ s < a
            /\ \A x \in Levels(r) : ~(b < x /\ x < s) /\ ~(s < x /\ x < a)
            /\ FarFrr(r, a).fa + FarFrr(r, b).fa = 2 * FarFrr(r, s).fa
            /\ FarFrr(r, a).fr + FarFrr(r, b).fr = 2 * FarFrr(r, s).fr
      BY <1>9, <2>1, Neighbours
    <3>2. a \in Points(r) /\ b \in Points(r) /\ a \in Nat /\ b \in Nat /\ s \in Nat
      BY <1>2, <1>9 DEF Points
    <3>3. /\ FarFrr(r, a).fa \in Nat /\ FarFrr(r, a).fr \in Nat
          /\ FarFrr(r, b).fa \in Nat /\ FarFrr(r, b).fr \in Nat
          /\ FarFrr(r, s).fa \in Nat /\ FarFrr(r, s).fr \in Nat
      BY <1>3, <1>6, <3>2
    <3>4. /\ FarFrr(r, s).fa <= FarFrr(r, b).fa /\ FarFrr(r, b).fr <= FarFrr(r, s).fr
          /\ b \notin Range(AttackScores(r)) => FarFrr(r, s).fa = FarFrr(r, b).fa
          /\ b \notin Range(GenuineScores(r)) => FarFrr(r, s).fr = FarFrr(r, b).fr
      BY <3>1, <3>2, Rates
    <3>5. b \in ok
      BY <1>1, <1>6, <3>2, <3>3, <3>4, WithinIs
    <3>6. FarFrr(r, b).fa # FarFrr(r, s).fa
      <4>1. ~(s <= b)
        BY <3>1, <3>2
      <4> QED BY <1>6, <3>5, <4>1
    <3>7. FarFrr(r, b).fr = FarFrr(r, s).fr
      BY <3>4, <3>6 DEF Tied
    <3>8. FarFrr(r, a).fr = FarFrr(r, s).fr /\ FarFrr(r, a).fa < FarFrr(r, s).fa
      BY <3>1, <3>3, <3>4, <3>6, <3>7
    <3>9. a \in ok
      BY <1>6, <3>2, <3>8
    <3>10. FarFrr(r, s).fa <= FarFrr(r, a).fa
      BY <1>5, <1>6, <3>9
    <3> QED BY <3>3, <3>8, <3>10
  <2> QED BY <1>6, <1>7, <1>9, <2>1, PointsAre DEF total
<1> QED BY <1>6, <1>8, <1>9 DEF Points

-----------------------------------------------------------------------------
(* The rates that are reported. *)

\* The least of a rate over the vertices within a budget is the least over all
\* thresholds within it, and one of these has it.
LEMMA Reported ==
  ASSUME NEW r, HasScores(r), ~Tied(r), NEW target \in Target
  PROVE  /\ \A v \in Reachable(r) :
              /\ Within(v.fa, Len(AttackScores(r)), target) => FrrAtFar(r, target) <= v.fr
              /\ Within(v.fr, Len(GenuineScores(r)), target) => FarAtFrr(r, target) <= v.fa
         /\ \E v \in Reachable(r) :
              v.fr = FrrAtFar(r, target) /\ Within(v.fa, Len(AttackScores(r)), target)
         /\ \E v \in Reachable(r) :
              v.fa = FarAtFrr(r, target) /\ Within(v.fr, Len(GenuineScores(r)), target)
<1>1. RocCurve(r) \subseteq Reachable(r) /\ \A v \in Reachable(r) : v.fa \in Nat /\ v.fr \in Nat
  BY PointsAre, Rates
<1> DEFINE F == {v.fr : v \in {v \in RocCurve(r) : Within(v.fa, Len(AttackScores(r)), target)}}
           A == {v.fa : v \in {v \in RocCurve(r) : Within(v.fr, Len(GenuineScores(r)), target)}}
<1>2. FrrAtFar(r, target) = Min(F) /\ FarAtFrr(r, target) = Min(A)
  BY DEF FrrAtFar, FarAtFrr, HasScores
<1>3. PICK v \in RocCurve(r) :
        /\ Within(v.fa, Len(AttackScores(r)), target)
        /\ \A w \in Reachable(r) : Within(w.fa, Len(AttackScores(r)), target) => v.fr <= w.fr
  BY BestFrr
<1>4. PICK u \in RocCurve(r) :
        /\ Within(u.fr, Len(GenuineScores(r)), target)
        /\ \A w \in Reachable(r) : Within(w.fr, Len(GenuineScores(r)), target) => u.fa <= w.fa
  BY BestFar
<1>5. v.fr \in F /\ \A x \in F : v.fr <= x
  BY <1>1, <1>3
<1>6. u.fa \in A /\ \A x \in A : u.fa <= x
  BY <1>1, <1>4
<1>7. F \in SUBSET Nat /\ A \in SUBSET Nat
  BY <1>1
<1>8. Min(F) = v.fr /\ Min(A) = u.fa
  <2>1. ASSUME NEW S \in SUBSET Nat, NEW m \in S, \A x \in S : m <= x
        PROVE  Min(S) = m
    <3>1. Min(S) \in S /\ Min(S) <= m /\ m <= Min(S)
      BY <2>1, MinIs
    <3>2. Min(S) \in Nat /\ m \in Nat
      BY <3>1
    <3> QED BY <3>1, <3>2
  <2> HIDE DEF F, A
  <2> QED BY <1>5, <1>6, <1>7, <2>1
<1> HIDE DEF F, A
<1> QED BY <1>1, <1>2, <1>3, <1>4, <1>8

\* Once there are metrics, they are of a result.
MetricsInv ==
  step = "measured" =>
    /\ result \in Results
    /\ metrics.frrAtFar = [t \in Targets |-> FrrAtFar(result, t)]
    /\ metrics.farAtFrr = [t \in Targets |-> FarAtFrr(result, t)]

\* For every result without ties and every target: no threshold, whether or not the
\* curve has a vertex for it, rejects fewer genuine scores at a rate of false
\* accepts that the target allows than the metrics tell, nor accepts fewer attacks
\* at a rate of false rejects; and some threshold does as well as they tell.
THEOREM VerticesSuffice == Spec => []OperatingPointsAreBest
<1>1. Init => MetricsInv
  BY DEF Init, MetricsInv
<1>2. MetricsInv /\ [Next]_vars => MetricsInv'
  <2> SUFFICES ASSUME MetricsInv, [Next]_vars PROVE MetricsInv'
    OBVIOUS
  <2>1. CASE Measure
    <3>1. PICK r \in Results : result' = r /\ metrics' = Measured(r, frozen)
      BY <2>1 DEF Measure
    <3> QED BY <3>1 DEF MetricsInv, Measured
  <2>2. CASE FallBack
    <3>1. PICK r \in Results : result' = r /\ metrics' = Measured(r, frozen')
      BY <2>2 DEF FallBack
    <3> QED BY <3>1 DEF MetricsInv, Measured
  <2>3. CASE Freeze \/ Correct
    BY <2>3 DEF Freeze, Correct, MetricsInv
  <2>4. CASE UNCHANGED vars
    BY <2>4 DEF vars, MetricsInv
  <2> QED BY <2>1, <2>2, <2>3, <2>4 DEF Next
<1>3. MetricsInv => OperatingPointsAreBest
  <2> SUFFICES ASSUME MetricsInv, step = "measured", ~Undefined(result), ~Tied(result),
                      NEW t \in Targets
               PROVE
                 /\ \A v \in Reachable(result) :
                      /\ v.fa * t.den <= t.num * Len(AttackScores(result)) => metrics.frrAtFar[t] <= v.fr
                      /\ v.fr * t.den <= t.num * Len(GenuineScores(result)) => metrics.farAtFrr[t] <= v.fa
                 /\ \E v \in Reachable(result) :
                      v.fr = metrics.frrAtFar[t] /\ v.fa * t.den <= t.num * Len(AttackScores(result))
                 /\ \E v \in Reachable(result) :
                      v.fa = metrics.farAtFrr[t] /\ v.fr * t.den <= t.num * Len(GenuineScores(result))
    BY DEF OperatingPointsAreBest
  <2>1. HasScores(result) /\ t \in Target
    BY AnalysisAssumption DEF MetricsInv, HasScores, Target
  <2>2. metrics.frrAtFar[t] = FrrAtFar(result, t) /\ metrics.farAtFrr[t] = FarAtFrr(result, t)
    BY DEF MetricsInv
  <2> QED BY <2>1, <2>2, Reported DEF Within
<1> QED BY <1>1, <1>2, <1>3, PTL DEF Spec
-----------------------------------------------------------------------------
(* Windows, one after another. *)

\* Induction over the windows of a stream, for a set of them.
LEMMA Upwards ==
  ASSUME NEW n \in Nat, NEW S, 0 \in S, \A i \in 1 .. n : i - 1 \in S => i \in S
  PROVE  \A i \in 0 .. n : i \in S
<1> DEFINE Bad == {i \in 0 .. n : i \notin S}
<1> SUFFICES ASSUME Bad # {} PROVE FALSE
  OBVIOUS
<1>1. Bad \in SUBSET Nat
  OBVIOUS
<1>2. PICK m \in Bad : \A i \in Bad : m <= i
  <2> HIDE DEF Bad
  <2> QED BY <1>1, Least
<1>3. m \in 1 .. n /\ m - 1 \in 0 .. n
  BY <1>2
<1>4. m - 1 \notin Bad
  <2>1. ~(m <= m - 1)
    BY <1>3
  <2> QED BY <1>2, <2>1
<1> QED BY <1>2, <1>3, <1>4

-----------------------------------------------------------------------------
(* Doubles. *)

\* Each power of two is twice the one before it: so many subsets a set has.
LEMMA Doubling ==
  ASSUME NEW n \in Nat
  PROVE  2^n \in Nat /\ 2^(n + 1) = 2 * 2^n
<1> DEFINE S == 1 .. n
           A == SUBSET S
           B == {T \cup {n + 1} : T \in A}
           f == [T \in A |-> T \cup {n + 1}]
<1>1. /\ IsFiniteSet(S) /\ Cardinality(S) = n
      /\ IsFiniteSet(1 .. n + 1) /\ Cardinality(1 .. n + 1) = n + 1
  BY FS_Interval
<1>2. /\ IsFiniteSet(A) /\ Cardinality(A) = 2^n /\ Cardinality(A) \in Nat
      /\ Cardinality(SUBSET (1 .. n + 1)) = 2^(n + 1)
  <2>1. IsFiniteSet(A) /\ Cardinality(A) = 2^Cardinality(S)
    BY <1>1, FS_SUBSET
  <2>2. Cardinality(SUBSET (1 .. n + 1)) = 2^Cardinality(1 .. n + 1)
    BY <1>1, FS_SUBSET
  <2> QED BY <1>1, <2>1, <2>2, FS_CardinalityType
<1>3. f \in Bijection(A, B)
  <2>1. f \in [A -> B] /\ \A T \in B : \E U \in A : f[U] = T
    OBVIOUS
  <2>2. \A T, U \in A : f[T] = f[U] => T = U
    <3> SUFFICES ASSUME NEW T \in A, NEW U \in A, f[T] = f[U] PROVE T = U
      OBVIOUS
    <3>1. T \cup {n + 1} = U \cup {n + 1} /\ n + 1 \notin T /\ n + 1 \notin U
      OBVIOUS
    <3> QED BY <3>1
  <2> HIDE DEF A, B, f
  <2> QED BY <2>1, <2>2 DEF Bijection, Injection, Surjection, IsInjective
<1>4. IsFiniteSet(B) /\ Cardinality(B) = Cardinality(A)
  <2>1. ExistsBijection(A, B)
    BY <1>3 DEF ExistsBijection
  <2> HIDE DEF A, B, f
  <2> QED BY <1>2, <2>1, FS_Bijection
<1>5. SUBSET (1 .. n + 1) = A \cup B
  <2>1. ASSUME NEW T \in SUBSET (1 .. n + 1) PROVE T \in A \cup B
    <3>1. T \ {n + 1} \in A
      OBVIOUS
    <3>2. n + 1 \in T => T = (T \ {n + 1}) \cup {n + 1}
      OBVIOUS
    <3>3. n + 1 \notin T => T = T \ {n + 1}
      OBVIOUS
    <3> QED BY <3>1, <3>2, <3>3
  <2>2. ASSUME NEW T \in A PROVE T \in SUBSET (1 .. n + 1) /\ T \cup {n + 1} \in SUBSET (1 .. n + 1)
    <3>1. S \subseteq 1 .. n + 1 /\ n + 1 \in 1 .. n + 1
      OBVIOUS
    <3> HIDE DEF S
    <3> QED BY <3>1
  <2>3. \A T \in B : \E U \in A : T = U \cup {n + 1}
    OBVIOUS
  <2> HIDE DEF A, B
  <2> QED BY <2>1, <2>2, <2>3
<1>6. A \cap B = {}
  OBVIOUS
<1> HIDE DEF A, B
<1>7. Cardinality(A \cup B) = Cardinality(A) + Cardinality(B) - Cardinality(A \cap B)
  BY <1>2, <1>4, FS_Union
<1>8. Cardinality(A \cap B) = 0
  BY <1>6, FS_EmptySet
<1>9. Cardinality(A \cup B) = 2 * Cardinality(A)
  BY <1>2, <1>4, <1>7, <1>8
<1>10. 2^(n + 1) = Cardinality(A \cup B)
  BY <1>2, <1>5
<1> QED BY <1>2, <1>9, <1>10

\* Powers of two grow, add their exponents, and are beyond them.
LEMMA Powers ==
  /\ 2^0 = 1
  /\ \A n \in Nat : 2^n \in Nat /\ 2^n > 0 /\ n < 2^n /\ 2^(n + 1) = 2 * 2^n
  /\ \A m, n \in Nat : 2^(m + n) = 2^m * 2^n
  /\ \A m, n \in Nat : m <= n => 2^m <= 2^n
<1>1. 2^0 = 1
  OBVIOUS
<1>2. \A n \in Nat : 2^n \in Nat /\ 2^(n + 1) = 2 * 2^n
  BY Doubling
<1>3. ASSUME NEW n \in Nat PROVE 2^n > 0 /\ n < 2^n
  <2> DEFINE S == {k \in Nat : 2^k > 0 /\ k < 2^k}
  <2>1. 0 \in S
    BY <1>1
  <2>2. ASSUME NEW k \in 1 .. n, k - 1 \in S PROVE k \in S
    <3>1. 2^((k - 1) + 1) = 2 * 2^(k - 1) /\ 2^(k - 1) \in Nat
      BY <1>2
    <3>2. (k - 1) + 1 = k /\ k \in Nat
      OBVIOUS
    <3>3. 2^(k - 1) > 0 /\ k - 1 < 2^(k - 1)
      BY <2>2
    <3>4. 2^k = 2 * 2^(k - 1)
      BY <3>1, <3>2
    <3>5. 2 * 2^(k - 1) > 0 /\ k < 2 * 2^(k - 1)
      BY <3>1, <3>3
    <3> QED BY <3>2, <3>4, <3>5
  <2> HIDE DEF S
  <2>3. n \in S
    BY <2>1, <2>2, Upwards
  <2> QED BY <2>3 DEF S
<1>4. ASSUME NEW m \in Nat, NEW n \in Nat PROVE 2^(m + n) = 2^m * 2^n
  <2> DEFINE S == {k \in Nat : 2^(m + k) = 2^m * 2^k}
  <2>1. 0 \in S
    <3>1. m + 0 = m /\ 2^m \in Nat
      BY <1>2
    <3> QED BY <1>1, <3>1
  <2>2. ASSUME NEW k \in 1 .. n, k - 1 \in S PROVE k \in S
    <3>1. 2^((k - 1) + 1) = 2 * 2^(k - 1) /\ 2^(k - 1) \in Nat /\ 2^m \in Nat
      BY <1>2
    <3>2. m + (k - 1) \in Nat
      OBVIOUS
    <3>3. 2^((m + (k - 1)) + 1) = 2 * 2^(m + (k - 1))
      BY <1>2, <3>2
    <3>4. (k - 1) + 1 = k /\ (m + (k - 1)) + 1 = m + k /\ k \in Nat
      OBVIOUS
    <3>5. 2^(m + (k - 1)) = 2^m * 2^(k - 1)
      BY <2>2
    <3>6. 2^k = 2 * 2^(k - 1) /\ 2^(m + k) = 2 * (2^m * 2^(k - 1))
      BY <3>1, <3>3, <3>4, <3>5
    <3>7. \A x, y \in Nat : 2 * (x * y) = x * (2 * y)
      OBVIOUS
    <3> QED BY <3>1, <3>4, <3>6, <3>7
  <2> HIDE DEF S
  <2>3. n \in S
    BY <2>1, <2>2, Upwards
  <2> QED BY <2>3 DEF S
<1>5. ASSUME NEW m \in Nat, NEW n \in Nat, m <= n PROVE 2^m <= 2^n
  <2>1. n - m \in Nat /\ m + (n - m) = n
    BY <1>5
  <2>2. 2^(m + (n - m)) = 2^m * 2^(n - m)
    BY <1>4, <2>1
  <2>3. 2^(n - m) \in Nat /\ 2^(n - m) > 0 /\ 2^m \in Nat
    BY <1>2, <1>3, <2>1
  <2>4. \A x, y \in Nat : y > 0 => x <= x * y
    OBVIOUS
  <2> QED BY <2>1, <2>2, <2>3, <2>4
<1> QED BY <1>1, <1>2, <1>3, <1>4, <1>5

\* A numerator has its digits within the significand's and k more, and not fewer.
Digits(num, k) ==
  /\ num < 2^Precision * 2^k
  /\ k > 0 => 2^Precision * 2^(k - 1) <= num

\* It is so for one k, which one more digit makes one more.
LEMMA DigitsOne ==
  ASSUME NEW num \in Nat
  PROVE  /\ \E k \in Nat : Digits(num, k)
         /\ \A k, l \in Nat : Digits(num, k) /\ Digits(num, l) => k = l
         /\ Digits(num, 0) <=> num < 2^Precision
         /\ num >= 2^Precision => \A k \in Nat : Digits(num \div 2, k) => Digits(num, k + 1)
<1> DEFINE p == 2^Precision
           S == {k \in Nat : num < p * 2^k}
<1>0. p \in Nat /\ p > 0
  BY Powers, PrecisionAssumption
<1>1. num \in S
  <2>1. 2^num \in Nat /\ num < 2^num
    BY Powers
  <2> HIDE DEF p
  <2>2. 2^num <= p * 2^num
    BY <1>0, <2>1
  <2>3. p * 2^num \in Nat
    BY <1>0, <2>1
  <2> QED BY <2>1, <2>2, <2>3
<1>2. PICK m \in S : \A k \in S : m <= k
  <2>1. S \in SUBSET Nat
    OBVIOUS
  <2> HIDE DEF S
  <2> QED BY <1>1, <2>1, Least
<1>3. Digits(num, m)
  <2>1. ASSUME m > 0 PROVE p * 2^(m - 1) <= num
    <3>1. m - 1 \in Nat /\ ~(m <= m - 1)
      BY <2>1
    <3>2. m - 1 \notin S
      BY <1>2, <3>1
    <3>3. 2^(m - 1) \in Nat
      BY <3>1, Powers
    <3> HIDE DEF p
    <3>4. p * 2^(m - 1) \in Nat
      BY <1>0, <3>3
    <3> QED BY <3>1, <3>2, <3>4
  <2> QED BY <2>1 DEF Digits
<1>4. ASSUME NEW k \in Nat, NEW l \in Nat, Digits(num, k), Digits(num, l), k < l PROVE FALSE
  <2>1. l - 1 \in Nat /\ k <= l - 1 /\ l > 0
    BY <1>4
  <2>2. 2^k \in Nat /\ 2^(l - 1) \in Nat /\ 2^k <= 2^(l - 1)
    BY <2>1, Powers
  <2>3. num < p * 2^k /\ p * 2^(l - 1) <= num
    BY <1>4, <2>1 DEF Digits
  <2> HIDE DEF p
  <2>4. \A x, y, z \in Nat : y <= z => x * y <= x * z /\ x * y \in Nat /\ x * z \in Nat
    OBVIOUS
  <2>5. p * 2^k <= p * 2^(l - 1) /\ p * 2^k \in Nat /\ p * 2^(l - 1) \in Nat
    BY <1>0, <2>2, <2>4
  <2> QED BY <2>3, <2>5
<1>5. Digits(num, 0) <=> num < p
  <2>1. Digits(num, 0) <=> num < p * 2^0
    BY DEF Digits
  <2>2. 2^0 = 1
    BY Powers
  <2> HIDE DEF p
  <2>3. p * 2^0 = p
    BY <1>0, <2>2
  <2> QED BY <2>1, <2>3
<1>6. ASSUME num >= p, NEW k \in Nat, Digits(num \div 2, k) PROVE Digits(num, k + 1)
  <2>1. num \div 2 < p * 2^k /\ (k > 0 => p * 2^(k - 1) <= num \div 2)
    BY <1>6 DEF Digits
  <2>2. (k + 1) - 1 = k /\ k + 1 > 0
    OBVIOUS
  <2>0. 2^k \in Nat /\ 2^(k + 1) = 2 * 2^k
    BY Powers
  <2>3. num < p * (2 * 2^k)
    <3> DEFINE b == 2^k
    <3>1. b \in Nat /\ num \div 2 < p * b
      BY <2>0, <2>1
    <3> HIDE DEF p, b
    <3>2. p * b \in Nat /\ p * (2 * b) = 2 * (p * b)
      BY <1>0, <3>1
    <3>3. num < 2 * (p * b)
      BY <3>1, <3>2
    <3>4. num < p * (2 * b)
      BY <3>2, <3>3
    <3> QED BY <3>4 DEF b
  <2>4. p * 2^k <= num
    <3>1. CASE k = 0
      BY <1>0, <1>6, <3>1, Powers
    <3>2. CASE k > 0
      <4> DEFINE c == 2^(k - 1)
      <4>1. k - 1 \in Nat /\ (k - 1) + 1 = k
        BY <3>2
      <4>2. c \in Nat /\ 2^((k - 1) + 1) = 2 * c
        BY <4>1, Powers
      <4>3. 2^k = 2 * c
        BY <4>1, <4>2
      <4>4. p * c <= num \div 2
        BY <2>1, <3>2
      <4> HIDE DEF p, c
      <4>5. p * c \in Nat /\ p * (2 * c) = 2 * (p * c)
        BY <1>0, <4>2
      <4>6. 2 * (p * c) <= num
        BY <4>4, <4>5
      <4> QED BY <4>3, <4>5, <4>6
    <3> QED BY <3>1, <3>2
  <2> QED BY <2>0, <2>2, <2>3, <2>4 DEF Digits
<1> QED BY <1>2, <1>3, <1>4, <1>5, <1>6

\* Halving counts the digits in excess.
LEMMA ExcessIs ==
  ASSUME NEW num \in Nat
  PROVE  Excess[num] \in Nat /\ Digits(num, Excess[num])
<1> DEFINE g == [n \in Nat |-> CHOOSE k \in Nat : Digits(n, k)]
           Halving(f) == [n \in Nat |-> IF n < 2^Precision THEN 0 ELSE 1 + f[n \div 2]]
<1>1. ASSUME NEW n \in Nat PROVE g[n] \in Nat /\ Digits(n, g[n])
  <2>1. \E k \in Nat : Digits(n, k)
    BY DigitsOne
  <2> QED BY <2>1
<1>2. \A n \in Nat : n \div 2 \in Nat /\ (n > 0 => n \div 2 < n)
  OBVIOUS
<1>3. 2^Precision \in Nat /\ 2^Precision > 0
  BY Powers, PrecisionAssumption
<1>4. ASSUME NEW n \in Nat PROVE g[n] = IF n < 2^Precision THEN 0 ELSE 1 + g[n \div 2]
  <2> HIDE DEF g
  <2>1. CASE n < 2^Precision
    <3>1. Digits(n, 0)
      BY <2>1, DigitsOne
    <3>2. g[n] = 0
      BY <1>1, <3>1, DigitsOne
    <3> QED BY <2>1, <3>2
  <2>2. CASE ~(n < 2^Precision)
    <3>1. n >= 2^Precision
      BY <1>3, <2>2
    <3>2. n \div 2 \in Nat
      BY <1>2
    <3>3. g[n \div 2] \in Nat /\ Digits(n \div 2, g[n \div 2])
      BY <1>1, <3>2
    <3>4. Digits(n, g[n \div 2] + 1)
      BY <3>1, <3>3, DigitsOne
    <3>5. g[n] = g[n \div 2] + 1
      <4>1. g[n \div 2] + 1 \in Nat /\ g[n] \in Nat /\ Digits(n, g[n])
        BY <1>1, <3>3
      <4> QED BY <3>4, <4>1, DigitsOne
    <3> QED BY <2>2, <3>3, <3>5
  <2> QED BY <2>1, <2>2
<1>5. g = Halving(g)
  <2>1. g = [n \in Nat |-> g[n]]
    OBVIOUS
  <2> HIDE DEF g
  <2> QED BY <1>4, <2>1
<1>6. Excess = CHOOSE f : f = Halving(f)
  BY DEF Excess
<1>7. Excess = Halving(Excess)
  <2> HIDE DEF g, Halving
  <2> QED BY <1>5, <1>6
<1>8. \A n \in Nat : Excess[n] = IF n < 2^Precision THEN 0 ELSE 1 + Excess[n \div 2]
  <2> DEFINE x == Excess
  <2>1. x = [n \in Nat |-> IF n < 2^Precision THEN 0 ELSE 1 + x[n \div 2]]
    BY <1>7
  <2> HIDE DEF x
  <2>2. \A n \in Nat : x[n] = IF n < 2^Precision THEN 0 ELSE 1 + x[n \div 2]
    BY <2>1
  <2> QED BY <2>2 DEF x
<1> HIDE DEF g
<1> DEFINE Bad == {n \in Nat : Excess[n] # g[n]}
<1>9. Bad = {}
  <2> SUFFICES ASSUME Bad # {} PROVE FALSE
    OBVIOUS
  <2>1. Bad \in SUBSET Nat
    OBVIOUS
  <2>2. PICK m \in Bad : \A n \in Bad : m <= n
    <3> HIDE DEF Bad
    <3> QED BY <2>1, Least
  <2>3. ~(m < 2^Precision)
    BY <1>4, <1>8, <2>2
  <2>4. m \in Nat /\ m > 0
    BY <1>3, <2>3
  <2>5. m \div 2 \in Nat /\ ~(m <= m \div 2)
    BY <1>2, <2>4
  <2>6. Excess[m \div 2] = g[m \div 2]
    BY <2>2, <2>5
  <2> QED BY <1>4, <1>8, <2>2, <2>3, <2>6
<1> QED BY <1>1, <1>9

\* A numerator that the significand can hold, with zeros after it.
Holds(num) == \E c, h \in Nat : c <= 2^Precision /\ num = c * 2^h

\* A numerator and its rounded one: whole units of k digits, and a rest.
LEMMA RoundedIs ==
  ASSUME NEW num \in Nat
  PROVE  \E k, q, r \in Nat :
           /\ Digits(num, k) /\ num = q * 2^k + r /\ r < 2^k
           /\ q < 2^Precision /\ (k > 0 => 2^Precision <= 2 * q)
           /\ Rounded(num) \in {q * 2^k, (q + 1) * 2^k}
           /\ 2 * r < 2^k \/ (2 * r = 2^k /\ q % 2 = 0) => Rounded(num) = q * 2^k
<1> DEFINE k == Excess[num]
           u == 2^k
           q == num \div u
           r == num % u
           p == 2^Precision
<1>1. k \in Nat /\ Digits(num, k)
  BY ExcessIs
<1> HIDE DEF k
<1>2. u \in Nat /\ u > 0 /\ p \in Nat /\ p > 0
  BY <1>1, Powers, PrecisionAssumption
<1>3. q \in Nat /\ r \in Nat /\ r < u /\ num = q * u + r
  <2> HIDE DEF u
  <2>1. /\ num \div u \in Nat /\ num % u \in 0 .. u - 1
        /\ num = (num \div u) * u + (num % u)
    BY <1>2
  <2> QED BY <1>2, <2>1
<1>4. /\ Rounded(num) \in {q * u, (q + 1) * u}
      /\ ~(2 * r > u \/ (2 * r = u /\ q % 2 = 1)) => Rounded(num) = q * u
  BY DEF Rounded, k, u, q, r
<1>5. 2 * r < u \/ (2 * r = u /\ q % 2 = 0) => Rounded(num) = q * u
  <2>1. 2 * r < u \/ (2 * r = u /\ q % 2 = 0) => ~(2 * r > u \/ (2 * r = u /\ q % 2 = 1))
    <3> HIDE DEF u, q, r
    <3> QED BY <1>2, <1>3
  <2> QED BY <1>4, <2>1
<1>6. q < p
  <2>1. num < p * u
    BY <1>1 DEF Digits
  <2> HIDE DEF u, q, r, p
  <2>2. q * u < p * u
    BY <1>2, <1>3, <2>1
  <2>3. \A x, y, z \in Nat : y <= x => y * z <= x * z
    OBVIOUS
  <2> QED BY <1>2, <1>3, <2>2, <2>3
<1>7. k > 0 => p <= 2 * q
  <2> SUFFICES ASSUME k > 0 PROVE p <= 2 * q
    OBVIOUS
  <2> DEFINE v == 2^(k - 1)
  <2>1. k - 1 \in Nat /\ (k - 1) + 1 = k
    BY <1>1
  <2>2. v \in Nat /\ v > 0 /\ 2^((k - 1) + 1) = 2 * v
    BY <2>1, Powers
  <2>3. u = 2 * v
    BY <2>1, <2>2
  <2>4. p * v <= num
    BY <1>1 DEF Digits
  <2> HIDE DEF u, q, r, p, v
  <2>5. p * v < (2 * (q + 1)) * v
    <3>1. num < q * u + u
      BY <1>2, <1>3
    <3>2. q * u + u = (2 * (q + 1)) * v
      BY <1>3, <2>2, <2>3
    <3>3. p * v \in Nat /\ (2 * (q + 1)) * v \in Nat
      BY <1>2, <1>3, <2>2
    <3> QED BY <2>4, <3>1, <3>2, <3>3
  <2>6. p < 2 * (q + 1)
    <3>1. \A x, y, z \in Nat : y <= x => y * z <= x * z
      OBVIOUS
    <3> QED BY <1>2, <1>3, <2>2, <2>5, <3>1
  <2>7. \E y \in Nat : p = 2 * y
    <3>1. Precision - 1 \in Nat /\ (Precision - 1) + 1 = Precision
      BY PrecisionAssumption
    <3>2. 2^((Precision - 1) + 1) = 2 * 2^(Precision - 1) /\ 2^(Precision - 1) \in Nat
      BY <3>1, Powers
    <3> QED BY <3>1, <3>2 DEF p
  <2> QED BY <1>3, <2>6, <2>7
<1> QED BY <1>1, <1>3, <1>4, <1>5, <1>6, <1>7

\* Rounding leaves a number.
LEMMA RoundedNat ==
  ASSUME NEW num \in Nat
  PROVE  Rounded(num) \in Nat
<1>1. PICK k, q, r \in Nat : Rounded(num) \in {q * 2^k, (q + 1) * 2^k}
  BY RoundedIs
<1> DEFINE u == 2^k
<1>2. u \in Nat
  BY Powers
<1> HIDE DEF u
<1>3. q * u \in Nat /\ (q + 1) * u \in Nat
  BY <1>2
<1> QED BY <1>1, <1>3 DEF u

\* What the significand can hold is a number of units of any smaller one.
LEMMA HeldUnits ==
  ASSUME NEW x, Holds(x), NEW k \in Nat, 2^Precision * 2^k <= 2 * x
  PROVE  \E c \in Nat : x = c * 2^k
<1> DEFINE p == 2^Precision
           v == 2^k
<1>0. p \in Nat /\ p > 0 /\ v \in Nat /\ v > 0
  BY Powers, PrecisionAssumption
<1>1. PICK c \in Nat, h \in Nat : c <= p /\ x = c * 2^h
  BY DEF Holds
<1>2. 2^h \in Nat
  BY Powers
<1>3. CASE k <= h
  <2> DEFINE w == 2^(h - k)
  <2>1. h - k \in Nat /\ k + (h - k) = h
    BY <1>3
  <2>2. w \in Nat /\ 2^(k + (h - k)) = v * w
    BY <2>1, Powers
  <2>3. x = c * (v * w)
    BY <1>1, <2>1, <2>2
  <2> HIDE DEF v, w
  <2>4. x = (c * w) * v /\ c * w \in Nat
    BY <1>0, <2>2, <2>3
  <2> QED BY <2>4 DEF v
<1>4. CASE ~(k <= h)
  <2> DEFINE y == 2^h
             z == 2^(k - (h + 1))
  <2>1. k - (h + 1) \in Nat /\ (h + 1) + (k - (h + 1)) = k /\ h + 1 \in Nat
    BY <1>4
  <2>2. z \in Nat /\ z > 0 /\ 2^((h + 1) + (k - (h + 1))) = 2^(h + 1) * z
    BY <2>1, Powers
  <2>3. y \in Nat /\ y > 0 /\ 2^(h + 1) = 2 * y
    BY Powers
  <2>4. v = (2 * y) * z
    BY <2>1, <2>2, <2>3
  <2>5. p * v <= 2 * (c * y)
    BY <1>1
  <2> HIDE DEF p, v, y, z
  <2>6. c * y <= p * y
    BY <1>0, <1>1, <2>3
  <2>7. p * v = 2 * ((p * y) * z)
    BY <1>0, <2>2, <2>3, <2>4
  <2>8. p * y \in Nat /\ c * y \in Nat /\ p * y > 0
    BY <1>0, <2>3
  <2>9. (p * y) * z <= p * y
    <3> DEFINE a == p * y
               b == c * y
    <3>1. a \in Nat /\ b \in Nat /\ b <= a /\ a > 0
      BY <2>6, <2>8
    <3>2. 2 * (a * z) <= 2 * b /\ a * z \in Nat
      BY <2>2, <2>5, <2>7, <3>1
    <3>3. a * z <= a
      <4> HIDE DEF a, b
      <4> QED BY <3>1, <3>2
    <3> QED BY <3>3
  <2>10. z = 1
    <3> DEFINE a == p * y
    <3>1. a \in Nat /\ a > 0 /\ a * z <= a
      BY <2>8, <2>9
    <3> HIDE DEF a
    <3>2. z >= 2 => a * z >= 2 * a
      BY <2>2, <3>1
    <3> QED BY <2>2, <3>1, <3>2
  <2>11. c * y = p * y
    BY <2>5, <2>6, <2>7, <2>8, <2>10
  <2>12. v = 2 * y
    BY <2>3, <2>4, <2>10
  <2>13. \E m \in Nat : p = 2 * m
    <3>1. Precision - 1 \in Nat /\ (Precision - 1) + 1 = Precision
      BY PrecisionAssumption
    <3>2. 2^((Precision - 1) + 1) = 2 * 2^(Precision - 1) /\ 2^(Precision - 1) \in Nat
      BY <3>1, Powers
    <3> QED BY <3>1, <3>2 DEF p
  <2>14. PICK m \in Nat : p = 2 * m
    BY <2>13
  <2>15. x = m * v
    <3>1. x = (2 * m) * y
      BY <1>1, <2>11, <2>14 DEF y
    <3>2. (2 * m) * y = m * (2 * y)
      BY <2>3
    <3> QED BY <2>12, <3>1, <3>2
  <2> QED BY <2>15 DEF v
<1> QED BY <1>3, <1>4

\* Rounding goes past no number that the significand can hold.
LEMMA Capped ==
  ASSUME NEW num \in Nat, NEW x, Holds(x), num <= x
  PROVE  Rounded(num) \in Nat /\ Rounded(num) <= x
<1>1. PICK k, q, r \in Nat :
        /\ num = q * 2^k + r /\ r < 2^k /\ (k > 0 => 2^Precision <= 2 * q)
        /\ Rounded(num) \in {q * 2^k, (q + 1) * 2^k}
        /\ 2 * r < 2^k \/ (2 * r = 2^k /\ q % 2 = 0) => Rounded(num) = q * 2^k
  BY RoundedIs
<1> DEFINE u == 2^k
           p == 2^Precision
<1>2. u \in Nat /\ u > 0 /\ p \in Nat
  BY Powers, PrecisionAssumption
<1>0. x \in Nat
  <2>1. PICK c \in Nat, h \in Nat : x = c * 2^h
    BY DEF Holds
  <2>2. 2^h \in Nat
    BY Powers
  <2> QED BY <2>1, <2>2
<1>5. num = q * u + r /\ r < u
  BY <1>1
<1>6. Rounded(num) \in {q * u, (q + 1) * u} /\ (2 * r < u => Rounded(num) = q * u)
  BY <1>1
<1>3. \E c \in Nat : x = c * u
  <2>1. CASE k = 0
    <3>1. u = 1
      BY <2>1, Powers
    <3> QED BY <1>0, <3>1
  <2>2. CASE k > 0
    <3>1. p <= 2 * q
      BY <1>1, <2>2
    <3>2. p * u <= 2 * x
      <4> HIDE DEF u, p
      <4>1. p * u <= (2 * q) * u
        BY <1>2, <3>1
      <4>2. (2 * q) * u = 2 * (q * u) /\ q * u \in Nat
        BY <1>2
      <4>3. q * u <= x
        BY <1>0, <1>5, <4>2
      <4>4. p * u \in Nat
        BY <1>2
      <4> QED BY <1>0, <4>1, <4>2, <4>3, <4>4
    <3> QED BY <3>2, HeldUnits
  <2> QED BY <2>1, <2>2
<1>4. PICK c \in Nat : x = c * u
  BY <1>3
<1> HIDE DEF u
<1>7. q <= c
  <2>1. \A y \in Nat : c < y => (c + 1) * u <= y * u
    BY <1>2
  <2>2. (c + 1) * u = c * u + u /\ c * u \in Nat /\ q * u \in Nat
    BY <1>2
  <2> QED BY <1>0, <1>2, <1>4, <1>5, <2>1, <2>2
<1>8. CASE q = c
  <2>1. q * u \in Nat
    BY <1>2
  <2>2. r = 0
    BY <1>4, <1>5, <1>8, <2>1
  <2> QED BY <1>2, <1>4, <1>6, <1>8, <2>1, <2>2
<1>9. CASE q # c
  <2>1. q + 1 <= c
    BY <1>7, <1>9
  <2>2. (q + 1) * u <= c * u /\ q * u <= c * u /\ q * u \in Nat /\ (q + 1) * u \in Nat
    BY <1>2, <2>1
  <2> QED BY <1>4, <1>6, <2>2
<1> QED BY <1>8, <1>9

\* Nor below one.
LEMMA Floored ==
  ASSUME NEW num \in Nat, NEW x, Holds(x), x <= num
  PROVE  x <= Rounded(num)
<1>1. PICK k, q, r \in Nat :
        /\ num = q * 2^k + r /\ r < 2^k /\ (k > 0 => 2^Precision <= 2 * q)
        /\ Rounded(num) \in {q * 2^k, (q + 1) * 2^k}
  BY RoundedIs
<1> DEFINE u == 2^k
           p == 2^Precision
<1>2. u \in Nat /\ u > 0 /\ p \in Nat
  BY Powers, PrecisionAssumption
<1>0. x \in Nat
  <2>1. PICK c \in Nat, h \in Nat : x = c * 2^h
    BY DEF Holds
  <2>2. 2^h \in Nat
    BY Powers
  <2> QED BY <2>1, <2>2
<1>3. num = q * u + r /\ r < u
  BY <1>1
<1>4. q * u <= Rounded(num) /\ Rounded(num) \in Nat
  <2>1. Rounded(num) \in {q * u, (q + 1) * u}
    BY <1>1
  <2> HIDE DEF u
  <2>2. q * u \in Nat /\ (q + 1) * u \in Nat /\ q * u <= (q + 1) * u
    BY <1>2
  <2> QED BY <2>1, <2>2
<1>5. CASE \E c \in Nat : x = c * u
  <2>1. PICK c \in Nat : x = c * u
    BY <1>5
  <2> HIDE DEF u
  <2>2. c <= q
    <3>1. \A y \in Nat : q < y => (q + 1) * u <= y * u
      BY <1>2
    <3>2. (q + 1) * u = q * u + u /\ q * u \in Nat
      BY <1>2
    <3> QED BY <1>0, <1>2, <1>3, <2>1, <3>1, <3>2
  <2>3. c * u <= q * u /\ c * u \in Nat /\ q * u \in Nat
    BY <1>2, <2>2
  <2> QED BY <1>4, <2>1, <2>3
<1>6. CASE ~(\E c \in Nat : x = c * u)
  <2>1. k > 0
    <3>1. k = 0 => u = 1
      BY Powers
    <3>2. x = x * 1
      BY <1>0
    <3> QED BY <1>0, <1>6, <3>1, <3>2
  <2>2. ~(p * u <= 2 * x)
    BY <1>6, HeldUnits
  <2>3. p <= 2 * q
    BY <1>1, <2>1
  <2> HIDE DEF u, p
  <2>4. p * u <= (2 * q) * u /\ (2 * q) * u = 2 * (q * u) /\ q * u \in Nat /\ p * u \in Nat
    BY <1>2, <2>3
  <2>5. x <= q * u
    BY <1>0, <2>2, <2>4
  <2> QED BY <1>0, <1>4, <2>4, <2>5
<1> QED BY <1>5, <1>6

\* So such a number stays.
LEMMA Exact ==
  ASSUME NEW x, Holds(x)
  PROVE  x \in Nat /\ Rounded(x) = x
<1>0. x \in Nat
  <2>1. PICK c \in Nat, h \in Nat : x = c * 2^h
    BY DEF Holds
  <2>2. 2^h \in Nat
    BY Powers
  <2> QED BY <2>1, <2>2
<1>1. Rounded(x) \in Nat /\ Rounded(x) <= x
  BY <1>0, Capped
<1>2. x <= Rounded(x)
  BY <1>0, Floored
<1> QED BY <1>0, <1>1, <1>2

-----------------------------------------------------------------------------
(* Averages. *)

\* The recurrence of an average.
Weighted(e, R, alpha, n) ==
  /\ e[0].num = 0 /\ e[0].den = 1
  /\ \A i \in 1 .. n : e[i] = Averaged(e[i - 1], i \in R, alpha)

\* The weighted rate of a stream obeys its recurrence.
LEMMA RateIs ==
  ASSUME NEW R, NEW alpha, NEW n \in Nat
  PROVE  Weighted(Rate(R, alpha, n), R, alpha, n)
<1> DEFINE Step(i, x) == Averaged(x, i \in R, alpha)
           Start == [num |-> 0, den |-> 1]
           IsRate(k, g) == g = [i \in 0 .. k |-> IF i = 0 THEN Start ELSE Step(i, g[i - 1])]
           S == {k \in Nat : \E g : IsRate(k, g)}
<1> HIDE DEF Step, Start
<1>1. 0 \in S
  <2>1. IsRate(0, [i \in 0 .. 0 |-> Start])
    OBVIOUS
  <2> QED BY <2>1
<1>2. ASSUME NEW k \in 1 .. n, k - 1 \in S PROVE k \in S
  <2>1. PICK g : IsRate(k - 1, g)
    BY <1>2
  <2> DEFINE h == [i \in 0 .. k |-> IF i = k THEN Step(k, g[k - 1]) ELSE g[i]]
  <2>2. k - 1 \in 0 .. k - 1 /\ k # 0 /\ k \in Nat
    OBVIOUS
  <2>3. ASSUME NEW i \in 0 .. k
        PROVE  h[i] = IF i = 0 THEN Start ELSE Step(i, h[i - 1])
    <3>1. CASE i = k
      <4>1. h[i - 1] = g[k - 1]
        BY <2>2, <3>1
      <4> QED BY <2>2, <3>1, <4>1
    <3>2. CASE i # k /\ i # 0
      <4>1. i \in 0 .. k - 1 /\ i - 1 \in 0 .. k /\ i - 1 # k
        BY <3>2
      <4>2. h[i] = g[i] /\ h[i - 1] = g[i - 1]
        BY <3>2, <4>1
      <4>3. g[i] = Step(i, g[i - 1])
        BY <2>1, <3>2, <4>1
      <4> HIDE DEF h
      <4> QED BY <3>2, <4>2, <4>3
    <3>3. CASE i = 0
      <4>1. g[0] = Start
        BY <2>1, <2>2
      <4> QED BY <2>2, <3>3, <4>1
    <3> QED BY <3>1, <3>2, <3>3
  <2>4. IsRate(k, h)
    BY <2>3
  <2> QED BY <2>2, <2>4
<1>3. n \in S
  <2> HIDE DEF S
  <2> QED BY <1>1, <1>2, Upwards
<1>4. PICK f : IsRate(n, f)
  BY <1>3
<1>5. Rate(R, alpha, n) = CHOOSE g : IsRate(n, g)
  BY DEF Rate, Step, Start
<1>6. IsRate(n, Rate(R, alpha, n))
  BY <1>4, <1>5
<1>7. ASSUME NEW i \in 1 .. n
      PROVE  Rate(R, alpha, n)[i] = Step(i, Rate(R, alpha, n)[i - 1])
  <2>1. i # 0 /\ i \in 0 .. n
    OBVIOUS
  <2> QED BY <1>6, <2>1
<1>8. Rate(R, alpha, n)[0] = Start
  BY <1>6
<1> QED BY <1>7, <1>8 DEF Step, Start, Weighted

\* The weights of the grid are numerators of which none is above one, and a reject
\* weighs no more than one half.
LEMMA WeightsAre ==
  ASSUME NEW alpha \in {3, 5}
  PROVE  /\ Scale = 2 * 2^Precision
         /\ Weight(alpha) \in Nat /\ Weight(alpha) <= 2^Precision
         /\ Memory(alpha) \in Nat /\ Memory(alpha) <= Scale
         /\ alpha = 5 => Weight(alpha) = 2^Precision /\ Memory(alpha) = 2^Precision
<1> DEFINE p == 2^Precision
<1>1. p \in Nat /\ p > 1 /\ Scale = 2 * p
  BY Powers, PrecisionAssumption DEF Scale
<1>2. Holds(Scale) /\ Holds(p)
  <2>1. 2 <= p /\ 1 <= p /\ p = 1 * 2^Precision
    BY <1>1
  <2> QED BY <1>1, <2>1, PrecisionAssumption DEF Holds
<1>3. Weight(alpha) \in Nat /\ Weight(alpha) <= p /\ (alpha = 5 => Weight(alpha) = p)
  <2> HIDE DEF p
  <2> QED BY <1>1 DEF Weight
<1>4. Scale - Weight(alpha) \in Nat /\ Scale - Weight(alpha) <= Scale
  BY <1>1, <1>3
<1>5. Memory(alpha) \in Nat /\ Memory(alpha) <= Scale
  BY <1>2, <1>4, Capped DEF Memory
<1>6. alpha = 5 => Memory(alpha) = p
  <2>1. alpha = 5 => Scale - Weight(alpha) = p
    <3> HIDE DEF p
    <3> QED BY <1>1, <1>3
  <2> QED BY <1>2, <2>1, Exact DEF Memory
<1> QED BY <1>1, <1>3, <1>5, <1>6

\* A power of two is held, and so is nothing.
LEMMA PowersHeld ==
  /\ \A h \in Nat : Holds(2^h) /\ 2^h \in Nat /\ Rounded(2^h) = 2^h
  /\ Rounded(0) = 0
<1>1. 2^Precision \in Nat /\ 2^Precision > 0
  BY Powers, PrecisionAssumption
<1>2. ASSUME NEW h \in Nat PROVE Holds(2^h)
  <2>1. 2^h = 1 * 2^h /\ 1 <= 2^Precision
    BY <1>1, Powers
  <2> QED BY <2>1 DEF Holds
<1>3. Holds(0)
  <2>1. 2^0 = 1 /\ 0 = 0 * 1
    BY Powers
  <2> QED BY <1>1, <2>1 DEF Holds
<1> QED BY <1>2, <1>3, Exact

\* A rate is a numerator over a power of two.
IsDouble(e) == e.num \in Nat /\ \E x \in Nat : e.den = 2^x

\* It is at most one half.
Low(e) == 2 * e.num <= e.den

\* Averaging keeps rates what they are; without a reject a low rate stays low, and
\* a reject leaves it low that comes first.
LEMMA AveragedIs ==
  ASSUME NEW alpha \in {3, 5}, NEW e, IsDouble(e), NEW rejected \in BOOLEAN
  PROVE  /\ IsDouble(Averaged(e, rejected, alpha))
         /\ ~rejected /\ Low(e) => Low(Averaged(e, rejected, alpha))
         /\ ~rejected /\ e.num = 0 => Averaged(e, rejected, alpha).num = 0
         /\ rejected /\ e.num = 0 => Low(Averaged(e, rejected, alpha))
<1> DEFINE f == Averaged(e, rejected, alpha)
           p == 2^Precision
           w == Weight(alpha)
           m == Memory(alpha)
           a == e.num
           d == e.den
           old == Rounded(m * a)
<1>1. PICK x \in Nat : d = 2^x
  BY DEF IsDouble
<1>2. /\ p \in Nat /\ p > 0 /\ w \in Nat /\ w <= p /\ m \in Nat /\ m <= 2 * p
      /\ Scale = 2 * p
  BY WeightsAre, Powers, PrecisionAssumption
<1>3. a \in Nat /\ d \in Nat /\ d > 0
  BY <1>1, Powers DEF IsDouble
<1>4. f.num = Rounded((IF rejected THEN w * d ELSE 0) + old) /\ f.den = (2 * p) * d
  BY <1>2 DEF Averaged
<1>5. p * d = 2^(Precision + x) /\ Precision + x \in Nat /\ 2^((Precision + x) + 1) = 2 * (p * d)
  <2>1. Precision + x \in Nat
    BY PrecisionAssumption
  <2>2. 2^(Precision + x) = p * 2^x
    BY Powers, PrecisionAssumption
  <2>3. 2^((Precision + x) + 1) = 2 * 2^(Precision + x)
    BY <2>1, Powers
  <2> QED BY <1>1, <2>1, <2>2, <2>3
<1>6. Holds(p * d)
  BY <1>5, PowersHeld
<1> HIDE DEF p, w, m, a, d, f
<1>7. m * a \in Nat /\ p * d \in Nat /\ w * d \in Nat /\ (2 * p) * d = 2 * (p * d)
  BY <1>2, <1>3
<1>8. old \in Nat
  BY <1>7, RoundedNat
<1>9. f.num \in Nat
  <2>1. (IF rejected THEN w * d ELSE 0) + old \in Nat
    <3> HIDE DEF old
    <3> QED BY <1>7, <1>8
  <2> QED BY <1>4, <2>1, RoundedNat
<1>10. IsDouble(f)
  <2>1. f.den = 2^((Precision + x) + 1)
    BY <1>4, <1>5, <1>7
  <2>2. (Precision + x) + 1 \in Nat
    BY <1>5
  <2> QED BY <1>9, <2>1, <2>2 DEF IsDouble
<1>11. ASSUME NEW s \in Nat, f.num = Rounded(s), s <= p * d PROVE Low(f)
  <2>1. f.num <= p * d
    BY <1>6, <1>11, Capped
  <2> QED BY <1>4, <1>7, <1>9, <2>1 DEF Low
<1>12. ASSUME ~rejected, Low(e) PROVE Low(f)
  <2>1. 2 * a <= d
    BY <1>12 DEF Low, a, d
  <2>2. m * a <= p * d
    <3>1. m * a <= (2 * p) * a
      BY <1>2, <1>3
    <3>2. (2 * p) * a = p * (2 * a) /\ p * (2 * a) <= p * d
      BY <1>2, <1>3, <2>1
    <3> QED BY <1>2, <1>3, <1>7, <3>1, <3>2
  <2>3. old <= p * d
    BY <1>6, <1>7, <2>2, Capped
  <2>4. f.num = Rounded(0 + old)
    BY <1>4, <1>12
  <2> HIDE DEF old
  <2>5. 0 + old \in Nat /\ 0 + old <= p * d
    BY <1>8, <2>3
  <2> QED BY <1>11, <2>4, <2>5
<1>13. ASSUME e.num = 0 PROVE old = 0
  <2>1. m * a = 0
    BY <1>2, <1>13 DEF a
  <2> QED BY <2>1, PowersHeld
<1>14. ASSUME ~rejected, e.num = 0 PROVE f.num = 0
  <2>1. f.num = Rounded(0 + 0)
    BY <1>4, <1>13, <1>14
  <2>2. 0 + 0 = 0
    OBVIOUS
  <2> QED BY <2>1, <2>2, PowersHeld
<1>15. ASSUME rejected, e.num = 0 PROVE Low(f)
  <2>1. f.num = Rounded(w * d + 0)
    BY <1>4, <1>13, <1>15
  <2>2. w * d + 0 \in Nat /\ w * d + 0 <= p * d
    BY <1>2, <1>3, <1>7
  <2> QED BY <1>11, <2>1, <2>2
<1> QED BY <1>10, <1>12, <1>14, <1>15 DEF f

\* A rate triggers when it is not low.
LEMMA TriggersIs ==
  ASSUME NEW e, IsDouble(e)
  PROVE  Triggers(e) <=> ~Low(e)
<1>1. e.num \in Nat /\ e.den \in Nat
  BY Powers DEF IsDouble
<1> QED BY <1>1 DEF Triggers, Low

\* The rates of a stream are doubles.
LEMMA RatesAre ==
  ASSUME NEW alpha \in {3, 5}, NEW n \in Nat, NEW R, NEW e, Weighted(e, R, alpha, n)
  PROVE  \A i \in 0 .. n : IsDouble(e[i])
<1> DEFINE S == {i \in 0 .. n : IsDouble(e[i])}
<1>1. 0 \in S
  <2>1. e[0].num = 0 /\ e[0].den = 1
    BY DEF Weighted
  <2>2. \E x \in Nat : 1 = 2^x
    BY Powers
  <2>3. IsDouble(e[0])
    BY <2>1, <2>2 DEF IsDouble
  <2> QED BY <2>3
<1>2. ASSUME NEW i \in 1 .. n, i - 1 \in S PROVE i \in S
  <2>1. e[i] = Averaged(e[i - 1], i \in R, alpha)
    BY DEF Weighted
  <2>2. IsDouble(e[i - 1]) /\ (i \in R) \in BOOLEAN
    BY <1>2
  <2>3. IsDouble(e[i])
    BY <2>1, <2>2, AveragedIs
  <2> QED BY <2>3
<1> HIDE DEF S
<1>3. \A i \in 0 .. n : i \in S
  BY <1>1, <1>2, Upwards
<1> QED BY <1>3 DEF S

\* No more than one reject so far: the rate is at most one half.
LEMMA OneIsNotEnough ==
  ASSUME NEW alpha \in {3, 5}, NEW n \in Nat, NEW R \in SUBSET (1 .. n),
         NEW e, Weighted(e, R, alpha, n)
  PROVE  \A i \in 0 .. n :
           (\A v, w \in R : v <= i /\ w <= i => v = w) => ~Triggers(e[i])
<1> DEFINE None(i) == \A v \in R : ~(v <= i)
           One(i) == \A v, w \in R : v <= i /\ w <= i => v = w
           S == {i \in 0 .. n : (None(i) => e[i].num = 0) /\ (One(i) => Low(e[i]))}
<1>0. \A i \in 0 .. n : IsDouble(e[i])
  BY RatesAre
<1>1. 0 \in S
  BY DEF Weighted, Low
<1>2. ASSUME NEW i \in 1 .. n, i - 1 \in S PROVE i \in S
  <2>1. i - 1 \in 0 .. n /\ i \in 0 .. n
    OBVIOUS
  <2>2. e[i] = Averaged(e[i - 1], i \in R, alpha) /\ IsDouble(e[i - 1]) /\ (i \in R) \in BOOLEAN
    BY <1>0, <2>1 DEF Weighted
  <2>3. None(i) => i \notin R /\ None(i - 1)
    OBVIOUS
  <2>4. One(i) => One(i - 1)
    OBVIOUS
  <2>5. One(i) /\ i \in R => None(i - 1)
    OBVIOUS
  <2>6. (None(i - 1) => e[i - 1].num = 0) /\ (One(i - 1) => Low(e[i - 1]))
    BY <1>2
  <2>7. /\ i \notin R /\ Low(e[i - 1]) => Low(e[i])
        /\ i \notin R /\ e[i - 1].num = 0 => e[i].num = 0
        /\ i \in R /\ e[i - 1].num = 0 => Low(e[i])
    BY <2>2, AveragedIs
  <2> HIDE DEF None, One
  <2>8. (None(i) => e[i].num = 0) /\ (One(i) => Low(e[i]))
    BY <2>3, <2>4, <2>5, <2>6, <2>7
  <2> QED BY <2>1, <2>8
<1>3. \A i \in 0 .. n : i \in S
  <2> HIDE DEF S
  <2> QED BY <1>1, <1>2, Upwards
<1>4. ASSUME NEW i \in 0 .. n, One(i) PROVE ~Triggers(e[i])
  <2>1. Low(e[i])
    BY <1>3, <1>4
  <2> QED BY <1>0, <2>1, TriggersIs
<1> QED BY <1>4

\* A window without a reject triggers no average that was not triggered before it.
LEMMA OnlyRejectsTrigger ==
  ASSUME NEW alpha \in {3, 5}, NEW n \in Nat, NEW R, NEW e, Weighted(e, R, alpha, n),
         NEW i \in 1 .. n, i \notin R, Triggers(e[i])
  PROVE  i - 1 \in 1 .. n /\ Triggers(e[i - 1])
<1>1. i - 1 \in 0 .. n /\ i \in 0 .. n
  OBVIOUS
<1>2. IsDouble(e[i]) /\ IsDouble(e[i - 1])
  BY <1>1, RatesAre
<1>3. e[i] = Averaged(e[i - 1], i \in R, alpha) /\ (i \in R) = FALSE
  BY DEF Weighted
<1>4. Low(e[i - 1]) => Low(e[i])
  BY <1>2, <1>3, AveragedIs
<1>5. ~Low(e[i - 1])
  BY <1>2, <1>4, TriggersIs
<1>6. i # 1
  <2>1. Low(e[0])
    BY DEF Weighted, Low
  <2> QED BY <1>5, <2>1
<1> QED BY <1>1, <1>2, <1>5, <1>6, TriggersIs

\* The faster average d windows after a reject: one half, halved so often.
Faded(e, d) == \E y \in Nat : e.num = 2^y /\ e.den = 2^(y + d)

\* A faded rate is low.
LEMMA FadedIsLow ==
  ASSUME NEW e, NEW d \in Nat, d > 0, Faded(e, d)
  PROVE  Low(e)
<1>1. PICK y \in Nat : e.num = 2^y /\ e.den = 2^(y + d)
  BY DEF Faded
<1>2. y + 1 \in Nat /\ y + d \in Nat /\ y + 1 <= y + d
  OBVIOUS
<1>3. 2^(y + 1) = 2 * 2^y /\ 2^(y + 1) <= 2^(y + d)
  BY <1>2, Powers
<1> QED BY <1>1, <1>3 DEF Low

\* One half and a power of two that the significand has no digit for are one half.
LEMMA Absorbed ==
  ASSUME NEW z \in Nat, NEW d \in Nat, d >= Precision
  PROVE  Rounded(2^(z + d) + 2^z) = 2^(z + d)
<1> DEFINE P == Precision
           h == z + d
           k == (h + 1) - P
           u == 2^k
           b == 2^z
           c == 2^(P - 2)
           s == 2^h + b
<1>1. P \in Nat /\ P >= 2 /\ h \in Nat /\ k \in Nat /\ k > 0 /\ z <= h /\ z + 1 <= k
  BY PrecisionAssumption
<1>2. /\ (P - 2) \in Nat /\ (P - 2) + 1 = P - 1 /\ (P - 1) \in Nat /\ (P - 1) + 1 = P
      /\ (P - 1) + k = h /\ k - 1 \in Nat /\ P + (k - 1) = h /\ P + k = h + 1
  BY <1>1
<1>3. c \in Nat /\ u \in Nat /\ b \in Nat /\ b > 0 /\ 2^h \in Nat
  BY <1>1, <1>2, Powers
<1>4. 2^(P - 1) = 2 * c /\ 2^((P - 1) + k) = 2^(P - 1) * u
  <2>1. 2^((P - 2) + 1) = 2 * c
    BY <1>2, Powers
  <2> QED BY <1>1, <1>2, <2>1, Powers
<1>5. 2^h = (2 * c) * u
  BY <1>2, <1>4
<1>6. 2 * b <= u
  <2>1. 2^(z + 1) = 2 * b /\ 2^(z + 1) <= u
    BY <1>1, Powers
  <2> QED BY <2>1
<1>7. Digits(s, k)
  <2>1. 2^(P + k) = 2^P * u /\ 2^(P + (k - 1)) = 2^P * 2^(k - 1) /\ 2^(h + 1) = 2 * 2^h
    BY <1>1, <1>2, Powers
  <2>2. 2^P * u = 2 * 2^h /\ 2^P * 2^(k - 1) = 2^h
    BY <1>2, <2>1
  <2>3. b < 2^h
    <3>1. z < h /\ z + 1 \in Nat /\ z + 1 <= h
      BY <1>1
    <3>2. 2^(z + 1) = 2 * b /\ 2^(z + 1) <= 2^h
      BY <1>1, <3>1, Powers
    <3> QED BY <1>3, <3>2
  <2>4. s < 2 * 2^h /\ 2^h <= s
    BY <1>3, <2>3
  <2> HIDE DEF s, k
  <2> QED BY <2>2, <2>4 DEF Digits, u
<1>8. s \in Nat
  BY <1>3
<1>9. PICK l, q, r \in Nat :
        /\ Digits(s, l) /\ s = q * 2^l + r /\ r < 2^l
        /\ 2 * r < 2^l \/ (2 * r = 2^l /\ q % 2 = 0) => Rounded(s) = q * 2^l
  <2> HIDE DEF s
  <2> QED BY <1>8, RoundedIs
<1>10. l = k
  <2> HIDE DEF s, k
  <2> QED BY <1>1, <1>7, <1>8, <1>9, DigitsOne
<1>11. /\ s = q * u + r /\ r < u
       /\ 2 * r < u \/ (2 * r = u /\ q % 2 = 0) => Rounded(s) = q * u
  BY <1>9, <1>10
<1>12. q * u + r = (2 * c) * u + b
  BY <1>5, <1>11
<1>13. q = 2 * c /\ r = b
  <2> HIDE DEF u, b, c, s
  <2>1. b < u
    BY <1>3, <1>6
  <2>2. \A x, y \in Nat : x < y => (x + 1) * u <= y * u /\ (x + 1) * u = x * u + u
    BY <1>3
  <2>3. 2 * c \in Nat /\ q * u \in Nat /\ (2 * c) * u \in Nat
    BY <1>3
  <2>4. ~(q < 2 * c)
    BY <1>3, <1>11, <1>12, <2>2, <2>3
  <2>5. ~(2 * c < q)
    BY <1>3, <1>12, <2>1, <2>2, <2>3
  <2>6. q = 2 * c
    BY <2>3, <2>4, <2>5
  <2> QED BY <1>3, <1>12, <2>3, <2>6
<1>14. q % 2 = 0
  <2> HIDE DEF c
  <2> QED BY <1>3, <1>13
<1>15. 2 * r < u \/ (2 * r = u /\ q % 2 = 0)
  <2> HIDE DEF u, b, c
  <2> QED BY <1>3, <1>6, <1>13, <1>14
<1>16. Rounded(s) = q * u
  BY <1>11, <1>15
<1> QED BY <1>5, <1>13, <1>16

\* One window of the faster average: without a reject the rate fades on; a reject
\* triggers it if it has a digit left, and if not is like the first.
LEMMA Fading ==
  ASSUME NEW e
  PROVE  /\ IsDouble(e) /\ e.num = 0 => Faded(Averaged(e, TRUE, 5), 1)
         /\ \A d \in Nat : Faded(e, d) =>
              /\ Faded(Averaged(e, FALSE, 5), d + 1)
              /\ d >= Precision => Faded(Averaged(e, TRUE, 5), 1)
              /\ d < Precision /\ d > 0 => ~Low(Averaged(e, TRUE, 5))
<1> DEFINE P == Precision
           p == 2^P
<1>1. P \in Nat /\ p \in Nat /\ p > 0
  BY Powers, PrecisionAssumption
<1>2. ASSUME NEW rejected \in BOOLEAN
      PROVE  /\ Averaged(e, rejected, 5).num
                  = Rounded((IF rejected THEN p * e.den ELSE 0) + Rounded(p * e.num))
             /\ Averaged(e, rejected, 5).den = (2 * p) * e.den
  BY WeightsAre DEF Averaged
<1>3. ASSUME IsDouble(e), e.num = 0 PROVE Faded(Averaged(e, TRUE, 5), 1)
  <2>1. PICK x \in Nat : e.den = 2^x
    BY <1>3 DEF IsDouble
  <2>0. P + x \in Nat
    BY <1>1
  <2>2. 2^(P + x) = p * 2^x /\ 2^(P + x) \in Nat
    BY <1>1, <2>0, Powers
  <2>3. 2^((P + x) + 1) = 2 * 2^(P + x)
    BY <2>0, Powers
  <2>4. p * 0 = 0 /\ 2^(P + x) + 0 = 2^(P + x)
    BY <1>1, <2>2
  <2>5. Averaged(e, TRUE, 5).num = 2^(P + x)
    <3>1. Averaged(e, TRUE, 5).num = Rounded(p * 2^x + Rounded(p * 0))
      BY <1>2, <1>3, <2>1
    <3>2. Rounded(p * 0) = 0
      BY <2>4, PowersHeld
    <3>3. Averaged(e, TRUE, 5).num = Rounded(2^(P + x))
      BY <2>2, <2>4, <3>1, <3>2
    <3> QED BY <2>0, <3>3, PowersHeld
  <2>6. Averaged(e, TRUE, 5).den = 2^((P + x) + 1)
    <3>1. Averaged(e, TRUE, 5).den = (2 * p) * 2^x
      BY <1>2, <2>1
    <3>2. (2 * p) * 2^x = 2 * (p * 2^x)
      <4> DEFINE y == 2^x
      <4>1. y \in Nat
        BY Powers
      <4> HIDE DEF p, y
      <4>2. (2 * p) * y = 2 * (p * y)
        BY <1>1, <4>1
      <4> QED BY <4>2 DEF y
    <3> QED BY <2>2, <2>3, <3>1, <3>2
  <2> QED BY <2>0, <2>5, <2>6 DEF Faded
<1>4. ASSUME NEW d \in Nat, Faded(e, d)
      PROVE  /\ Faded(Averaged(e, FALSE, 5), d + 1)
             /\ d >= P => Faded(Averaged(e, TRUE, 5), 1)
             /\ d < P /\ d > 0 => ~Low(Averaged(e, TRUE, 5))
  <2>1. PICK y \in Nat : e.num = 2^y /\ e.den = 2^(y + d)
    BY <1>4 DEF Faded
  <2> DEFINE z == P + y
             b == 2^z
             t == 2^(z + d)
  <2>2. z \in Nat /\ z + d \in Nat /\ y + d \in Nat /\ P + (y + d) = z + d
        /\ z + (d + 1) = (z + d) + 1
    BY <1>1
  <2>3. p * 2^y = b /\ p * 2^(y + d) = t /\ b \in Nat /\ b > 0 /\ t \in Nat
    <3>1. 2^(P + (y + d)) = p * 2^(y + d) /\ 2^(P + y) = p * 2^y
      BY <1>1, <2>2, Powers
    <3> QED BY <2>2, <3>1, Powers
  <2>4. Rounded(p * e.num) = b
    BY <2>1, <2>2, <2>3, PowersHeld
  <2>5. \A rejected \in BOOLEAN : Averaged(e, rejected, 5).den = 2 * t
    <3>1. (2 * p) * 2^(y + d) = 2 * (p * 2^(y + d))
      <4> DEFINE x == 2^(y + d)
      <4>1. x \in Nat
        BY <2>2, Powers
      <4> HIDE DEF p, x
      <4>2. (2 * p) * x = 2 * (p * x)
        BY <1>1, <4>1
      <4> QED BY <4>2 DEF x
    <3> QED BY <1>2, <2>1, <2>3, <3>1
  <2>6. 2^((z + d) + 1) = 2 * t
    BY <2>2, Powers
  <2>7. Averaged(e, FALSE, 5).num = b
    <3>1. Averaged(e, FALSE, 5).num = Rounded(0 + b)
      BY <1>2, <2>4
    <3>2. 0 + b = b
      BY <2>3
    <3> QED BY <2>2, <3>1, <3>2, PowersHeld
  <2>8. Faded(Averaged(e, FALSE, 5), d + 1)
    <3>1. 2^(z + (d + 1)) = 2 * t
      BY <2>2, <2>6
    <3> QED BY <2>2, <2>5, <2>7, <3>1 DEF Faded
  <2>9. Averaged(e, TRUE, 5).num = Rounded(t + b)
    BY <1>2, <2>1, <2>3, <2>4
  <2>10. ASSUME d >= P PROVE Faded(Averaged(e, TRUE, 5), 1)
    <3>1. Rounded(t + b) = t
      BY <2>2, <2>10, Absorbed
    <3> QED BY <2>2, <2>5, <2>6, <2>9, <3>1 DEF Faded
  <2>11. ASSUME d < P, d > 0 PROVE ~Low(Averaged(e, TRUE, 5))
    <3> DEFINE c == 2^d
    <3>1. t = b * c /\ c \in Nat
      BY <2>2, Powers
    <3>2. c + 1 <= p
      <4>1. d + 1 \in Nat /\ d + 1 <= P
        BY <1>1, <2>11
      <4>2. 2^(d + 1) = 2 * c /\ 2^(d + 1) <= p /\ c > 0
        BY <1>1, <4>1, Powers
      <4> HIDE DEF c, p
      <4> QED BY <1>1, <3>1, <4>2
    <3>3. t + b = (c + 1) * b
      <4> HIDE DEF b, c
      <4> QED BY <2>3, <3>1
    <3>4. Holds(t + b)
      BY <2>2, <3>1, <3>2, <3>3 DEF Holds
    <3>5. Averaged(e, TRUE, 5).num = t + b
      BY <2>9, <3>4, Exact
    <3>6. Averaged(e, TRUE, 5).den = 2 * t
      BY <2>5
    <3> HIDE DEF t, b
    <3>7. ~(2 * (t + b) <= 2 * t)
      BY <2>3
    <3> QED BY <3>5, <3>6, <3>7 DEF Low
  <2> QED BY <2>8, <2>10, <2>11
<1> QED BY <1>3, <1>4

\* No reject up to window i is forgotten when the next one comes, nor was any such
\* pair before.
Sparse(R, i) == \A v, w \in R : v < w /\ w <= i => ~(w < v + Precision)

\* r is the last reject up to window i.
Latest(R, i, r) == r \in R /\ r <= i /\ \A v \in R : v <= i => v <= r

\* There is one, if there is any.
LEMMA LatestExists ==
  ASSUME NEW n \in Nat, NEW R \in SUBSET (1 .. n), NEW i \in Nat, NEW v \in R, v <= i
  PROVE  \E r \in R : Latest(R, i, r) /\ v <= r
<1> DEFINE S == {w \in R : w <= i}
<1>1. S \in SUBSET Nat /\ S # {}
  <2>1. \A w \in R : w \in Nat
    OBVIOUS
  <2> QED BY <2>1
<1>2. IsFiniteSet(S)
  <2>1. IsFiniteSet(1 .. n)
    BY FS_Interval
  <2>2. S \in SUBSET (1 .. n)
    OBVIOUS
  <2> QED BY <2>1, <2>2, FS_Subset
<1>3. PICK r \in S : \A w \in S : w <= r
  <2> HIDE DEF S
  <2> QED BY <1>1, <1>2, Greatest
<1> QED BY <1>3 DEF Latest

\* As long as the rejects are so sparse, only the last of them counts.
LEMMA OnlyTheLatest ==
  ASSUME NEW n \in Nat, NEW R \in SUBSET (1 .. n), NEW e, Weighted(e, R, 5, n)
  PROVE  \A i \in 0 .. n : Sparse(R, i) =>
           /\ (\A v \in R : ~(v <= i)) => e[i].num = 0
           /\ \A r \in R : Latest(R, i, r) => Faded(e[i], (i + 1) - r)
<1> DEFINE None(i) == \A v \in R : ~(v <= i)
           S == {i \in 0 .. n : Sparse(R, i) =>
                   /\ None(i) => e[i].num = 0
                   /\ \A r \in R : Latest(R, i, r) => Faded(e[i], (i + 1) - r)}
<1>1. 0 \in S
  <2>1. \A r \in R : ~(r <= 0)
    OBVIOUS
  <2>2. e[0].num = 0 /\ 0 \in 0 .. n
    BY DEF Weighted
  <2> QED BY <2>1, <2>2 DEF Latest
<1>2. ASSUME NEW i \in 1 .. n, i - 1 \in S PROVE i \in S
  <2> SUFFICES ASSUME Sparse(R, i)
               PROVE  /\ None(i) => e[i].num = 0
                      /\ \A r \in R : Latest(R, i, r) => Faded(e[i], (i + 1) - r)
    OBVIOUS
  <2>0. i - 1 \in 0 .. n /\ i - 1 \in Nat /\ ((i - 1) + 1) = i /\ (i + 1) - i = 1
    OBVIOUS
  <2>1. Sparse(R, i - 1)
    BY DEF Sparse
  <2>2. /\ None(i - 1) => e[i - 1].num = 0
        /\ \A r \in R : Latest(R, i - 1, r) => Faded(e[i - 1], i - r)
    BY <1>2, <2>0, <2>1
  <2>3. e[i] = Averaged(e[i - 1], i \in R, 5) /\ IsDouble(e[i - 1])
    BY <2>0, RatesAre DEF Weighted
  <2>4. None(i) => e[i].num = 0
    <3> SUFFICES ASSUME None(i) PROVE e[i].num = 0
      OBVIOUS
    <3>1. (i \in R) = FALSE /\ None(i - 1)
      OBVIOUS
    <3> QED BY <2>2, <2>3, <3>1, AveragedIs
  <2>5. ASSUME NEW r \in R, Latest(R, i, r) PROVE Faded(e[i], (i + 1) - r)
    <3>1. CASE i \notin R
      <4>1. Latest(R, i - 1, r)
        BY <2>5, <3>1 DEF Latest
      <4>2. Faded(e[i - 1], i - r) /\ i - r \in Nat /\ (i - r) + 1 = (i + 1) - r
        BY <2>2, <4>1 DEF Latest
      <4>3. (i \in R) = FALSE
        BY <3>1
      <4>4. Faded(Averaged(e[i - 1], FALSE, 5), (i - r) + 1)
        BY <4>2, Fading
      <4> QED BY <2>3, <4>2, <4>3, <4>4
    <3>2. CASE i \in R
      <4>1. r = i /\ (i \in R) = TRUE
        BY <2>5, <3>2 DEF Latest
      <4>2. CASE None(i - 1)
        <5>1. e[i - 1].num = 0
          BY <2>2, <4>2
        <5>2. Faded(Averaged(e[i - 1], TRUE, 5), 1)
          BY <2>3, <5>1, Fading
        <5> QED BY <2>0, <2>3, <4>1, <5>2
      <4>3. CASE ~None(i - 1)
        <5>1. PICK v \in R : v <= i - 1
          BY <4>3
        <5>2. PICK q \in R : Latest(R, i - 1, q)
          BY <2>0, <5>1, LatestExists
        <5>3. q < i /\ i - q \in Nat
          BY <5>2 DEF Latest
        <5>4. i - q >= Precision
          <6>1. ~(i < q + Precision)
            BY <3>2, <5>3 DEF Sparse
          <6> QED BY <5>3, <6>1, PrecisionAssumption
        <5>5. Faded(e[i - 1], i - q)
          BY <2>2, <5>2
        <5>6. Faded(Averaged(e[i - 1], TRUE, 5), 1)
          BY <5>3, <5>4, <5>5, Fading
        <5> QED BY <2>0, <2>3, <4>1, <5>6
      <4> QED BY <4>2, <4>3
    <3> QED BY <3>1, <3>2
  <2> QED BY <2>4, <2>5
<1>3. \A i \in 0 .. n : i \in S
  <2> HIDE DEF S
  <2> QED BY <1>1, <1>2, Upwards
<1> QED BY <1>3

\* So it triggers no window before two of them are close, and the first in which
\* they are.
LEMMA ClosePair ==
  ASSUME NEW n \in Nat, NEW R \in SUBSET (1 .. n), NEW e, Weighted(e, R, 5, n)
  PROVE  /\ \A i \in 1 .. n : Triggers(e[i]) => \E w \in Close(R, Precision) : w <= i
         /\ \A w \in Close(R, Precision) :
              (\A x \in Close(R, Precision) : w <= x) => Triggers(e[w])
<1>0. \A i \in 0 .. n : IsDouble(e[i])
  BY RatesAre
<1>1. ASSUME NEW i \in 1 .. n, Triggers(e[i]) PROVE \E w \in Close(R, Precision) : w <= i
  <2> SUFFICES ASSUME Sparse(R, i) PROVE FALSE
    BY DEF Sparse, Close
  <2>1. i \in 0 .. n /\ i \in Nat
    OBVIOUS
  <2>2. ~Low(e[i])
    BY <1>0, <1>1, <2>1, TriggersIs
  <2>3. CASE \A v \in R : ~(v <= i)
    <3>1. e[i].num = 0
      BY <2>1, <2>3, OnlyTheLatest
    <3>2. e[i].den \in Nat
      BY <1>0, <2>1, Powers DEF IsDouble
    <3> QED BY <2>2, <3>1, <3>2 DEF Low
  <2>4. CASE \E v \in R : v <= i
    <3>1. PICK r \in R : Latest(R, i, r)
      BY <2>1, <2>4, LatestExists
    <3>2. Faded(e[i], (i + 1) - r)
      BY <2>1, <3>1, OnlyTheLatest
    <3>3. (i + 1) - r \in Nat /\ (i + 1) - r > 0
      BY <3>1 DEF Latest
    <3> QED BY <2>2, <3>2, <3>3, FadedIsLow
  <2> QED BY <2>3, <2>4
<1>2. ASSUME NEW w \in Close(R, Precision), \A x \in Close(R, Precision) : w <= x
      PROVE  Triggers(e[w])
  <2>1. PICK v \in R : v < w /\ w < v + Precision
    BY DEF Close
  <2>2. w \in R /\ w \in 1 .. n /\ v \in 1 .. n
    BY DEF Close
  <2>3. w - 1 \in 0 .. n /\ w - 1 \in Nat /\ v <= w - 1 /\ w \in 0 .. n /\ (w - 1) + 1 = w
    BY <2>1, <2>2
  <2>4. Sparse(R, w - 1)
    <3> SUFFICES ASSUME NEW a \in R, NEW b \in R, a < b, b <= w - 1, b < a + Precision
                 PROVE  FALSE
      BY DEF Sparse
    <3>1. b \in Close(R, Precision)
      BY DEF Close
    <3>2. w <= b /\ b \in Nat
      BY <1>2, <3>1
    <3> QED BY <2>2, <3>2
  <2>5. PICK r \in R : Latest(R, w - 1, r) /\ v <= r
    BY <2>3, LatestExists
  <2>6. w - r \in Nat /\ w - r > 0 /\ w - r < Precision
    BY <2>1, <2>2, <2>5, PrecisionAssumption DEF Latest
  <2>7. Faded(e[w - 1], w - r)
    BY <2>3, <2>4, <2>5, OnlyTheLatest
  <2>8. e[w] = Averaged(e[w - 1], TRUE, 5)
    <3>1. (w \in R) = TRUE
      BY <2>2
    <3> QED BY <2>2, <3>1 DEF Weighted
  <2>9. ~Low(e[w])
    BY <2>6, <2>7, <2>8, Fading
  <2> QED BY <1>0, <2>3, <2>9, TriggersIs
<1> QED BY <1>1, <1>2

-----------------------------------------------------------------------------
(* Policies. *)

\* The five policies of the grid.
LEMMA GridIs ==
  /\ DOMAIN Grid = 1 .. 5
  /\ Grid[1] = Raw /\ Grid[2] = KofN(2, 3) /\ Grid[3] = KofN(3, 5)
  /\ Grid[4] = Ewma(3) /\ Grid[5] = Ewma(5)
BY DEF Grid

\* An average decides in the windows in which it is triggered.
LEMMA AverageIs ==
  ASSUME NEW alpha \in {3, 5}, NEW n \in Nat, NEW R \in SUBSET (1 .. n)
  PROVE  \E e : /\ Weighted(e, R, alpha, n)
                /\ Decisions(R, n, Ewma(alpha)) = {i \in 1 .. n : Triggers(e[i])}
<1>1. Weighted(Rate(R, alpha, n), R, alpha, n)
  BY RateIs
<1>2. Decisions(R, n, Ewma(alpha)) = {i \in 1 .. n : Triggers(Rate(R, alpha, n)[i])}
  BY DEF Decisions, Ewma
<1> QED BY <1>1, <1>2

\* A count decides in the windows that have enough rejects among the last.
LEMMA CountIs ==
  ASSUME NEW k, NEW m, NEW n \in Nat, NEW R
  PROVE  Decisions(R, n, KofN(k, m)) = {i \in 1 .. n : Cardinality(Recent(R, i, m)) >= k}
BY DEF Decisions, KofN

\* The rejects of a stream.
LEMMA RejectsAre ==
  ASSUME NEW n \in Nat, NEW R \in SUBSET (1 .. n)
  PROVE  /\ IsFiniteSet(R) /\ Cardinality(R) \in Nat
         /\ \A S \in SUBSET R :
              IsFiniteSet(S) /\ Cardinality(S) \in Nat /\ Cardinality(S) <= Cardinality(R)
<1>1. IsFiniteSet(1 .. n)
  BY FS_Interval
<1>2. IsFiniteSet(R)
  BY <1>1, FS_Subset
<1> QED BY <1>2, FS_Subset, FS_CardinalityType
\* Two members make two, and two have another for each.
LEMMA Two ==
  ASSUME NEW S, IsFiniteSet(S)
  PROVE  /\ \A v, w \in S : v # w => Cardinality(S) >= 2
         /\ \A v \in S : Cardinality(S) >= 2 => \E w \in S : w # v
<1>1. ASSUME NEW v \in S, NEW w \in S, v # w PROVE Cardinality(S) >= 2
  <2>1. IsFiniteSet(S \ {v}) /\ Cardinality(S \ {v}) = Cardinality(S) - 1
    BY FS_RemoveElement
  <2>2. Cardinality(S \ {v}) \in Nat /\ Cardinality(S \ {v}) # 0
    BY <1>1, <2>1, FS_CardinalityType, FS_EmptySet
  <2>3. Cardinality(S) \in Nat
    BY FS_CardinalityType
  <2> QED BY <2>1, <2>2, <2>3
<1>2. ASSUME NEW v \in S, Cardinality(S) >= 2 PROVE \E w \in S : w # v
  <2>1. Cardinality(S \ {v}) = Cardinality(S) - 1 /\ Cardinality(S) \in Nat
    BY FS_RemoveElement, FS_CardinalityType
  <2>2. S \ {v} # {}
    BY <1>2, <2>1, FS_EmptySet
  <2> QED BY <2>2
<1> QED BY <1>1, <1>2

\* A policy starts to decide at a reject.
Answering(at, R, n) ==
  at \in SUBSET (1 .. n) /\ \A i \in at : i \in R \/ i - 1 \in at

\* A count of at least two starts to decide at a reject, and never after one alone.
LEMMA CountAnswers ==
  ASSUME NEW k \in Nat, k >= 2, NEW m \in Nat, NEW n \in Nat, NEW R \in SUBSET (1 .. n)
  PROVE  /\ Answering(Decisions(R, n, KofN(k, m)), R, n)
         /\ Cardinality(R) < 2 => Decisions(R, n, KofN(k, m)) = {}
<1> DEFINE at == {i \in 1 .. n : Cardinality(Recent(R, i, m)) >= k}
<1>0. /\ IsFiniteSet(R) /\ Cardinality(R) \in Nat
      /\ \A S \in SUBSET R :
           IsFiniteSet(S) /\ Cardinality(S) \in Nat /\ Cardinality(S) <= Cardinality(R)
  BY RejectsAre
<1>1. \A i \in 1 .. n : Recent(R, i, m) \in SUBSET R
  BY DEF Recent
<1>2. ASSUME NEW i \in at, i \notin R PROVE i - 1 \in at
  <2>1. Recent(R, i, m) \in SUBSET Recent(R, i - 1, m)
    BY <1>2 DEF Recent
  <2>2. Cardinality(Recent(R, i, m)) >= k /\ Cardinality(Recent(R, i, m)) \in Nat
    BY <1>0, <1>1
  <2>3. IsFiniteSet(Recent(R, i - 1, m))
    BY <1>0 DEF Recent
  <2>4. /\ Cardinality(Recent(R, i - 1, m)) \in Nat
        /\ Cardinality(Recent(R, i, m)) <= Cardinality(Recent(R, i - 1, m))
    BY <2>1, <2>3, FS_Subset, FS_CardinalityType
  <2>5. Cardinality(Recent(R, i - 1, m)) >= k
    BY <2>2, <2>4
  <2>6. Recent(R, i, m) # {}
    BY <2>2, FS_EmptySet
  <2>7. i - 1 \in 1 .. n
    BY <1>2, <2>6 DEF Recent
  <2> QED BY <2>5, <2>7
<1>3. ASSUME NEW i \in at, Cardinality(R) < 2 PROVE FALSE
  BY <1>0, <1>1, <1>3
<1>4. Decisions(R, n, KofN(k, m)) = at
  BY CountIs
<1> HIDE DEF at
<1>5. at \in SUBSET (1 .. n)
  BY DEF at
<1> QED BY <1>2, <1>3, <1>4, <1>5 DEF Answering

\* So does an average.
LEMMA AverageAnswers ==
  ASSUME NEW alpha \in {3, 5}, NEW n \in Nat, NEW R \in SUBSET (1 .. n)
  PROVE  /\ Answering(Decisions(R, n, Ewma(alpha)), R, n)
         /\ Cardinality(R) < 2 => Decisions(R, n, Ewma(alpha)) = {}
<1>1. PICK e : /\ Weighted(e, R, alpha, n)
               /\ Decisions(R, n, Ewma(alpha)) = {i \in 1 .. n : Triggers(e[i])}
  BY AverageIs
<1> DEFINE at == {i \in 1 .. n : Triggers(e[i])}
<1>2. \A i \in at : i \in R \/ i - 1 \in at
  BY <1>1, OnlyRejectsTrigger
<1>3. ASSUME NEW i \in at, Cardinality(R) < 2 PROVE FALSE
  <2>1. IsFiniteSet(R) /\ Cardinality(R) \in Nat
    BY RejectsAre
  <2>2. \A v, w \in R : v = w
    BY <1>3, <2>1, Two
  <2>3. ~Triggers(e[i])
    BY <1>1, <2>2, OneIsNotEnough
  <2> QED BY <2>3
<1> QED BY <1>1, <1>2, <1>3 DEF Answering

\* Every policy first answers at a reject, and none but raw answers one alone.
LEMMA Answers ==
  ASSUME NEW n \in Nat, NEW R \in SUBSET (1 .. n), NEW p \in DOMAIN Grid
  PROVE  /\ Answering(Decisions(R, n, Grid[p]), R, n)
         /\ Grid[p] # Raw /\ Cardinality(R) < 2 => Decisions(R, n, Grid[p]) = {}
<1>1. CASE p = 1
  <2>1. Decisions(R, n, Grid[p]) = R
    BY <1>1, GridIs DEF Decisions, Raw
  <2>2. Grid[p] = Raw
    BY <1>1, GridIs
  <2> QED BY <2>1, <2>2 DEF Answering
<1>2. CASE p = 2
  BY <1>2, GridIs, CountAnswers
<1>3. CASE p = 3
  BY <1>3, GridIs, CountAnswers
<1>4. CASE p = 4
  BY <1>4, GridIs, AverageAnswers
<1>5. CASE p = 5
  BY <1>5, GridIs, AverageAnswers
<1> QED BY <1>1, <1>2, <1>3, <1>4, <1>5, GridIs

\* The first decision is at a reject.
LEMMA FirstAnswer ==
  ASSUME NEW at, NEW R, NEW n \in Nat, Answering(at, R, n), at # {}
  PROVE  /\ Min(at) \in at /\ Min(at) \in R /\ Min(at) \in 1 .. n
         /\ \A i \in at : Min(at) <= i
<1>1. at \in SUBSET Nat
  BY DEF Answering
<1>2. Min(at) \in at /\ \A i \in at : Min(at) <= i
  BY <1>1, MinIs
<1>3. Min(at) - 1 \notin at
  <2>1. Min(at) \in Nat
    BY <1>1, <1>2
  <2>2. ~(Min(at) <= Min(at) - 1)
    BY <2>1
  <2> QED BY <1>2, <2>2
<1> QED BY <1>2, <1>3 DEF Answering

\* A policy that answers every first close reject, and only after one.
LEMMA FirstClose ==
  ASSUME NEW n \in Nat, NEW R \in SUBSET (1 .. n), NEW at \in SUBSET (1 .. n), NEW m,
         \A i \in at : \E w \in Close(R, m) : w <= i,
         \A w \in Close(R, m) : (\A x \in Close(R, m) : w <= x) => w \in at
  PROVE  IF Close(R, m) = {} THEN at = {} ELSE at # {} /\ Min(at) = Min(Close(R, m))
<1> DEFINE close == Close(R, m)
<1>1. CASE close = {}
  BY <1>1
<1>2. CASE close # {}
  <2>1. \A w \in close : w \in R /\ w \in Nat
    <3>1. \A w \in R : w \in Nat
      OBVIOUS
    <3> QED BY <3>1 DEF Close
  <2>2. Min(close) \in close /\ \A x \in close : Min(close) <= x
    <3>1. close \in SUBSET Nat
      BY <2>1
    <3> HIDE DEF close
    <3> QED BY <1>2, <3>1, MinIs
  <2>3. Min(close) \in at
    BY <2>2
  <2>4. Min(at) \in at /\ \A i \in at : Min(at) <= i
    <3>1. at \in SUBSET Nat
      OBVIOUS
    <3> QED BY <2>3, <3>1, MinIs
  <2>5. PICK w \in close : w <= Min(at)
    BY <2>4
  <2>6. Min(close) <= w /\ Min(at) <= Min(close) /\ w <= Min(at)
    BY <2>2, <2>3, <2>4, <2>5
  <2>7. Min(close) \in Nat /\ Min(at) \in Nat /\ w \in Nat
    <3>1. Min(at) \in 1 .. n
      BY <2>4
    <3>2. Min(close) \in Nat /\ w \in Nat
      BY <2>1, <2>2
    <3> QED BY <3>1, <3>2
  <2>8. Min(at) = Min(close)
    <3> HIDE DEF close
    <3> QED BY <2>6, <2>7
  <2> QED BY <1>2, <2>3, <2>8
<1> QED BY <1>1, <1>2

\* Two of three decides first where a reject has another among the two before it.
LEMMA CloseRejects ==
  ASSUME NEW n \in Nat, NEW R \in SUBSET (1 .. n)
  PROVE  LET at == Decisions(R, n, KofN(2, 3))
         IN IF Close(R, 3) = {} THEN at = {} ELSE at # {} /\ Min(at) = Min(Close(R, 3))
<1> DEFINE at == Decisions(R, n, KofN(2, 3))
<1>0. at = {i \in 1 .. n : Cardinality(Recent(R, i, 3)) >= 2}
  BY CountIs
<1>1. Answering(at, R, n)
  BY CountAnswers
<1>2. \A i \in 1 .. n : IsFiniteSet(Recent(R, i, 3))
  BY RejectsAre DEF Recent
<1>3. ASSUME NEW w \in Close(R, 3) PROVE w \in at
  <2>1. PICK v \in R : v < w /\ w < v + 3
    BY DEF Close
  <2>2. w \in R /\ w \in 1 .. n
    BY DEF Close
  <2>3. v \in Recent(R, w, 3) /\ w \in Recent(R, w, 3) /\ v # w
    BY <2>1, <2>2 DEF Recent
  <2>4. Cardinality(Recent(R, w, 3)) >= 2
    BY <1>2, <2>2, <2>3, Two
  <2> QED BY <1>0, <2>2, <2>4
<1>4. ASSUME NEW i \in at PROVE \E w \in Close(R, 3) : w <= i
  <2>1. Min(at) \in at /\ Min(at) \in R /\ Min(at) \in 1 .. n /\ Min(at) <= i
    <3> HIDE DEF at
    <3> QED BY <1>1, <1>4, FirstAnswer
  <2>2. Min(at) \in Recent(R, Min(at), 3)
    BY <2>1 DEF Recent
  <2>3. PICK v \in Recent(R, Min(at), 3) : v # Min(at)
    BY <1>0, <1>2, <2>1, <2>2, Two
  <2>4. v \in R /\ v < Min(at) /\ Min(at) < v + 3
    BY <2>1, <2>3 DEF Recent
  <2> QED BY <2>1, <2>4 DEF Close
<1>5. at \in SUBSET (1 .. n)
  BY <1>0
<1> HIDE DEF at
<1>6. IF Close(R, 3) = {} THEN at = {} ELSE at # {} /\ Min(at) = Min(Close(R, 3))
  BY <1>3, <1>4, <1>5, FirstClose
<1> QED BY <1>6 DEF at

\* The faster average where it has another before it that is not forgotten.
LEMMA CloseAverage ==
  ASSUME NEW n \in Nat, NEW R \in SUBSET (1 .. n)
  PROVE  LET at == Decisions(R, n, Ewma(5))
         IN IF Close(R, Precision) = {} THEN at = {}
            ELSE at # {} /\ Min(at) = Min(Close(R, Precision))
<1>1. PICK e : /\ Weighted(e, R, 5, n)
               /\ Decisions(R, n, Ewma(5)) = {i \in 1 .. n : Triggers(e[i])}
  BY AverageIs
<1> DEFINE at == Decisions(R, n, Ewma(5))
<1>2. ASSUME NEW w \in Close(R, Precision), \A x \in Close(R, Precision) : w <= x
      PROVE  w \in at
  <2>1. w \in 1 .. n
    BY DEF Close
  <2>2. Triggers(e[w])
    BY <1>1, <1>2, ClosePair
  <2> QED BY <1>1, <2>1, <2>2
<1>3. ASSUME NEW i \in at PROVE \E w \in Close(R, Precision) : w <= i
  BY <1>1, ClosePair
<1>4. at \in SUBSET (1 .. n)
  BY <1>1
<1> HIDE DEF at
<1>5. IF Close(R, Precision) = {} THEN at = {}
      ELSE at # {} /\ Min(at) = Min(Close(R, Precision))
  BY <1>2, <1>3, <1>4, FirstClose
<1> QED BY <1>5 DEF at
-----------------------------------------------------------------------------
(* What is frozen. *)

\* A threshold is a number of some result that is at hand from then on.
FrozenInv ==
  /\ frozen.threshold \in Nat \cup {NaN}
  /\ frozen.threshold # NaN => result \in Validations \cup Results

\* Every step keeps that.
LEMMA FrozenInvariant == Spec => []FrozenInv
<1>1. Init => FrozenInv
  BY DEF Init, FrozenInv, NotFrozen
<1>2. FrozenInv /\ [Next]_vars => FrozenInv'
  <2> SUFFICES ASSUME FrozenInv, [Next]_vars PROVE FrozenInv'
    OBVIOUS
  <2> USE DEF FrozenInv
  <2>0. \A r : Threshold(r) \subseteq Nat \cup {NaN}
    BY AnalysisAssumption DEF Threshold
  <2>1. CASE Freeze
    BY <2>0, <2>1 DEF Freeze
  <2>2. CASE Measure
    BY <2>2 DEF Measure
  <2>3. CASE FallBack
    BY <2>0, <2>3 DEF FallBack, NotFrozen
  <2>4. CASE Correct
    BY <2>4 DEF Correct
  <2>5. CASE UNCHANGED vars
    BY <2>5 DEF vars
  <2> QED BY <2>1, <2>2, <2>3, <2>4, <2>5 DEF Next
<1> QED BY <1>1, <1>2, PTL DEF Spec

\* The rejects of a stream are among its windows.
LEMMA StreamRejects ==
  ASSUME NEW r \in Validations \cup Results, NEW s \in Streams(r), NEW threshold
  PROVE  /\ Len(s) \in Nat /\ s \in Seq(Nat)
         /\ Rejects(s, threshold) \in SUBSET (1 .. Len(s))
<1>1. r.genuine \in Seq(Seq(Nat)) /\ r.attack \in Seq(Seq(Nat))
  BY AnalysisAssumption
<1>2. \A i \in DOMAIN r.genuine : r.genuine[i] \in Seq(Nat)
  BY <1>1
<1>3. \A i \in DOMAIN r.attack : r.attack[i] \in Seq(Nat)
  BY <1>1
<1>4. s \in Seq(Nat)
  BY <1>2, <1>3 DEF Streams, Range
<1>5. Len(s) \in Nat /\ DOMAIN s = 1 .. Len(s)
  BY <1>4
<1> QED BY <1>4, <1>5 DEF Rejects

\* No policy but raw answers a single rejected window; each first answers at a
\* rejected window; two of three at the first with another close before it, and the
\* faster average at the first with another before it that the doubles still
\* remember; for streams of every length and doubles of every precision.
THEOREM DebouncingIsRight == Spec => []PoliciesDebounce
<1>1. FrozenInv => PoliciesDebounce
  <2> SUFFICES ASSUME FrozenInv, frozen.threshold # NaN, NEW s \in Streams(result),
                      NEW p \in DOMAIN Grid
               PROVE  LET rejects == Rejects(s, frozen.threshold)
                          at == Decisions(rejects, Len(s), Grid[p])
                      IN /\ at # {} => Min(at) \in rejects
                         /\ Grid[p] # Raw /\ Cardinality(rejects) < 2 => at = {}
                         /\ Grid[p] \in {KofN(2, 3), Ewma(5)} =>
                              LET close == Close(rejects, IF Grid[p] = Ewma(5) THEN Precision ELSE 3)
                              IN IF close = {} THEN at = {} ELSE at # {} /\ Min(at) = Min(close)
    BY DEF PoliciesDebounce
  <2> DEFINE rejects == Rejects(s, frozen.threshold)
             at == Decisions(rejects, Len(s), Grid[p])
             close == Close(rejects, IF Grid[p] = Ewma(5) THEN Precision ELSE 3)
  <2>1. Len(s) \in Nat /\ rejects \in SUBSET (1 .. Len(s))
    BY StreamRejects DEF FrozenInv
  <2> HIDE DEF rejects
  <2>2. Answering(at, rejects, Len(s))
    BY <2>1, Answers
  <2>3. Grid[p] # Raw /\ Cardinality(rejects) < 2 => at = {}
    BY <2>1, Answers
  <2>4. at # {} => Min(at) \in rejects
    <3> HIDE DEF at
    <3> QED BY <2>1, <2>2, FirstAnswer
  <2>5. KofN(2, 3) # Ewma(5)
    <3>1. KofN(2, 3).kind = "k_of_n" /\ Ewma(5).kind = "ewma"
      BY DEF KofN, Ewma
    <3> QED BY <3>1
  <2>6. Grid[p] = Ewma(5) =>
          IF close = {} THEN at = {} ELSE at # {} /\ Min(at) = Min(close)
    BY <2>1, CloseAverage
  <2>7. Grid[p] = KofN(2, 3) =>
          IF close = {} THEN at = {} ELSE at # {} /\ Min(at) = Min(close)
    <3> SUFFICES ASSUME Grid[p] = KofN(2, 3)
                 PROVE  IF close = {} THEN at = {} ELSE at # {} /\ Min(at) = Min(close)
      OBVIOUS
    <3>1. close = Close(rejects, 3)
      BY <2>5
    <3>2. at = Decisions(rejects, Len(s), KofN(2, 3))
      OBVIOUS
    <3> HIDE DEF at, close
    <3> QED BY <2>1, <3>1, <3>2, CloseRejects
  <2> HIDE DEF at, close
  <2>8. /\ at # {} => Min(at) \in rejects
        /\ Grid[p] # Raw /\ Cardinality(rejects) < 2 => at = {}
        /\ Grid[p] \in {KofN(2, 3), Ewma(5)} =>
             IF close = {} THEN at = {} ELSE at # {} /\ Min(at) = Min(close)
    BY <2>3, <2>4, <2>6, <2>7, Zenon
  <2> QED BY <2>8 DEF at, rejects, close
<1> QED BY <1>1, FrozenInvariant, PTL
-----------------------------------------------------------------------------
(* Sums. *)

\* A function gives the sums over the subsets of D, one member at a time.
Sums(it, f, D) ==
  it = [s \in SUBSET D |->
          IF s = {} THEN 0
          ELSE f[CHOOSE x \in s : TRUE] + it[s \ {CHOOSE x \in s : TRUE}]]

\* Subsets of at most k members.
UpTo(D, k) == {s \in SUBSET D : Cardinality(s) <= k}

\* They make the subsets of one more.
LEMMA UpToGrows ==
  ASSUME NEW D, IsFiniteSet(D), NEW k \in Nat
  PROVE  /\ UpTo(D, 0) = {{}} /\ UpTo(D, Cardinality(D)) = SUBSET D
         /\ {} \in UpTo(D, k)
         /\ k > 0 => \A s \in UpTo(D, k) : s # {} =>
              /\ (CHOOSE x \in s : TRUE) \in s
              /\ s \ {CHOOSE x \in s : TRUE} \in UpTo(D, k - 1)
<1>0. \A s \in SUBSET D : /\ IsFiniteSet(s) /\ Cardinality(s) \in Nat
                          /\ Cardinality(s) <= Cardinality(D)
  BY FS_Subset, FS_CardinalityType
<1>1. \A s \in SUBSET D : Cardinality(s) = 0 <=> s = {}
  BY <1>0, FS_EmptySet
<1>2. ASSUME k > 0, NEW s \in UpTo(D, k), s # {}
      PROVE  /\ (CHOOSE x \in s : TRUE) \in s
             /\ s \ {CHOOSE x \in s : TRUE} \in UpTo(D, k - 1)
  <2> DEFINE y == CHOOSE x \in s : TRUE
  <2>1. y \in s
    BY <1>2
  <2> HIDE DEF y
  <2>2. s \in SUBSET D /\ IsFiniteSet(s) /\ Cardinality(s) \in Nat /\ Cardinality(s) <= k
    BY <1>0 DEF UpTo
  <2>3. Cardinality(s \ {y}) = Cardinality(s) - 1
    BY <2>1, <2>2, FS_RemoveElement
  <2>4. s \ {y} \in UpTo(D, k - 1)
    BY <2>2, <2>3 DEF UpTo
  <2> QED BY <2>1, <2>4 DEF y
<1>3. UpTo(D, 0) = {{}}
  BY <1>0, <1>1 DEF UpTo
<1>4. UpTo(D, Cardinality(D)) = SUBSET D
  BY <1>0 DEF UpTo
<1>5. {} \in UpTo(D, k)
  BY <1>1 DEF UpTo
<1> QED BY <1>2, <1>3, <1>4, <1>5

\* There is such a function.
LEMMA SumsExist ==
  ASSUME NEW D, IsFiniteSet(D), NEW f
  PROVE  \E it : Sums(it, f, D)
<1> DEFINE Chosen(s) == CHOOSE x \in s : TRUE
           Step(s, x) == IF s = {} THEN 0 ELSE f[Chosen(s)] + x
           Is(it, k) == it = [s \in UpTo(D, k) |-> Step(s, it[s \ {Chosen(s)}])]
           S == {k \in Nat : \E it : Is(it, k)}
<1>0. Cardinality(D) \in Nat
  BY FS_CardinalityType
<1> HIDE DEF Chosen
<1>1. 0 \in S
  <2>1. UpTo(D, 0) = {{}}
    BY UpToGrows
  <2>2. Is([s \in UpTo(D, 0) |-> 0], 0)
    BY <2>1
  <2> QED BY <2>2
<1>2. ASSUME NEW k \in 1 .. Cardinality(D), k - 1 \in S PROVE k \in S
  <2>1. PICK g : Is(g, k - 1)
    BY <1>2
  <2> DEFINE h == [s \in UpTo(D, k) |-> Step(s, g[s \ {Chosen(s)}])]
  <2>2. ASSUME NEW s \in UpTo(D, k), s # {}
        PROVE  h[s \ {Chosen(s)}] = g[s \ {Chosen(s)}]
    <3> DEFINE r == s \ {Chosen(s)}
    <3>1. r \in UpTo(D, k - 1)
      BY <1>0, <2>2, UpToGrows DEF Chosen
    <3>2. r \in UpTo(D, k)
      BY <1>0, <3>1, FS_Subset, FS_CardinalityType DEF UpTo
    <3> HIDE DEF r
    <3>3. h[r] = Step(r, g[r \ {Chosen(r)}]) /\ g[r] = Step(r, g[r \ {Chosen(r)}])
      BY <2>1, <3>1, <3>2
    <3> QED BY <3>3 DEF r
  <2>3. \A s \in UpTo(D, k) : Step(s, h[s \ {Chosen(s)}]) = Step(s, g[s \ {Chosen(s)}])
    <3> HIDE DEF h
    <3> QED BY <2>2
  <2>4. Is(h, k)
    BY <2>3
  <2>5. k \in Nat
    BY <1>0
  <2> HIDE DEF Is, h
  <2> QED BY <2>4, <2>5
<1>3. Cardinality(D) \in S
  <2>1. \A i \in 0 .. Cardinality(D) : i \in S
    <3> HIDE DEF S
    <3> QED BY <1>0, <1>1, <1>2, Upwards
  <2>2. Cardinality(D) \in 0 .. Cardinality(D)
    BY <1>0
  <2> HIDE DEF S
  <2> QED BY <2>1, <2>2
<1>4. UpTo(D, Cardinality(D)) = SUBSET D
  BY UpToGrows
<1> QED BY <1>3, <1>4 DEF Sums, Chosen

\* A sum over a function is made so.
LEMMA AddIs ==
  ASSUME NEW D, IsFiniteSet(D), NEW f, DOMAIN f = D
  PROVE  \E it : Sums(it, f, D) /\ Add(f) = it[D]
<1> DEFINE Sum0 == CHOOSE it : Sums(it, f, D)
<1>1. Sums(Sum0, f, D)
  BY SumsExist
<1>2. Add(f) = Sum0[D]
  BY DEF Add, FoldSeq, FoldFunction, FoldFunctionOnSet, MapThenFoldSet, Sums
<1> QED BY <1>1, <1>2

\* Sums of numbers grow with them.
LEMMA AddGrows ==
  ASSUME NEW D, IsFiniteSet(D), NEW f \in [D -> Nat], NEW g \in [D -> Nat],
         \A i \in D : f[i] <= g[i]
  PROVE  Add(f) \in Nat /\ Add(g) \in Nat /\ Add(f) <= Add(g)
<1>1. PICK a : Sums(a, f, D) /\ Add(f) = a[D]
  BY AddIs
<1>2. PICK b : Sums(b, g, D) /\ Add(g) = b[D]
  BY AddIs
<1> DEFINE Fits(s) == a[s] \in Nat /\ b[s] \in Nat /\ a[s] <= b[s]
           S == {k \in Nat : \A s \in UpTo(D, k) : Fits(s)}
<1>0. Cardinality(D) \in Nat
  BY FS_CardinalityType
<1>3. Fits({})
  BY <1>1, <1>2 DEF Sums
<1>4. 0 \in S
  BY <1>3, UpToGrows
<1>5. ASSUME NEW k \in 1 .. Cardinality(D), k - 1 \in S PROVE k \in S
  <2>1. ASSUME NEW s \in UpTo(D, k), s # {} PROVE Fits(s)
    <3> DEFINE y == CHOOSE x \in s : TRUE  r == s \ {y}
    <3>1. y \in s /\ r \in UpTo(D, k - 1)
      BY <1>0, <2>1, UpToGrows
    <3>2. Fits(r)
      BY <1>5, <3>1
    <3>3. s \in SUBSET D
      BY DEF UpTo
    <3>4. a[s] = f[y] + a[r] /\ b[s] = g[y] + b[r]
      BY <1>1, <1>2, <2>1, <3>3 DEF Sums
    <3>5. f[y] \in Nat /\ g[y] \in Nat /\ f[y] <= g[y]
      BY <3>1, <3>3
    <3> HIDE DEF y, r
    <3> QED BY <3>2, <3>4, <3>5
  <2>2. \A s \in UpTo(D, k) : Fits(s)
    BY <1>3, <2>1
  <2> QED BY <1>0, <2>2
<1>6. Cardinality(D) \in S
  <2>1. \A i \in 0 .. Cardinality(D) : i \in S
    <3> HIDE DEF S
    <3> QED BY <1>0, <1>4, <1>5, Upwards
  <2>2. Cardinality(D) \in 0 .. Cardinality(D)
    BY <1>0
  <2> HIDE DEF S
  <2> QED BY <2>1, <2>2
<1>7. UpTo(D, Cardinality(D)) = SUBSET D
  BY UpToGrows
<1>8. Fits(D)
  BY <1>6, <1>7
<1> QED BY <1>1, <1>2, <1>8

-----------------------------------------------------------------------------
(* The choice of a policy. *)

\* No policy rejects an attack before raw does.
LEMMA RawIsFirst ==
  ASSUME NEW r \in Validations \cup Results, NEW s \in Streams(r), NEW threshold,
         NEW p \in DOMAIN Grid
  PROVE  /\ TimeTo(s, threshold, Raw) \in Nat /\ TimeTo(s, threshold, Grid[p]) \in Nat
         /\ TimeTo(s, threshold, Raw) <= TimeTo(s, threshold, Grid[p])
<1> DEFINE rejects == Rejects(s, threshold)
           at == Decisions(rejects, Len(s), Grid[p])
<1>1. Len(s) \in Nat /\ rejects \in SUBSET (1 .. Len(s))
  BY StreamRejects
<1>2. TimeTo(s, threshold, Grid[p]) = IF at = {} THEN Len(s) ELSE Min(at) - 1
  BY DEF TimeTo, Rejected
<1>3. TimeTo(s, threshold, Raw) = IF rejects = {} THEN Len(s) ELSE Min(rejects) - 1
  BY DEF TimeTo, Rejected, Decisions, Raw
<1> HIDE DEF rejects
<1>4. Answering(at, rejects, Len(s))
  BY <1>1, Answers
<1> HIDE DEF at
<1>5. at # {} => Min(at) \in rejects /\ Min(at) \in 1 .. Len(s)
  BY <1>1, <1>4, FirstAnswer
<1>6. rejects # {} => /\ Min(rejects) \in 1 .. Len(s)
                      /\ \A i \in rejects : Min(rejects) <= i
  <2>1. rejects \in SUBSET Nat
    <3>1. \A i \in rejects : i \in Nat
      BY <1>1
    <3> QED BY <3>1
  <2> QED BY <1>1, <2>1, MinIs
<1>7. CASE at = {}
  BY <1>1, <1>2, <1>3, <1>6, <1>7
<1>8. CASE at # {}
  <2>1. Min(rejects) <= Min(at) /\ rejects # {}
    BY <1>5, <1>6, <1>8
  <2> QED BY <1>1, <1>2, <1>3, <1>5, <1>6, <1>8, <2>1
<1> QED BY <1>7, <1>8

\* No policy is faster than raw on all the attacks together.
LEMMA RawIsFastest ==
  ASSUME NEW r \in Validations \cup Results, NEW threshold, threshold # NaN,
         NEW p \in DOMAIN Grid
  PROVE  /\ Event(r, threshold, Raw).ttd \in Int /\ Event(r, threshold, Grid[p]).ttd \in Int
         /\ Event(r, threshold, Raw).ttd <= Event(r, threshold, Grid[p]).ttd
         /\ Event(r, threshold, Grid[p]).ttd >= -1
<1>1. CASE r.attack = <<>>
  BY <1>1 DEF Event, NaN
<1>2. CASE r.attack # <<>>
  <2> DEFINE D == DOMAIN r.attack
             f == [s \in D |-> TimeTo(r.attack[s], threshold, Raw)]
             g == [s \in D |-> TimeTo(r.attack[s], threshold, Grid[p])]
  <2>1. IsFiniteSet(D)
    <3>1. r.attack \in Seq(Seq(Nat))
      BY AnalysisAssumption
    <3>2. D = 1 .. Len(r.attack) /\ Len(r.attack) \in Nat
      BY <3>1
    <3> QED BY <3>2, FS_Interval
  <2>2. ASSUME NEW s \in D PROVE f[s] \in Nat /\ g[s] \in Nat /\ f[s] <= g[s]
    <3>1. r.attack[s] \in Streams(r)
      BY DEF Streams, Range
    <3> QED BY <3>1, RawIsFirst
  <2>3. f \in [D -> Nat] /\ g \in [D -> Nat]
    BY <2>2
  <2>4. Event(r, threshold, Raw).ttd = Add(f) /\ Event(r, threshold, Grid[p]).ttd = Add(g)
    BY <1>2 DEF Event, TimeToDetect
  <2> HIDE DEF D, f, g
  <2>5. Add(f) \in Nat /\ Add(g) \in Nat /\ Add(f) <= Add(g)
    BY <2>1, <2>2, <2>3, AddGrows
  <2> QED BY <2>4, <2>5
<1> QED BY <1>1, <1>2
\* The first of the fastest: it is raw if raw may be taken.
LEMMA Fastest ==
  ASSUME NEW pool \in SUBSET (1 .. 5), pool # {}, NEW ttd,
         \A i \in pool : ttd[i] \in Int /\ ttd[i] >= -1,
         1 \in pool => \A i \in pool : ttd[1] <= ttd[i]
  PROVE  LET best == Min({i \in pool : \A j \in pool : ttd[i] <= ttd[j]})
         IN best \in pool /\ (1 \in pool => best = 1)
<1> DEFINE Bests == {i \in pool : \A j \in pool : ttd[i] <= ttd[j]}
           Times == {ttd[i] + 1 : i \in pool}
<1>1. Bests # {}
  <2>1. Times \in SUBSET Nat /\ Times # {}
    <3>1. \A i \in pool : ttd[i] + 1 \in Nat
      <4> SUFFICES ASSUME NEW i \in pool PROVE ttd[i] + 1 \in Nat
        OBVIOUS
      <4>1. ttd[i] \in Int /\ ttd[i] >= -1
        OBVIOUS
      <4> QED BY <4>1
    <3> QED BY <3>1
  <2>2. PICK t \in Times : \A u \in Times : t <= u
    <3> HIDE DEF Times
    <3> QED BY <2>1, Least
  <2>3. PICK i \in pool : t = ttd[i] + 1
    BY <2>2
  <2>4. ASSUME NEW j \in pool PROVE ttd[i] <= ttd[j]
    <3>1. ttd[i] + 1 <= ttd[j] + 1
      BY <2>2, <2>3
    <3> QED BY <3>1
  <2> QED BY <2>4
<1>2. Bests \in SUBSET Nat
  <2>1. \A i \in pool : i \in Nat
    OBVIOUS
  <2> QED BY <2>1
<1>3. Min(Bests) \in Bests /\ \A k \in Bests : Min(Bests) <= k
  <2> HIDE DEF Bests
  <2> QED BY <1>1, <1>2, MinIs
<1>4. 1 \in pool => Min(Bests) = 1
  <2> SUFFICES ASSUME 1 \in pool PROVE Min(Bests) = 1
    OBVIOUS
  <2>1. 1 \in Bests
    OBVIOUS
  <2>2. Min(Bests) \in 1 .. 5
    BY <1>3
  <2> HIDE DEF Bests
  <2> QED BY <1>3, <2>1, <2>2
<1> QED BY <1>3, <1>4

\* Another policy than raw is chosen only where raw exceeds the budget and it does not.
LEMMA Selected ==
  ASSUME NEW r \in Validations \cup Results, NEW threshold, NEW budget,
         SelectPolicy(r, threshold, budget) # Raw
  PROVE  /\ ~Feasible(r, threshold, Raw, budget)
         /\ Feasible(r, threshold, SelectPolicy(r, threshold, budget), budget)
<1> DEFINE feasible == {i \in DOMAIN Grid : Feasible(r, threshold, Grid[i], budget)}
           pool == IF feasible = {} THEN DOMAIN Grid ELSE feasible
           ttd == [i \in pool |-> Event(r, threshold, Grid[i]).ttd]
           best == Min({i \in pool : \A j \in pool : ttd[i] <= ttd[j]})
<1>1. threshold # NaN
  BY DEF SelectPolicy
<1>2. SelectPolicy(r, threshold, budget) = Grid[best]
  BY <1>1 DEF SelectPolicy
<1>3. pool \in SUBSET (1 .. 5) /\ pool # {}
  BY GridIs
<1>4. ASSUME NEW i \in pool
      PROVE  ttd[i] \in Int /\ ttd[i] >= -1 /\ (1 \in pool => ttd[1] <= ttd[i])
  <2>1. i \in DOMAIN Grid /\ Grid[1] = Raw
    BY GridIs
  <2>2. ttd[i] = Event(r, threshold, Grid[i]).ttd
    OBVIOUS
  <2>3. 1 \in pool => ttd[1] = Event(r, threshold, Raw).ttd
    BY <2>1
  <2> HIDE DEF pool, ttd
  <2> QED BY <1>1, <2>1, <2>2, <2>3, RawIsFastest
<1>5. best \in pool /\ (1 \in pool => best = 1)
  <2> HIDE DEF pool, ttd
  <2> QED BY <1>3, <1>4, Fastest
<1>6. 1 \notin pool
  BY <1>2, <1>5, GridIs
<1>7. feasible # {} /\ pool = feasible
  BY <1>6, GridIs
<1>8. Feasible(r, threshold, Grid[best], budget)
  <2> HIDE DEF best
  <2> QED BY <1>5, <1>7
<1>9. ~Feasible(r, threshold, Raw, budget)
  BY <1>6, <1>7, GridIs
<1> QED BY <1>2, <1>8, <1>9

\* Before test is measured, the policy is the one that val selected.
ChosenInv ==
  step = "test" =>
    /\ result \in Validations
    /\ frozen.policy = SelectPolicy(result, frozen.threshold, frozen.budget)

\* Whatever the streams, their number and the budget: a policy other than raw is
\* frozen only if raw raises more false alarms than allowed and it does not.
THEOREM RawIsTheDefault == Spec => []RawUnlessTooLoud
<1>1. Init => ChosenInv
  BY DEF Init, ChosenInv
<1>2. ChosenInv /\ [Next]_vars => ChosenInv'
  <2> SUFFICES ASSUME ChosenInv, [Next]_vars PROVE ChosenInv'
    OBVIOUS
  <2>1. CASE Freeze
    BY <2>1 DEF Freeze, ChosenInv
  <2>2. CASE Measure \/ FallBack \/ Correct
    BY <2>2 DEF Measure, FallBack, Correct, ChosenInv
  <2>3. CASE UNCHANGED vars
    BY <2>3 DEF vars, ChosenInv
  <2> QED BY <2>1, <2>2, <2>3 DEF Next
<1>3. ChosenInv => RawUnlessTooLoud
  BY Selected DEF ChosenInv, RawUnlessTooLoud
<1> QED BY <1>1, <1>2, <1>3, PTL DEF Spec
==============================================================================
