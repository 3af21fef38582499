------------------------------ MODULE MCAnalysis ------------------------------
(***************************************************************************)
(* Small instances of Analysis: one or two genuine and attack streams of   *)
(* up to six windows, or none, and families of four baselines.             *)
(***************************************************************************)
EXTENDS Analysis

Scores(n) == [1 .. n -> 0 .. 3]

Rising(n) == {s \in Scores(n) : \A i \in 1 .. n - 1 : s[i] <= s[i + 1]}

Long == [1 .. 6 -> {0, 3}]

Single(S) == {<<s>> : s \in S}

Result(G, A) == {[genuine |-> g, attack |-> a] : g \in G, a \in A}

MCResults ==
  Result(Single(Scores(2)), Single(Rising(3)))
  \cup Result(Single(Rising(3)), {<<s, t>> : s \in Scores(1), t \in Scores(1)})
  \cup Result({<<>>, <<<<3, 0, 3, 0>>>>}, {<<>>} \cup Single(Long))
  \cup Result(Single(Long), {<<<<3, 3, 3, 0, 0, 0>>>>})

MCValidations ==
  Result({<<>>, <<<<3, 3, 3, 3>>>>, <<<<3, 0, 3, 3>>, <<3, 3>>>>, <<<<0, 0, 3, 0, 0, 3>>>>},
         {<<>>, <<<<3, 0, 3, 0>>>>, <<<<3, 0, 0, 0, 0>>, <<0, 3>>>>, <<<<3, 3, 3>>>>,
          <<<<0, 3, 3, 3, 3, 0>>>>, <<<<3, 3, 3, 3>>, <<0, 3, 0>>>>})

\* NaN also for an infinite one, which detection.py treats alike.
MCThresholds == {1, 2, NaN}

Percent(n) == [num |-> n, den |-> 100]

MCTargets == {Percent(1), Percent(50), [num |-> 1, den |-> 3]}

\* None, few, and any number.
MCBudgets == {0, 4, 1000}

MCFamilies == [1 .. 4 -> {NaN, 1, 2, 3, 4, 40}]
===============================================================================
