---------------------------- MODULE Suite_proofs ----------------------------
(***************************************************************************)
(* What holds of a results root that any number of suites were run into,   *)
(* whichever of their experiments failed and wherever they were killed:    *)
(* runs are trained on the data that their names tell, and a report after  *)
(* a suite that ended shows that suite.                                    *)
(***************************************************************************)
EXTENDS Reporting, TLAPS, FiniteSetTheorems, WellFoundedInduction

-----------------------------------------------------------------------------
(* The experiments. *)

\* The experiments of a suite, told one by one.
LEMMA EveryExperiment ==
  /\ \A e \in Exps :
       \/ \E i \in DOMAIN Baselines : e = Baselines[i]
       \/ \E i \in DOMAIN Features : e = Features[i]
       \/ \E i \in DOMAIN Privacy : e = Privacy[i]
       \/ \E i \in DOMAIN Confidence : e = Confidence[i]
       \/ \E i \in DOMAIN Sensors : e = Sensors[i]
  /\ \A i \in DOMAIN Baselines : Baselines[i] \in Exps
  /\ \A i \in DOMAIN Features : Features[i] \in Exps
  /\ \A i \in DOMAIN Privacy : Privacy[i] \in Exps
  /\ \A i \in DOMAIN Confidence : Confidence[i] \in Exps
  /\ \A i \in DOMAIN Sensors : Sensors[i] \in Exps
BY Zenon DEF Exps
NamesIn ==
  [baseline |-> {"m0", "m1", "m2", "m3", "m4", "m5", "m6", "m7", "m8", "m9", "m10"},
   feature |-> {"no_ui", "no_sensor", "no_package", "no_tree_diff", "no_temporal_smoothness",
                "no_load_balance"},
   privacy |-> {"privacy_coarse_bounds", "no_resource_id", "coarse_widget_category_only"},
   confidence |-> {"thr_0.0", "thr_0.2", "thr_0.4", "thr_0.6"},
   sensor |-> {"no_accel", "no_gyro", "no_magnetometer"}]

\* The columns that the split files of an experiment's view have.
ViewColumns(e) == IF e.view.mode = "source" THEN AllColumns ELSE Columns[e.view.mode]

\* Only the coarse view is quantised, and an ablation's view has the columns of its mode.
ViewFits(e) ==
  /\ e.view.round <=> e.name = "privacy_coarse_bounds"
  /\ e.group # "baseline" => ViewColumns(e) = Columns[e.mode]

IsList(list, n, group) ==
  /\ DOMAIN list = 1 .. n
  /\ \A i \in 1 .. n :
       /\ list[i].group = group
       /\ list[i].name \in NamesIn[group]
       /\ ViewFits(list[i])
       /\ \A j \in 1 .. n : list[i].name = list[j].name => i = j

\* The five lists of experiments: their lengths, names and views.
LEMMA Lists ==
  /\ IsList(Baselines, 11, "baseline")
  /\ IsList(Features, 6, "feature")
  /\ IsList(Privacy, 3, "privacy")
  /\ IsList(Confidence, 4, "confidence")
  /\ IsList(Sensors, 3, "sensor")
<1>1. IsList(Baselines, 11, "baseline")
  BY DEF IsList, NamesIn, ViewFits, Baselines, Baseline, Experiment, NoView
<1>2. IsList(Features, 6, "feature")
  BY DEF IsList, NamesIn, ViewFits, ViewColumns, Features, Ablation, Experiment, View, NoView,
         Columns, AllColumns, UI
<1>3. IsList(Privacy, 3, "privacy")
  BY DEF IsList, NamesIn, ViewFits, ViewColumns, Privacy, Ablation, Experiment, View
<1>4. IsList(Confidence, 4, "confidence")
  BY DEF IsList, NamesIn, ViewFits, ViewColumns, Confidence, Ablation, Experiment, NoView, Columns
<1>5. IsList(Sensors, 3, "sensor")
  BY DEF IsList, NamesIn, ViewFits, ViewColumns, Sensors, Ablation, Experiment, View, Columns
<1> QED BY <1>1, <1>2, <1>3, <1>4, <1>5

\* An experiment belongs to a group, is named there and has a view that fits.
LEMMA ExperimentsFit ==
  ASSUME NEW e \in Exps
  PROVE  /\ e.group \in {"baseline"} \cup Group
         /\ e.name \in NamesIn[e.group]
         /\ ViewFits(e)
BY EveryExperiment, Lists DEF IsList, Group

\* No two experiments have one name.
LEMMA NamesAreUnique ==
  ASSUME NEW e \in Exps, NEW f \in Exps, e.name = f.name
  PROVE  e = f
<1>1. e.group = f.group
  BY ExperimentsFit DEF NamesIn, Group
<1> QED BY <1>1, EveryExperiment, Lists DEF IsList
-----------------------------------------------------------------------------
(* The plan. *)

ToDo ==
  {[do |-> what] : what \in {"sweep", "kstar", "deltas", "index"}}
  \cup {[do |-> "run", exp |-> e] : e \in Exps}
  \cup {[do |-> "csv", group |-> g] : g \in Group}

Joined(both, s, m, t, n) ==
  /\ both \in Seq(ToDo) /\ Len(both) = m + n
  /\ \A i \in 1 .. m : both[i] = s[i]
  /\ \A i \in 1 .. n : both[m + i] = t[i]

\* A sequence of n steps that is appended to one of m.
LEMMA Appended ==
  ASSUME NEW s \in Seq(ToDo), NEW t \in Seq(ToDo), NEW m \in Nat, NEW n \in Nat,
         Len(s) = m, Len(t) = n
  PROVE  Joined(s \o t, s, m, t, n)
BY DEF Joined

\* One step, and the runs of a list.
LEMMA Parts ==
  /\ \A what \in {"sweep", "kstar", "deltas", "index"} :
       Do(what) \in Seq(ToDo) /\ Len(Do(what)) = 1 /\ Do(what)[1] = [do |-> what]
  /\ \A list, n, group :
       n \in Nat /\ IsList(list, n, group) /\ (\A i \in 1 .. n : list[i] \in Exps) =>
         /\ Runs(list) \in Seq(ToDo) /\ Len(Runs(list)) = n
         /\ \A i \in 1 .. n : Runs(list)[i] = [do |-> "run", exp |-> list[i]]
<1>1. ASSUME NEW what \in {"sweep", "kstar", "deltas", "index"}
      PROVE  Do(what) \in Seq(ToDo) /\ Len(Do(what)) = 1 /\ Do(what)[1] = [do |-> what]
  <2>1. [do |-> what] \in ToDo
    BY DEF ToDo
  <2> HIDE DEF ToDo
  <2> QED BY <2>1 DEF Do
<1>2. ASSUME NEW list, NEW n \in Nat, NEW group, IsList(list, n, group),
             \A i \in 1 .. n : list[i] \in Exps
      PROVE  /\ Runs(list) \in Seq(ToDo) /\ Len(Runs(list)) = n
             /\ \A i \in 1 .. n : Runs(list)[i] = [do |-> "run", exp |-> list[i]]
  <2>1. \A i \in 1 .. n : [do |-> "run", exp |-> list[i]] \in ToDo
    BY <1>2 DEF ToDo
  <2>2. Runs(list) = [i \in 1 .. n |-> [do |-> "run", exp |-> list[i]]]
    BY <1>2 DEF Runs, IsList
  <2> QED BY <2>1, <2>2
<1> QED BY <1>1, <1>2

IsGroup(steps, n, g) ==
  /\ steps \in Seq(ToDo) /\ Len(steps) = n + 1
  /\ \A i \in 1 .. n : /\ steps[i].do = "run" /\ steps[i].exp \in Exps
                       /\ steps[i].exp.group # "baseline"
  /\ steps[n + 1] = [do |-> "csv", group |-> g]

\* The runs of a group and its table.
LEMMA Groups ==
  ASSUME NEW list, NEW n \in Nat \ {0}, NEW g \in Group, IsList(list, n, g),
         \A i \in 1 .. n : list[i] \in Exps
  PROVE  IsGroup(AblationGroup(list), n, g)
<1> DEFINE table == <<[do |-> "csv", group |-> g]>>
<1>1. [do |-> "csv", group |-> g] \in ToDo
  BY DEF ToDo
<1>2. table \in Seq(ToDo) /\ Len(table) = 1 /\ table[1] = [do |-> "csv", group |-> g]
  BY <1>1
<1>3. /\ Runs(list) \in Seq(ToDo) /\ Len(Runs(list)) = n
      /\ \A i \in 1 .. n : Runs(list)[i] = [do |-> "run", exp |-> list[i]]
  BY Parts
<1>4. AblationGroup(list) = Runs(list) \o table
  BY DEF AblationGroup, IsList
<1>5. \A i \in 1 .. n : list[i].group # "baseline"
  BY DEF IsList, Group
<1>6. Joined(AblationGroup(list), Runs(list), n, table, 1)
  BY <1>2, <1>3, <1>4, Appended
<1> HIDE DEF table
<1> QED BY <1>2, <1>3, <1>5, <1>6 DEF IsGroup, Joined

\* What a plan starts with, 14 steps.
Opening == Do("sweep") \o Do("kstar") \o Runs(Baselines) \o Do("deltas")

\* The sweep, k*, the baselines and their comparison.
LEMMA OpeningIs ==
  /\ Opening \in Seq(ToDo) /\ Len(Opening) = 14
  /\ Opening[1].do = "sweep" /\ Opening[2].do = "kstar" /\ Opening[14].do = "deltas"
  /\ \A i \in 3 .. 13 : Opening[i].do = "run" /\ Opening[i].exp \in Exps
<1> DEFINE two == Do("sweep") \o Do("kstar")
           most == two \o Runs(Baselines)
<1>1. /\ two \in Seq(ToDo) /\ Len(two) = 2
      /\ two[1] = [do |-> "sweep"] /\ two[2] = [do |-> "kstar"]
  <2>1. /\ Do("sweep") \in Seq(ToDo) /\ Len(Do("sweep")) = 1 /\ Do("sweep")[1] = [do |-> "sweep"]
        /\ Do("kstar") \in Seq(ToDo) /\ Len(Do("kstar")) = 1 /\ Do("kstar")[1] = [do |-> "kstar"]
    BY Parts
  <2>2. Joined(two, Do("sweep"), 1, Do("kstar"), 1)
    BY <2>1, Appended
  <2> HIDE DEF two
  <2> QED BY <2>1, <2>2 DEF Joined
<1>2. /\ Runs(Baselines) \in Seq(ToDo) /\ Len(Runs(Baselines)) = 11
      /\ \A i \in 1 .. 11 : Runs(Baselines)[i] = [do |-> "run", exp |-> Baselines[i]]
      /\ \A i \in 1 .. 11 : Baselines[i] \in Exps
  <2>1. IsList(Baselines, 11, "baseline") /\ \A i \in 1 .. 11 : Baselines[i] \in Exps
    BY Lists, EveryExperiment DEF IsList
  <2> QED BY <2>1, Parts
<1>3. Joined(most, two, 2, Runs(Baselines), 11)
  <2> HIDE DEF two
  <2> QED BY <1>1, <1>2, Appended
<1>4. Do("deltas") \in Seq(ToDo) /\ Len(Do("deltas")) = 1 /\ Do("deltas")[1] = [do |-> "deltas"]
  BY Parts
<1>5. Joined(Opening, most, 13, Do("deltas"), 1)
  <2>1. most \in Seq(ToDo) /\ Len(most) = 13
    BY <1>3 DEF Joined
  <2>2. Opening = most \o Do("deltas")
    BY DEF Opening
  <2> HIDE DEF most
  <2> QED BY <1>4, <2>1, <2>2, Appended
<1> HIDE DEF two, most
<1>6. \A i \in 3 .. 13 : Opening[i].do = "run" /\ Opening[i].exp \in Exps
  <2> TAKE i \in 3 .. 13
  <2>1. i - 2 \in 1 .. 11 /\ 2 + (i - 2) = i
    OBVIOUS
  <2>2. Opening[i] = most[i]
    BY <1>5 DEF Joined
  <2>3. most[2 + (i - 2)] = Runs(Baselines)[i - 2]
    BY <1>3, <2>1 DEF Joined
  <2> QED BY <1>2, <2>1, <2>2, <2>3
<1>7. Opening[1] = two[1] /\ Opening[2] = two[2] /\ Opening[14] = Do("deltas")[1]
  BY <1>3, <1>5 DEF Joined
<1> QED BY <1>1, <1>4, <1>5, <1>6, <1>7 DEF Joined
\* Steps of ablations: runs and, among them, the tables of these groups.
Ablates(steps, n, groups) ==
  /\ steps \in Seq(ToDo) /\ Len(steps) = n
  /\ \A i \in 1 .. n :
       \/ /\ steps[i].do = "run" /\ steps[i].exp \in Exps
          /\ steps[i].exp.group # "baseline"
       \/ steps[i].do = "csv" /\ steps[i].group \in Group
  /\ \A g \in groups : \E i \in 1 .. n : steps[i] = [do |-> "csv", group |-> g]

\* One group after others.
LEMMA OneMoreGroup ==
  ASSUME NEW s, NEW m \in Nat, NEW groups, Ablates(s, m, groups),
         NEW t, NEW n \in Nat, NEW g \in Group, IsGroup(t, n, g)
  PROVE  Ablates(s \o t, m + (n + 1), groups \cup {g})
<1> DEFINE both == s \o t
<1>1. Joined(both, s, m, t, n + 1)
  BY Appended DEF Ablates, IsGroup
<1> HIDE DEF both
<1>2. ASSUME NEW i \in 1 .. m + (n + 1)
      PROVE  \/ both[i].do = "run" /\ both[i].exp \in Exps /\ both[i].exp.group # "baseline"
             \/ both[i].do = "csv" /\ both[i].group \in Group
  <2>1. CASE i <= m
    BY <1>1, <2>1 DEF Joined, Ablates
  <2>2. CASE i > m
    <3>1. i - m \in 1 .. n + 1 /\ m + (i - m) = i
      BY <2>2
    <3>2. both[m + (i - m)] = t[i - m]
      BY <1>1, <3>1 DEF Joined
    <3>3. CASE i - m = n + 1
      BY <3>1, <3>2, <3>3 DEF IsGroup
    <3>4. CASE i - m \in 1 .. n
      BY <3>1, <3>2, <3>4 DEF IsGroup
    <3> QED BY <3>1, <3>3, <3>4
  <2> QED BY <2>1, <2>2
<1>3. ASSUME NEW h \in groups
      PROVE  \E i \in 1 .. m + (n + 1) : both[i] = [do |-> "csv", group |-> h]
  BY <1>1, <1>3 DEF Joined, Ablates
<1>4. both[m + (n + 1)] = [do |-> "csv", group |-> g]
  BY <1>1 DEF Joined, IsGroup
<1> QED BY <1>1, <1>2, <1>3, <1>4 DEF Ablates, Joined, both

\* The ablations take 20 steps, and write the table of every group.
LEMMA AblationsAre ==
  Ablates(AblationGroup(Features) \o AblationGroup(Privacy)
            \o AblationGroup(Confidence) \o AblationGroup(Sensors), 20, Group)
<1> DEFINE two == AblationGroup(Features) \o AblationGroup(Privacy)
           three == two \o AblationGroup(Confidence)
           four == three \o AblationGroup(Sensors)
<1>1. \A i \in 1 .. 6 : Features[i] \in Exps
  BY Lists, EveryExperiment DEF IsList
<1>2. \A i \in 1 .. 3 : Privacy[i] \in Exps /\ Sensors[i] \in Exps
  BY Lists, EveryExperiment DEF IsList
<1>3. \A i \in 1 .. 4 : Confidence[i] \in Exps
  BY Lists, EveryExperiment DEF IsList
<1>4. /\ "feature" \in Group /\ "privacy" \in Group /\ "confidence" \in Group
      /\ "sensor" \in Group
  BY DEF Group
<1>5. IsGroup(AblationGroup(Features), 6, "feature")
  BY <1>1, <1>4, Groups, Lists
<1>6. IsGroup(AblationGroup(Privacy), 3, "privacy")
  BY <1>2, <1>4, Groups, Lists
<1>7. IsGroup(AblationGroup(Confidence), 4, "confidence")
  BY <1>3, <1>4, Groups, Lists
<1>8. IsGroup(AblationGroup(Sensors), 3, "sensor")
  BY <1>2, <1>4, Groups, Lists
<1>9. Ablates(AblationGroup(Features), 7, {"feature"})
  BY <1>5 DEF IsGroup, Ablates, Group
<1>10. Ablates(two, 7 + (3 + 1), {"feature"} \cup {"privacy"})
  BY <1>4, <1>6, <1>9, OneMoreGroup
<1>11. Ablates(three, 11 + (4 + 1), {"feature", "privacy"} \cup {"confidence"})
  <2>1. Ablates(two, 11, {"feature", "privacy"})
    <3> HIDE DEF two
    <3> QED BY <1>10
  <2> QED BY <1>4, <1>7, <2>1, OneMoreGroup
<1>12. Ablates(four, 16 + (3 + 1), {"feature", "privacy", "confidence"} \cup {"sensor"})
  <2>1. Ablates(three, 16, {"feature", "privacy", "confidence"})
    <3> HIDE DEF three
    <3>1. {"feature", "privacy"} \cup {"confidence"} = {"feature", "privacy", "confidence"}
      OBVIOUS
    <3> QED BY <1>11, <3>1
  <2> QED BY <1>4, <1>8, <2>1, OneMoreGroup
<1>13. {"feature", "privacy", "confidence"} \cup {"sensor"} = Group
  BY DEF Group
<1> HIDE DEF three
<1>14. Ablates(four, 20, Group)
  <2> HIDE DEF four
  <2> QED BY <1>12, <1>13
<1> QED BY <1>14 DEF three
LastOf(ablate) == IF ablate THEN 35 ELSE 15

\* What a suite does at each step: the steps of an opening, the ablations or
\* none, and the index.
LEMMA PlanIs ==
  ASSUME NEW ablate \in BOOLEAN
  PROVE  LET plan == Plan[ablate]  last == LastOf(ablate)
         IN /\ DOMAIN plan = 1 .. last
            /\ plan[1].do = "sweep" /\ plan[2].do = "kstar" /\ plan[14].do = "deltas"
            /\ plan[last].do = "index"
            /\ \A i \in 3 .. 13 : plan[i].do = "run" /\ plan[i].exp \in Exps
            /\ \A i \in 15 .. last - 1 :
                 \/ plan[i].do = "run" /\ plan[i].exp \in Exps /\ plan[i].exp.group # "baseline"
                 \/ plan[i].do = "csv" /\ plan[i].group \in Group
            /\ ablate => \A g \in Group : \E i \in 15 .. last - 1 :
                           plan[i] = [do |-> "csv", group |-> g]
<1> DEFINE ablations == AblationGroup(Features) \o AblationGroup(Privacy)
                          \o AblationGroup(Confidence) \o AblationGroup(Sensors)
           middle == IF ablate THEN ablations ELSE <<>>
           n == IF ablate THEN 20 ELSE 0
           most == Opening \o middle
           plan == Plan[ablate]
<1>1. Ablates(middle, n, IF ablate THEN Group ELSE {})
  <2>1. Ablates(ablations, 20, Group)
    BY AblationsAre
  <2> HIDE DEF ablations
  <2>2. Ablates(<<>>, 0, {})
    BY DEF Ablates
  <2> QED BY <2>1, <2>2
<1>2. Do("index") \in Seq(ToDo) /\ Len(Do("index")) = 1 /\ Do("index")[1] = [do |-> "index"]
  BY Parts
<1>3. plan = most \o Do("index")
  BY DEF Plan, Steps, Opening
<1>4. n \in Nat /\ LastOf(ablate) = 14 + n + 1
  BY DEF LastOf
<1> HIDE DEF middle, n, most, plan
<1>5. Joined(most, Opening, 14, middle, n)
  BY <1>1, <1>4, OpeningIs, Appended DEF Ablates, most
<1>6. Joined(plan, most, 14 + n, Do("index"), 1)
  <2>1. most \in Seq(ToDo) /\ Len(most) = 14 + n /\ 14 + n \in Nat
    BY <1>4, <1>5 DEF Joined
  <2> QED BY <1>2, <1>3, <2>1, Appended
<1>7. \A i \in 1 .. 14 : plan[i] = Opening[i]
  BY <1>4, <1>5, <1>6 DEF Joined
<1>8. \A i \in 1 .. n : plan[14 + i] = middle[i]
  BY <1>4, <1>5, <1>6 DEF Joined
<1>9. plan \in Seq(ToDo) /\ Len(plan) = 14 + n + 1
  BY <1>6 DEF Joined
<1>10. plan[14 + n + 1].do = "index"
  BY <1>2, <1>6 DEF Joined
<1>11. DOMAIN plan = 1 .. LastOf(ablate)
  BY <1>4, <1>9
<1>12. ASSUME NEW i \in 15 .. LastOf(ablate) - 1
       PROVE  \/ plan[i].do = "run" /\ plan[i].exp \in Exps /\ plan[i].exp.group # "baseline"
              \/ plan[i].do = "csv" /\ plan[i].group \in Group
  <2>1. i - 14 \in 1 .. n /\ 14 + (i - 14) = i
    BY <1>4
  <2>2. plan[i] = middle[i - 14]
    BY <1>8, <2>1
  <2> QED BY <1>1, <2>1, <2>2 DEF Ablates
<1>13. ASSUME ablate, NEW g \in Group
       PROVE  \E i \in 15 .. LastOf(ablate) - 1 : plan[i] = [do |-> "csv", group |-> g]
  <2>1. PICK i \in 1 .. n : middle[i] = [do |-> "csv", group |-> g]
    BY <1>1, <1>13 DEF Ablates
  <2>2. 14 + i \in 15 .. LastOf(ablate) - 1
    BY <1>4
  <2> QED BY <1>8, <2>1, <2>2
<1>14. /\ plan[1].do = "sweep" /\ plan[2].do = "kstar" /\ plan[14].do = "deltas"
       /\ \A i \in 3 .. 13 : plan[i].do = "run" /\ plan[i].exp \in Exps
  BY <1>7, OpeningIs
<1>15. plan[LastOf(ablate)].do = "index"
  BY <1>4, <1>10
<1> HIDE DEF LastOf
<1> QED BY <1>11, <1>12, <1>13, <1>14, <1>15 DEF plan
-----------------------------------------------------------------------------
(* Where a suite is. *)

JobInv ==
  /\ job = [on |-> job.on, at |-> job.at, half |-> job.half, ablate |-> job.ablate,
            sweep |-> job.sweep, k |-> job.k, rows |-> job.rows, group |-> job.group]
  /\ job.on \in BOOLEAN /\ job.half \in BOOLEAN /\ job.ablate \in BOOLEAN
  /\ job.at \in 1 .. LastOf(job.ablate)
  /\ job.half => Step.do = "run"

\* A step is of its kind where the plan has that kind.
LEMMA StepIs ==
  ASSUME JobInv
  PROVE  /\ Step.do \in {"sweep", "kstar", "run", "deltas", "csv", "index"}
         /\ Step.do = "sweep" <=> job.at = 1
         /\ Step.do = "kstar" <=> job.at = 2
         /\ Step.do = "deltas" <=> job.at = 14
         /\ Step.do = "index" <=> job.at = LastOf(job.ablate)
         /\ Step.do = "run" =>
              /\ Step.exp \in Exps
              /\ job.at > 2 /\ (Step.exp.group = "baseline" => job.at < 14)
         /\ Step.do = "csv" => Step.group \in Group /\ job.at > 14
<1> DEFINE a == job.ablate
           i == job.at
           last == LastOf(a)
<1>1. a \in BOOLEAN /\ i \in 1 .. last /\ last \in Nat /\ last > 14
  BY DEF JobInv, LastOf
<1>2. Step = Plan[a][i]
  BY DEF Step
<1> HIDE DEF a, i, last
<1>3. /\ DOMAIN Plan[a] = 1 .. last
      /\ Plan[a][1].do = "sweep" /\ Plan[a][2].do = "kstar" /\ Plan[a][14].do = "deltas"
      /\ Plan[a][last].do = "index"
  BY <1>1, PlanIs DEF last
<1>4. /\ \A j \in 3 .. 13 : Plan[a][j].do = "run" /\ Plan[a][j].exp \in Exps
      /\ \A j \in 15 .. last - 1 :
           \/ /\ Plan[a][j].do = "run" /\ Plan[a][j].exp \in Exps
              /\ Plan[a][j].exp.group # "baseline"
           \/ Plan[a][j].do = "csv" /\ Plan[a][j].group \in Group
  BY <1>1, PlanIs DEF last
<1>5. \/ i = 1 \/ i = 2 \/ i \in 3 .. 13 \/ i = 14 \/ i \in 15 .. last - 1 \/ i = last
  BY <1>1
<1>6. CASE i = 1 \/ i = 2 \/ i = 14 \/ i = last
  BY <1>1, <1>2, <1>3, <1>6 DEF a, i, last
<1>7. CASE i \in 3 .. 13
  BY <1>1, <1>2, <1>4, <1>7 DEF a, i, last
<1>8. CASE i \in 15 .. last - 1
  BY <1>1, <1>2, <1>4, <1>8 DEF a, i, last
<1> QED BY <1>5, <1>6, <1>7, <1>8

\* A set of numbers that has a member has a least one.
LEMMA Least ==
  ASSUME NEW S \in SUBSET Nat, S # {}
  PROVE  \E m \in S : \A k \in S : m <= k
<1> DEFINE R == OpToRel(<, Nat)
<1>1. IsWellFoundedOn(R, Nat)
  BY NatLessThanWellFounded
<1>2. \A a, b \in Nat : <<a, b>> \in R <=> a < b
  BY DEF OpToRel
<1> HIDE DEF R
<1>3. PICK m \in S : \A k \in S : <<k, m>> \notin R
  BY <1>1, WFMin
<1>4. \A k \in S : m <= k
  <2> TAKE k \in S
  <2>1. k \in Nat /\ m \in Nat /\ ~(k < m)
    BY <1>2, <1>3
  <2> QED BY <2>1
<1> QED BY <1>4

\* The next step is later, and no step but runs is passed over.
LEMMA AdvanceIs ==
  ASSUME JobInv, Step.do # "index"
  PROVE  /\ Advance = [job EXCEPT !.at = Advance.at]
         /\ Advance.at \in 1 .. LastOf(job.ablate) /\ job.at < Advance.at
         /\ \A i \in 1 .. LastOf(job.ablate) :
              job.at < i /\ i < Advance.at => Plan[job.ablate][i].do = "run"
<1> DEFINE a == job.ablate
           last == LastOf(a)
           due == {i \in DOMAIN Plan[a] : Plan[a][i].do = "run" => Plan[a][i].exp.name \in Kept}
           S == {i \in due : i > job.at}
<1>1. a \in BOOLEAN /\ job.at \in 1 .. last /\ last \in Nat /\ last > 14
  BY DEF JobInv, LastOf
<1>2. DOMAIN Plan[a] = 1 .. last /\ Plan[a][last].do = "index"
  BY <1>1, PlanIs
<1>3. job.at < last
  BY <1>1, StepIs
<1> HIDE DEF last
<1>4. last \in S /\ S \in SUBSET Nat
  BY <1>1, <1>2, <1>3
<1>5. PICK m \in S : \A i \in S : m <= i
  BY <1>4, Least
<1>6. m = Min(S)
  <2>1. \A x \in S : (\A y \in S : x <= y) => x = m
    BY <1>4, <1>5
  <2> HIDE DEF S
  <2> QED BY <1>5, <2>1 DEF Min
<1>7. Advance = [job EXCEPT !.at = Min(S)]
  BY DEF Advance
<1>8. m \in 1 .. last /\ job.at < m
  BY <1>1, <1>2, <1>5
<1>9. ASSUME NEW i \in 1 .. last, job.at < i, i < m
      PROVE  Plan[a][i].do = "run"
  <2>1. i \notin S
    BY <1>4, <1>5, <1>9
  <2> QED BY <1>2, <1>9, <2>1
<1>10. Advance.at = m
  <2> HIDE DEF S
  <2> QED BY <1>6, <1>7 DEF JobInv
<1> HIDE DEF S
<1> QED BY <1>6, <1>7, <1>8, <1>9, <1>10 DEF last
\* A new row goes to the index or to the group.
LEMMA ListedIs ==
  ASSUME JobInv, Step.do = "run", NEW e, NEW row
  PROVE  LET after == Listed(e, row)
         IN /\ after = [on |-> job.on, at |-> Advance.at, half |-> FALSE, ablate |-> job.ablate,
                        sweep |-> job.sweep, k |-> job.k,
                        rows |-> IF e.group = "baseline" THEN Row(e.name, row) ELSE job.rows,
                        group |-> IF e.group = "baseline" THEN job.group
                                  ELSE job.group \cup {row = Error}]
<1>1. Advance = [job EXCEPT !.at = Advance.at]
  BY AdvanceIs
<1> DEFINE at == Advance.at
<1>2. Advance = [on |-> job.on, at |-> at, half |-> job.half, ablate |-> job.ablate,
                 sweep |-> job.sweep, k |-> job.k, rows |-> job.rows, group |-> job.group]
  BY <1>1 DEF JobInv
<1> HIDE DEF at
<1> DEFINE newRows == IF e.group = "baseline" THEN Row(e.name, row) ELSE job.rows
           newGroup == IF e.group = "baseline" THEN job.group ELSE job.group \cup {row = Error}
<1>3. Listed(e, row) = [Advance EXCEPT !.half = FALSE, !.rows = newRows, !.group = newGroup]
  <2>1. Advance.rows = job.rows /\ Advance.group = job.group
    BY <1>2
  <2> QED BY <2>1 DEF Listed
<1> HIDE DEF newRows, newGroup
<1>4. Listed(e, row) = [on |-> job.on, at |-> at, half |-> FALSE, ablate |-> job.ablate,
                        sweep |-> job.sweep, k |-> job.k, rows |-> newRows, group |-> newGroup]
  BY <1>2, <1>3
<1> QED BY <1>4 DEF at, newRows, newGroup

\* Every step leaves the suite at a step of its plan.
LEMMA JobStep == JobInv /\ [Next]_vars => JobInv'
<1> SUFFICES ASSUME JobInv, [Next]_vars PROVE JobInv'
  OBVIOUS
<1> DEFINE Fit(j) ==
             /\ j = [on |-> j.on, at |-> j.at, half |-> j.half, ablate |-> j.ablate,
                     sweep |-> j.sweep, k |-> j.k, rows |-> j.rows, group |-> j.group]
             /\ j.on \in BOOLEAN /\ j.half \in BOOLEAN /\ j.ablate \in BOOLEAN
             /\ j.at \in 1 .. LastOf(j.ablate)
             /\ j.half => Plan[j.ablate][j.at].do = "run"
<1>1. JobInv <=> Fit(job)
  BY DEF JobInv, Step
<1>2. JobInv' <=> Fit(job')
  BY DEF JobInv, Step
<1>3. Fit(NoJob)
  BY DEF NoJob, LastOf
<1>4. ASSUME Step.do # "index", Step.do # "run" PROVE Fit(Advance)
  <2>1. ~job.half
    BY <1>4 DEF JobInv
  <2> QED BY <1>4, <2>1, AdvanceIs DEF JobInv
<1>5. ASSUME Step.do = "run", NEW e, NEW row PROVE Fit(Listed(e, row))
  <2> DEFINE after == Listed(e, row)
  <2>1. /\ after = [on |-> after.on, at |-> after.at, half |-> after.half, ablate |-> after.ablate,
                    sweep |-> after.sweep, k |-> after.k, rows |-> after.rows,
                    group |-> after.group]
        /\ after.on = job.on /\ after.at = Advance.at /\ after.half = FALSE /\ after.ablate = job.ablate
    BY <1>5, ListedIs
  <2> HIDE DEF after
  <2>2. job.on \in BOOLEAN /\ job.ablate \in BOOLEAN /\ Advance.at \in 1 .. LastOf(job.ablate)
    BY <1>5, AdvanceIs DEF JobInv
  <2>3. Fit(after)
    BY <2>1, <2>2
  <2> QED BY <2>3 DEF after
<1>6. CASE Begin
  <2>1. PICK ablate \in BOOLEAN : job' = [NoJob EXCEPT !.on = TRUE, !.ablate = ablate]
    BY <1>6 DEF Begin
  <2> DEFINE rows == NoJob.rows
  <2>2. NoJob = [on |-> FALSE, at |-> 1, half |-> FALSE, ablate |-> FALSE, sweep |-> NoSweep,
                 k |-> 0, rows |-> rows, group |-> {}]
    BY DEF NoJob
  <2>3. 1 \in 1 .. LastOf(ablate)
    BY DEF LastOf
  <2> HIDE DEF rows
  <2> QED BY <1>2, <2>1, <2>2, <2>3
<1>7. CASE Sweep
  BY <1>2, <1>4, <1>7 DEF Sweep, At, Step
<1>8. CASE FreezeKstar
  BY <1>2, <1>4, <1>8 DEF FreezeKstar, At, Step
<1>9. CASE Train
  BY <1>1, <1>2, <1>9 DEF Train, At, Step
<1>10. CASE Score
  <2>1. Step.do = "run" /\ job' = Listed(Step.exp, RunDir(Step.exp))
    BY <1>10 DEF Score, At, Step
  <2> QED BY <1>2, <1>5, <2>1
<1>11. CASE RunRaises
  BY <1>2, <1>5, <1>11 DEF RunRaises, Recorded, At, Step
<1>12. CASE CompareWithM7
  BY <1>2, <1>4, <1>12 DEF CompareWithM7, At, Step
<1>13. CASE WriteGroup
  BY <1>2, <1>3, <1>4, <1>13 DEF WriteGroup, At, Step
<1>14. CASE WriteIndex \/ Die
  BY <1>2, <1>3, <1>14 DEF WriteIndex, Die
<1>15. CASE UNCHANGED vars
  BY <1>1, <1>2, <1>15 DEF vars
<1> QED BY <1>6, <1>7, <1>8, <1>9, <1>10, <1>11, <1>12, <1>13, <1>14, <1>15 DEF Next, Work
\* A suite that runs is at a step of its plan.
LEMMA JobIsSound == Spec => []JobInv
<1>1. Init => JobInv
  BY DEF Init, NoJob, JobInv, LastOf
<1> QED BY <1>1, JobStep, PTL DEF Spec

-----------------------------------------------------------------------------
(* What the runs were trained on. *)

IsRun(run) ==
  run = [suite |-> run.suite, scores |-> run.scores, k |-> run.k, columns |-> run.columns,
         values |-> run.values]

RunsOf(e, run) ==
  /\ run.values = IF e.view.round THEN "rounded" ELSE "built"
  /\ run.columns = TrainedOn(e)

DataInv ==
  /\ root \in Roots
  /\ source = "built"
  /\ \A d \in DOMAIN runs :
       IsRun(runs[d]) /\ \E e \in Exps : d[1] = e.name /\ RunsOf(e, runs[d])

\* The scores of a run are written, and nothing else of the root's runs.
LEMMA ScoresOnly ==
  ASSUME NEW dir, NEW n, \A d \in DOMAIN runs : IsRun(runs[d])
  PROVE  LET after == [runs EXCEPT ![dir].scores = n]
         IN /\ DOMAIN after = DOMAIN runs
            /\ \A d \in DOMAIN runs :
                 /\ IsRun(after[d])
                 /\ after[d].suite = runs[d].suite /\ after[d].k = runs[d].k
                 /\ after[d].columns = runs[d].columns /\ after[d].values = runs[d].values
                 /\ after[d].scores = IF d = dir THEN n ELSE runs[d].scores
<1> DEFINE after == [runs EXCEPT ![dir].scores = n]
<1>1. /\ DOMAIN after = DOMAIN runs
      /\ \A d \in DOMAIN runs :
           after[d] = IF d = dir THEN [runs[d] EXCEPT !.scores = n] ELSE runs[d]
  OBVIOUS
<1>2. ASSUME NEW d \in DOMAIN runs
      PROVE  [runs[d] EXCEPT !.scores = n] =
               [suite |-> runs[d].suite, scores |-> n, k |-> runs[d].k,
                columns |-> runs[d].columns, values |-> runs[d].values]
  BY DEF IsRun
<1> HIDE DEF after
<1>3. ASSUME NEW d \in DOMAIN runs
      PROVE  /\ IsRun(after[d])
             /\ after[d].suite = runs[d].suite /\ after[d].k = runs[d].k
             /\ after[d].columns = runs[d].columns /\ after[d].values = runs[d].values
             /\ after[d].scores = IF d = dir THEN n ELSE runs[d].scores
  BY <1>1, <1>2 DEF IsRun
<1> QED BY <1>1, <1>3 DEF after

\* A run that is trained goes to its own directory.
LEMMA OneRun ==
  ASSUME NEW e \in Exps, source = "built"
  PROVE  LET after == Put(RunDir(e), Trained(e))
         IN /\ DOMAIN after = DOMAIN runs \cup {RunDir(e)}
            /\ \A d \in DOMAIN runs \ {RunDir(e)} : after[d] = runs[d]
            /\ IsRun(after[RunDir(e)]) /\ RunsOf(e, after[RunDir(e)])
            /\ after[RunDir(e)].suite = suites
            /\ after[RunDir(e)].k = IF e.star THEN job.k ELSE 0
            /\ after[RunDir(e)].scores =
                 IF RunDir(e) \in DOMAIN runs THEN runs[RunDir(e)].scores ELSE 0
BY DEF Put, Written, Trained, IsRun, RunsOf, ViewValues

\* A view is made anew where it is quantised, so that the dataset keeps its values.
LEMMA SourceStays ==
  ASSUME NEW e, source = "built" PROVE SourceAfter(e) = "built"
BY DEF SourceAfter, ViewInode

\* Where a run raises, its scores are written or nothing is.
LEMMA RaisedIs ==
  ASSUME JobInv, RunRaises
  PROVE  \/ UNCHANGED runs
         \/ job.half /\ runs' = [runs EXCEPT ![RunDir(Step.exp)].scores = suites]
BY DEF RunRaises, JobInv

\* Every step leaves the dataset's values and what the runs were trained on.
LEMMA DataStep == JobInv /\ DataInv /\ [Next]_vars => DataInv'
<1> SUFFICES ASSUME JobInv, DataInv, [Next]_vars PROVE DataInv'
  OBVIOUS
<1> DEFINE Sound(rs) ==
             \A d \in DOMAIN rs : IsRun(rs[d]) /\ \E e \in Exps : d[1] = e.name /\ RunsOf(e, rs[d])
<1>1. ASSUME UNCHANGED root, source' = "built", Sound(runs') PROVE DataInv'
  <2>1. \A e, run : (RunsOf(e, run))' <=> RunsOf(e, run)
    BY <1>1 DEF RunsOf, TrainedOn, Data, FirstWith
  <2> QED BY <1>1, <2>1 DEF DataInv, IsRun
<1>2. CASE UNCHANGED <<root, source, runs>>
  BY <1>1, <1>2 DEF DataInv
<1>3. CASE Train
  <2>1. Step.do = "run" /\ Step.exp \in Exps
    BY <1>3, StepIs DEF Train, At, Step
  <2> DEFINE e == Step.exp
  <2>2. /\ runs' = Put(RunDir(e), Trained(e))
        /\ source' = SourceAfter(e) /\ root' = root
    BY <1>3 DEF Train
  <2> HIDE DEF e
  <2>3. source' = "built"
    BY <2>2, SourceStays DEF DataInv
  <2>4. /\ DOMAIN runs' = DOMAIN runs \cup {RunDir(e)}
        /\ \A d \in DOMAIN runs \ {RunDir(e)} : runs'[d] = runs[d]
        /\ IsRun(runs'[RunDir(e)]) /\ RunsOf(e, runs'[RunDir(e)])
    BY <2>1, <2>2, OneRun DEF DataInv, e
  <2>5. e \in Exps /\ RunDir(e)[1] = e.name
    BY <2>1 DEF RunDir, e
  <2>6. Sound(runs')
    BY <2>4, <2>5 DEF DataInv
  <2> QED BY <1>1, <2>2, <2>3, <2>6
<1>4. ASSUME NEW dir, NEW n, runs' = [runs EXCEPT ![dir].scores = n], UNCHANGED <<root, source>>
      PROVE  DataInv'
  <2>1. \A d \in DOMAIN runs : IsRun(runs[d])
    BY DEF DataInv
  <2>2. DOMAIN runs' = DOMAIN runs
    BY <1>4, <2>1, ScoresOnly
  <2>3. ASSUME NEW d \in DOMAIN runs
        PROVE  /\ IsRun(runs'[d])
               /\ runs'[d].columns = runs[d].columns /\ runs'[d].values = runs[d].values
    BY <1>4, <2>1, ScoresOnly
  <2>4. Sound(runs')
    BY <2>2, <2>3 DEF DataInv, RunsOf
  <2> QED BY <1>1, <1>4, <2>4 DEF DataInv
<1>5. CASE Score
  BY <1>4, <1>5 DEF Score
<1>6. CASE RunRaises
  BY <1>2, <1>4, <1>6, RaisedIs DEF RunRaises
<1>7. CASE Begin \/ Sweep \/ FreezeKstar \/ CompareWithM7 \/ WriteGroup \/ WriteIndex \/ Die
  BY <1>2, <1>7 DEF Begin, Sweep, FreezeKstar, CompareWithM7, WriteGroup, WriteIndex, Die
<1>8. CASE UNCHANGED vars
  BY <1>2, <1>8 DEF vars
<1> QED BY <1>3, <1>5, <1>6, <1>7, <1>8 DEF Next, Work
\* The dataset keeps its values, and every run is one of its experiment.
LEMMA DataIsSound == Spec => []DataInv
<1>1. Init => DataInv
  BY DEF Init, DataInv
<1> QED BY <1>1, DataStep, JobIsSound, PTL DEF Spec

\* However many suites wrote into the root and failed, a run directory was trained
\* on the dataset's own values, or the coarse view's, and an ablation on the
\* columns that its name leaves it; for every dataset, with or without hard links.
THEOREM TrainedOnTheirData == Spec => []RunsUseTheirData
<1>1. DataInv => RunsUseTheirData
  <2> SUFFICES ASSUME DataInv, NEW d \in DOMAIN runs, NEW e \in Exps, e.name = d[1]
               PROVE  /\ runs[d].values = IF e.name = "privacy_coarse_bounds" THEN "rounded" ELSE "built"
                      /\ e.group # "baseline" =>
                           runs[d].columns = (Columns[Data] \cap Columns[e.mode]) \ e.view.drop
    BY DEF RunsUseTheirData
  <2>1. RunsOf(e, runs[d])
    BY NamesAreUnique DEF DataInv
  <2>2. ViewFits(e)
    BY ExperimentsFit
  <2> QED BY <2>1, <2>2 DEF RunsOf, ViewFits, ViewColumns, TrainedOn
<1> QED BY <1>1, DataIsSound, PTL

-----------------------------------------------------------------------------
(* What a suite has done so far. *)

\* The rows of a suite that was frozen at k name runs of it, whole ones.
RowsOf(rows, k) ==
  \A b \in DOMAIN rows : rows[b] = Error \/
    /\ rows[b] \in DOMAIN runs
    /\ runs[rows[b]].suite = suites /\ runs[rows[b]].scores = suites
    /\ runs[rows[b]].k \in {0, k}

NoM7(rows) == "m7" \notin DOMAIN rows \/ rows["m7"] = Error

OutIs ==
  /\ out = [sweep |-> out.sweep, kstar |-> out.kstar, deltas |-> out.deltas,
            csv |-> out.csv, index |-> out.index]
  /\ DOMAIN out.csv = Group

\* While it runs: what the steps so far wrote is in the root, and every row names
\* a run of the suite.
SoFar ==
  job.on =>
    /\ suites > 0
    /\ RowsOf(job.rows, job.k)
    /\ job.at <= 2 => DOMAIN job.rows = {}
    /\ job.half => RunDir(Step.exp) \in DOMAIN runs /\ runs[RunDir(Step.exp)].suite = suites
    /\ job.half => runs[RunDir(Step.exp)].k \in {0, job.k}
    /\ job.at > 1 => out.sweep = suites
    /\ job.at > 2 => out.kstar = [suite |-> suites, k |-> job.k]
    /\ job.at > 14 => out.deltas = suites \/ NoM7(job.rows)
    /\ \A i \in 1 .. LastOf(job.ablate) :
         i < job.at /\ Plan[job.ablate][i].do = "csv" => out.csv[Plan[job.ablate][i].group] = suites

\* After it: the index names runs of the suite, and all that it lists is there.
AllDone ==
  Ended =>
    /\ RowsOf(out.index.rows, out.index.k)
    /\ out.sweep = suites
    /\ out.kstar = [suite |-> suites, k |-> out.index.k]
    /\ out.deltas = suites \/ NoM7(out.index.rows)
    /\ out.index.suite = suites
    /\ out.index.ablated => \A g \in Group : out.csv[g] = suites

SuiteInv == suites \in Nat /\ OutIs /\ SoFar /\ AllDone

\* Nothing changes for a suite that has ended until the next begins.
LEMMA DoneStays ==
  ASSUME AllDone, UNCHANGED <<job, out, runs, suites, lost>>
  PROVE  AllDone'
BY DEF AllDone, Ended, Lost, RowsOf, NoM7

\* A suite that is running has not ended.
LEMMA RunningIsNotEnded ==
  ASSUME job'.on PROVE AllDone'
BY DEF AllDone, Ended
\* The comparison is passed over by no step, nor are k* and the tables.
LEMMA NextDue ==
  ASSUME JobInv, Step.do # "index"
  PROVE  /\ Advance = [on |-> job.on, at |-> Advance.at, half |-> job.half, ablate |-> job.ablate,
                       sweep |-> job.sweep, k |-> job.k, rows |-> job.rows, group |-> job.group]
         /\ Advance.at \in 1 .. LastOf(job.ablate) /\ job.at < Advance.at
         /\ job.at = 1 => Advance.at = 2
         /\ job.at < 14 => Advance.at <= 14
         /\ \A i \in 1 .. LastOf(job.ablate) :
              i < Advance.at /\ Plan[job.ablate][i].do = "csv" => i < job.at \/ i = job.at
<1> DEFINE a == job.ablate
           last == LastOf(a)
           at == Advance.at
<1>1. a \in BOOLEAN /\ job.at \in 1 .. last /\ last \in Nat /\ last > 14
  BY DEF JobInv, LastOf
<1>2. Advance = [job EXCEPT !.at = at]
  BY AdvanceIs
<1>3. /\ at \in 1 .. last /\ job.at < at
      /\ \A i \in 1 .. last : job.at < i /\ i < at => Plan[a][i].do = "run"
  BY AdvanceIs
<1>4. Plan[a][2].do = "kstar" /\ Plan[a][14].do = "deltas"
  BY <1>1, PlanIs
<1> HIDE DEF at, last
<1>5. Advance = [on |-> job.on, at |-> at, half |-> job.half, ablate |-> a,
                 sweep |-> job.sweep, k |-> job.k, rows |-> job.rows, group |-> job.group]
  BY <1>2 DEF JobInv
<1> HIDE DEF a
<1>6. job.at = 1 => at = 2
  <2>1. ASSUME 2 < at, job.at = 1 PROVE FALSE
    <3>1. 2 \in 1 .. last
      BY <1>1
    <3>2. Plan[a][2].do = "run"
      BY <1>3, <2>1, <3>1
    <3> QED BY <1>4, <3>2
  <2> QED BY <1>1, <1>3, <2>1
<1>7. job.at < 14 => at <= 14
  <2>1. ASSUME 14 < at, job.at < 14 PROVE FALSE
    <3>1. 14 \in 1 .. last
      BY <1>1
    <3>2. Plan[a][14].do = "run"
      BY <1>3, <2>1, <3>1
    <3> QED BY <1>4, <3>2
  <2> QED BY <1>1, <1>3, <2>1
<1>8. \A i \in 1 .. last : i < at /\ Plan[a][i].do = "csv" => i < job.at \/ i = job.at
  BY <1>1, <1>3
<1> QED BY <1>3, <1>5, <1>6, <1>7, <1>8 DEF a, at, last

\* A suite that begins has done nothing.
LEMMA BeginStep ==
  ASSUME SuiteInv, JobInv, JobInv', Begin
  PROVE  SuiteInv'
<1>1. PICK ablate \in BOOLEAN : job' = [NoJob EXCEPT !.on = TRUE, !.ablate = ablate]
  BY DEF Begin
<1> DEFINE rows == NoJob.rows
<1>2. NoJob = [on |-> FALSE, at |-> 1, half |-> FALSE, ablate |-> FALSE, sweep |-> NoSweep,
               k |-> 0, rows |-> rows, group |-> {}]
  BY DEF NoJob
<1>3. DOMAIN rows = {}
  BY DEF NoJob
<1> HIDE DEF rows
<1>4. job' = [on |-> TRUE, at |-> 1, half |-> FALSE, ablate |-> ablate, sweep |-> NoSweep,
              k |-> 0, rows |-> rows, group |-> {}]
  BY <1>1, <1>2
<1>5. suites' = suites + 1 /\ out' = out /\ runs' = runs /\ suites \in Nat
  BY DEF Begin, SuiteInv
<1>6. SoFar'
  <2>1. job'.at = 1 /\ job'.half = FALSE /\ job'.rows = rows /\ suites' > 0
    BY <1>4, <1>5
  <2> QED BY <1>3, <2>1 DEF SoFar, RowsOf
<1>7. AllDone'
  BY <1>4, RunningIsNotEnded
<1> QED BY <1>5, <1>6, <1>7 DEF SuiteInv, OutIs

\* What a step has to do so that the suite may go on to the next.
LEMMA Onward ==
  ASSUME SuiteInv, JobInv, job.on, Step.do # "index",
         suites' = suites, job'.at = Advance.at, job'.half = FALSE, job'.ablate = job.ablate,
         RowsOf(job.rows, job.k)',
         out'.sweep = IF job.at = 1 THEN suites ELSE out.sweep,
         job.at = 1 => job'.rows = job.rows,
         job.at = 2 => out'.kstar = [suite |-> suites, k |-> job'.k],
         job.at # 2 => job'.k = job.k /\ out'.kstar = out.kstar,
         job.at = 14 => out'.deltas = suites \/ NoM7(job'.rows),
         job.at > 14 => out'.deltas = out.deltas /\ job'.rows = job.rows,
         Step.do = "csv" => out'.csv[Step.group] = suites,
         \A g \in Group : out'.csv[g] \in {suites, out.csv[g]}
  PROVE  SoFar'
<1> DEFINE a == job.ablate
           last == LastOf(a)
           at == Advance.at
<1>1. a \in BOOLEAN /\ job.at \in 1 .. last /\ last \in Nat
  BY DEF JobInv, LastOf
<1>2. /\ at \in 1 .. last /\ job.at < at
      /\ job.at = 1 => at = 2
      /\ job.at < 14 => at <= 14
      /\ \A i \in 1 .. last : i < at /\ Plan[a][i].do = "csv" => i < job.at \/ i = job.at
  BY NextDue
<1>3. ASSUME NEW i \in 1 .. last, Plan[a][i].do = "csv" PROVE Plan[a][i].group \in Group
  <2>1. \A j \in 3 .. 13 : Plan[a][j].do = "run"
    BY <1>1, PlanIs
  <2>2. Plan[a][1].do = "sweep" /\ Plan[a][2].do = "kstar" /\ Plan[a][14].do = "deltas"
    BY <1>1, PlanIs
  <2>3. Plan[a][last].do = "index"
    BY <1>1, PlanIs
  <2>4. i \in 15 .. last - 1
    BY <1>1, <1>3, <2>1, <2>2, <2>3
  <2> QED BY <1>1, <1>3, <2>4, PlanIs
<1> HIDE DEF last, at
<1>4. at > 1 => out'.sweep = suites
  BY <1>1 DEF SuiteInv, SoFar
<1>5. at > 2 => out'.kstar = [suite |-> suites, k |-> job'.k]
  BY <1>1, <1>2 DEF SuiteInv, SoFar
<1>6. at > 14 => out'.deltas = suites \/ NoM7(job'.rows)
  BY <1>1, <1>2 DEF SuiteInv, SoFar
<1>7. ASSUME NEW i \in 1 .. last, i < at, Plan[a][i].do = "csv"
      PROVE  out'.csv[Plan[a][i].group] = suites
  <2>1. Plan[a][i].group \in Group
    BY <1>3, <1>7
  <2>2. CASE i = job.at
    BY <1>7, <2>2 DEF Step
  <2>3. CASE i < job.at
    BY <1>7, <2>1, <2>3 DEF SuiteInv, SoFar, last
  <2> QED BY <1>2, <1>7, <2>2, <2>3
<1>8. suites > 0
  BY DEF SuiteInv, SoFar
<1>9. at <= 2 => DOMAIN job'.rows = {}
  BY <1>1, <1>2 DEF SuiteInv, SoFar
<1> QED BY <1>4, <1>5, <1>6, <1>7, <1>8, <1>9 DEF SoFar, last, at, NoM7

\* The sweep and k*.
LEMMA SweepStep ==
  ASSUME SuiteInv, JobInv, Sweep \/ FreezeKstar
  PROVE  SuiteInv'
<1> DEFINE at == Advance.at
           rows == job.rows
<1>1. /\ job.on /\ runs' = runs /\ suites' = suites /\ suites \in Nat
      /\ Step.do \in {"sweep", "kstar"} /\ job.half = FALSE
  BY DEF Sweep, FreezeKstar, At, Step, SuiteInv, JobInv
<1>2. Sweep => job.at = 1
  BY StepIs DEF Sweep, At, Step
<1>3. FreezeKstar => job.at = 2
  BY StepIs DEF FreezeKstar, At, Step
<1>4. /\ Advance = [on |-> job.on, at |-> at, half |-> job.half, ablate |-> job.ablate,
                    sweep |-> job.sweep, k |-> job.k, rows |-> rows, group |-> job.group]
  BY <1>1, NextDue
<1> HIDE DEF at, rows
<1>5. /\ job'.on /\ job'.at = at /\ job'.half = FALSE /\ job'.ablate = job.ablate
      /\ job'.rows = rows
      /\ Sweep => job'.k = job.k
  BY <1>1, <1>4 DEF Sweep, FreezeKstar
<1>6. OutIs /\ OutIs' /\ out'.csv = out.csv /\ out'.deltas = out.deltas /\ out'.index = out.index
  BY DEF SuiteInv, OutIs, Sweep, FreezeKstar
<1>7. Sweep => out'.sweep = suites /\ out'.kstar = out.kstar
  BY <1>6 DEF OutIs, Sweep
<1>8. FreezeKstar => out'.sweep = out.sweep /\ out'.kstar = [suite |-> suites, k |-> job'.k]
  <2> SUFFICES ASSUME FreezeKstar
               PROVE  out'.sweep = out.sweep /\ out'.kstar = [suite |-> suites, k |-> job'.k]
    OBVIOUS
  <2>1. PICK k : /\ out' = [out EXCEPT !.kstar = [suite |-> suites, k |-> k]]
                 /\ job' = [Advance EXCEPT !.k = k, !.sweep = NoSweep]
    BY DEF FreezeKstar
  <2>2. job'.k = k
    BY <1>4, <2>1
  <2> QED BY <1>6, <2>1, <2>2 DEF OutIs
<1>9. RowsOf(job.rows, job.k)'
  <2>1. DOMAIN rows = {}
    BY <1>1, <1>2, <1>3 DEF SuiteInv, SoFar, rows
  <2> QED BY <1>5, <2>1 DEF RowsOf
<1>10. SoFar'
  <2>1. /\ job'.at = Advance.at /\ job'.half = FALSE /\ job'.ablate = job.ablate
        /\ job'.rows = job.rows
    BY <1>5 DEF at, rows
  <2>2. /\ job.at \in {1, 2}
        /\ out'.sweep = IF job.at = 1 THEN suites ELSE out.sweep
        /\ job.at = 2 => out'.kstar = [suite |-> suites, k |-> job'.k]
        /\ job.at # 2 => job'.k = job.k /\ out'.kstar = out.kstar
    BY <1>2, <1>3, <1>5, <1>7, <1>8
  <2>3. Step.do # "index" /\ Step.do # "csv" /\ \A g \in Group : out'.csv[g] \in {suites, out.csv[g]}
    BY <1>1, <1>6
  <2>4. job.at # 14 /\ ~(job.at > 14)
    BY <2>2
  <2>5. job.on /\ suites' = suites
    BY <1>1
  <2> QED BY <1>9, <2>1, <2>2, <2>3, <2>4, <2>5, Onward, Zenon
<1>11. AllDone'
  BY <1>5, RunningIsNotEnded
<1> QED BY <1>1, <1>6, <1>10, <1>11 DEF SuiteInv
\* An experiment is trained: rows that named its directory name a run of this
\* suite still.
LEMMA TrainStep ==
  ASSUME SuiteInv, JobInv, DataInv, Train
  PROVE  SuiteInv'
<1> DEFINE e == Step.exp
<1>1. /\ job.on /\ ~job.half /\ Step.do = "run" /\ e \in Exps
      /\ runs' = Put(RunDir(e), Trained(e))
      /\ job' = [job EXCEPT !.half = TRUE]
      /\ out' = out /\ suites' = suites
  BY StepIs DEF Train, At, Step
<1> HIDE DEF e
<1>2. /\ DOMAIN runs' = DOMAIN runs \cup {RunDir(e)}
      /\ \A d \in DOMAIN runs \ {RunDir(e)} : runs'[d] = runs[d]
      /\ runs'[RunDir(e)].suite = suites
      /\ runs'[RunDir(e)].k = IF e.star THEN job.k ELSE 0
      /\ RunDir(e) \in DOMAIN runs => runs'[RunDir(e)].scores = runs[RunDir(e)].scores
  BY <1>1, OneRun DEF DataInv
<1>3. /\ job'.on /\ job'.at = job.at /\ job'.half = TRUE /\ job'.ablate = job.ablate
      /\ job'.rows = job.rows /\ job'.k = job.k
  BY <1>1 DEF JobInv
<1>4. RowsOf(job.rows, job.k)'
  <2>1. RowsOf(job.rows, job.k)
    BY <1>1 DEF SuiteInv, SoFar
  <2> SUFFICES ASSUME NEW b \in DOMAIN job.rows, job.rows[b] # Error
               PROVE  /\ job.rows[b] \in DOMAIN runs'
                      /\ runs'[job.rows[b]].suite = suites /\ runs'[job.rows[b]].scores = suites
                      /\ runs'[job.rows[b]].k \in {0, job.k}
    BY <1>1, <1>3 DEF RowsOf
  <2>2. /\ job.rows[b] \in DOMAIN runs
        /\ runs[job.rows[b]].suite = suites /\ runs[job.rows[b]].scores = suites
        /\ runs[job.rows[b]].k \in {0, job.k}
    BY <2>1 DEF RowsOf
  <2> QED BY <1>2, <2>2
<1>5. RunDir(Step.exp)' = RunDir(e)
  BY <1>3 DEF RunDir, Step, e
<1>6. SoFar'
  <2>1. runs'[RunDir(e)].k \in {0, job.k}
    BY <1>2
  <2> QED BY <1>1, <1>2, <1>3, <1>4, <1>5, <2>1 DEF SuiteInv, SoFar, NoM7
<1>7. AllDone'
  BY <1>3, RunningIsNotEnded
<1> QED BY <1>1, <1>6, <1>7 DEF SuiteInv, OutIs

\* A run ends well or in an error: its row tells which, and the others stay.
LEMMA RunStep ==
  ASSUME SuiteInv, JobInv, DataInv, Score \/ RunRaises
  PROVE  SuiteInv'
<1> DEFINE e == Step.exp
           dir == RunDir(e)
<1>1. /\ job.on /\ Step.do = "run" /\ out' = out /\ suites' = suites
      /\ e.group = "baseline" => job.at < 14
      /\ job.at > 2
  BY StepIs DEF Score, RunRaises, At, Step
<1>2. PICK row : /\ job' = Listed(e, row)
                 /\ row = Error \/ (row = dir /\ job.half /\ runs' = [runs EXCEPT ![dir].scores = suites])
  BY DEF Score, RunRaises, Recorded
<1>3. \/ runs' = runs
      \/ job.half /\ runs' = [runs EXCEPT ![dir].scores = suites]
  BY RaisedIs DEF Score
<1>4. job.half => dir \in DOMAIN runs /\ runs[dir].suite = suites /\ runs[dir].k \in {0, job.k}
  BY <1>1 DEF SuiteInv, SoFar
<1> HIDE DEF dir, e
<1>5. \A d \in DOMAIN runs :
        /\ d \in DOMAIN runs'
        /\ runs'[d].suite = runs[d].suite /\ runs'[d].k = runs[d].k
        /\ runs'[d].scores \in {suites, runs[d].scores}
  <2>1. \A d \in DOMAIN runs : IsRun(runs[d])
    BY DEF DataInv
  <2>2. CASE runs' = runs
    BY <2>2
  <2>3. CASE runs' = [runs EXCEPT ![dir].scores = suites]
    BY <2>1, <2>3, ScoresOnly
  <2> QED BY <1>3, <2>2, <2>3
<1>6. row # Error => dir \in DOMAIN runs' /\ runs'[dir].scores = suites
  <2>1. \A d \in DOMAIN runs : IsRun(runs[d])
    BY DEF DataInv
  <2> SUFFICES ASSUME row # Error PROVE dir \in DOMAIN runs' /\ runs'[dir].scores = suites
    OBVIOUS
  <2>2. job.half /\ runs' = [runs EXCEPT ![dir].scores = suites]
    BY <1>2
  <2>3. dir \in DOMAIN runs
    BY <1>4, <2>2
  <2>4. /\ DOMAIN runs' = DOMAIN runs
        /\ \A d \in DOMAIN runs :
             runs'[d].scores = IF d = dir THEN suites ELSE runs[d].scores
    BY <2>1, <2>2, ScoresOnly
  <2> QED BY <2>3, <2>4
<1> DEFINE rows == IF e.group = "baseline" THEN Row(e.name, row) ELSE job.rows
<1>7. /\ job'.on = job.on /\ job'.at = Advance.at /\ job'.half = FALSE
      /\ job'.ablate = job.ablate /\ job'.k = job.k /\ job'.rows = rows
  <2> DEFINE group == IF e.group = "baseline" THEN job.group ELSE job.group \cup {row = Error}
  <2>1. job' = [on |-> job.on, at |-> Advance.at, half |-> FALSE, ablate |-> job.ablate,
                sweep |-> job.sweep, k |-> job.k, rows |-> rows, group |-> group]
    BY <1>1, <1>2, ListedIs
  <2> HIDE DEF rows, group
  <2> QED BY <2>1
<1>8. \A b \in DOMAIN rows : rows[b] = row \/ (b \in DOMAIN job.rows /\ rows[b] = job.rows[b])
  BY DEF Row
<1>9. job.at > 14 => rows = job.rows
  BY <1>1 DEF JobInv, LastOf
<1> HIDE DEF rows
<1>10. RowsOf(job.rows, job.k)'
  <2>1. RowsOf(job.rows, job.k)
    BY <1>1 DEF SuiteInv, SoFar
  <2> SUFFICES ASSUME NEW b \in DOMAIN rows, rows[b] # Error
               PROVE  /\ rows[b] \in DOMAIN runs'
                      /\ runs'[rows[b]].suite = suites /\ runs'[rows[b]].scores = suites
                      /\ runs'[rows[b]].k \in {0, job.k}
    BY <1>1, <1>7 DEF RowsOf
  <2>2. CASE rows[b] = row
    BY <1>2, <1>4, <1>5, <1>6, <2>2
  <2>3. CASE b \in DOMAIN job.rows /\ rows[b] = job.rows[b]
    BY <1>5, <2>1, <2>3 DEF RowsOf
  <2> QED BY <1>8, <2>2, <2>3
<1>11. SoFar'
  <2>1. job.at # 1 /\ job.at # 2 /\ job.at # 14
    BY <1>1, StepIs
  <2>2. out'.sweep = IF job.at = 1 THEN suites ELSE out.sweep
    BY <1>1, <2>1
  <2>3. \A g \in Group : out'.csv[g] \in {suites, out.csv[g]}
    BY <1>1
  <2>4. Step.do # "index" /\ Step.do # "csv"
    BY <1>1
  <2>5. job.at > 14 => out'.deltas = out.deltas /\ job'.rows = job.rows
    BY <1>1, <1>7, <1>9
  <2>6. job'.k = job.k /\ out'.kstar = out.kstar
    BY <1>1, <1>7
  <2> QED BY <1>1, <1>7, <1>10, <2>1, <2>2, <2>3, <2>4, <2>5, <2>6, Onward, Zenon
<1>12. AllDone'
  BY <1>1, <1>7, RunningIsNotEnded
<1> QED BY <1>1, <1>11, <1>12 DEF SuiteInv, OutIs
\* The comparison and the table of a group; a table whose rows differ ends the suite.
LEMMA TableStep ==
  ASSUME SuiteInv, JobInv, CompareWithM7 \/ WriteGroup, job' # NoJob
  PROVE  SuiteInv'
<1> DEFINE at == Advance.at
<1>1. /\ job.on /\ runs' = runs /\ suites' = suites
      /\ Step.do \in {"deltas", "csv"} /\ job.half = FALSE
  BY DEF CompareWithM7, WriteGroup, At, Step, JobInv
<1>2. CompareWithM7 => Step.do = "deltas"
  BY DEF CompareWithM7, At, Step
<1>3. WriteGroup => Step.do = "csv" /\ Step.group \in Group
  BY StepIs DEF WriteGroup, At, Step
<1>4. Advance = [on |-> job.on, at |-> at, half |-> job.half, ablate |-> job.ablate,
                 sweep |-> job.sweep, k |-> job.k, rows |-> job.rows, group |-> job.group]
  BY <1>1, NextDue
<1> HIDE DEF at
<1>5. /\ job'.on = job.on /\ job'.at = at /\ job'.half = FALSE /\ job'.ablate = job.ablate
      /\ job'.rows = job.rows /\ job'.k = job.k
  <2>1. job' = Advance \/ job' = [Advance EXCEPT !.group = {}]
    BY DEF CompareWithM7, WriteGroup
  <2>2. CASE job' = Advance
    BY <1>1, <1>4, <2>2
  <2>3. CASE job' = [Advance EXCEPT !.group = {}]
    BY <1>1, <1>4, <2>3
  <2> QED BY <2>1, <2>2, <2>3
<1>6. /\ OutIs' /\ out'.index = out.index /\ out'.sweep = out.sweep /\ out'.kstar = out.kstar
      /\ CompareWithM7 => out'.csv = out.csv
      /\ WriteGroup => /\ out'.csv = [out.csv EXCEPT ![Step.group] = suites]
                       /\ out'.deltas = out.deltas
  BY DEF SuiteInv, OutIs, CompareWithM7, WriteGroup
<1>7. CompareWithM7 => out'.deltas = suites \/ NoM7(job.rows)
  <2> SUFFICES ASSUME CompareWithM7, ~NoM7(job.rows) PROVE out'.deltas = suites
    OBVIOUS
  <2>1. runs[job.rows["m7"]].scores = suites /\ suites \in Nat /\ suites > 0
    BY <1>1 DEF SuiteInv, SoFar, RowsOf, NoM7
  <2>2. out' = [out EXCEPT !.deltas = suites]
    BY <2>1 DEF CompareWithM7, NoM7
  <2> QED BY <2>2 DEF SuiteInv, OutIs
<1>8. RowsOf(job.rows, job.k)'
  BY <1>1, <1>5 DEF SuiteInv, SoFar, RowsOf
<1>9. SoFar'
  <2>1. job.at \in Nat /\ (job.at = 14 <=> Step.do = "deltas") /\ (Step.do = "csv" => job.at > 14)
    BY <1>1, StepIs DEF JobInv
  <2>2. job.at # 1 /\ job.at # 2
    BY <1>1, <2>1
  <2>3. out'.sweep = IF job.at = 1 THEN suites ELSE out.sweep
    BY <1>6, <2>2
  <2>4. job.at = 14 => out'.deltas = suites \/ NoM7(job'.rows)
    BY <1>2, <1>3, <1>5, <1>7, <2>1
  <2>5. job.at > 14 => out'.deltas = out.deltas /\ job'.rows = job.rows
    BY <1>2, <1>5, <1>6, <2>1
  <2>6. Step.do = "csv" => out'.csv[Step.group] = suites
    BY <1>2, <1>3, <1>6 DEF SuiteInv, OutIs
  <2>7. \A g \in Group : out'.csv[g] \in {suites, out.csv[g]}
    BY <1>6 DEF SuiteInv, OutIs
  <2>8. Step.do # "index" /\ job'.at = Advance.at
    BY <1>1, <1>5 DEF at
  <2> QED BY <1>1, <1>5, <1>6, <1>8, <2>2, <2>3, <2>4, <2>5, <2>6, <2>7, <2>8, Onward, Zenon
<1>10. AllDone'
  BY <1>1, <1>5, RunningIsNotEnded
<1> QED BY <1>1, <1>6, <1>9, <1>10 DEF SuiteInv

\* A suite that dies, or whose rows differ, is lost.
LEMMA LostStep ==
  ASSUME SuiteInv, job.on, job' = NoJob, OutIs', suites' = suites,
         \E by : lost' = lost \cup {[suite |-> suites, by |-> by]}
  PROVE  SuiteInv'
<1>1. suites' \in Lost'
  <2>1. PICK by : lost' = lost \cup {[suite |-> suites, by |-> by]}
    OBVIOUS
  <2>2. [suite |-> suites, by |-> by] \in lost'
    BY <2>1
  <2> QED BY <2>2 DEF Lost
<1>2. ~job'.on
  BY DEF NoJob
<1> QED BY <1>1, <1>2 DEF SuiteInv, SoFar, AllDone, Ended

\* A suite with ablations writes the table of every group before its index.
LEMMA TablesAreDue ==
  ASSUME NEW ablate \in BOOLEAN, ablate, NEW g \in Group
  PROVE  \E i \in 15 .. LastOf(ablate) - 1 : Plan[ablate][i] = [do |-> "csv", group |-> g]
BY PlanIs

\* The index is written last, when everything else has been.
LEMMA IndexStep ==
  ASSUME SuiteInv, JobInv, WriteIndex
  PROVE  SuiteInv'
<1>1. /\ job.on /\ runs' = runs /\ suites' = suites /\ job' = NoJob
      /\ Step.do = "index"
      /\ out' = [out EXCEPT !.index = [suite |-> suites, k |-> job.k, ablated |-> job.ablate,
                                       rows |-> job.rows]]
  BY DEF WriteIndex, At, Step
<1>2. ~job'.on
  BY <1>1 DEF NoJob
<1>3. /\ job.at = LastOf(job.ablate) /\ job.at > 14 /\ job.at \in Nat
      /\ job.ablate \in BOOLEAN
  BY <1>1, StepIs DEF JobInv, LastOf
<1>4. /\ out'.index = [suite |-> suites, k |-> job.k, ablated |-> job.ablate, rows |-> job.rows]
      /\ out'.sweep = out.sweep /\ out'.kstar = out.kstar /\ out'.deltas = out.deltas
      /\ out'.csv = out.csv /\ OutIs'
  BY <1>1 DEF SuiteInv, OutIs
<1>5. ASSUME job.ablate, NEW g \in Group PROVE out.csv[g] = suites
  <2>1. PICK i \in 15 .. LastOf(job.ablate) - 1 :
          Plan[job.ablate][i] = [do |-> "csv", group |-> g]
    BY <1>3, <1>5, TablesAreDue
  <2>2. i \in 1 .. LastOf(job.ablate) /\ i < job.at
    BY <1>3 DEF LastOf
  <2> QED BY <1>1, <2>1, <2>2 DEF SuiteInv, SoFar
<1>6. /\ out.sweep = suites /\ out.kstar = [suite |-> suites, k |-> job.k]
      /\ out.deltas = suites \/ NoM7(job.rows)
      /\ RowsOf(job.rows, job.k)
  BY <1>1, <1>3 DEF SuiteInv, SoFar
<1>7. RowsOf(out.index.rows, out.index.k)'
  BY <1>1, <1>4, <1>6 DEF RowsOf
<1>8. out'.deltas = suites \/ NoM7(out'.index.rows)
  BY <1>4, <1>6
<1>9. AllDone'
  BY <1>1, <1>4, <1>5, <1>6, <1>7, <1>8 DEF AllDone, NoM7
<1> QED BY <1>1, <1>2, <1>4, <1>9 DEF SuiteInv, SoFar

\* Whatever step is taken, what has been written is told by where the suite is.
LEMMA SuiteStep == JobInv /\ JobInv' /\ DataInv /\ SuiteInv /\ [Next]_vars => SuiteInv'
<1> SUFFICES ASSUME JobInv, JobInv', DataInv, SuiteInv, [Next]_vars PROVE SuiteInv'
  OBVIOUS
<1>1. CASE Begin
  BY <1>1, BeginStep
<1>2. CASE Sweep \/ FreezeKstar
  BY <1>2, SweepStep
<1>3. CASE Train
  BY <1>3, TrainStep
<1>4. CASE Score \/ RunRaises
  BY <1>4, RunStep
<1>5. CASE CompareWithM7 \/ WriteGroup
  <2>1. CASE job' # NoJob
    BY <1>5, <2>1, TableStep
  <2>2. CASE job' = NoJob
    <3>1. job.on /\ ~job'.on /\ suites' = suites
      BY <1>5, <2>2 DEF CompareWithM7, WriteGroup, At, NoJob
    <3>2. OutIs'
      BY <1>5 DEF SuiteInv, OutIs, CompareWithM7, WriteGroup
    <3>3. ~CompareWithM7
      <4>1. Step.do = "deltas" => Advance.on = job.on
        BY NextDue
      <4> QED BY <3>1, <4>1 DEF CompareWithM7, At, Step
    <3>4. lost' = lost \cup {[suite |-> suites, by |-> "csv"]}
      <4>1. Step.do = "csv" => [Advance EXCEPT !.group = {}].on = job.on
        BY NextDue
      <4> QED BY <1>5, <3>1, <3>3, <4>1 DEF WriteGroup, At, Step
    <3> QED BY <2>2, <3>1, <3>2, <3>4, LostStep
  <2> QED BY <2>1, <2>2
<1>6. CASE WriteIndex
  BY <1>6, IndexStep
<1>7. CASE Die
  BY <1>7, LostStep DEF Die, SuiteInv, OutIs
<1>8. CASE UNCHANGED vars
  <2>1. UNCHANGED <<job, out, runs, suites, lost>>
    BY <1>8 DEF vars
  <2>2. AllDone'
    BY <2>1, DoneStays DEF SuiteInv
  <2>3. SoFar'
    BY <2>1 DEF SuiteInv, SoFar, RowsOf, NoM7, RunDir, Step
  <2> QED BY <2>1, <2>2, <2>3 DEF SuiteInv, OutIs
<1> QED BY <1>1, <1>2, <1>3, <1>4, <1>5, <1>6, <1>7, <1>8 DEF Next, Work
\* What the files of a root tell of the suite that runs or ran last, as long as it
\* is not lost, however earlier suites ended.
LEMMA SuiteIsSound == Spec => []SuiteInv
<1>1. Init => SuiteInv
  BY DEF Init, SuiteInv, OutIs, SoFar, AllDone, Ended, NoJob
<1> QED BY <1>1, SuiteStep, JobIsSound, DataIsSound, PTL DEF Spec

-----------------------------------------------------------------------------
(* Reports. *)

\* The metrics that a report reads are of whole runs of the suite.
LEMMA MetricsAre ==
  ASSUME SuiteInv, Ended, NEW b \in DOMAIN Metrics
  PROVE  /\ Metrics[b].suite = suites /\ Metrics[b].scores = suites
         /\ Metrics[b].k \in {0, out.index.k}
<1>1. RowsOf(out.index.rows, out.index.k)
  BY DEF SuiteInv, AllDone
<1>2. /\ b \in DOMAIN out.index.rows /\ out.index.rows[b] # Error
      /\ Metrics[b] = runs[out.index.rows[b]]
  BY DEF Metrics
<1> QED BY <1>1, <1>2 DEF RowsOf

\* The dataset that a report describes is the one that was used, unless some
\* directory has a feature manifest only.
LEMMA DatasetIs ==
  ASSUME root \in Roots
  PROVE  Described = Data \/ \E i \in DOMAIN root : root[i].feature /\ ~root[i].split
<1> SUFFICES ASSUME ~ \E i \in DOMAIN root : root[i].feature /\ ~root[i].split
             PROVE  Described = Data
  OBVIOUS
<1>1. \A i \in DOMAIN root : root[i].split => root[i].feature
  BY RootsAssumption
<1>2. {i \in DOMAIN root : root[i]["split"]} = {i \in DOMAIN root : root[i]["feature"]}
  BY <1>1
<1> QED BY <1>2 DEF Described, Data, FirstWith

\* After a suite that ended, a report shows that suite, whatever was in the root
\* before it, and whichever of its own experiments failed.
THEOREM ReportsShowOneSuite == Spec => []ReportIsOfOneSuite
<1>1. SuiteInv /\ DataInv => ReportIsOfOneSuite
  <2> SUFFICES ASSUME SuiteInv, DataInv, Ended PROVE ReportIsOfOneSuite
    BY DEF ReportIsOfOneSuite
  <2>1. /\ out.sweep = suites /\ out.kstar = [suite |-> suites, k |-> out.index.k]
        /\ out.deltas = suites \/ NoM7(out.index.rows)
        /\ out.index.suite = suites
        /\ out.index.ablated => \A g \in Group : out.csv[g] = suites
        /\ suites \in Nat /\ suites # 0
    BY DEF SuiteInv, AllDone, Ended
  <2>2. \A b \in DOMAIN Metrics : Metrics[b].suite = suites /\ Metrics[b].scores = suites
    BY MetricsAre
  <2>3. \A b \in DOMAIN Metrics : Metrics[b].k \in {0, out.index.k}
    BY MetricsAre
  <2>4. FrozenKstar = [suite |-> suites, k |-> out.index.k]
    BY <2>1 DEF FrozenKstar
  <2>5. EerBar \subseteq {suites} /\ PerScene \subseteq {suites} /\ RocCurves \subseteq {suites}
    BY <2>2 DEF EerBar, PerScene, RocCurves
  <2>6. ExpertTables \subseteq {suites} /\ Pareto \subseteq {suites} /\ Of(out.sweep) \subseteq {suites}
    BY <2>1, <2>2 DEF ExpertTables, Pareto, Of
  <2>7. \A names : GroupedBars(names) \subseteq {suites}
    BY <2>2 DEF GroupedBars
  <2>8. out.index.ablated =>
          /\ PrivacyBars \subseteq {suites} /\ AblationTable \subseteq {suites}
          /\ Of(out.csv["feature"]) \subseteq {suites} /\ Of(out.csv["sensor"]) \subseteq {suites}
    BY <2>1, <2>7 DEF PrivacyBars, AblationTable, Of, Group
  <2>9. Report.summary \subseteq {suites}
    BY <2>4, <2>7 DEF Report, Summary
  <2>10. \A f \in DOMAIN Figures :
           Figures[f] \subseteq {suites} \/ (f \in Ablations /\ ~out.index.ablated)
    BY <2>5, <2>6, <2>7, <2>8 DEF Figures, Ablations
  <2>11. \A t \in DOMAIN Tables :
           Tables[t] \subseteq {suites} \/ (t = "ablations" /\ ~out.index.ablated)
    BY <2>5, <2>6, <2>8 DEF Tables
  <2>12. Report.deltas = suites \/ "m7" \notin DOMAIN Metrics
    BY <2>1 DEF Report, Metrics, NoM7
  <2>13. \A b \in DOMAIN Metrics : Metrics[b].k \in {0, FrozenKstar.k}
    BY <2>3, <2>4
  <2>14. Report.dataset = Data \/ \E i \in DOMAIN root : root[i].feature /\ ~root[i].split
    BY DatasetIs DEF Report, DataInv
  <2> QED BY <2>9, <2>10, <2>11, <2>12, <2>13, <2>14 DEF ReportIsOfOneSuite
<1> QED BY <1>1, SuiteIsSound, DataIsSound, PTL
-----------------------------------------------------------------------------
(* The paired test. *)

\* A set has twice as many subsets with one more member.
LEMMA SubsetsDouble ==
  ASSUME NEW S, IsFiniteSet(S), NEW x, x \notin S
  PROVE  /\ IsFiniteSet(SUBSET S) /\ Cardinality(SUBSET S) \in Nat
         /\ Cardinality(SUBSET (S \cup {x})) = 2 * Cardinality(SUBSET S)
<1> DEFINE A == SUBSET S
           B == {T \cup {x} : T \in A}
           f == [T \in A |-> T \cup {x}]
<1>1. IsFiniteSet(A) /\ Cardinality(A) \in Nat
  BY FS_SUBSET, FS_CardinalityType
<1>2. f \in Bijection(A, B)
  <2>1. f \in [A -> B] /\ \A T \in B : \E U \in A : f[U] = T
    OBVIOUS
  <2>2. \A T, U \in A : f[T] = f[U] => T = U
    <3> SUFFICES ASSUME NEW T \in A, NEW U \in A, f[T] = f[U] PROVE T = U
      OBVIOUS
    <3>1. T \cup {x} = U \cup {x} /\ x \notin T /\ x \notin U
      OBVIOUS
    <3> QED BY <3>1
  <2> HIDE DEF A, B, f
  <2>3. f \in Injection(A, B)
    BY <2>1, <2>2 DEF Injection, IsInjective
  <2>4. f \in Surjection(A, B)
    BY <2>1 DEF Surjection
  <2> QED BY <2>3, <2>4 DEF Bijection
<1>3. IsFiniteSet(B) /\ Cardinality(B) = Cardinality(A)
  <2>1. ExistsBijection(A, B)
    BY <1>2 DEF ExistsBijection
  <2> HIDE DEF A, B, f
  <2> QED BY <1>1, <2>1, FS_Bijection
<1>4. SUBSET (S \cup {x}) = A \cup B
  <2>1. ASSUME NEW T \in SUBSET (S \cup {x}) PROVE T \in A \cup B
    <3>1. CASE x \in T
      <4>1. T \ {x} \in A /\ T = (T \ {x}) \cup {x}
        BY <3>1
      <4> QED BY <4>1
    <3>2. CASE x \notin T
      BY <3>2
    <3> QED BY <3>1, <3>2
  <2> QED BY <2>1
<1>5. A \cap B = {}
  OBVIOUS
<1>6. Cardinality(A \cup B) = Cardinality(A) + Cardinality(B) - Cardinality(A \cap B)
  <2> HIDE DEF A, B
  <2> QED BY <1>1, <1>3, FS_Union
<1>7. Cardinality(A \cup B) = 2 * Cardinality(A)
  <2> HIDE DEF A, B
  <2>1. Cardinality(A \cap B) = 0
    BY <1>5, FS_EmptySet
  <2> QED BY <1>1, <1>3, <1>6, <2>1
<1> QED BY <1>1, <1>4, <1>7

\* So of k members or more there are at least as many subsets as of k ...
AtLeast(k, n) ==
  \A S : IsFiniteSet(S) /\ Cardinality(S) >= k => Cardinality(SUBSET S) >= n

\* ... and of k or fewer at most as many.
AtMost(k, n) ==
  \A S : IsFiniteSet(S) /\ Cardinality(S) <= k => Cardinality(SUBSET S) <= n

\* With one more member both double.
LEMMA BoundsDouble ==
  ASSUME NEW k \in Nat, NEW n \in Nat
  PROVE  /\ AtLeast(k, n) => AtLeast(k + 1, 2 * n)
         /\ AtMost(k, n) /\ n > 0 => AtMost(k + 1, 2 * n)
<1>1. ASSUME NEW S, IsFiniteSet(S), S # {}
      PROVE  \E T : /\ IsFiniteSet(T) /\ Cardinality(T) = Cardinality(S) - 1
                    /\ Cardinality(SUBSET T) \in Nat
                    /\ Cardinality(SUBSET S) = 2 * Cardinality(SUBSET T)
  <2>1. PICK x : x \in S
    BY <1>1
  <2>2. IsFiniteSet(S \ {x}) /\ Cardinality(S \ {x}) = Cardinality(S) - 1
    BY <1>1, <2>1, FS_RemoveElement
  <2>3. (S \ {x}) \cup {x} = S /\ x \notin S \ {x}
    BY <2>1
  <2>4. /\ Cardinality(SUBSET (S \ {x})) \in Nat
        /\ Cardinality(SUBSET ((S \ {x}) \cup {x})) = 2 * Cardinality(SUBSET (S \ {x}))
    BY <2>2, <2>3, SubsetsDouble
  <2> QED BY <2>2, <2>3, <2>4
<1>2. ASSUME AtLeast(k, n), NEW S, IsFiniteSet(S), Cardinality(S) >= k + 1
      PROVE  Cardinality(SUBSET S) >= 2 * n
  <2>1. Cardinality(S) \in Nat /\ S # {}
    BY <1>2, FS_CardinalityType, FS_EmptySet
  <2>2. PICK T : /\ IsFiniteSet(T) /\ Cardinality(T) = Cardinality(S) - 1
                 /\ Cardinality(SUBSET T) \in Nat
                 /\ Cardinality(SUBSET S) = 2 * Cardinality(SUBSET T)
    BY <1>1, <1>2, <2>1
  <2>3. Cardinality(T) >= k
    BY <1>2, <2>1, <2>2
  <2>4. Cardinality(SUBSET T) >= n
    BY <1>2, <2>2, <2>3 DEF AtLeast
  <2> QED BY <2>2, <2>4
<1>3. ASSUME AtMost(k, n), n > 0, NEW S, IsFiniteSet(S), Cardinality(S) <= k + 1
      PROVE  Cardinality(SUBSET S) <= 2 * n
  <2>1. CASE S = {}
    <3>1. SUBSET S = {{}}
      BY <2>1
    <3>2. Cardinality({{}}) = 1
      BY FS_Singleton
    <3>3. Cardinality(SUBSET S) = 1
      BY <3>1, <3>2
    <3>4. 1 <= 2 * n
      BY <1>3
    <3> QED BY <3>3, <3>4
  <2>2. CASE S # {}
    <3>1. Cardinality(S) \in Nat
      BY <1>3, FS_CardinalityType
    <3>2. PICK T : /\ IsFiniteSet(T) /\ Cardinality(T) = Cardinality(S) - 1
                   /\ Cardinality(SUBSET T) \in Nat
                   /\ Cardinality(SUBSET S) = 2 * Cardinality(SUBSET T)
      BY <1>1, <1>3, <2>2
    <3>3. Cardinality(T) <= k
      BY <1>3, <3>1, <3>2
    <3>4. Cardinality(SUBSET T) <= n
      BY <1>3, <3>2, <3>3 DEF AtMost
    <3> QED BY <3>2, <3>4
  <2> QED BY <2>1, <2>2
<1> QED BY <1>2, <1>3 DEF AtLeast, AtMost

\* Five users have few assignments of signs, six have many.
LEMMA Assignments ==
  ASSUME NEW S, IsFiniteSet(S)
  PROVE  /\ Cardinality(SUBSET S) \in Nat /\ Cardinality(SUBSET S) >= 1
         /\ Cardinality(S) >= 6 => Cardinality(SUBSET S) >= 64
         /\ Cardinality(S) <= 5 => Cardinality(SUBSET S) <= 32
         /\ Cardinality(SUBSET S) = 2 ^ Cardinality(S)
<1>1. \A T : IsFiniteSet(T) => Cardinality(SUBSET T) \in Nat /\ Cardinality(SUBSET T) >= 1
  <2> SUFFICES ASSUME NEW T, IsFiniteSet(T)
               PROVE  Cardinality(SUBSET T) \in Nat /\ Cardinality(SUBSET T) >= 1
    OBVIOUS
  <2>1. IsFiniteSet(SUBSET T) /\ Cardinality(SUBSET T) \in Nat
    BY FS_SUBSET, FS_CardinalityType
  <2>2. Cardinality(SUBSET T) # 0
    <3>1. {} \in SUBSET T
      OBVIOUS
    <3> QED BY <2>1, <3>1, FS_EmptySet
  <2> QED BY <2>1, <2>2
<1>2. AtLeast(0, 1)
  BY <1>1 DEF AtLeast
<1>3. AtLeast(6, 64)
  <2>1. AtLeast(1, 2)
    BY <1>2, BoundsDouble
  <2>2. AtLeast(2, 4)
    BY <2>1, BoundsDouble
  <2>3. AtLeast(3, 8)
    BY <2>2, BoundsDouble
  <2>4. AtLeast(4, 16)
    BY <2>3, BoundsDouble
  <2>5. AtLeast(5, 32)
    BY <2>4, BoundsDouble
  <2> QED BY <2>5, BoundsDouble
<1>4. AtMost(5, 32)
  <2>0. AtMost(0, 1)
    <3> SUFFICES ASSUME NEW T, IsFiniteSet(T), Cardinality(T) <= 0
                 PROVE  Cardinality(SUBSET T) <= 1
      BY DEF AtMost
    <3>1. T = {}
      BY FS_CardinalityType, FS_EmptySet
    <3>2. SUBSET T = {{}}
      BY <3>1
    <3> QED BY <3>2, FS_Singleton
  <2>1. AtMost(1, 2)
    BY <2>0, BoundsDouble
  <2>2. AtMost(2, 4)
    BY <2>1, BoundsDouble
  <2>3. AtMost(3, 8)
    BY <2>2, BoundsDouble
  <2>4. AtMost(4, 16)
    BY <2>3, BoundsDouble
  <2> QED BY <2>4, BoundsDouble
<1>5. Cardinality(SUBSET S) = 2 ^ Cardinality(S)
  BY FS_SUBSET
<1> QED BY <1>1, <1>3, <1>4, <1>5 DEF AtLeast, AtMost

\* Differences of finitely many users.
Differences(d) == IsFiniteSet(DOMAIN d) /\ \A u \in DOMAIN d : d[u] \in Int

\* Users with their peers of no larger difference, who make up a sum of ranks.
Pairs(d, S) == {p \in S \X DOMAIN d : Size(d[p[2]]) <= Size(d[p[1]])}

\* Sums of ranks are numbers, and that of all users is larger than any other.
LEMMA RankSums ==
  ASSUME NEW d, Differences(d), NEW S \in SUBSET DOMAIN d
  PROVE  /\ RankSum(d, S) \in Nat
         /\ S # DOMAIN d => RankSum(d, S) < RankSum(d, DOMAIN d)
<1> DEFINE D == DOMAIN d
<1>1. \A T \in SUBSET D : IsFiniteSet(Pairs(d, T)) /\ Cardinality(Pairs(d, T)) \in Nat
  <2> SUFFICES ASSUME NEW T \in SUBSET D
               PROVE  IsFiniteSet(Pairs(d, T)) /\ Cardinality(Pairs(d, T)) \in Nat
    OBVIOUS
  <2>1. IsFiniteSet(T) /\ IsFiniteSet(D)
    BY FS_Subset DEF Differences
  <2>2. IsFiniteSet(T \X D)
    BY <2>1, FS_Product
  <2>3. Pairs(d, T) \in SUBSET (T \X D)
    BY DEF Pairs
  <2> QED BY <2>2, <2>3, FS_Subset, FS_CardinalityType
<1>2. \A T : RankSum(d, T) = Cardinality(Pairs(d, T))
  BY DEF RankSum, Pairs
<1>3. ASSUME S # D PROVE Cardinality(Pairs(d, S)) < Cardinality(Pairs(d, D))
  <2>1. PICK u \in D : u \notin S
    BY <1>3
  <2>2. Pairs(d, S) \in SUBSET (Pairs(d, D) \ {<<u, u>>})
    BY <2>1 DEF Pairs
  <2>3. <<u, u>> \in Pairs(d, D)
    <3>1. Size(d[u]) \in Int
      BY <2>1 DEF Differences, Size
    <3>2. Size(d[u]) <= Size(d[u])
      BY <3>1
    <3> QED BY <2>1, <3>2 DEF Pairs
  <2>4. /\ IsFiniteSet(Pairs(d, D) \ {<<u, u>>})
        /\ Cardinality(Pairs(d, D) \ {<<u, u>>}) = Cardinality(Pairs(d, D)) - 1
    BY <1>1, <2>3, FS_RemoveElement
  <2>5. Cardinality(Pairs(d, S)) <= Cardinality(Pairs(d, D) \ {<<u, u>>})
    BY <2>2, <2>4, FS_Subset
  <2>6. Cardinality(Pairs(d, S)) \in Nat /\ Cardinality(Pairs(d, D)) \in Nat
    BY <1>1
  <2> QED BY <2>4, <2>5, <2>6
<1> QED BY <1>1, <1>2, <1>3

\* The smaller tail of the exact distribution: never empty, and a single assignment
\* if all users differ in the same direction.
LEMMA Tails ==
  ASSUME NEW d, Differences(d)
  PROVE  LET low == {S \in SUBSET DOMAIN d : RankSum(d, S) <= RankSum(d, Wins(d))}
             high == {S \in SUBSET DOMAIN d : RankSum(d, S) >= RankSum(d, Wins(d))}
             tail == Min({Cardinality(low), Cardinality(high)})
         IN /\ tail \in Nat /\ tail >= 1
            /\ Wins(d) = DOMAIN d => tail = 1
<1> DEFINE low == {S \in SUBSET DOMAIN d : RankSum(d, S) <= RankSum(d, Wins(d))}
           high == {S \in SUBSET DOMAIN d : RankSum(d, S) >= RankSum(d, Wins(d))}
           l == Cardinality(low)  h == Cardinality(high)
<1>1. Wins(d) \in SUBSET DOMAIN d
  BY DEF Wins
<1>2. Wins(d) \in low /\ Wins(d) \in high
  <2>1. RankSum(d, Wins(d)) \in Nat
    BY <1>1, RankSums
  <2> QED BY <1>1, <2>1
<1>3. /\ IsFiniteSet(low) /\ l \in Nat /\ l >= 1
      /\ IsFiniteSet(high) /\ h \in Nat /\ h >= 1
  <2>1. IsFiniteSet(SUBSET DOMAIN d)
    BY FS_SUBSET DEF Differences
  <2>2. low \in SUBSET (SUBSET DOMAIN d) /\ high \in SUBSET (SUBSET DOMAIN d)
    OBVIOUS
  <2> HIDE DEF low, high
  <2>3. IsFiniteSet(low) /\ Cardinality(low) \in Nat /\ IsFiniteSet(high) /\ Cardinality(high) \in Nat
    BY <2>1, <2>2, FS_Subset, FS_CardinalityType
  <2>4. Cardinality(low) # 0 /\ Cardinality(high) # 0
    BY <1>2, <2>3, FS_EmptySet
  <2> QED BY <2>3, <2>4
<1>4. Wins(d) = DOMAIN d => h = 1
  <2> SUFFICES ASSUME Wins(d) = DOMAIN d PROVE h = 1
    OBVIOUS
  <2>1. ASSUME NEW S \in high PROVE S = DOMAIN d
    <3>1. RankSum(d, S) \in Nat /\ RankSum(d, DOMAIN d) \in Nat
      BY RankSums
    <3>2. RankSum(d, S) >= RankSum(d, DOMAIN d)
      OBVIOUS
    <3> QED BY <3>1, <3>2, RankSums
  <2>2. high = {DOMAIN d}
    BY <1>2, <2>1
  <2> HIDE DEF high
  <2> QED BY <2>2, FS_Singleton
<1> HIDE DEF low, high, l, h
<1>5. Min({l, h}) = IF l <= h THEN l ELSE h
  BY <1>3 DEF Min
<1>6. Min({l, h}) \in Nat /\ Min({l, h}) >= 1 /\ (Wins(d) = DOMAIN d => Min({l, h}) = 1)
  BY <1>3, <1>4, <1>5
<1> QED BY <1>6 DEF low, high, l, h

\* The exact test applies to distinct differences, and whatever they are it cannot
\* tell for five users; for six or more it does if all differ in the same direction.
LEMMA ExactTest ==
  ASSUME NEW d, Differences(d), Untied(d), DOMAIN d # {}
  PROVE  /\ PValues(d) = {Wilcoxon(d)}
         /\ Cardinality(DOMAIN d) <= 5 => ~Significant(Wilcoxon(d))
         /\ Cardinality(DOMAIN d) >= 6 /\ Losses(d) = {} => Significant(Wilcoxon(d))
<1> DEFINE D == DOMAIN d
           low == {S \in SUBSET D : RankSum(d, S) <= RankSum(d, Wins(d))}
           high == {S \in SUBSET D : RankSum(d, S) >= RankSum(d, Wins(d))}
           tail == Min({Cardinality(low), Cardinality(high)})
           all == 2 ^ Cardinality(D)
<1>1. IsFiniteSet(D) /\ Cardinality(D) \in Nat /\ Decisive(d) = D
  BY FS_CardinalityType DEF Differences, Untied
<1>2. PValues(d) = {Wilcoxon(d)}
  <2>1. D \ Decisive(d) = {}
    BY <1>1
  <2>2. ~(2 * Cardinality(D \ Decisive(d)) > Cardinality(D))
    BY <1>1, <2>1, FS_EmptySet
  <2> QED BY <1>1, <2>2 DEF PValues
<1>3. Wilcoxon(d) = TwoSided(tail, all)
  BY DEF Wilcoxon
<1>4. tail \in Nat /\ tail >= 1 /\ (Wins(d) = D => tail = 1)
  BY Tails
<1>5. /\ all \in Nat /\ all >= 1
      /\ Cardinality(D) >= 6 => all >= 64
      /\ Cardinality(D) <= 5 => all <= 32
  BY <1>1, Assignments
<1>6. Losses(d) = {} => Wins(d) = D
  BY <1>1 DEF Decisive
<1> HIDE DEF tail, all
<1>7. /\ Wilcoxon(d).num = IF 2 * tail < all THEN 2 * tail ELSE all
      /\ Wilcoxon(d).den = all
  BY <1>3 DEF TwoSided, Fraction
<1>8. Cardinality(D) <= 5 => ~Significant(Wilcoxon(d))
  BY <1>4, <1>5, <1>7 DEF Significant
<1>9. Cardinality(D) >= 6 /\ Losses(d) = {} => Significant(Wilcoxon(d))
  BY <1>4, <1>5, <1>6, <1>7 DEF Significant
<1> QED BY <1>2, <1>8, <1>9

-----------------------------------------------------------------------------
(* The choice of k*. *)

\* The best k is one that scored, and everybody's differences to it are numbers.
LEMMA BestKIs ==
  ASSUME NEW sweep \in Sweeps, Scored(sweep) # {}
  PROVE  /\ Scored(sweep) \in SUBSET (1 .. 7)
         /\ BestK(sweep) \in Scored(sweep) /\ AsGood(sweep, BestK(sweep))
         /\ \A k \in Scored(sweep) : Differences(Difference(sweep, k))
<1> DEFINE S == Scored(sweep)
           Bests == {k \in S : \A j \in S : sweep[k].eer <= sweep[j].eer}
           Eers == {sweep[k].eer : k \in S}
<1>1. /\ S \in SUBSET (1 .. 7) /\ S \in SUBSET DOMAIN sweep
      /\ \A k \in S : sweep[k].eer \in 0 .. 100
  BY SuiteAssumption DEF Scored
<1>2. Bests # {}
  <2>1. Eers \in SUBSET Nat /\ Eers # {}
    BY <1>1
  <2>2. PICK e \in Eers : \A f \in Eers : e <= f
    <3> HIDE DEF Eers
    <3> QED BY <2>1, Least
  <2> QED BY <2>2
<1>3. Bests \in SUBSET Nat
  BY <1>1
<1>4. BestK(sweep) \in Bests
  <2>1. PICK m \in Bests : \A k \in Bests : m <= k
    <3> HIDE DEF Bests
    <3> QED BY <1>2, <1>3, Least
  <2>2. Min(Bests) \in Bests
    <3> HIDE DEF Bests
    <3> QED BY <2>1 DEF Min
  <2> QED BY <2>2 DEF BestK
<1>5. AsGood(sweep, BestK(sweep))
  BY <1>1, <1>4 DEF AsGood, Tolerance
<1>6. ASSUME NEW k \in S PROVE Differences(Difference(sweep, k))
  <2> DEFINE a == sweep[k].users  b == sweep[BestK(sweep)].users
             d == [u \in DOMAIN a \cap DOMAIN b |-> a[u] - b[u]]
  <2>1. /\ k \in DOMAIN sweep /\ BestK(sweep) \in DOMAIN sweep
    BY <1>1, <1>4
  <2>2. /\ IsFiniteSet(DOMAIN a)
        /\ \A u \in DOMAIN a : a[u] \in Int
        /\ \A u \in DOMAIN b : b[u] \in Int
    <3>1. \A j \in DOMAIN sweep :
            /\ IsFiniteSet(DOMAIN sweep[j].users)
            /\ \A u \in DOMAIN sweep[j].users : sweep[j].users[u] \in 0 .. 100
      BY SuiteAssumption
    <3>2. /\ \A u \in DOMAIN a : a[u] \in 0 .. 100
          /\ \A u \in DOMAIN b : b[u] \in 0 .. 100
          /\ IsFiniteSet(DOMAIN a)
      BY <2>1, <3>1
    <3> HIDE DEF a, b
    <3> QED BY <3>2
  <2>3. IsFiniteSet(DOMAIN a \cap DOMAIN b)
    BY <2>2, FS_Subset
  <2>4. Difference(sweep, k) = d
    BY DEF Difference
  <2> HIDE DEF a, b
  <2>5. Differences(d)
    BY <2>2, <2>3 DEF Differences
  <2> QED BY <2>4, <2>5
<1> QED BY <1>1, <1>4, <1>5, <1>6

\* Whatever the outcome of the tests, k* is the least of some that scored: all that
\* surely qualify, the best among them, and none that surely does not.
LEMMA KstarIs ==
  ASSUME NEW sweep \in Sweeps, Scored(sweep) # {}, NEW k \in Kstars(sweep)
  PROVE  /\ k \in Scored(sweep) /\ Perhaps(sweep, k)
         /\ \A j \in Scored(sweep) : Surely(sweep, j) => k <= j
<1> DEFINE sure == {j \in Scored(sweep) : Surely(sweep, j)}
           open == {j \in Scored(sweep) : Perhaps(sweep, j)} \ sure
<1>1. PICK Q \in SUBSET open : k = Min(sure \cup Q)
  BY DEF Kstars
<1>2. BestK(sweep) \in sure /\ Scored(sweep) \in SUBSET (1 .. 7)
  BY BestKIs DEF Surely
<1>3. PICK m \in sure \cup Q : \A j \in sure \cup Q : m <= j
  <2>1. sure \cup Q \in SUBSET Nat /\ sure \cup Q # {}
    BY <1>2
  <2> HIDE DEF sure, open
  <2> QED BY <2>1, Least
<1>4. k \in sure \cup Q /\ \A j \in sure \cup Q : k <= j
  <2> HIDE DEF sure, open
  <2> QED BY <1>1, <1>3 DEF Min
<1> QED BY <1>4 DEF Perhaps

\* Such a k* can be defended.
LEMMA KstarIsDefended ==
  ASSUME NEW sweep \in Sweeps, Scored(sweep) # {}, NEW k \in Kstars(sweep)
  PROVE  k \in Defensible[sweep]
<1> DEFINE d(j) == Difference(sweep, j)
           few == \A j \in Scored(sweep) \ {BestK(sweep)} :
                    Plain(d(j)) /\ Cardinality(DOMAIN d(j)) <= 5
<1>1. /\ k \in Scored(sweep) /\ Perhaps(sweep, k)
      /\ \A j \in Scored(sweep) : Surely(sweep, j) => k <= j
  BY KstarIs
<1>2. /\ BestK(sweep) \in Scored(sweep) /\ AsGood(sweep, BestK(sweep))
      /\ Scored(sweep) \in SUBSET (1 .. 7)
      /\ \A j \in Scored(sweep) : Differences(d(j))
  BY BestKIs
<1>3. k <= BestK(sweep)
  BY <1>1, <1>2 DEF Surely
<1>4. AsGood(sweep, k) \/ Losses(d(k)) # {} \/ ~Plain(d(k)) \/ Cardinality(DOMAIN d(k)) < 6
  <2> SUFFICES ASSUME ~AsGood(sweep, k), Losses(d(k)) = {}, Plain(d(k)),
                      ~(Cardinality(DOMAIN d(k)) < 6)
               PROVE  FALSE
    OBVIOUS
  <2>1. Differences(d(k)) /\ Untied(d(k)) /\ DOMAIN d(k) # {}
    BY <1>1, <1>2 DEF Plain
  <2>2. Cardinality(DOMAIN d(k)) >= 6
    BY <2>1, FS_CardinalityType DEF Differences
  <2>3. PValues(d(k)) = {Wilcoxon(d(k))} /\ Significant(Wilcoxon(d(k)))
    BY <2>1, <2>2, ExactTest
  <2> QED BY <1>1, <2>3 DEF Perhaps, Surely
<1>5. few => k = Min(Scored(sweep))
  <2> SUFFICES ASSUME few PROVE k = Min(Scored(sweep))
    OBVIOUS
  <2>1. ASSUME NEW j \in Scored(sweep) PROVE Surely(sweep, j)
    <3>1. CASE j = BestK(sweep)
      BY <1>2, <3>1 DEF Surely
    <3>2. CASE j # BestK(sweep)
      <4>1. Differences(d(j)) /\ Untied(d(j)) /\ DOMAIN d(j) # {} /\ Cardinality(DOMAIN d(j)) <= 5
        BY <1>2, <3>2 DEF Plain
      <4>2. PValues(d(j)) = {Wilcoxon(d(j))} /\ ~Significant(Wilcoxon(d(j)))
        BY <4>1, ExactTest
      <4> QED BY <4>2 DEF Surely
    <3> QED BY <3>1, <3>2
  <2>2. \A j \in Scored(sweep) : k <= j
    BY <1>1, <2>1
  <2>3. \A m \in Scored(sweep) : (\A j \in Scored(sweep) : m <= j) => m = k
    BY <1>1, <1>2, <2>2
  <2> QED BY <1>1, <2>2, <2>3 DEF Min
<1> QED BY <1>1, <1>3, <1>4, <1>5 DEF Defensible

\* When k* is due, the sweep has been made.
SweepInv == job.on /\ job.at = 2 => job.sweep \in Sweeps

\* Every step keeps that.
LEMMA SweepIsMade == JobInv /\ SweepInv /\ [Next]_vars => SweepInv'
<1> SUFFICES ASSUME JobInv, SweepInv, [Next]_vars PROVE SweepInv'
  OBVIOUS
<1>1. CASE Begin
  BY <1>1 DEF Begin, NoJob, SweepInv
<1>2. CASE Sweep
  <2>1. PICK sweep \in Sweeps : job' = [Advance EXCEPT !.sweep = sweep]
    BY <1>2 DEF Sweep
  <2>2. Step.do = "sweep"
    BY <1>2 DEF Sweep, At, Step
  <2>3. Advance = [job EXCEPT !.at = Advance.at]
    BY <2>2, AdvanceIs
  <2>4. job'.sweep = sweep
    BY <2>1, <2>3 DEF JobInv
  <2> QED BY <2>4 DEF SweepInv
<1>3. ASSUME Step.do # "sweep", Step.do # "index" PROVE Advance.at # 2
  <2>1. job.at \in Nat /\ job.at # 1 /\ job.at >= 1
    BY <1>3, StepIs DEF JobInv
  <2>2. job.at < Advance.at /\ Advance.at \in Int
    BY <1>3, AdvanceIs
  <2> QED BY <2>1, <2>2
<1>4. CASE FreezeKstar
  <2>1. PICK k : job' = [Advance EXCEPT !.k = k, !.sweep = NoSweep]
    BY <1>4 DEF FreezeKstar
  <2>2. Step.do = "kstar"
    BY <1>4 DEF FreezeKstar, At, Step
  <2>3. job'.at = Advance.at
    BY <2>1, <2>2, AdvanceIs DEF JobInv
  <2> QED BY <1>3, <2>2, <2>3 DEF SweepInv
<1>5. CASE Train
  BY <1>5 DEF Train, SweepInv, JobInv
<1>6. ASSUME Step.do = "run", NEW e, NEW row, job' = Listed(e, row) PROVE SweepInv'
  <2>1. job'.at = Advance.at
    BY <1>6, ListedIs
  <2> QED BY <1>3, <1>6, <2>1 DEF SweepInv
<1>7. CASE Score
  BY <1>6, <1>7 DEF Score, At, Step
<1>8. CASE RunRaises
  BY <1>6, <1>8 DEF RunRaises, Recorded, At, Step
<1>9. CASE CompareWithM7
  BY <1>3, <1>9 DEF CompareWithM7, At, Step, SweepInv
<1>10. CASE WriteGroup
  <2>1. Step.do = "csv"
    BY <1>10 DEF WriteGroup, At, Step
  <2>2. job' = NoJob \/ job' = [Advance EXCEPT !.group = {}]
    BY <1>10 DEF WriteGroup
  <2>3. job'.on = FALSE \/ job'.at = Advance.at
    BY <2>1, <2>2, AdvanceIs DEF NoJob, JobInv
  <2> QED BY <1>3, <2>1, <2>3 DEF SweepInv
<1>11. CASE WriteIndex \/ Die
  BY <1>11 DEF WriteIndex, Die, NoJob, SweepInv
<1>12. CASE UNCHANGED vars
  BY <1>12 DEF vars, SweepInv
<1> QED BY <1>1, <1>2, <1>4, <1>5, <1>7, <1>8, <1>9, <1>10, <1>11, <1>12 DEF Next, Work

\* Whatever a sweep finds and however the tests turn out, the k* that a suite freezes
\* can be defended.
THEOREM KstarsAreDefended == Spec => KstarIsDefensible
<1>1. Init => SweepInv
  BY DEF Init, NoJob, SweepInv
<1>2. Spec => []SweepInv
  BY <1>1, SweepIsMade, JobIsSound, PTL DEF Spec
<1>3. JobInv /\ SweepInv /\ [Next]_vars =>
        [At("kstar") /\ job'.on /\ Scored(job.sweep) # {} => job'.k \in Defensible[job.sweep]]_vars
  <2> SUFFICES ASSUME JobInv, SweepInv, Next, At("kstar"), job'.on, Scored(job.sweep) # {}
               PROVE  job'.k \in Defensible[job.sweep]
    OBVIOUS
  <2>1. Step.do = "kstar" /\ job.on
    BY DEF At, Step
  <2>2. FreezeKstar
    BY <2>1 DEF Next, Work, Begin, Sweep, Train, Score, CompareWithM7, WriteGroup, WriteIndex,
                RunRaises, Die, At, Step, NoJob
  <2>3. job.sweep \in Sweeps
    BY <2>1, StepIs DEF SweepInv
  <2>4. PICK k \in Kstars(job.sweep) : job' = [Advance EXCEPT !.k = k, !.sweep = NoSweep]
    BY <2>2, <2>3 DEF FreezeKstar, Frozen
  <2>5. job'.k = k
    BY <2>1, <2>4, AdvanceIs DEF JobInv
  <2> QED BY <2>3, <2>4, <2>5, KstarIsDefended
<1> QED BY <1>2, <1>3, JobIsSound, PTL DEF Spec, KstarIsDefensible
==============================================================================
