-------------------------------- MODULE Suite --------------------------------
(***************************************************************************)
(* run_all_experiments of runner.py and the files that it leaves: a suite  *)
(* sweeps k, freezes k*, runs the baselines M0..M10, compares them   *)
(* with M7, runs the ablations and writes runs_index.json last.  All of it *)
(* goes into one results root, in place: the directory of a run is named   *)
(* after its tag and its configuration, so a later suite with the same k*  *)
(* writes over it, and a suite that is killed leaves a root in which files *)
(* of two suites stand side by side.                                       *)
(***************************************************************************)
EXTENDS Sequences, Statistics

CONSTANTS
  Roots,        \* what --data may name: sequences of dataset directories
  Sweeps,       \* error rates that a sweep over k may find
  Kept,         \* bound: the experiments that the instance runs
  HardLinks,    \* os.link works between the dataset and the results root
  MaxSuites,    \* bound: suites begun
  MaxMishaps    \* bound: experiments that raise and suites that die

ASSUME SuiteAssumption ==
  /\ \A sweep \in Sweeps :
       /\ DOMAIN sweep \subseteq 1 .. 7 /\ sweep # <<>>
       /\ \A k \in DOMAIN sweep :
            /\ sweep[k].eer \in 0 .. 100 \cup {NaN}
            /\ IsFiniteSet(DOMAIN sweep[k].users)
            /\ \A u \in DOMAIN sweep[k].users : sweep[k].users[u] \in 0 .. 100
  /\ HardLinks \in BOOLEAN
  /\ MaxSuites \in Nat /\ MaxMishaps \in Nat

-----------------------------------------------------------------------------
(* Feature columns, by the prefix or the list that an ablation drops.      *)

IMU == {"acc", "gyro", "mag", "derived"}

Diff == {"diff", "diffKind", "diffBounds"}

UI == Diff \cup {"ui", "uiKind", "bounds"}

AllColumns == IMU \cup UI \cup {"event", "pkg"}

Columns ==
  [sensor_only |-> IMU,
   ui_sensor |-> AllColumns,
   ui_sensor_no_package |-> AllColumns \ {"pkg"},
   ui_only |-> UI \cup {"event"}]

\* build_dataset writes the split manifest after the feature manifest.
ASSUME RootsAssumption ==
  \A dirs \in Roots :
    /\ dirs \in Seq([mode : DOMAIN Columns, feature : BOOLEAN, split : BOOLEAN])
    /\ \A i \in DOMAIN dirs : dirs[i].split => dirs[i].feature

-----------------------------------------------------------------------------
(* The experiments of a suite.                                             *)

NoView == [made |-> FALSE, mode |-> "source", drop |-> {}, round |-> FALSE]

View(mode, drop, round) == [made |-> TRUE, mode |-> mode, drop |-> drop, round |-> round]

\* star: the run is configured with k*.
Experiment(group, name, mode, star, view) ==
  [group |-> group, name |-> name, mode |-> mode, star |-> star, view |-> view]

Baseline(name, mode, star) == Experiment("baseline", name, mode, star, NoView)

Baselines ==
  <<Baseline("m0", "sensor_only", FALSE), Baseline("m1", "ui_sensor", FALSE),
    Baseline("m2", "ui_sensor", FALSE), Baseline("m3", "ui_sensor", FALSE),
    Baseline("m4", "ui_sensor", FALSE), Baseline("m5", "ui_sensor", TRUE),
    Baseline("m6", "ui_sensor", TRUE), Baseline("m7", "ui_sensor", TRUE),
    Baseline("m8", "ui_sensor_no_package", TRUE), Baseline("m9", "ui_sensor", TRUE),
    Baseline("m10", "ui_sensor", TRUE)>>

Ablation(group, name, mode, view) == Experiment(group, name, mode, TRUE, view)

Features ==
  <<Ablation("feature", "no_ui", "sensor_only", View("sensor_only", {}, FALSE)),
    Ablation("feature", "no_sensor", "ui_only", View("ui_only", {}, FALSE)),
    Ablation("feature", "no_package", "ui_sensor_no_package", View("ui_sensor_no_package", {}, FALSE)),
    Ablation("feature", "no_tree_diff", "ui_sensor", View("source", Diff, FALSE)),
    Ablation("feature", "no_temporal_smoothness", "ui_sensor", NoView),
    Ablation("feature", "no_load_balance", "ui_sensor", NoView)>>

Privacy ==
  LET Coarse(name, drop, round) ==
        Ablation("privacy", name, "ui_sensor_no_package", View("ui_sensor_no_package", drop, round))
  IN <<Coarse("privacy_coarse_bounds", {"diffBounds"}, TRUE),
       Coarse("no_resource_id", {}, FALSE),
       Coarse("coarse_widget_category_only", UI \ {"uiKind", "diffKind"}, FALSE)>>

Confidence ==
  [i \in 1 .. 4 |->
     Ablation("confidence", <<"thr_0.0", "thr_0.2", "thr_0.4", "thr_0.6">>[i], "ui_sensor", NoView)]

Sensors ==
  <<Ablation("sensor", "no_accel", "ui_sensor", View("source", {"acc"}, FALSE)),
    Ablation("sensor", "no_gyro", "ui_sensor", View("source", {"gyro"}, FALSE)),
    Ablation("sensor", "no_magnetometer", "ui_sensor", View("source", {"mag"}, FALSE))>>

Group == {"feature", "privacy", "confidence", "sensor"}

-----------------------------------------------------------------------------
(* What a suite does, in order.                                            *)

Do(what) == <<[do |-> what]>>

Runs(exps) == [i \in DOMAIN exps |-> [do |-> "run", exp |-> exps[i]]]

AblationGroup(exps) == Runs(exps) \o <<[do |-> "csv", group |-> exps[1].group]>>

Steps(ablate) ==
  Do("sweep") \o Do("kstar") \o Runs(Baselines) \o Do("deltas")
  \o (IF ablate
      THEN AblationGroup(Features) \o AblationGroup(Privacy)
           \o AblationGroup(Confidence) \o AblationGroup(Sensors)
      ELSE <<>>)
  \o Do("index")

Plan == [ablate \in BOOLEAN |-> Steps(ablate)]

-----------------------------------------------------------------------------
VARIABLES
  root,          \* the directories that --data names
  source,        \* values in the split files of the dataset that is used
  job,           \* the suite that runs: its step, options and rows
  out,           \* the results root: suite that wrote each file
  runs,          \* its run directories
  suites,        \* suites begun
  lost,          \* suites that ended before their index, and what ended them
  mishaps        \* experiments and suites that went wrong

vars == <<root, source, job, out, runs, suites, lost, mishaps>>

\* The row of an experiment that raised, instead of its run directory.
Error == <<>>

NoSweep == <<>>

NoJob == [on |-> FALSE, at |-> 1, half |-> FALSE, ablate |-> FALSE, sweep |-> NoSweep,
          k |-> 0, rows |-> [b \in {} |-> Error], group |-> {}]

NoIndex == [suite |-> 0, k |-> 0, ablated |-> FALSE, rows |-> [b \in {} |-> Error]]

Init ==
  /\ root \in Roots
  /\ source = "built"
  /\ job = NoJob
  /\ out = [sweep |-> 0, kstar |-> [suite |-> 0, k |-> 0], deltas |-> 0,
            csv |-> [g \in Group |-> 0], index |-> NoIndex]
  /\ runs = [d \in {} |-> 0]
  /\ suites = 0
  /\ lost = {}
  /\ mishaps = 0

\* _resolve_data_dir of the experiment scripts, and that of make_report: the
\* first directory with the manifest that each of them looks for, or none.
FirstWith(has) ==
  LET found == {i \in DOMAIN root : root[i][has]}
  IN IF found = {} THEN "none" ELSE root[Min(found)].mode

Data == FirstWith("feature")

-----------------------------------------------------------------------------
(* Mutants: definitions with a bug a change could introduce. *)

\* The quantised columns are rewritten in files already linked to the source.
ViewIsLinked(e) == IF HardLinks THEN "source" ELSE "own"

\* A run directory that holds metrics.json is taken as it is.
FoundOr(dir, run) == IF dir \in DOMAIN runs THEN runs[dir] ELSE run

\* An experiment that raises ends the suite.
RaiseEnds(e) ==
  /\ job' = NoJob
  /\ UNCHANGED lost

-----------------------------------------------------------------------------
(* Where the suite is. *)

At(what) == job.on /\ Plan[job.ablate][job.at].do = what

Step == Plan[job.ablate][job.at]

\* The next step, past the experiments that the instance leaves out.
Advance ==
  LET due == {i \in DOMAIN Plan[job.ablate] :
                Plan[job.ablate][i].do = "run" => Plan[job.ablate][i].exp.name \in Kept}
  IN [job EXCEPT !.at = Min({i \in due : i > @})]

-----------------------------------------------------------------------------
(* One experiment: its view of the dataset and its run directory.          *)

\* Inode of the view's split files: quantised ones are written anew in the
\* emptied directory of the view, others are links to the source's.
ViewInode(e) == IF e.view.round \/ ~HardLinks THEN "own" ELSE "source"

\* The values trained on, and those of the dataset after the view is made.
ViewValues(e) == IF e.view.round THEN "rounded" ELSE source

SourceAfter(e) == IF e.view.round /\ ViewInode(e) = "source" THEN "rounded" ELSE source

\* Columns that the model is trained on: those of the manifest it is given, the
\* view's or the dataset's, less those that the split files do not have, which
\* are filled with zeros.
TrainedOn(e) ==
  (Columns[Data] \ e.view.drop)
  \cap (IF e.view.mode = "source" THEN AllColumns ELSE Columns[e.view.mode])

\* The directory's name tells the tag and the configuration: k where k* is
\* configured, and ablation.enabled, which --skip-ablations changes.
RunDir(e) == <<e.name, IF e.star THEN job.k ELSE 0, job.ablate>>

\* run_experiment up to metrics.json.
Trained(e) ==
  [suite |-> suites, scores |-> IF RunDir(e) \in DOMAIN runs THEN runs[RunDir(e)].scores ELSE 0,
   k |-> IF e.star THEN job.k ELSE 0, columns |-> TrainedOn(e), values |-> ViewValues(e)]

Written(dir, run) == run

Put(dir, run) == [d \in DOMAIN runs \cup {dir} |-> IF d = dir THEN Written(dir, run) ELSE runs[d]]

Row(name, row) == [b \in DOMAIN job.rows \cup {name} |-> IF b = name THEN row ELSE job.rows[b]]

\* A baseline's row goes to the index, an ablation's to the rows of its group,
\* of which it matters whether they tell metrics or an error.
Listed(e, row) ==
  [Advance EXCEPT
     !.half = FALSE,
     !.rows = IF e.group = "baseline" THEN Row(e.name, row) ELSE @,
     !.group = IF e.group = "baseline" THEN @ ELSE @ \cup {row = Error}]

-----------------------------------------------------------------------------
(* The suite. *)

\* run_all_experiments is started.
Begin ==
  /\ ~job.on
  /\ suites < MaxSuites
  /\ Data # "none"
  /\ suites' = suites + 1
  /\ \E ablate \in BOOLEAN : job' = [NoJob EXCEPT !.on = TRUE, !.ablate = ablate]
  /\ UNCHANGED <<root, source, out, runs, lost, mishaps>>

\* Values of k* that the sweeps lead to.
Frozen == [sweep \in Sweeps |-> Kstars(sweep)]

\* run_topk_sweep trains a model for every k, and writes topk_sweep.csv
Sweep ==
  /\ At("sweep")
  /\ out' = [out EXCEPT !.sweep = suites]
  /\ \E sweep \in Sweeps : job' = [Advance EXCEPT !.sweep = sweep]
  /\ UNCHANGED <<root, source, runs, suites, lost, mishaps>>

\* and topk_kstar.json, from which the suite takes its k*.
FreezeKstar ==
  /\ At("kstar")
  /\ \E k \in Frozen[job.sweep] :
       /\ out' = [out EXCEPT !.kstar = [suite |-> suites, k |-> k]]
       /\ job' = [Advance EXCEPT !.k = k, !.sweep = NoSweep]
  /\ UNCHANGED <<root, source, runs, suites, lost, mishaps>>

\* The first half of an experiment: its view, the training, metrics.json.
Train ==
  /\ At("run") /\ ~job.half
  /\ \E e \in {Step.exp} :
       /\ runs' = Put(RunDir(e), Trained(e))
       /\ source' = SourceAfter(e)
  /\ job' = [job EXCEPT !.half = TRUE]
  /\ UNCHANGED <<root, out, suites, lost, mishaps>>

\* The second half: pair_scores.parquet and the other tables; then the row.
Score ==
  /\ At("run") /\ job.half
  /\ \E dir \in {RunDir(Step.exp)} :
       /\ runs' = [runs EXCEPT ![dir].scores = suites]
       /\ job' = Listed(Step.exp, dir)
  /\ UNCHANGED <<root, source, out, suites, lost, mishaps>>

\* An experiment raises, in either half: its row tells the error.
Recorded(e) ==
  /\ job' = Listed(e, Error)
  /\ UNCHANGED lost

RunRaises ==
  /\ At("run")
  /\ mishaps < MaxMishaps
  /\ mishaps' = mishaps + 1
  /\ \E scored \in {FALSE, job.half} :
       runs' = IF scored THEN [runs EXCEPT ![RunDir(Step.exp)].scores = suites] ELSE runs
  /\ Recorded(Step.exp)
  /\ UNCHANGED <<root, source, out, suites>>

\* _paired_delta_statistics: without M7's scores the old table stays.
CompareWithM7 ==
  /\ At("deltas")
  /\ out' = IF /\ "m7" \in DOMAIN job.rows /\ job.rows["m7"] # Error
               /\ runs[job.rows["m7"]].scores # 0
            THEN [out EXCEPT !.deltas = suites] ELSE out
  /\ job' = Advance
  /\ UNCHANGED <<root, source, runs, suites, lost, mishaps>>

\* _write_csv: the first row names the columns, and a row that has others raises
\* when those before it are written, out of the suite: one with metrics after one
\* with an error, or the other way round.
WriteGroup ==
  /\ At("csv")
  /\ out' = [out EXCEPT !.csv[Step.group] = suites]
  /\ IF Cardinality(job.group) > 1
     THEN job' = NoJob /\ lost' = lost \cup {[suite |-> suites, by |-> "csv"]}
     ELSE job' = [Advance EXCEPT !.group = {}] /\ UNCHANGED lost
  /\ UNCHANGED <<root, source, runs, suites, mishaps>>

WriteIndex ==
  /\ At("index")
  /\ out' = [out EXCEPT !.index = [suite |-> suites, k |-> job.k, ablated |-> job.ablate,
                                  rows |-> job.rows]]
  /\ job' = NoJob
  /\ UNCHANGED <<root, source, runs, suites, lost, mishaps>>

\* The suite is killed, or its sweep raises, which nothing catches.
Die ==
  /\ job.on
  /\ mishaps < MaxMishaps
  /\ mishaps' = mishaps + 1
  /\ lost' = lost \cup {[suite |-> suites, by |-> "kill"]}
  /\ job' = NoJob
  /\ UNCHANGED <<root, source, out, runs, suites>>

Work ==
  \/ Sweep \/ FreezeKstar \/ Train \/ Score
  \/ CompareWithM7 \/ WriteGroup \/ WriteIndex

Next == Begin \/ Work \/ RunRaises \/ Die

Spec == Init /\ [][Next]_vars

\* A suite that is neither killed nor over goes on.
FairSpec == Spec /\ WF_vars(Work)

-----------------------------------------------------------------------------
(* Properties. *)

Exps == UNION {{s[i] : i \in DOMAIN s} : s \in {Baselines, Features, Privacy, Confidence, Sensors}}

Lost == {l.suite : l \in lost}

Ended == ~job.on /\ suites > 0 /\ suites \notin Lost

\* Every run was trained on the values that the dataset was built with, except
\* the one that is to be coarse, and every ablation on the columns that its name
\* leaves it, as far as the dataset has them.
RunsUseTheirData ==
  \A d \in DOMAIN runs : \A e \in Exps :
    e.name = d[1] =>
      /\ runs[d].values = IF e.name = "privacy_coarse_bounds" THEN "rounded" ELSE "built"
      /\ e.group # "baseline" =>
           runs[d].columns = (Columns[Data] \cap Columns[e.mode]) \ e.view.drop

\* Differences to the best k that the exact test applies to.
Plain(d) == Untied(d) /\ DOMAIN d # {}

\* What a k* may be.  It is never larger than the best k; one whose error rate is
\* further from the best than the tolerance is not worse for every one of six
\* users or more; and where at most five users can be compared, whose differences
\* are distinct, it is the smallest k that scored at all.
Defensible ==
  [sweep \in Sweeps |->
     LET d == [k \in Scored(sweep) |-> Difference(sweep, k)]
         few == \A k \in Scored(sweep) \ {BestK(sweep)} :
                  Plain(d[k]) /\ Cardinality(DOMAIN d[k]) <= 5
     IN {k \in Scored(sweep) :
           /\ k <= BestK(sweep)
           /\ \/ AsGood(sweep, k) \/ Losses(d[k]) # {}
              \/ ~Plain(d[k]) \/ Cardinality(DOMAIN d[k]) < 6
           /\ few => k = Min(Scored(sweep))}]

\* The k* that a suite freezes can be defended: the paired test keeps a k that is
\* worse for everybody out as soon as there are users enough to tell, and with
\* five it cannot tell anything.
KstarIsDefensible ==
  [][At("kstar") /\ job'.on /\ Scored(job.sweep) # {} => job'.k \in Defensible[job.sweep]]_vars

\* A suite writes its index, however its experiments fare, unless it is killed, its
\* sweep raises or some but not all ablations of one group fail.
SuiteSettles ==
  \A n \in 1 .. MaxSuites : suites = n ~> (out.index.suite >= n \/ n \in Lost)

\* The comments at the except clauses: a failed experiment "keeps long suites
\* auditable", "keep the suite going".
FailuresAreSurvived == \A l \in lost : l.by = "kill"

\* The configurations of M0 and M8 say that M0 sees the sensors only and that M8
\* sees no package feature.
BaselinesUseTheirFeatures ==
  \A d \in DOMAIN runs : \A i \in DOMAIN Baselines :
    Baselines[i].name = d[1] => runs[d].columns \subseteq Columns[Baselines[i].mode]
=============================================================================
