------------------------------ MODULE Reporting ------------------------------
(***************************************************************************)
(* make_report over the results root of Suite: which suite's results every *)
(* figure and table shows, and what it falls back to.  A figure is the set *)
(* of the suites it shows, empty if it is skipped; a report only reads.    *)
(***************************************************************************)
EXTENDS Suite

-----------------------------------------------------------------------------
(* What is read. *)

\* _run_metrics: a row with an error has no run directory.
Metrics ==
  [b \in {b \in DOMAIN out.index.rows : out.index.rows[b] # Error} |-> runs[out.index.rows[b]]]

\* topk_kstar.json, or the index where there is none.
FrozenKstar ==
  IF out.kstar.suite # 0 THEN out.kstar ELSE [suite |-> out.index.suite, k |-> out.index.k]

\* The split manifest that describes the dataset.
Described == FirstWith("split")

Of(suite) == {suite} \ {0}

-----------------------------------------------------------------------------
(* Figures. *)

EerBar == {Metrics[b].suite : b \in DOMAIN Metrics}

\* Drawn from roc_points.csv; bars of the area where no run has any.
RocCurves ==
  LET drawn == {b \in DOMAIN Metrics : Metrics[b].scores # 0}
  IN IF drawn = {} THEN EerBar ELSE {Metrics[b].scores : b \in drawn}

\* M7's, or those of any baseline that has metrics.
PerScene ==
  IF "m7" \in DOMAIN Metrics THEN {Metrics["m7"].suite}
  ELSE UNION {{Metrics[b].suite} : b \in DOMAIN Metrics}

\* M7's, which has always a row; skipped if it has no directory.
ExpertTables == IF "m7" \in DOMAIN Metrics THEN Of(Metrics["m7"].scores) ELSE {}

GroupedBars(names) == {Metrics[b].suite : b \in names \cap DOMAIN Metrics}

\* The coarse levels, or the baselines that came nearest to them.
PrivacyBars ==
  IF out.csv["privacy"] # 0 THEN {out.csv["privacy"]} ELSE GroupedBars({"m0", "m1", "m8"})

\* The sweep, and k* in it.
Pareto == IF out.sweep = 0 THEN {} ELSE {out.sweep} \cup Of(out.kstar.suite)

Figures ==
  [eer_bar |-> EerBar,
   roc_curves |-> RocCurves,
   topk_ablation |-> Of(out.sweep),
   topk_eer_latency_pareto |-> Pareto,
   per_scene_eer |-> PerScene,
   expert_utilization |-> ExpertTables,
   expert_scene_heatmap |-> ExpertTables,
   package_ablation |-> GroupedBars({"m3", "m7", "m8"}),
   privacy_ablation |-> PrivacyBars,
   feature_ablation |-> Of(out.csv["feature"]),
   sensor_channel_ablation |-> Of(out.csv["sensor"])]

-----------------------------------------------------------------------------
(* Tables and text. *)

AblationTable == UNION {Of(out.csv[g]) : g \in Group}

Tables ==
  [main_results |-> EerBar, topk_sweep |-> Pareto, per_scene |-> PerScene,
   ablations |-> AblationTable]

\* The summary names k*, and the rates of most baselines.
Summary == {FrozenKstar.suite} \cup GroupedBars({"m0", "m1", "m4", "m5", "m6", "m7", "m8"})

Report ==
  [figures |-> Figures, tables |-> Tables, summary |-> Summary,
   deltas |-> out.deltas, dataset |-> Described]

-----------------------------------------------------------------------------
(* Properties. *)

Ablations == {"privacy_ablation", "feature_ablation", "sensor_channel_ablation"}

\* Once a suite has ended well, whatever an earlier one left and whichever of its
\* own experiments failed, a report shows one suite: its sweep, its k*, and runs
\* of it that were trained with that k*.  Older are only the ablations if they
\* were skipped, and the comparison if M7 failed.  The dataset described is the
\* one used unless that has no split manifest yet.
ReportIsOfOneSuite ==
  Ended =>
    /\ Report.summary \subseteq {suites}
    /\ \A f \in DOMAIN Figures :
         Figures[f] \subseteq {suites} \/ (f \in Ablations /\ ~out.index.ablated)
    /\ \A t \in DOMAIN Tables :
         Tables[t] \subseteq {suites} \/ (t = "ablations" /\ ~out.index.ablated)
    /\ Report.deltas = suites \/ "m7" \notin DOMAIN Metrics
    /\ \A b \in DOMAIN Metrics : Metrics[b].k \in {0, FrozenKstar.k}
    /\ Report.dataset = Data \/ \E i \in DOMAIN root : root[i].feature /\ ~root[i].split
=============================================================================
