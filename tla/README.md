# ContextAuthServer in TLA+

ContextAuthServer receives batches of phone telemetry, keeps them as files, and
turns them offline into sessions, windows, datasets, trained models and a report.
This directory models the parts where order, failure and concurrency decide
whether data survives and means what it says. Lines below refer to the repository
(`app/...`, `tools/...`, `research/...`).

## 1. Inventory

| Component | State it keeps | Operations | Talks to | Hard behaviour | What makes it correct |
|---|---|---|---|---|---|
| ingest endpoint, `app/main.py` | none between uploads | `POST /api/v1/ingest`: parse, hash, decompress, validate, store or quarantine, answer | disk store; uploader | an exception at any line; the process dies at any line | every upload is answered; a refusal is recorded; a 200 means stored |
| disk store, `app/storage.py` | `devices/**/<batch>.json`, `.meta.json`, `by_category` entries, `quarantine/**`, `index/*.jsonl` | `store`, `quarantine`, `append_error`, `assert_ready` | file system | several system calls per upload, none atomic with another, no fsync, no rename | files are written once; the index never runs ahead; a retry is recognised |
| Android uploader (other repository) | failure queue, attempts, dead letters | send, time out, retry, put aside | ingest endpoint | lost, late, repeated copies | what it concludes agrees with the disk; a good upload is stored |
| study salt, `app/config.py` | `server_study_salt.txt` | `get_server_study_salt` | `GET /api/v1/config`, from a pool of threads | check-then-write between threads; crash between truncation and fill | the salt is stable |
| redaction rules, `app/rules.py` | `rules.json`, `ACTIVE_RULES` | seed, load, validate at import; serve | operator's edits | torn or invalid file at start | a serving process serves valid rules |
| schemas, `app/schemas.py` | none | `Batch`, `ContextEvent`, `NodeSnapshot` validators | ingest, sanitizer | rules that relate the parts of a batch; one rule younger than the stored files | what the sanitizer leaves passes the schema of today |
| sanitizer, `tools/sanitize_event_detail.py` | the same files, in place | list, read, strip, re-validate, rewrite, stamp | disk store, no lock | beside the live server; killed half-way, also between rewrite and stamp; one bad file ends the run; one that fails re-validation does not | nothing acknowledged is lost; a stamp means clean, and what was cleaned is stamped; the exit status tells what the schema says |
| loading, `preprocessing/loaders.py` | none | `load_batches` | files a crash left behind | best-effort scan | unreadable files are skipped |
| alignment, sessions, windows, `preprocessing/{align,sessionize,windowing}.py`, `scripts/run_preprocess.py` | row streams with running counters | `align_batches`, `detect_clock_jumps`, `sessionize`, `_drop_short_sessions`, `make_windows` | each other, per device or all at once | restarts, clock steps, midnight, silences | a session is one unbroken run; its axis keeps time; no sample or moment is lost |
| features, quality, labels | none | per-window statistics | windows | floating point | not modelled |
| splits, impostors, builders, `research/datasets/` | one directory of six files per protocol and feature mode | deal windows to train/val/test, draw impostors, write, assert | windows; experiments | fallbacks for few users, days, apps; rounding; files written one by one, asserted last | what is held out is unseen; no build fails its own check; everybody is enrolled |
| dataset loading, evaluator, `research/experiments/{_data,evaluator}.py` | splits in memory, scores | load, make prototypes, score | the directory, a second time for the pairs | half-built or rebuilt directories; users without prototype; empty sides | no scored window was trained on; attackers match; the manifest foretells who is dropped |
| models, `research/models/` | tensors | build, route, losses | trainer | what a term of the loss is computed of, batch by batch | every row and every pair of neighbours counts once |
| trainer, `experiments/trainer.py` | best checkpoint, patience, history | epochs of shuffled batches, checkpoint, early stop | dataset, models | NaN losses, an empty val, a tolerance, no improvement at all | the checkpoint restored is the best; the stop comes exactly after the patience |
| detection, metrics, statistics, `experiments/{detection,metrics,bootstrap}.py` | threshold and policy frozen on val | decide, select a policy, operating points, paired tests, Holm | evaluator, suite | boundaries and ties; NaN | operating points are attainable and best; a policy answers when it should; the correction is Holm's |
| suite, `experiments/runner.py` | run directories, `topk_*.{csv,json}`, ablation tables, `paired_deltas.csv`, `runs_index.json`, all in one root and in place | sweep k, freeze k*, run M0..M10, compare, ablate, index | everything above; the report | hours long; an experiment raises, the suite is killed, another suite is run into the same root; views hard-linked to the dataset | each run uses the data it should; a suite comes to its index; k* can be defended |
| reporting, `research/reporting/`, `scripts/make_report.py` | none | figures, tables, text | the suite's root | fallbacks for each missing file; files of two suites side by side | a report shows one suite |
| utilities, synthetic data, client tools, entry point, log configuration, compose files | files | read and write, seed, start | everything | none of its own | not modelled |

How they interact: the phone asks `/api/v1/config` and `/api/v1/rules`, then posts
batches; the handler is a coroutine whose one `await` comes before the first disk
access, so uploads are handled one at a time inside the single worker, while
`/api/v1/config` is a plain function and runs in a thread pool. The sanitizer and
the research pipeline share the directory tree with the server and nothing else. The
pipeline's stages talk through directories: datasets, run directories and the results
root, each written file by file and in place, and read by later stages, by later runs
of the same stage and by the report.

## 2. Modules

```
BatchStore            what the store promises: write-once registers
DiskStore             app/storage.py, one step per system call
 +- Ingest            app/main.py + process + uploader      -> implements BatchStore
 |   +- MCIngest, Ingest_proofs
 +- Sanitizer         tools/sanitize_event_detail.py, the run
Payload               app/schemas.py, and the stripping of one batch
 +- IngestSanitize    = Ingest x Sanitizer over one disk, bodies being payloads
     +- MCIngestSanitize, IngestSanitize_proofs
StudySalt, RulesFile  app/config.py, app/rules.py
 +- Startup           one process around both files
     +- MCStartup, Startup_proofs
Sessions              load_batches ... make_windows
 +- MCSessions, Sessions_proofs
Splits                splits.py, as operators on tables
 +- Datasets          impostors.py, builders.py: a build of a directory
     +- Experiment    + _data.py, evaluator.py: an experiment over it
         +- Validation    + _evaluate_val of runner.py
             +- MCExperiment, Experiment_proofs
Floats                NaN
 +- Training          trainer.py, losses.py, the choice in moe.py
 |   +- MCTraining, Training_proofs
 +- Statistics        paired_delta, Holm, the choice of k*
 |   +- Suite         runner.py: a results root and the suites run into it
 |       +- Reporting     report.py, tables.py, plots.py over that root
 |           +- MCSuite, Suite_proofs
 +- Detection         detection.py
     +- OperatingPoints   metrics.py
         +- Analysis      (with Statistics) _metrics_payload, _paired_delta_statistics
             +- MCAnalysis, Analysis_proofs
```

### DiskStore and Ingest

A body is the canonical JSON text of a batch; two uploads of equal content carry
the same body. A path is (device, UTC day, batch id). A file is `absent`, `torn`
(truncated, or partly written but decodable), `garbled` (cut inside a UTF-8
character) or a body. The handler's program counter is `phase`, its upload `cur`,
the answer it is heading for `verdict`.

| Model | Code |
|---|---|
| `Check`, `Receive` | the checks of `ingest()` in their order; `flaw` stands for the five that come before the schema |
| `CheckSpace`, `Lookup` | `assert_space_available`, `exists()` and the comparison of texts |
| `OpenBatch`, `FillBatch`, `EncodingFails` | `write_text`: truncate, encode, write; a lone surrogate raises `UnicodeEncodeError`, no `OSError` |
| `OpenMeta`, `FillMeta`, `AppendDevice`, `AppendBatch` | sidecar, `devices.jsonl`, `batches.jsonl` |
| `MakeLink`, `SymlinkFails`, `FillPointer` | `by_category` symlink or its pointer file |
| `StoreFault`, `CutShort` | an `OSError` at any of these; a write may be cut short |
| `OpenHold` ... `HoldFault` | `quarantine()` and `_quarantine_reject` |
| `LogRejection`, `LogFault` | `_safe_append_error` |
| `Answer` | the HTTP answer, and the uploader hearing it if it still waits |
| `Crash`, `Restart` | kill -9 and `docker restart`; nothing is repaired |
| `Send`, `Timeout`, `SetAside` | the uploader as `artifacts/_foundation/CODE_ANALYSIS.md:136` describes it |

Abstractions: the content of the index lines and sidecars; jsonl lines are counted,
not written partly; an error line for an envelope that did not parse still names its
upload (the code writes nulls); free space is the environment's choice; the
permission error at start is not modelled.

### StudySalt, RulesFile, Startup

Each thread of the pool has a program counter between `exists()`, the read, the
truncation and the fill. The deployment's mode (`env`, `default`, `random`) is
chosen once. The rules file is seeded, loaded and validated while `app.rules` is
imported; the operator may write it at any time. `Stop` kills process and threads.

### Sanitizer, IngestSanitize

The tool lists once, reads a file, strips it, holds the result against the schema
(`Validate`, which only notes a failure, in `failing`), truncates, fills, reads the
sidecar, truncates, fills; any exception ends the run. A run through the whole list ends
`done`, or `refused` (status 1) if something was noted. `Interrupt` is a kill or a refused
write. `rewritten` and `unstamped` are histories: what runs rewrote, and what of it they
broke off at before the stamp. `IngestSanitize` interleaves the tool with every step of
Ingest and puts a payload into every body: `ContentAssumption` says that the set `Valid`
and the function `Clean`, which the two machines use, are what `Payload!Accepts` and
`Payload!Sanitize` make of the contents. `Stock` are the stores that an older server may
have left: there the tool finds batches that the server of today would refuse, some for
what the tool strips and some for other reasons.

`Payload` keeps of a batch what its rules compare: the eight task fields, an event's
id, its kind (text or not), the keys of its `event_detail` by class, the flags for
which nodes and titles are refused, and the counts of the diagnostics. `Passed` is the
schema without its youngest rule, the one that forbids text telemetry: it is batches
which pass that much that cleaning is to make acceptable. Types, ranges and patterns of
single fields are left to the schema library.

### Sessions

The sorted frame is generated sample by sample: `StartBatch` gives any batch that
can follow in `align_batches`' order, `NextSample` any later sample of it. `Seg`
and `Cut` are the body of `sessionize`'s loop, `Place`/`At` that of
`_session_relative_axis`, `Starts`, `Inside` and `WindowsOf` the loop of
`make_windows`, `Long` the filter `_drop_short_sessions`, `Own` that of the windows on
the collector's own screens (`run_preprocess.py:236-243`), which takes all windows of a
session or none, since a task has an uploaded session of its own; `Sees` is the wall-clock
attachment of events. Wall and elapsed time tick alike inside a batch, as the phone
estimates the one from the other; a batch starts at its first sample. `SteppedClock`
says whether a phone's wall clock may be set back between two batches.

### Splits, Datasets, Experiment

A table is a sequence of windows with session, user, day, package bucket and weak
labels; a split is a set of its row numbers. Session ids, days and buckets are
numbers in the order of the strings they stand for, since the code sorts them and
does nothing else with them. The protocols order keys by a salted SHA-256; a `rank`
is any order of the keys, so a run or a theorem covers every seed. `Sizes` is the
closed form of the loops that fit the sizes to the number of keys, `Round` Python's
rounding of halves to even; under the fractions that the callers use those loops have
nothing to do.
`Build` is everything `build_dataset` does before its first write, under some rank
and some draw of impostors; then `WriteFile` six times in the code's order, then
`Assert`, which takes nothing back. `Die` is a build that ends anywhere, perhaps in
the middle of a file. `Load` and `Evaluate` may come at any time: `Load` asks for the
feature manifest first, as `DatasetBundle` does, `Evaluate` reads the pairs from the
directory as it is by then. Weights, embeddings and scores are left out: which
windows are scored against whose prototype is what the properties are about. A
table without a user column (`leave_session_out`'s global fallback) is not modelled,
and reading the three splits is one step: over a directory that is built once they
are finished before the feature manifest appears.

### Validation

`_evaluate_val` scores the windows of val against prototypes of train alone, with one
matched attacker each or, if nobody has any, every other user. It extends
`Experiment`; the run `experiment` uses its specification `ValSpec`, in which both
evaluations may follow one load.

### Suite, Reporting, Statistics

The state of `Suite` is the results root: for each file the number of the suite that
wrote it, for each run directory also k, the columns and the values it was trained
on. `Plan` is the sequence of `run_all_experiments`; the suite steps through it,
`Advance` going from each step to the next one that an instance does not leave out
(`Kept`): a run may leave out experiments, a theorem holds whichever they are.

| Model | Code |
|---|---|
| `Begin` | `_resolve_data_dir`: the first directory with a feature manifest |
| `Sweep`, `FreezeKstar` | `run_topk_sweep`, its two files, `select_kstar_pareto` |
| `Train`, `Score` | `run_experiment` in two halves: up to `metrics.json`; the rest |
| `RunRaises` | an `except` clause of the suite: a row with the error |
| `CompareWithM7` | `_paired_delta_statistics`: without M7 the old table stays |
| `WriteGroup` | `_write_csv`: the first row names the columns, others raise |
| `WriteIndex`, `Die` | `runs_index.json`; a kill, or a sweep that raises |
| `ViewInode`, `TrainedOn` | `_dataset_view`: links, quantised copies, dropped columns |
| `RunDir` | `_run_id`: tag and hash of the configuration |

A feature column is named after the prefix or list that an ablation drops. Rows of
error rates are in whole percents, a p-value is a number of equally likely cases, with
the exact distributions of the sign and the rank test; where scipy approximates under
ties, either side of the level is possible. `Reporting` has no state: every figure,
table and sentence is the set of suites whose results it shows, after its fallbacks.

### Training

One action per stage of `train_model`. `Batch` is one slice of the permutation, any
set of rows not yet visited; `Forward`, `Main` and `Pairs` are what
`_batch_with_successors` returns; `counts` is what `total_loss` has been computed of in
this epoch. Losses are integers in units small enough for the tolerance, or NaN, and
the data may lead to any. `Finish` restores `best_state`. Two remarks: if no epoch ever
improves, that is the initial state, while `best_epoch` says the last epoch
(`research/experiments/trainer.py:282-283`); and a model over an empty split is
returned as it was built.

### Detection, OperatingPoints, Analysis

Scores are integers, time is in strides, and a rate per hour is a number per twelve
strides. The average of the exponential policy is a double: a numerator over a power of
two, and each product and sum rounds the numerator to `Precision` binary digits, halves to
even (`Rounded`). The code has 53 digits, the run 4, a theorem any number from two. So an
old reject is rounded away in the model as it is in the code, where the faster average
(`alpha` of one half) no longer answers a second reject 53 windows or more after the
first. That doubles also end below is left out; no number near the trigger tells.
`OperatingPoints` contains `roc_curve` with its dropped vertices, as the library
documents it (external). `Analysis` is `_metrics_payload`: freeze threshold and policy
on val, measure test with them, or fall back to test's own threshold; where the equal
error threshold lies is open (`Thresholds`). `Correct` is `holm_correction` over the
family of baselines.

## 3. Runs

| Run | Question | Answer |
|---|---|---|
| `ingest` | What do a 200, a 409 and the index mean, through a crash, a refused operation, retries, lost and late copies? Is a good upload stored in the end? | 8 properties hold, among them that the service implements `BatchStore` |
| `torn_conflict` | Is 409 only for different content? | no: a torn file refuses the retry of the same content, and the phone gives it up |
| `startup` | Are salt and rules sound under threads, crashes and edits? | planned salts and settled salts are stable; rules served are valid |
| `sanitize` | Does the tool lose or mislabel data beside a live server, what do stamps and its exit status say, and does the schema take what it leaves? | only a killed rewrite loses a file; stamps are true, and what was rewritten is stamped unless the run broke off there; a run through the list cleaned all of it; status 0 means that all of it passes the schema, status 1 that some of it breaks a rule that cleaning has no part in |
| `sessions` | Are sessions unbroken runs, axes true, windows complete? | yes, while wall clocks are not set back |
| `experiment` | Is what a protocol holds out unseen, on test and on val, does every build pass its check, whom do impostors attack, whom does the evaluation drop, and does the manifest say so? | 8 properties hold, over a directory that is built once |
| `enroll_empty` | Does a split too small for pairs give empty arrays, as `evaluate` says? | no: `combined_day_app` over one bucket leaves nobody to enroll, and `np.concatenate` of nothing raises |
| `suite` | After two suites into one root, killed, failing or done: whose results does a report show, what was each run trained on, which k* may it be, and does the suite end? | 4 properties hold |
| `baseline_columns` | Do M0 and M8 see the features that their configurations name? | no: every baseline is trained on the columns of the one dataset |
| `suite_unindexed` | Does a suite survive a failed experiment, as its `except` clauses say? | no: one failed ablation beside one that succeeds ends it in `_write_csv` |
| `training` | Which checkpoint is restored, when does training stop, what does an epoch count? | 2 properties hold |
| `analysis` | Are operating points the best there are, do policies debounce, is raw left only for cause, is the correction Holm's? | 4 properties hold |

Seen while modelling, without a run of their own: a retry after a failure between
batch file and sidecar is answered 200 and never indexed (`app/storage.py:122`); the
random salt mode hands out two salts to two first requests or after a crash
(`app/config.py:98`); a rules file torn by a crash in its seeding keeps every later start
from coming up (`app/rules.py:53`); a wall clock set back across midnight yields a
session id twice (`sessionize.py:163`); `UnicodeDecodeError` escapes the best-effort
scan (`loaders.py:172`); a text event without `event_detail` keeps its milliseconds;
and in a feature ablation a NaN error rate is drawn as a bar of 0
(`research/reporting/plots.py:566`).

### Bounds, and why they are enough

- `ingest`: two devices, two ids, two days, six bodies, nine uploads in six
  scenarios of uploads made together; two sends each, one crash, one failed disk
  operation. Two bodies of one batch id and two copies of one upload are what it
  takes for a conflict and a repeat; a crash or a failure at every step followed by
  a retry is the deepest story the code can tell, since a second failure meets
  files in the same three conditions. Larger numbers are the theorems' business.
- `startup`: two threads, three tokens, two crashes, two edits: a race needs two,
  and the third token is never the one that decides.
- `sanitize`: two uploads, one with telemetry; a store that is empty or holds one or
  both of two older batches, one that is valid once cleaned and one that is not; one
  crash, two runs of the tool, so that a run meets what a killed one left. The schema
  against the stripping: every
  batch of two events of each kind, and every one of an event and a feature with a
  right, a retired, a missing or a half-filled task.
- `sessions`: two devices, four samples, six wall ticks around one midnight, two
  bases, two apps, two uploaded ids; a silence of two ticks is allowed. Windows of
  3 with stride 2 and guard 1 give overlap, a tail and an empty remainder. One app is
  the collector's own. Uploaded ids are symmetric, they are only compared.
- `experiment`: five windows in four sessions (one has two windows), of one or two
  users, on up to three days, in up to three apps, under three labellings; every
  order of the keys. Three keys are the first that are dealt by rounded fractions, one
  and two have rules of their own; three days take `leave_day_out` through each of its
  branches. Larger tables are covered by the theorems. `MaxBuilds = 1`: with two
  builds under different seeds into one directory, the second dying half-way or
  finishing between `Load` and `Evaluate`, `ScoresAreUnseen` does fail. The code
  does nothing against it, and no document promises otherwise; run a new seed in a
  new directory.
- `suite`: nine of the 27 experiments, at least one of each group and each kind of
  view; two suites, since a third meets files as the second does; two mishaps, so
  that a suite that was killed is followed by one with a failure in it. Eight sweeps
  of two values of k and up to six users: the exact tests first reach 5% at six. Three
  roots: a whole dataset, one without its split manifest, one not begun, before a
  second. `HardLinks = TRUE`; copies only make fewer files shared.
- `training`: five windows of two or three sessions, one of them with a gap, or none;
  batches of two, so that pairs are cut by batch boundaries; epochs and patience
  small, losses on both sides of the tolerance, and NaN; each kind of model, and
  configurations that cannot be built.
- `analysis`: streams of up to six windows over four levels of score, every stream of
  six with a low and a high one, budgets of none, few and any; thresholds between the
  scores, or not finite, whatever the scores; families of four.
  A window of five, the longest the policies have, is exceeded by one. With doubles of
  four digits (`Precision = 4`) the run has rejects four and five windows apart, where the
  first is forgotten, and all that are closer.

`CHECK_DEADLOCK FALSE`: every run ends by design, when all uploads are settled, all
bounds are used up, the windows are cut or the last suite is over.

### Fairness

`Ingest!Fairness` is weak fairness of the server's steps together and of the
uploader's together: the event loop does not stop by itself and the container
restarts (`deploy/docker-compose.yml:48`, `restart: unless-stopped`); the uploader's
replay timer and its call timeout fire. Nothing is assumed of the network, of
crashes or of which upload is sent first. `Startup` assumes weak fairness of the
boot only. `Suite!FairSpec` is weak fairness of `Work`: a suite is one sequential
process, which goes on unless it is killed; nobody has to begin one, and nothing is
assumed of what raises. The other runs check safety.

## 4. Proofs

All are for any values of the constants, under the named `ASSUME`s of the modules
(finite or infinite sets of bodies, devices, uploads; any tables, streams, sweeps and
bounds). Every safety and action property of the passing runs is a theorem; where a
theorem needs more than the `ASSUME`s, its statement says so: `MaxBuilds \in {0, 1}`
for what is claimed of a directory built once, `NPerGenuine # 0` for the matching of
impostors, `~SteppedClock` for sessions. That a stride is no longer than its window is
`WindowAssumption`, without which windows would not cover a session.

- `Ingest_proofs`: `TypeOK`; then `SafetyInv`, the strengthening of the store's
  invariants: what the position of the handler says about the file, the sidecar,
  the index line and the category entry of its target, that an upload beyond the
  checks is valid and addressed to its own path, and that a verdict of 200 means
  the file holds the body. Neither `AckedIsStored` nor `IndexFollowsBatch` is
  inductive alone: both need to know that the file is `absent` when `OpenBatch`
  truncates it and unchanged until the next write. From it follow
  `AckedIsStored`, `StoredIsAccepted`, `IndexFollowsBatch`, the action property
  `WriteOnce` and the refinement of `BatchStore` under the mapping `Entry`.
  `ClientInv` adds what travelling answers say of the disk. What a phone concludes
  stays true because a file that is neither absent nor being filled is never taken
  up again; the fact has to be stated for answers in flight, since the phone may hear
  one long after. `CalmInv` is about every path while nothing has failed: a torn file
  is the one being filled or one that met an upload that cannot be encoded, and a
  whole one that no handler is at is indexed.
- `IngestSanitize_proofs`: `SafetyInv` does not survive the tool, which truncates files
  that the handler takes for written. `BothInv` says instead what each side may rely on
  beside the other: a rewrite under way holds in memory the body that it is the cleaning
  of, so that an acknowledged body is on the disk, or in the tool's hands, or lost by a
  kill; what the run has behind it is clean; and what the handler fills, the tool is not
  rewriting. With an older server's batches on the disk `StoredIsAccepted` does not hold
  here. `FailInv` says instead that a file noted as failing stays whole and goes on
  breaking another rule than the youngest, since nothing takes a whole file up but a
  rewrite, which keeps that; from it `CleanedBatchesPass`, with the lemma `Cleaning`: the
  stripping, applied to any batch that passes all rules but the youngest, gives one that
  passes all. `StampInv` says that a rewritten file is clean from then on, so that no run
  takes it up again, neither to stamp nor to unstamp it (`RewritesAreStamped`).
- `Startup_proofs`: in the default mode every thread can only write the default
  salt; a settled file does not change; served rules are valid and the file's.
- `Sessions_proofs`: for clocks that are not set back, `StreamInv` says that along
  the stream devices, then days, then segments never decrease, that a segment
  grows exactly at a boundary, and how the axis moves from one sample to the next;
  the two properties about any two samples of a session follow from the facts about
  neighbours because the order of ids makes a session an interval. For any clocks,
  `WindowInv` says that the windows cut are those of the kept sessions; that they miss
  no sample and no moment rests on the last window that starts at or before it, since
  the next one starts later.
- `Experiment_proofs`: for any table and any order of the keys. `MakeSplitIsSound`
  says of each protocol and fallback that sessions, and the axes it claims, are
  apart between the enrolled side and test; `JobInv` carries it through the files, so
  that no build fails (`BuildsNeverFail`) and everything is in range (`Typing`).
  `OnceInv` adds, for a directory built at most once (`MaxBuilds \in {0, 1}`), that
  its files come from one split and that the feature manifest appears after the
  pairs, from which `BuiltOnceScoresAreUnseen` follows. `WhatIsHeldOutIsUnseen` and
  `EveryoneIsEnrolled` speak of the order of days and of the shrink loop: of two
  sessions or more the first and the last in the hashed order lie on different
  sides, which rests on the natural numbers being well-founded. `MadeInv` adds that
  the pairs and the manifest on the disk are what `build_dataset` makes of that very
  split, and a result what the evaluator makes of both, from which follow who attacks
  whom, whom the evaluation drops and that a manifest without a warning is sound.
  `ValInvariant` carries all of it over to `ValSpec`, whose second evaluation changes
  nothing that the first reads.
- `Suite_proofs`: however many suites are run into one root, and however they end.
  `JobInv` keeps a suite at a step of its plan, whose shape `PlanIs` gives for both
  options. `DataInv` says that the dataset's split files keep their values, as the one
  quantised view is written anew, and that a run is of an experiment of its name.
  `SuiteInv` says how far the root is the running suite's: the files of the steps that
  it has passed, and the runs that its rows name. A suite that has ended has passed all;
  the report's fallbacks to other files, by which it could come to show another suite,
  are then not taken. `KstarsAreDefended` rests on the exact test: the smaller tail is
  never empty, and a single assignment of signs if all users differ alike, out of 64 or
  more for six users and at most 32 for five, so that 5% can be reached by six and not
  by five.
- `Training_proofs`: for any tables, losses, tolerance, patience and batch size.
  `TheBestIsRestored` rests on an invariant about the history so far: the best epoch
  is below every earlier finite one, no loss at all lies below it by more than the
  tolerance, and `waited` is exactly the number of epochs since. `EachIsCountedOnce`
  rests on: a row counts once if it has left `left` and not at all otherwise, and a
  pair counts by its first row; that the pairs of `Succ` are the neighbours in time
  needs the windows of a session to lie together in order (`TablesAssumption`), which
  the builder's sorted files give.
- `Analysis_proofs`: `CorrectionIsStepDown`, for families of any length. A running
  maximum is at most a level exactly when every term up to there is; the factor at a
  place is the number of hypotheses not placed before it; and of equal p-values the
  first placed has the largest factor, so that the order among equals does not show.
  `VerticesSuffice`, for any scores without a tie: of the thresholds that do best the
  extreme one is a vertex, since one that the curve drops has a neighbour on either
  side, of which one does as well or better. `DebouncingIsRight`, for streams of any
  length and doubles of any precision: rounding moves no number past one that a double
  can hold (`Capped`, `Floored`) and leaves those alone (`Exact`); so the average, which
  obeys its recurrence (`RateIs`), comes above one half only at a reject
  (`OnlyRejectsTrigger`) and not at a single one (`OneIsNotEnough`). At five tenths, while
  rejects are further apart than the digits reach, an older one is rounded away at the
  next (`Absorbed`), so that only the latest counts and the average is a power of two
  (`Fading`, `OnlyTheLatest`); one among the last `Precision` windows lifts the next above
  one half (`ClosePair`). `RawIsTheDefault` follows from the first two: whatever a policy
  answers first is a reject, which raw answers too, so raw's times are no longer, nor are
  their sums (`AddGrows`), and raw is first in the grid.

Induction over windows, subsets or the size of a set is done with sets of numbers that
have a least member (`Least`, `Upwards`), since the library's induction rules take an
operator, which the provers cannot instantiate.

Only model-checked: liveness (`GoodUploadsAreStored`, `ServerComesUp`, `SuiteSettles`),
since fairness and ENABLED are out of the prover's reach. No operator is recursive;
`Detection!Rate`, `Detection!Excess` and the sums of the library are recursive functions.

## 5. Not modelled, and why

- Feature extraction, quality flags and weak labels compute floating-point numbers
  from one window: there is no control to check. The column sets they produce are in
  `Suite`. The same goes for tensors, gradients, bootstrap intervals and latencies.
- Reporting's drawing and formatting, logging, utilities, the synthetic-data
  generator, client tools and the container entry point are input and output.
- The per-device stream of `run_preprocess` against the one-shot run, previous
  snapshots and events per batch: `Sessions` has no events of its own.
- Power loss (as against a killed process) depends on the file system.
- Two suites or two builds at the same time into one directory: the scripts take no
  lock, and no document says that they may be run so.

## 6. Plan

1. (done) `DiskStore`, `Ingest`, `BatchStore`: the data the phones cannot send twice.
2. (done) `StudySalt`, `RulesFile`, `Startup`; `Sanitizer` beside the server;
   `Sessions`.
3. (done) `Splits`, `Datasets`, `Experiment`, `Validation`: what the reported error
   rates rest on.
4. (done) `Suite`, `Reporting`, `Statistics`; `Training`; `Detection`,
   `OperatingPoints`, `Analysis`; `Payload`.
5. (done) Proofs of every safety and action property that a run checks.
