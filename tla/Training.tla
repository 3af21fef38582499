------------------------------- MODULE Training -------------------------------
(***************************************************************************)
(* train_model of trainer.py for one configuration: the model is built,    *)
(* then every epoch goes through the train split in shuffled batches, each *)
(* forward pass taking along the time successors of its rows; the loss on  *)
(* val picks the checkpoint that is restored in the end and stops the      *)
(* training early.  Losses are integers, in units of the tolerance or      *)
(* less; which value a step leads to is up to the data.                    *)
(***************************************************************************)
EXTENDS Floats, Integers, Sequences, FiniteSets, FiniteSetsExt

CONSTANTS
  Tables,        \* train splits: sequences of [session, start, confidence]
  Configs,       \* configurations
  Experts,       \* n_experts
  Epochs,        \* train.epochs
  Patience,      \* train.early_stop_patience
  BatchSize,     \* train.batch_size
  Losses,        \* finite losses
  Tolerance      \* 1e-6, in the same unit

ASSUME TrainingAssumption ==
  /\ Experts \in Nat \ {0} /\ Epochs \in Nat /\ Patience \in Nat \ {0}
  /\ BatchSize \in Nat \ {0} /\ Losses \subseteq Nat /\ Tolerance \in Nat

\* The windows of a session lie together in the file, in the order of time.
ASSUME TablesAssumption ==
  \A t \in Tables :
    /\ t \in Seq([session : Nat, start : Nat, confidence : Nat])
    /\ \A i, j \in DOMAIN t :
         i < j /\ t[i].session = t[j].session =>
           t[i].start < t[j].start /\ \A l \in i .. j : t[l].session = t[i].session

\* NaN stands for any loss that is not finite.
Loss == Losses \cup {NaN}

Record == [val : Loss, monitor : Loss]

VARIABLES
  table,         \* the train split
  hasVal,        \* the val split has rows
  cfg,           \* the configuration
  phase,         \* what the trainer does next
  model,         \* router of the model that was built
  left,          \* rows not yet visited in this epoch
  counts,        \* what the losses of this epoch took into account
  weights,       \* epoch after which the model's weights are; 0: initial
  best,          \* best_state, by epoch
  reported,      \* history["best_epoch"], 0 for -1
  bestLoss,      \* best_val; NaN stands for infinity
  waited,        \* no_improve
  history,       \* history["epochs"]: loss on val and the loss monitored
  stopped        \* history["early_stopped"]

vars == <<table, hasVal, cfg, phase, model, left, counts, weights, best, reported,
          bestLoss, waited, history, stopped>>

Rows == DOMAIN table

NoRow == 0

NoCounts ==
  [auth |-> [i \in Rows |-> 0], kl |-> [i \in Rows |-> 0],
   smooth |-> [p \in Rows \X Rows |-> 0]]

Init ==
  /\ table \in Tables
  /\ hasVal \in BOOLEAN
  /\ cfg \in Configs
  /\ phase = "build"
  /\ model = "none"
  /\ left = {}
  /\ counts = NoCounts
  /\ weights = 0 /\ best = 0 /\ reported = 0 /\ bestLoss = NaN /\ waited = 0
  /\ history = <<>>
  /\ stopped = FALSE

\* succ_idx: the next row, if it is of the same session and not earlier.
Succ(i) ==
  IF /\ i + 1 \in Rows
     /\ table[i + 1].session = table[i].session
     /\ table[i + 1].start >= table[i].start
  THEN i + 1 ELSE NoRow

-----------------------------------------------------------------------------
(* Mutants: definitions with a bug a change could introduce. *)

\* The rows taken along are scored like the batch's own.
MainIsForward(batch) == batch \cup ({Succ(i) : i \in batch} \ {NoRow})

\* The tolerance is given away at every step.
BetterByAny(loss) == loss # NaN /\ (bestLoss = NaN \/ loss < bestLoss + Tolerance)

-----------------------------------------------------------------------------
(* The model. *)

\* A package_only router without package columns becomes a learned one.
Router ==
  IF cfg.kind = "dense" THEN "none"
  ELSE IF cfg.router = "package_only" /\ ~cfg.package THEN "learned"
  ELSE cfg.router

Routed == model # "none"

\* build_model raises on an unknown kind, on no columns and on a top-k out of range.
CanBuild ==
  /\ cfg.kind \in {"dense", "moe"}
  /\ cfg.columns > 0
  /\ cfg.kind = "moe" => cfg.topk \in 1 .. Experts

Build ==
  /\ phase = "build"
  /\ IF CanBuild
     THEN /\ model' = Router
          /\ phase' = IF Rows = {} \/ Epochs = 0 THEN "over" ELSE "epoch"
     ELSE /\ phase' = "raised" /\ UNCHANGED model
  /\ UNCHANGED <<table, hasVal, cfg, left, counts, weights, best, reported,
                 bestLoss, waited, history, stopped>>

-----------------------------------------------------------------------------
(* One batch. *)

\* Rows of the forward pass: the batch and the successors it lacks.
Forward(batch) == batch \cup ({Succ(i) : i \in batch} \ {NoRow})

\* main_count: rows that auth, KL and balance are computed of.
Main(batch) == batch

\* succ_positions: pairs that smoothness is computed of.
Pairs(batch) ==
  {<<i, Succ(i)>> : i \in {j \in Main(batch) : Succ(j) \in Forward(batch)}}

\* Rows with a weight in the KL term: confident at all, and enough for the gate.
Supervised(batch) ==
  {i \in Main(batch) : table[i].confidence > 0 /\ table[i].confidence >= cfg.threshold}

Add(f, S) == [x \in DOMAIN f |-> f[x] + IF x \in S THEN 1 ELSE 0]

\* total_loss: the terms that the configuration and the model have.
Count(batch) ==
  [auth |-> Add(counts.auth, Main(batch)),
   kl |-> IF Routed /\ cfg.scene THEN Add(counts.kl, Supervised(batch)) ELSE counts.kl,
   smooth |-> IF Routed /\ cfg.smooth THEN Add(counts.smooth, Pairs(batch)) ELSE counts.smooth]

BeginEpoch ==
  /\ phase = "epoch"
  /\ phase' = "batch"
  /\ left' = Rows
  /\ counts' = NoCounts
  /\ UNCHANGED <<table, hasVal, cfg, model, weights, best, reported, bestLoss, waited,
                 history, stopped>>

\* A slice of the permutation; nothing depends on the order within it.
Batch ==
  /\ phase = "batch"
  /\ \E batch \in kSubset(IF BatchSize < Cardinality(left) THEN BatchSize ELSE Cardinality(left), left) :
       /\ counts' = Count(batch)
       /\ left' = left \ batch
       /\ phase' = IF left' = {} THEN "monitor" ELSE "batch"
  /\ weights' = Len(history) + 1
  /\ UNCHANGED <<table, hasVal, cfg, model, best, reported, bestLoss, waited, history, stopped>>

-----------------------------------------------------------------------------
(* The end of an epoch. *)

Better(loss) == loss # NaN /\ (bestLoss = NaN \/ loss < bestLoss - Tolerance)

Checkpoint == Len(history) + 1

\* The monitored loss is the better one: the checkpoint is taken.
Improve(loss) ==
  /\ Better(loss)
  /\ best' = Checkpoint /\ reported' = Checkpoint /\ bestLoss' = loss /\ waited' = 0
  /\ UNCHANGED stopped

Wait(loss) ==
  /\ ~Better(loss)
  /\ waited' = waited + 1
  /\ stopped' = (waited' >= Patience)
  /\ UNCHANGED <<best, reported, bestLoss>>

\* The loss on val is monitored, or that on train where it is not finite, which
\* it never is on an empty split.
Monitor ==
  /\ phase = "monitor"
  /\ \E val, monitor \in Loss :
       /\ val # NaN => hasVal /\ monitor = val
       /\ history' = Append(history, [val |-> val, monitor |-> monitor])
       /\ Improve(monitor) \/ Wait(monitor)
  /\ phase' = IF stopped' \/ Len(history') = Epochs THEN "over" ELSE "epoch"
  /\ UNCHANGED <<table, hasVal, cfg, model, left, counts, weights>>

Restored == best

\* load_state_dict(best_state), which is the initial one where no epoch improved:
\* the last epoch is then reported as the best.  An untrained model is returned as
\* it is.
Finish ==
  /\ phase = "over"
  /\ phase' = "done"
  /\ weights' = Restored
  /\ reported' = IF reported = 0 THEN Len(history) ELSE reported
  /\ UNCHANGED <<table, hasVal, cfg, model, left, counts, best, bestLoss, waited, history, stopped>>

Next == Build \/ BeginEpoch \/ Batch \/ Monitor \/ Finish

Spec == Init /\ [][Next]_vars

-----------------------------------------------------------------------------
(* Properties. *)

\* The trainer's variables are in range.
TypeOK ==
  /\ phase \in {"build", "epoch", "batch", "monitor", "over", "done", "raised"}
  /\ left \subseteq Rows
  /\ weights \in 0 .. Epochs /\ best \in 0 .. Epochs /\ reported \in 0 .. Epochs
  /\ bestLoss \in Loss /\ waited \in 0 .. Patience
  /\ history \in Seq(Record)
  /\ Len(history) <= Epochs
  /\ stopped \in BOOLEAN

Finite == {i \in DOMAIN history : history[i].monitor # NaN}

\* The checkpoint that is restored, and that the run reports unless it has no finite
\* loss at all, was monitored lower than every earlier epoch,
\* and no later one went below it by more than the tolerance; without a finite
\* loss it is the initial one.  The training stops early exactly when as many
\* epochs as the patience has have passed since then.
BestIsRestored ==
  phase = "done" /\ Rows # {} =>
    /\ weights = best
    /\ reported = best \/ Finite = {}
    /\ best = 0 <=> Finite = {}
    /\ best # 0 =>
         /\ best \in Finite
         /\ \A i \in Finite :
              /\ i < best => history[i].monitor > history[best].monitor
              /\ history[i].monitor >= history[best].monitor - Tolerance
    /\ IF stopped THEN Len(history) = best + Patience
       ELSE Len(history) = Epochs /\ Len(history) < best + Patience

\* Neighbours in time: of one session, with no window of the split in between.
Adjacent ==
  {p \in Rows \X Rows :
     /\ table[p[1]].session = table[p[2]].session
     /\ table[p[1]].start < table[p[2]].start
     /\ \A i \in Rows :
          table[i].session = table[p[1]].session =>
            table[i].start <= table[p[1]].start \/ table[i].start >= table[p[2]].start}

\* However the rows fall into batches, an epoch counts every window once for
\* authentication, every confident one once for the router's supervision, and
\* every pair of neighbours in a session once for smoothness, and nothing else.
EachCountsOnce ==
  phase = "monitor" =>
    /\ \A i \in Rows :
         /\ counts.auth[i] = 1
         /\ counts.kl[i] =
              IF /\ Routed /\ cfg.scene
                 /\ table[i].confidence > 0 /\ table[i].confidence >= cfg.threshold
              THEN 1 ELSE 0
    /\ \A p \in Rows \X Rows :
         counts.smooth[p] = IF p \in Adjacent /\ Routed /\ cfg.smooth THEN 1 ELSE 0
==============================================================================
