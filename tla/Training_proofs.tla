--------------------------- MODULE Training_proofs ---------------------------
(***************************************************************************)
(* Proofs about Training, for every train split whose sessions lie         *)
(* together in the order of time, every configuration, number of epochs,   *)
(* patience and size of a batch.                                           *)
(*                                                                         *)
(* The argument: `waited' is the number of epochs since the checkpoint,    *)
(* and what was monitored before it is above it, since a checkpoint is     *)
(* only taken below the last one by more than the tolerance.  In an epoch  *)
(* the rows that are left are those that were not counted yet, and a pair  *)
(* is counted along with its first row, whose successor is always in the   *)
(* same forward pass.                                                      *)
(***************************************************************************)
EXTENDS Training, TLAPS

-----------------------------------------------------------------------------
(* The checkpoint. *)

\* What the checkpoint is among the losses that were monitored.
Lowest ==
  /\ best = 0 <=> Finite = {}
  /\ best = 0 <=> bestLoss = NaN
  /\ best # 0 =>
       /\ best \in Finite
       /\ bestLoss = history[best].monitor
       /\ \A i \in Finite :
            /\ i < best => history[i].monitor > bestLoss
            /\ history[i].monitor >= bestLoss - Tolerance

\* How long ago it was taken, and what that means for the training.
Counted ==
  /\ best <= Len(history)
  /\ waited = Len(history) - best
  /\ stopped <=> waited = Patience

Phases ==
  /\ phase \in {"epoch", "batch", "monitor"} => ~stopped /\ Len(history) < Epochs
  /\ phase = "build" => history = <<>>
  /\ phase \in {"over", "done"} /\ Rows # {} => stopped \/ Len(history) = Epochs
  /\ phase # "done" => reported = best
  /\ phase = "done" => weights = best /\ (reported = best \/ best = 0)

CheckpointInv == TypeOK /\ Lowest /\ Counted /\ Phases

LEMMA Numbers ==
  /\ Epochs \in Nat /\ Patience \in Nat \ {0} /\ Tolerance \in Nat
  /\ Loss \subseteq Int /\ \A l \in Loss : l # NaN => l \in Losses /\ l \in Nat
BY TrainingAssumption DEF Loss, NaN

LEMMA CheckpointInit == Init => CheckpointInv
<1> SUFFICES ASSUME Init PROVE CheckpointInv
  OBVIOUS
<1> USE DEF Init
<1>1. TypeOK
  <2>1. history \in Seq(Record) /\ Len(history) = 0
    OBVIOUS
  <2>2. NaN \in Loss /\ 0 \in 0 .. Epochs /\ 0 \in 0 .. Patience /\ left \subseteq Rows
    BY Numbers DEF Loss
  <2>3. phase = "build" /\ stopped = FALSE /\ 0 <= Epochs
    BY Numbers
  <2>4. weights = 0 /\ best = 0 /\ reported = 0 /\ bestLoss = NaN /\ waited = 0
    OBVIOUS
  <2> HIDE DEF Init
  <2> QED BY <2>1, <2>2, <2>3, <2>4 DEF TypeOK
<1>2. Finite = {}
  BY DEF Finite
<1>3. Lowest
  BY <1>2 DEF Lowest
<1>4. Counted
  BY Numbers DEF Counted
<1>5. Phases
  BY DEF Phases
<1> QED BY <1>1, <1>3, <1>4, <1>5 DEF CheckpointInv

\* The only step that looks at a loss.
LEMMA MonitorKeeps == CheckpointInv /\ Monitor => CheckpointInv'
<1> SUFFICES ASSUME CheckpointInv, Monitor PROVE CheckpointInv'
  OBVIOUS
<1> USE Numbers
<1>1. PICK val \in Loss, monitor \in Loss :
        /\ history' = Append(history, [val |-> val, monitor |-> monitor])
        /\ Improve(monitor) \/ Wait(monitor)
  BY DEF Monitor
<1> DEFINE n == Len(history)
<1>2. history \in Seq(Record) /\ n \in Nat /\ bestLoss \in Loss /\ best \in Nat
      /\ waited \in 0 .. Patience /\ stopped \in BOOLEAN
  BY DEF CheckpointInv, TypeOK
<1>3. ~stopped /\ n < Epochs /\ reported = best
  BY DEF CheckpointInv, Phases, Monitor
<1>4. /\ history' \in Seq(Record)
      /\ Len(history') = n + 1
      /\ history'[n + 1].monitor = monitor
      /\ \A i \in 1 .. n : history'[i] = history[i]
  BY <1>1, <1>2 DEF Record
<1>5. Finite' = Finite \cup (IF monitor = NaN THEN {} ELSE {n + 1})
      /\ Finite \subseteq 1 .. n
  BY <1>2, <1>4 DEF Finite
<1>6. phase' \in {"over", "epoch"} /\ phase = "monitor"
  BY DEF Monitor
<1>7. phase' = "over" <=> (stopped' \/ n + 1 = Epochs)
  BY <1>4 DEF Monitor
<1>8. /\ \A i \in Finite' : history'[i].monitor \in Nat
      /\ \A i \in Finite : history'[i] = history[i] /\ history[i].monitor \in Nat
  <2>1. \A i \in 1 .. n + 1 : history'[i].monitor \in Loss
    <3>1. \A i \in 1 .. n + 1 : history'[i] \in Record
      BY <1>4
    <3> QED BY <3>1 DEF Record
  <2>2. \A i \in Finite' : i \in 1 .. n + 1 /\ history'[i].monitor # NaN
    BY <1>2, <1>4 DEF Finite
  <2> QED BY <2>1, <2>2, <1>4, <1>5
<1>9. CASE Improve(monitor)
  <2>1. /\ monitor # NaN /\ best' = n + 1 /\ reported' = n + 1 /\ bestLoss' = monitor
        /\ waited' = 0 /\ ~stopped'
        /\ bestLoss = NaN \/ monitor < bestLoss - Tolerance
    BY <1>9, <1>3 DEF Improve, Better, Checkpoint
  <2>2. TypeOK'
    <3>1. left' \subseteq Rows' /\ weights' \in 0 .. Epochs
      BY DEF CheckpointInv, TypeOK, Monitor, Rows
    <3>2. n + 1 \in 0 .. Epochs /\ 0 \in 0 .. Patience
      BY <1>2, <1>3
    <3>3. stopped' \in BOOLEAN
      BY <1>9 DEF Improve, CheckpointInv, TypeOK
    <3> QED BY <3>1, <3>2, <3>3, <2>1, <1>4, <1>6 DEF TypeOK
  <2>3. \A i \in Finite : history[i].monitor > monitor
    <3>1. CASE bestLoss = NaN
      BY <3>1 DEF CheckpointInv, Lowest
    <3>2. CASE bestLoss # NaN
      <4>1. \A i \in Finite : history[i].monitor >= bestLoss - Tolerance
        BY <3>2 DEF CheckpointInv, Lowest
      <4>2. monitor \in Int /\ bestLoss \in Int
        BY <1>2
      <4>3. monitor < bestLoss - Tolerance
        BY <2>1, <3>2
      <4>4. \A i \in Finite : history[i].monitor \in Nat
        BY <1>8
      <4> QED BY <4>1, <4>2, <4>3, <4>4
    <3> QED BY <3>1, <3>2
  <2>4. Lowest'
    <3>1. n + 1 \in Finite' /\ monitor \in Nat /\ n + 1 # 0
      BY <1>5, <2>1, <1>2
    <3>2. \A i \in Finite' :
            /\ i < n + 1 => history'[i].monitor > monitor
            /\ history'[i].monitor >= monitor - Tolerance
      BY <1>5, <1>8, <2>1, <2>3, <1>4, <3>1
    <3> QED BY <3>1, <3>2, <2>1, <1>4 DEF Lowest
  <2>5. Counted'
    BY <2>1, <1>4, <1>2 DEF Counted
  <2>6. Phases'
    BY <2>1, <1>4, <1>2, <1>3, <1>6, <1>7 DEF Phases
  <2> QED BY <2>2, <2>4, <2>5, <2>6 DEF CheckpointInv
<1>10. CASE Wait(monitor)
  <2>1. /\ best' = best /\ reported' = best /\ bestLoss' = bestLoss /\ waited' = waited + 1
        /\ stopped' = (waited + 1 >= Patience)
        /\ monitor # NaN => bestLoss # NaN /\ ~(monitor < bestLoss - Tolerance)
    BY <1>10, <1>3 DEF Wait, Better
  <2>2. best <= n /\ waited = n - best /\ waited < Patience
    BY <1>2, <1>3 DEF CheckpointInv, Counted
  <2>3. TypeOK'
    <3>1. left' \subseteq Rows' /\ weights' \in 0 .. Epochs
      BY DEF CheckpointInv, TypeOK, Monitor, Rows
    <3>2. n + 1 \in 0 .. Epochs /\ waited + 1 \in 0 .. Patience /\ best \in 0 .. Epochs
      BY <2>2, <1>2, <1>3 DEF CheckpointInv, TypeOK
    <3>3. stopped' \in BOOLEAN
      BY <2>1
    <3> QED BY <3>1, <3>2, <3>3, <2>1, <1>2, <1>3, <1>4, <1>6 DEF TypeOK
  <2>4. Lowest'
    <3>1. CASE monitor = NaN
      <4>1. Finite' = Finite /\ \A i \in Finite : history'[i] = history[i]
        BY <3>1, <1>5, <1>8
      <4> QED BY <4>1, <2>1 DEF CheckpointInv, Lowest
    <3>2. CASE monitor # NaN
      <4>1. best # 0 /\ best \in Finite /\ bestLoss \in Nat /\ monitor \in Nat
        BY <3>2, <2>1, <1>2 DEF CheckpointInv, Lowest
      <4>2. \A i \in Finite' :
              /\ i < best => history'[i].monitor > bestLoss
              /\ history'[i].monitor >= bestLoss - Tolerance
        BY <4>1, <2>1, <2>2, <1>2, <1>4, <1>5, <1>8, <3>2 DEF CheckpointInv, Lowest
      <4>3. best \in Finite' /\ bestLoss = history'[best].monitor
        BY <4>1, <1>5, <1>8 DEF CheckpointInv, Lowest
      <4>4. Finite' # {} /\ bestLoss # NaN /\ best' = best /\ bestLoss' = bestLoss
        BY <4>1, <4>3, <2>1, Numbers DEF NaN
      <4> QED BY <4>1, <4>2, <4>3, <4>4 DEF Lowest
    <3> QED BY <3>1, <3>2
  <2>5. Counted'
    <3>1. waited' = waited + 1 /\ waited + 1 = (n + 1) - best /\ best <= n + 1
      BY <2>1, <2>2, <1>2
    <3>2. stopped' <=> waited' = Patience
      <4>1. waited + 1 >= Patience <=> waited + 1 = Patience
        BY <2>2, <1>2
      <4>2. stopped' <=> waited + 1 >= Patience
        BY <2>1, Zenon
      <4> QED BY <4>1, <4>2, <2>1
    <3> QED BY <3>1, <3>2, <2>1, <1>4, <1>2 DEF Counted
  <2>6. Phases'
    BY <2>1, <1>4, <1>2, <1>3, <1>6, <1>7 DEF Phases
  <2> QED BY <2>3, <2>4, <2>5, <2>6 DEF CheckpointInv
<1> QED BY <1>1, <1>9, <1>10

\* The checkpoint, its age and the phases are an invariant of every step.
LEMMA CheckpointStep == CheckpointInv /\ [Next]_vars => CheckpointInv'
<1> SUFFICES ASSUME CheckpointInv, [Next]_vars PROVE CheckpointInv'
  OBVIOUS
<1> USE Numbers DEF CheckpointInv
<1>1. CASE Build
  <2>1. TypeOK'
    BY <1>1 DEF Build, TypeOK, Rows
  <2>2. Lowest'
    BY <1>1 DEF Build, Lowest, Finite
  <2>3. Counted'
    BY <1>1 DEF Build, Counted
  <2>4. best \in Nat /\ best <= 0 /\ waited = 0 /\ ~stopped
    BY <1>1 DEF Build, Counted, Phases, TypeOK
  <2>5. Phases'
    BY <1>1, <2>4 DEF Build, Phases, Rows
  <2> QED BY <2>1, <2>2, <2>3, <2>5
<1>2. CASE BeginEpoch
  BY <1>2 DEF BeginEpoch, TypeOK, Rows, Lowest, Finite, Counted, Phases
<1>3. CASE Batch
  <2>1. phase' \in {"batch", "monitor"} /\ left' \subseteq left
    BY <1>3 DEF Batch
  <2>2. weights' \in 0 .. Epochs
    BY <1>3 DEF Batch, TypeOK, Phases
  <2>3. TypeOK'
    BY <1>3, <2>1, <2>2 DEF Batch, TypeOK, Rows
  <2>4. Lowest' /\ Counted' /\ Phases'
    BY <1>3, <2>1 DEF Batch, Lowest, Finite, Counted, Phases
  <2> QED BY <2>3, <2>4
<1>4. CASE Monitor
  BY <1>4, MonitorKeeps
<1>5. CASE Finish
  <2>1. TypeOK'
    <3>1. Len(history) \in 0 .. Epochs
      BY DEF TypeOK
    <3> QED BY <3>1, <1>5 DEF Finish, TypeOK, Rows, Restored
  <2>2. Lowest' /\ Counted'
    BY <1>5 DEF Finish, Lowest, Finite, Counted
  <2>3. Phases'
    BY <1>5, <2>1 DEF Finish, Phases, Rows, Restored
  <2> QED BY <2>1, <2>2, <2>3
<1>6. CASE UNCHANGED vars
  BY <1>6 DEF vars, TypeOK, Rows, Lowest, Finite, Counted, Phases
<1> QED BY <1>1, <1>2, <1>3, <1>4, <1>5, <1>6 DEF Next

LEMMA CheckpointSafety == Spec => []CheckpointInv
BY CheckpointInit, CheckpointStep, PTL DEF Spec

\* The trainer's variables are in range, whatever the split and its losses.
THEOREM Typing == Spec => []TypeOK
<1>1. CheckpointInv => TypeOK
  BY DEF CheckpointInv
<1> QED BY <1>1, CheckpointSafety, PTL

\* For any losses, patience and tolerance the checkpoint restored in the end is the
\* one that BestIsRestored describes, and the training stops when it says.
THEOREM TheBestIsRestored == Spec => []BestIsRestored
<1>1. CheckpointInv => BestIsRestored
  <2> SUFFICES ASSUME CheckpointInv, phase = "done", Rows # {}
               PROVE  BestIsRestored
    BY DEF BestIsRestored
  <2>1. weights = best /\ (reported = best \/ Finite = {})
    BY DEF CheckpointInv, Phases, Lowest
  <2>2. IF stopped THEN Len(history) = best + Patience
        ELSE Len(history) = Epochs /\ Len(history) < best + Patience
    BY Numbers DEF CheckpointInv, TypeOK, Counted, Phases
  <2> QED BY <2>1, <2>2 DEF CheckpointInv, Lowest, BestIsRestored
<1> QED BY <1>1, CheckpointSafety, PTL

-----------------------------------------------------------------------------
(* What an epoch counts. *)

Guided(i) ==
  Routed /\ cfg.scene /\ table[i].confidence > 0 /\ table[i].confidence >= cfg.threshold

Joined(p) == p[2] = Succ(p[1]) /\ Routed /\ cfg.smooth

Bit(b) == IF b THEN 1 ELSE 0

\* The rows that are not left were counted once, and the pairs that they begin.
CountedOnce ==
  counts =
    [auth |-> [i \in Rows |-> Bit(i \notin left)],
     kl |-> [i \in Rows |-> Bit(i \notin left /\ Guided(i))],
     smooth |-> [p \in Rows \X Rows |-> Bit(p[1] \notin left /\ Joined(p))]]

CountsInv ==
  /\ table \in Tables
  /\ left \subseteq Rows
  /\ phase \in {"batch", "monitor"} => CountedOnce
  /\ phase = "monitor" => left = {}

\* In an ordered table the successors are the neighbours in time.
LEMMA SuccessorsAreNeighbours ==
  ASSUME table \in Tables, NEW p \in Rows \X Rows
  PROVE  p \in Adjacent <=> p[2] = Succ(p[1])
<1> DEFINE a == p[1]  b == p[2]
<1>1. PICK n \in Nat : Rows = 1 .. n
  BY TablesAssumption DEF Rows
<1>2. a \in 1 .. n /\ b \in 1 .. n
  BY <1>1
<1>3. \A i, j \in Rows :
        i < j /\ table[i].session = table[j].session =>
          table[i].start < table[j].start /\ \A l \in i .. j : table[l].session = table[i].session
  BY TablesAssumption DEF Rows
<1>4. \A i \in Rows : table[i].start \in Nat
  <2>1. table \in Seq([session : Nat, start : Nat, confidence : Nat])
    BY TablesAssumption
  <2> DEFINE Windows == [session : Nat, start : Nat, confidence : Nat]
  <2>2. table \in Seq(Windows)
    BY <2>1
  <2>3. \A i \in Rows : table[i] \in Windows
    <3> HIDE DEF Windows
    <3> QED BY <2>2 DEF Rows
  <2> QED BY <2>3
<1>5. ASSUME b = Succ(a) PROVE p \in Adjacent
  <2>1. b = a + 1 /\ table[b].session = table[a].session
    BY <1>5, <1>1, <1>2 DEF Succ, NoRow
  <2>2. table[a].start < table[b].start
    BY <2>1, <1>1, <1>2, <1>3
  <2>3. ASSUME NEW i \in Rows, table[i].session = table[a].session
        PROVE  table[i].start <= table[a].start \/ table[i].start >= table[b].start
    <3>1. i < a \/ i = a \/ i = b \/ b < i
      BY <2>1, <1>1, <1>2
    <3> QED BY <3>1, <2>1, <2>3, <1>1, <1>2, <1>3, <1>4
  <2> QED BY <2>1, <2>2, <2>3 DEF Adjacent
<1>6. ASSUME p \in Adjacent PROVE b = Succ(a)
  <2>1. /\ table[a].session = table[b].session
        /\ table[a].start < table[b].start
        /\ \A i \in Rows :
             table[i].session = table[a].session =>
               table[i].start <= table[a].start \/ table[i].start >= table[b].start
    BY <1>6 DEF Adjacent
  <2>2. a < b
    <3>1. ~(b < a) /\ a # b
      BY <2>1, <1>1, <1>2, <1>3, <1>4
    <3> QED BY <3>1, <1>2
  <2>3. a + 1 \in Rows /\ a + 1 \in a .. b /\ table[a + 1].session = table[a].session
    BY <2>1, <2>2, <1>1, <1>2, <1>3
  <2>4. table[a].start < table[a + 1].start
    BY <2>3, <1>1, <1>2, <1>3
  <2>5. ~(a + 1 < b)
    <3> SUFFICES ASSUME a + 1 < b PROVE FALSE
      OBVIOUS
    <3>1. table[a + 1].start < table[b].start
      BY <2>1, <2>3, <1>1, <1>2, <1>3
    <3> QED BY <3>1, <2>1, <2>3, <2>4, <1>1, <1>2, <1>4
  <2>6. b = a + 1
    BY <2>2, <2>5, <1>2
  <2> QED BY <2>1, <2>3, <2>4, <2>6, <1>1, <1>2, <1>4 DEF Succ
<1> QED BY <1>5, <1>6

\* A batch counts the pairs that its rows begin.
LEMMA BatchPairs ==
  ASSUME NEW batch, batch \subseteq Rows, 0 \notin Rows, NEW p \in Rows \X Rows
  PROVE  p \in Pairs(batch) <=> p[1] \in batch /\ p[2] = Succ(p[1])
<1>1. ASSUME p[1] \in batch, p[2] = Succ(p[1]) PROVE p \in Pairs(batch)
  <2>1. Succ(p[1]) \in Forward(batch)
    BY <1>1 DEF Forward, NoRow
  <2>2. p = <<p[1], Succ(p[1])>>
    BY <1>1
  <2> QED BY <1>1, <2>1, <2>2 DEF Pairs, Main
<1>2. ASSUME p \in Pairs(batch) PROVE p[1] \in batch /\ p[2] = Succ(p[1])
  BY <1>2 DEF Pairs, Main
<1> QED BY <1>1, <1>2

\* A batch of rows that are left keeps the account.
LEMMA BatchKeeps ==
  ASSUME CountsInv, Batch PROVE CountsInv'
<1>1. PICK batch \in SUBSET left : counts' = Count(batch) /\ left' = left \ batch
  BY DEF Batch, kSubset
<1>2. batch \subseteq Rows /\ Rows' = Rows /\ table' = table /\ 0 \notin Rows
  BY <1>1, TablesAssumption DEF CountsInv, Batch, Rows
<1>3. /\ \A i \in Rows : Guided(i)' <=> Guided(i)
      /\ \A p \in Rows \X Rows : Joined(p)' <=> Joined(p)
  BY DEF Batch, Guided, Joined, Routed, Succ, Rows, NoRow
<1>4. CountedOnce
  BY DEF CountsInv, Batch
<1>5. counts'.auth = [i \in Rows |-> Bit(i \notin left')]
  <2>1. counts'.auth = [i \in Rows |-> Bit(i \notin left) + Bit(i \in batch)]
    BY <1>1, <1>4 DEF Count, Add, CountedOnce, Main, Bit
  <2> QED BY <2>1, <1>1 DEF Bit
<1>6. counts'.kl = [i \in Rows |-> Bit(i \notin left' /\ Guided(i))]
  <2>1. CASE Routed /\ cfg.scene
    <3>1. counts'.kl =
            [i \in Rows |-> Bit(i \notin left /\ Guided(i)) + Bit(i \in Supervised(batch))]
      BY <1>1, <1>4, <2>1 DEF Count, Add, CountedOnce, Bit
    <3>2. \A i \in Rows : i \in Supervised(batch) <=> i \in batch /\ Guided(i)
      BY <2>1 DEF Supervised, Guided, Main
    <3> QED BY <3>1, <3>2, <1>1 DEF Bit
  <2>2. CASE ~(Routed /\ cfg.scene)
    <3>1. \A i \in Rows : ~Guided(i)
      BY <2>2 DEF Guided
    <3>2. counts'.kl = counts.kl
      BY <1>1, <2>2 DEF Count
    <3> QED BY <3>1, <3>2, <1>4 DEF CountedOnce, Bit
  <2> QED BY <2>1, <2>2
<1>7. counts'.smooth = [p \in Rows \X Rows |-> Bit(p[1] \notin left' /\ Joined(p))]
  <2>1. CASE Routed /\ cfg.smooth
    <3>1. counts'.smooth =
            [p \in Rows \X Rows |->
               Bit(p[1] \notin left /\ Joined(p)) + Bit(p \in Pairs(batch))]
      BY <1>1, <1>4, <2>1 DEF Count, Add, CountedOnce, Bit
    <3>2. \A p \in Rows \X Rows : p \in Pairs(batch) <=> p[1] \in batch /\ Joined(p)
      BY <2>1, <1>2, BatchPairs DEF Joined
    <3> QED BY <3>1, <3>2, <1>1 DEF Bit
  <2>2. CASE ~(Routed /\ cfg.smooth)
    <3>1. \A p \in Rows \X Rows : ~Joined(p)
      BY <2>2 DEF Joined
    <3>2. counts'.smooth = counts.smooth
      BY <1>1, <2>2 DEF Count
    <3> QED BY <3>1, <3>2, <1>4 DEF CountedOnce, Bit
  <2> QED BY <2>1, <2>2
<1>8. CountedOnce'
  <2>1. counts' = [auth |-> counts'.auth, kl |-> counts'.kl, smooth |-> counts'.smooth]
    BY <1>1 DEF Count
  <2>2. counts'.kl = [i \in Rows' |-> Bit(i \notin left' /\ Guided(i)')]
    BY <1>6, <1>3, <1>2 DEF Bit
  <2>3. counts'.smooth = [p \in Rows' \X Rows' |-> Bit(p[1] \notin left' /\ Joined(p)')]
    BY <1>7, <1>3, <1>2 DEF Bit
  <2> QED BY <2>1, <2>2, <2>3, <1>5, <1>2 DEF CountedOnce
<1>9. phase' = "monitor" => left' = {}
  BY DEF Batch
<1> QED BY <1>1, <1>2, <1>8, <1>9 DEF CountsInv

LEMMA CountsStep == CountsInv /\ [Next]_vars => CountsInv'
<1> SUFFICES ASSUME CountsInv, [Next]_vars PROVE CountsInv'
  OBVIOUS
<1>1. CASE Batch
  BY <1>1, BatchKeeps
<1>2. CASE BeginEpoch
  <2>1. table' = table /\ Rows' = Rows /\ left' = Rows /\ counts' = NoCounts /\ phase' = "batch"
    BY <1>2 DEF BeginEpoch, Rows
  <2>2. CountedOnce'
    BY <2>1 DEF CountedOnce, NoCounts, Bit
  <2> QED BY <2>1, <2>2 DEF CountsInv
<1>3. CASE Build \/ Monitor \/ Finish
  BY <1>3 DEF CountsInv, Build, Monitor, Finish, Rows
<1>4. CASE UNCHANGED vars
  BY <1>4 DEF CountsInv, CountedOnce, Guided, Joined, Routed, Succ, Rows, NoRow, vars
<1> QED BY <1>1, <1>2, <1>3, <1>4 DEF Next

\* For every ordered split, however it is shuffled and whatever the size of a batch,
\* an epoch counts each window and each pair of neighbours as EachCountsOnce says.
THEOREM EachIsCountedOnce == Spec => []EachCountsOnce
<1>1. Init => CountsInv
  BY DEF Init, CountsInv, Rows
<1>2. CountsInv => EachCountsOnce
  <2> SUFFICES ASSUME CountsInv, phase = "monitor" PROVE EachCountsOnce
    BY DEF EachCountsOnce
  <2>1. CountedOnce /\ left = {} /\ table \in Tables
    BY DEF CountsInv
  <2>2. \A i \in Rows : counts.auth[i] = 1 /\ counts.kl[i] = Bit(Guided(i))
    BY <2>1 DEF CountedOnce, Bit
  <2>3. \A p \in Rows \X Rows : counts.smooth[p] = Bit(Joined(p))
    BY <2>1 DEF CountedOnce, Bit
  <2>4. \A p \in Rows \X Rows : Joined(p) <=> p \in Adjacent /\ Routed /\ cfg.smooth
    BY <2>1, SuccessorsAreNeighbours DEF Joined
  <2> QED BY <2>2, <2>3, <2>4 DEF EachCountsOnce, Guided, Bit
<1> QED BY <1>1, <1>2, CountsStep, PTL DEF Spec
==============================================================================
