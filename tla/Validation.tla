------------------------------ MODULE Validation ------------------------------
(***************************************************************************)
(* The validation side of an experiment: _evaluate_val of runner.py scores *)
(* the windows of val against prototypes made of train alone.  k*, the     *)
(* decision threshold and the detection policy are chosen on these scores, *)
(* before or after the test split is evaluated as Experiment says.         *)
(***************************************************************************)
EXTENDS Experiment

VARIABLE
  val            \* the EvalResult of val and its provenance

valVars == <<vars, val>>

NoVal == [matching |-> "none", genuine |-> {}, impostor |-> {}]

ValInit == Init /\ val = NoVal

-----------------------------------------------------------------------------
\* Users with a prototype, train's only.
TrainPrototypes == Values(table, bundle.train, "user")

\* Mutant: windows of test are scored along with those of val.
Heldout == bundle.val \cup bundle.test

\* Windows that are scored, and that attackers are drawn from.
Queries == bundle.val

Attackers(g) == Candidates(table, [test |-> Queries], g)

Attacked == {g \in Queries : Attackers(g) # {}}

\* One attacker for each window that has any; a pair whose user has no prototype
\* is left out.
MatchedPairs ==
  {{<<table[g].user, f[g]>> : g \in {g \in Attacked : table[g].user \in TrainPrototypes}} :
     f \in {f \in [Attacked -> Queries] : \A g \in Attacked : f[g] \in Attackers(g)}}

\* Every window against every other user.
LoosePairs ==
  {p \in TrainPrototypes \X Queries : table[p[2]].user # p[1]}

EvaluateVal ==
  /\ bundle.loaded
  /\ val = NoVal
  /\ \/ /\ {} \in {bundle.val, bundle.train}
        /\ val' = [NoVal EXCEPT !.matching = "empty"]
     \/ /\ {} \notin {bundle.val, bundle.train}
        /\ \E pairs \in IF Attacked = {} THEN {LoosePairs} ELSE MatchedPairs :
             val' = [matching |-> IF Attacked = {} THEN "loose_fallback" ELSE "matched",
                     genuine |-> {i \in Queries : table[i].user \in TrainPrototypes},
                     impostor |-> pairs]
  /\ UNCHANGED vars

ValNext ==
  \/ Next /\ UNCHANGED val
  \/ EvaluateVal

ValSpec == ValInit /\ [][ValNext]_valVars

-----------------------------------------------------------------------------
(* Properties. *)

ValScored == val.genuine \cup {p[2] : p \in val.impostor}

\* What is chosen on val is chosen on sessions that were not trained on, unless
\* the split says that val was borrowed from train, and in any case on none that
\* is tested; and matched attackers are other users.
ValidationIsUnseenOrNoted ==
  /\ Values(table, ValScored, "session") \cap Values(table, bundle.test, "session") = {}
  /\ \A p \in val.impostor : table[p[2]].user # p[1]
  /\ \/ Values(table, ValScored, "session") \cap Values(table, bundle.train, "session") = {}
     \/ "manifest" \notin dir.has \ dir.torn
     \/ "combined_empty_val_borrowed_train" \in dir.data.manifest.warnings
===============================================================================
