----------------------------- MODULE Experiment -----------------------------
(***************************************************************************)
(* An experiment over a dataset directory: DatasetBundle of _data.py reads *)
(* the three splits once the feature manifest is there; after training,    *)
(* evaluate of evaluator.py makes a prototype per user of train and val,   *)
(* scores the windows of test against it, reads the impostor pairs from    *)
(* the directory as it is by then, and scores them too.  Training reads    *)
(* nothing else and is not part of this module.                            *)
(***************************************************************************)
EXTENDS Datasets

VARIABLES
  bundle,        \* the splits as they were loaded
  result         \* the EvalResult

vars == <<buildVars, bundle, result>>

NotLoaded == [loaded |-> FALSE, train |-> {}, val |-> {}, test |-> {}]

NoResult == [outcome |-> "none", genuine |-> {}, impostor |-> {}, dropped |-> {}]

Init == BuildInit /\ bundle = NotLoaded /\ result = NoResult

-----------------------------------------------------------------------------
Split == {"train", "val", "test"}

\* A missing feature manifest, a torn file or three empty splits raise and leave
\* nothing behind.
Load ==
  /\ ~bundle.loaded
  /\ "feature" \in dir.has
  /\ dir.torn \cap (Split \cup {"feature"}) = {}
  /\ \E f \in Split : dir.data[f] # {}
  /\ bundle' = [loaded |-> TRUE, train |-> dir.data.train,
                val |-> dir.data.val, test |-> dir.data.test]
  /\ UNCHANGED <<buildVars, result>>

\* Users with a prototype.
Prototypes == Values(table, bundle.train \cup bundle.val, "user")

\* An empty test gives an empty result; an empty enroll side cannot be joined; a
\* torn pairs file, which is read after both, raises.
Evaluate ==
  /\ bundle.loaded
  /\ result.outcome = "none"
  /\ \/ "pairs" \notin dir.torn
     \/ {} \in {bundle.test, bundle.train \cup bundle.val}
  /\ result' =
       IF bundle.test = {} THEN [NoResult EXCEPT !.outcome = "empty"]
       ELSE IF bundle.train \cup bundle.val = {} THEN [NoResult EXCEPT !.outcome = "raised"]
       ELSE [outcome |-> "scored",
             genuine |-> {i \in bundle.test : table[i].user \in Prototypes},
             impostor |-> {p \in dir.data.pairs :
                             /\ table[p[1]].user \in Prototypes
                             /\ p[2] \in bundle.train \cup bundle.val \cup bundle.test},
             dropped |-> Values(table, bundle.test, "user") \ Prototypes]
  /\ UNCHANGED <<buildVars, bundle>>

Next ==
  \/ BuildNext /\ UNCHANGED <<bundle, result>>
  \/ Load
  \/ Evaluate

Spec == Init /\ [][Next]_vars

-----------------------------------------------------------------------------
(* Properties. *)

\* The build's variables and the reader's are in range.
TypeOK ==
  /\ BuildTypeOK
  /\ bundle.loaded \in BOOLEAN
  /\ \A f \in Split : bundle[f] \subseteq Rows
  /\ result.outcome \in {"none", "empty", "raised", "scored"}
  /\ result.genuine \subseteq Rows /\ result.impostor \subseteq Rows \X Rows
  /\ result.dropped \subseteq Keys(table, "user")

Scored == result.genuine \cup {p[2] : p \in result.impostor}

EnrolledSessions == Values(table, bundle.train \cup bundle.val, "session")

\* No window that is scored, genuine or impostor, is from a session that the
\* model was trained or enrolled on.
ScoresAreUnseen == Values(table, Scored, "session") \cap EnrolledSessions = {}

\* Every impostor is scored against another user in a scene it may be in; the
\* relaxed match is used only where the exact one has nobody; and a tested
\* window is spared only if no tested window of another user may be in its scene.
AttackersAreMatched ==
  result.outcome = "scored" =>
    /\ \A p \in result.impostor :
         LET g == table[p[1]]  i == table[p[2]]
         IN /\ g.user # i.user
            /\ \/ i.top1 = g.top1
               \/ /\ g.top1 \in i.topk
                  /\ \A j \in bundle.test : table[j].top1 = g.top1 => table[j].user = g.user
    /\ \A g \in result.genuine :
         (\E i \in bundle.test :
            /\ table[i].user # table[g].user
            /\ table[i].top1 = table[g].top1 \/ table[g].top1 \in table[i].topk)
         => \E p \in result.impostor : p[1] = g

\* The users that evaluate drops are those the split manifest says have no
\* enrolled session, and it evaluates none that the manifest calls never tested.
ManifestForetellsDrops ==
  result.outcome = "scored" /\ "manifest" \in dir.has \ dir.torn =>
    /\ result.dropped = dir.data.manifest.noEnroll
    /\ Values(table, result.genuine, "user") \cap dir.data.manifest.neverTested = {}

\* A manifest without warnings is worth its silence: every user of the table is
\* evaluated and somebody attacks.
QuietManifestIsSound ==
  /\ result.outcome # "none"
  /\ "manifest" \in dir.has \ dir.torn
  /\ dir.data.manifest.warnings = {}
  => /\ result.outcome = "scored"
     /\ Values(table, result.genuine, "user") = Keys(table, "user")
     /\ result.impostor # {}

\* evaluate says that a split too small to form a pair gives empty arrays.
EvaluateAnswers == result.outcome # "raised"
=============================================================================
