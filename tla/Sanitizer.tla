----------------------------- MODULE Sanitizer -----------------------------
(***************************************************************************)
(* tools/sanitize_event_detail.py: strips the text telemetry from batches  *)
(* that are already stored, rewriting each file in place and stamping its  *)
(* sidecar.  It runs by hand, beside the server if that is up, and takes   *)
(* no lock.  It lists the batch files once, then works through the list:   *)
(* each cleaned batch is held against the schema of today, and written     *)
(* back, whatever that says, if cleaning changed it.  A batch that does    *)
(* not pass makes the run end with status 1; an exception (a text that     *)
(* does not parse, a sidecar that is not there) ends it on the spot.       *)
(***************************************************************************)
EXTENDS DiskStore

CONSTANTS
  Clean,         \* a body without its text telemetry; itself if it had none
  MaxRuns        \* bound: times the tool is started

ASSUME SanitizerAssumption ==
  /\ Clean \in [Body -> Body]
  /\ \A b \in Body : Clean[Clean[b]] = Clean[b] /\ PathOf(Clean[b]) = PathOf(b)
  /\ MaxRuns \in Nat

VARIABLES
  todo,          \* files of the list not yet worked on
  at,            \* the file in hand
  text,          \* what was read from it
  tool,          \* where the tool stands
  failing,       \* files of this run whose cleaned batch the schema refuses
  outcome,       \* how its last run ended: "none" while there is none, "done",
                 \* "refused" (validation failures), "failed", "killed"
  stamped,       \* sidecars that carry sanitized_at
  runs,          \* times the tool was started
  listed,        \* history: what its last run listed,
  lost,          \* the files that runs left torn,
  rewritten,     \* those that a run rewrote,
  unstamped      \* and those of them at which it broke off before the stamp

history == <<listed, lost, rewritten, unstamped>>
toolVars == <<todo, at, text, tool, failing, outcome, stamped, runs, history>>

NoPath == <<>>

ToolInit ==
  /\ todo = {} /\ at = NoPath /\ text = "absent"
  /\ tool = "off" /\ failing = {} /\ outcome = "none"
  /\ stamped = {}
  /\ runs = 0
  /\ listed = {} /\ lost = {} /\ rewritten = {} /\ unstamped = {}

\* Where a batch has been rewritten and its sidecar is not stamped yet.
Stamping == {"stamp", "stamp_open", "stamp_fill"}

\* Batch.model_validate of the cleaned batch: a failure is only noted.
Validate ==
  failing' = IF Clean[text] \in Valid THEN failing ELSE failing \cup {at}

Finish(how) ==
  /\ tool' = "off"
  /\ outcome' = how
  /\ todo' = {} /\ at' = NoPath /\ text' = "absent" /\ failing' = {}

-----------------------------------------------------------------------------
(* Mutants, as in DiskStore. *)

\* A text that does not parse is passed over.
ReadFailsGoesOn ==
  /\ tool = "judge"
  /\ text \notin Body
  /\ tool' = "next"
  /\ UNCHANGED <<todo, at, text, failing, outcome, stamped, runs, history, disk>>

\* The sidecar is stamped without the batch being rewritten, as a dry run might.
OpenRewriteOnlyStamps ==
  /\ tool = "judge"
  /\ text \in Body
  /\ Clean[text] # text
  /\ Validate
  /\ tool' = "stamp"
  /\ UNCHANGED <<todo, at, text, outcome, stamped, runs, history, disk>>

\* The rewritten text never reaches the file that was truncated for it.
FillRewriteUnflushed ==
  /\ tool = "rewrite"
  /\ rewritten' = rewritten \cup {at}
  /\ tool' = "stamp"
  /\ UNCHANGED <<todo, at, text, failing, outcome, stamped, runs,
                 listed, lost, unstamped, disk>>

\* The sidecar of a rewritten batch is left as it was.
FillRewriteUnstamped ==
  /\ tool = "rewrite"
  /\ file' = [file EXCEPT ![at] = Clean[text]]
  /\ rewritten' = rewritten \cup {at}
  /\ tool' = "next"
  /\ UNCHANGED <<todo, at, text, failing, outcome, stamped, runs, listed, lost, unstamped,
                 meta, deviceLines, batchLines, link, held, errors>>

\* The status of a run does not tell that batches failed.
EndRunHidesFailures ==
  /\ tool = "next"
  /\ todo = {}
  /\ Finish("done")
  /\ UNCHANGED <<stamped, runs, history, disk>>

-----------------------------------------------------------------------------
(* The tool. *)

\* iter_batch_files: every batch file there is; its sidecars and by_category
\* entries are left out.
ListFiles ==
  /\ tool = "off"
  /\ runs < MaxRuns
  /\ runs' = runs + 1
  /\ todo' = {p \in Path : file[p] # "absent"}
  /\ listed' = todo'
  /\ tool' = "next"
  /\ outcome' = "none"
  /\ UNCHANGED <<at, text, failing, stamped, lost, rewritten, unstamped, disk>>

\* A file is read; the order of the list does not matter to any property here.
ReadNext ==
  /\ tool = "next"
  /\ \E p \in todo :
       /\ todo' = todo \ {p}
       /\ at' = p
       /\ text' = file[p]
       /\ tool' = "judge"
  /\ UNCHANGED <<failing, outcome, stamped, runs, history, disk>>

\* json.loads fails on a file that is torn or garbled.
ReadFails ==
  /\ tool = "judge"
  /\ text \notin Body
  /\ Finish("failed")
  /\ UNCHANGED <<stamped, runs, history, disk>>

\* sanitize_batch changes nothing: the file and its sidecar stay as they are.
SkipClean ==
  /\ tool = "judge"
  /\ text \in Body
  /\ Clean[text] = text
  /\ Validate
  /\ tool' = "next"
  /\ UNCHANGED <<todo, at, text, outcome, stamped, runs, history, disk>>

OpenRewrite ==
  /\ tool = "judge"
  /\ text \in Body
  /\ Clean[text] # text
  /\ Validate
  /\ file' = [file EXCEPT ![at] = "torn"]
  /\ tool' = "rewrite"
  /\ UNCHANGED <<todo, at, text, outcome, stamped, runs, history,
                 meta, deviceLines, batchLines, link, held, errors>>

FillRewrite ==
  /\ tool = "rewrite"
  /\ file' = [file EXCEPT ![at] = Clean[text]]
  /\ rewritten' = rewritten \cup {at}
  /\ tool' = "stamp"
  /\ UNCHANGED <<todo, at, text, failing, outcome, stamped, runs, listed, lost, unstamped,
                 meta, deviceLines, batchLines, link, held, errors>>

\* stamp_meta reads the sidecar ...
ReadMeta ==
  /\ tool = "stamp"
  /\ meta[at] = "ok"
  /\ tool' = "stamp_open"
  /\ UNCHANGED <<todo, at, text, failing, outcome, stamped, runs, history, disk>>

StampFails ==
  /\ tool = "stamp"
  /\ meta[at] # "ok"
  /\ Finish("failed")
  /\ unstamped' = unstamped \cup {at}
  /\ UNCHANGED <<stamped, runs, listed, lost, rewritten, disk>>

\* ... and writes it back, opened and then filled.
OpenStamp ==
  /\ tool = "stamp_open"
  /\ meta' = [meta EXCEPT ![at] = "torn"]
  /\ tool' = "stamp_fill"
  /\ UNCHANGED <<todo, at, text, failing, outcome, stamped, runs, history,
                 file, deviceLines, batchLines, link, held, errors>>

FillStamp ==
  /\ tool = "stamp_fill"
  /\ meta' = [meta EXCEPT ![at] = "ok"]
  /\ stamped' = stamped \cup {at}
  /\ tool' = "next"
  /\ UNCHANGED <<todo, at, text, failing, outcome, runs, history,
                 file, deviceLines, batchLines, link, held, errors>>

\* The status is 1 if there were validation failures.
EndRun ==
  /\ tool = "next"
  /\ todo = {}
  /\ Finish(IF failing = {} THEN "done" ELSE "refused")
  /\ UNCHANGED <<stamped, runs, history, disk>>

\* The tool is killed, or the disk refuses a write: what it was writing is torn.
Interrupt ==
  /\ tool # "off"
  /\ Finish("killed")
  /\ IF tool = "rewrite"
     THEN /\ \E rest \in {"torn", "garbled"} : file' = [file EXCEPT ![at] = rest]
          /\ lost' = lost \cup {at}
     ELSE UNCHANGED <<file, lost>>
  /\ unstamped' = IF tool \in Stamping THEN unstamped \cup {at} ELSE unstamped
  /\ UNCHANGED <<stamped, runs, listed, rewritten,
                 meta, deviceLines, batchLines, link, held, errors>>

ToolStep ==
  \/ ListFiles \/ ReadNext \/ ReadFails \/ SkipClean \/ OpenRewrite \/ FillRewrite
  \/ ReadMeta \/ StampFails \/ OpenStamp \/ FillStamp \/ EndRun
=============================================================================
