--------------------------- MODULE IngestSanitize ---------------------------
(***************************************************************************)
(* The sanitizer run by hand while the ingest service is up: two processes *)
(* over one directory tree, with nothing but the file system between them. *)
(***************************************************************************)
EXTENDS Ingest, Sanitizer, Payload

CONSTANTS
  Content,       \* what is in each body
  Stock,         \* stores of batches that an older server may have left
  Samples        \* bounded contents of batches that may be on the disk

\* Contents are records of a batch, and the schema and the cleaning are theirs.
ASSUME ContentAssumption ==
  /\ Content \in [Body -> BatchRecord]
  /\ Samples \subseteq BatchRecord
  /\ Valid = {b \in Body : Accepts(Content[b])}
  /\ \A b \in Body : Content[Clean[b]] = Sanitize(Content[b])

\* Older rules may have let in what today's would not, each at its own place.
ASSUME StockAssumption ==
  /\ Stock \subseteq [Path -> Body \cup {"absent"}]
  /\ \A kept \in Stock, p \in Path : kept[p] \in Body => PathOf(kept[p]) = p

server == <<phase, cur, verdict, faults, turn, inflight, client, acked, crashes>>

SInit == (\E kept \in Stock : StoreHolds(kept)) /\ ServiceInit /\ ToolInit

ServerSide == Next /\ UNCHANGED toolVars

ToolSide == (ToolStep \/ Interrupt) /\ UNCHANGED server

SNext == ServerSide \/ ToolSide

SSpec == SInit /\ [][SNext]_<<vars, toolVars>>

-----------------------------------------------------------------------------
\* Samples that cleaning leaves outside the schema, or not yet clean.
Spoilt ==
  {b \in Samples :
     \/ Passed(b) /\ ~Accepts(Sanitize(b))
     \/ Sanitize(Sanitize(b)) # Sanitize(b)}

Rewriting(p) == tool = "rewrite" /\ at = p

\* A body that was answered 200 is on the disk as it was or cleaned, however the
\* two processes interleave; only a rewrite under way or one that was killed
\* half-way, which has no backup, leaves neither.
AckedIsKeptOrCleaned ==
  \A b \in acked :
    file[PathOf(b)] \in {b, Clean[b]} \/ Rewriting(PathOf(b)) \/ PathOf(b) \in lost

\* A sidecar says sanitized_at only for a batch that is whole and has nothing
\* left to strip.
StampedIsClean ==
  \A p \in stamped : file[p] \in Body /\ Clean[file[p]] = file[p]

\* A run that worked through its list leaves every file of it whole and clean,
\* whether the schema accepted them all or not.
DoneMeansClean ==
  outcome \in {"done", "refused"} =>
    \A p \in listed : file[p] \in Body /\ Clean[file[p]] = file[p]

\* The status of a run tells what the schema of today says of the files: after
\* "done" every file it listed passes; "refused" is never the cleaning's doing,
\* for a file it listed breaks another rule than that on event_detail.  Whatever
\* passes the others passes all once it is cleaned, however its parts depend on
\* each other, and cleaned once more nothing changes.
CleaningMeetsTheSchema ==
  /\ outcome = "done" => \A p \in listed : Accepts(Content[file[p]])
  /\ outcome = "refused" => \E p \in listed : ~Passed(Content[file[p]])
  /\ Spoilt = {}

\* Every batch that was rewritten says so in its sidecar, now or after the stamp
\* that is under way; only one at which the run broke off between the two does
\* not, and no later run makes up for it.
CleanedIsStamped ==
  /\ \A p \in rewritten :
       p \in stamped \cup unstamped \/ (tool \in Stamping /\ at = p)
  /\ stamped \cap unstamped = {}

=============================================================================
