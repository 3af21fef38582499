----------------------------- MODULE DiskStore -----------------------------
(***************************************************************************)
(* app/storage.py: the directory tree the ingest service keeps its batches *)
(* in.  The service handles one upload at a time (the handler is a         *)
(* coroutine whose only await comes before the first disk access), so one  *)
(* control point `phase', one upload `cur' and one `verdict' describe it.  *)
(* Every system call that changes the disk is a step of its own, because   *)
(* the process can be killed, and the disk can refuse, between any two.    *)
(*                                                                         *)
(* A body is the canonical JSON text of a batch (json.dumps with sorted    *)
(* keys), so two uploads of equal content carry the same body.  A file of  *)
(* the store is absent, torn (truncated by open("w"), not or only partly   *)
(* filled, still decodable), garbled (cut inside a UTF-8 character) or     *)
(* holds a body.                                                           *)
(***************************************************************************)
EXTENDS Naturals

CONSTANTS
  Body,          \* canonical batch texts
  Device,        \* device ids
  BatchId,       \* batch UUIDs
  Day,           \* UTC day directories
  DeviceOf,      \* the device_id field of a body
  BatchOf,       \* its batch_id field
  DayOf,         \* the UTC day of its started_at_wall_millis
  Labelled,      \* bodies of BUILTIN_TASK batches that have a task_category
  Unencodable,   \* bodies with a lone surrogate, which UTF-8 cannot encode
  Valid,         \* bodies that pass the Batch schema of today
  Request,       \* the uploads clients may make
  NoRequest,     \* "the handler has no upload"
  Flaw,          \* pre-storage defects of an envelope (module Ingest)
  MaxFaults      \* bound: disk operations that fail with OSError

ASSUME BodyAssumption ==
  /\ DeviceOf \in [Body -> Device]
  /\ BatchOf \in [Body -> BatchId]
  /\ DayOf \in [Body -> Day]
  /\ Labelled \subseteq Body
  /\ Unencodable \subseteq Body

ASSUME SentinelAssumption ==
  Body \cap {"absent", "torn", "garbled"} = {}

\* An upload: what its envelope says, the body it carries and its first flaw.
ASSUME RequestAssumption ==
  /\ Request \subseteq [device : Device, batch : BatchId, created : Day,
                        body : Body, flaw : Flaw \cup {"none"}]
  /\ NoRequest \notin Request

ASSUME BoundAssumption == MaxFaults \in Nat

VARIABLES
  phase,         \* where the handler stands
  cur,           \* the upload it works on
  verdict,       \* the outcome it will answer, "none" while undecided
  file,          \* batch files, by path
  meta,          \* .meta.json sidecars, by the path of their batch
  deviceLines,   \* number of lines appended to index/devices.jsonl, by device
  batchLines,    \* number of lines of index/batches.jsonl, by path
  link,          \* by_category entries, by the path of their batch
  held,          \* quarantine files, by quarantine path
  errors,        \* lines of index/errors.jsonl
  faults         \* disk operations that have failed so far

disk == <<file, meta, deviceLines, batchLines, link, held, errors>>

-----------------------------------------------------------------------------
(* Places on the disk. *)

Path == Device \X Day \X BatchId

\* The path store() computes: the envelope's ids, the batch's own day.
Target(r) == <<r.device, DayOf[r.body], r.batch>>

\* The path quarantine() computes: the envelope's ids and creation day.
Quarantine(r) == <<r.device, r.created, r.batch>>

\* Where a body belongs by its own fields.
PathOf(b) == <<DeviceOf[b], DayOf[b], BatchOf[b]>>

FileState == Body \cup {"absent", "torn", "garbled"}

-----------------------------------------------------------------------------
(* Outcomes, and how a step ends the work of the handler. *)

QuarantineReason ==
  {"schema_validation_failed", "envelope_batch_device_id_mismatch",
   "envelope_batch_id_mismatch"}

StoreReason ==
  {"duplicate_batch_id_conflict", "disk_space_below_threshold",
   "storage_write_failed", "internal_error"}

Verdict == {"none", "ok"} \cup Flaw \cup QuarantineReason \cup StoreReason

StorePhase ==
  {"space", "lookup", "open", "fill", "meta_open", "meta_fill",
   "device_line", "batch_line", "link", "pointer"}

QuarantinePhase == {"hold_open", "hold_fill", "hold_line"}

Busy == StorePhase \cup QuarantinePhase \cup {"reject", "answer"}

\* An exception leaves store(): the handler logs the reason and answers it.
Raise(reason) == phase' = "reject" /\ verdict' = reason

Succeed == phase' = "answer" /\ verdict' = "ok"

GoTo(p) == phase' = p /\ UNCHANGED verdict

\* A store with the batches `kept', each with its sidecar, its index line and, if
\* it is labelled, its entry in by_category.
StoreHolds(kept) ==
  /\ file = kept
  /\ meta = [p \in Path |-> IF kept[p] = "absent" THEN "absent" ELSE "ok"]
  /\ link = [p \in Path |-> IF kept[p] \in Labelled THEN "ok" ELSE "absent"]
  /\ held = [p \in Path |-> "absent"]
  /\ deviceLines = [d \in Device |-> 0]
  /\ batchLines = [p \in Path |-> IF kept[p] = "absent" THEN 0 ELSE 1]
  /\ errors = {}
  /\ faults = 0

StoreInit == StoreHolds([p \in Path |-> "absent"])

-----------------------------------------------------------------------------
(* Mutants: forms of the steps below with a bug a change could introduce.    *)
(* No specification uses them; the properties must notice each of them.      *)

\* A file that is there is taken for the batch without comparing the texts.
LookupTrusts ==
  /\ phase = "lookup"
  /\ IF file[Target(cur)] = "absent" THEN GoTo("open") ELSE Succeed
  /\ UNCHANGED <<cur, faults, disk>>

\* A file that is there is a conflict, whatever it holds.
LookupRefuses ==
  /\ phase = "lookup"
  /\ IF file[Target(cur)] = "absent"
     THEN GoTo("open") ELSE Raise("duplicate_batch_id_conflict")
  /\ UNCHANGED <<cur, faults, disk>>

\* A file with another text is written again.
LookupOverwrites ==
  /\ phase = "lookup"
  /\ IF file[Target(cur)] = cur.body THEN Succeed ELSE GoTo("open")
  /\ UNCHANGED <<cur, faults, disk>>

\* The index lines are written before the sidecar is.
FillBatchSkipsMeta ==
  /\ phase = "fill"
  /\ cur.body \notin Unencodable
  /\ file' = [file EXCEPT ![Target(cur)] = cur.body]
  /\ GoTo("device_line")
  /\ UNCHANGED <<cur, faults, meta, deviceLines, batchLines, link, held, errors>>

\* The by_category entry is forgotten.
AppendBatchSkipsLink ==
  /\ phase = "batch_line"
  /\ batchLines' = [batchLines EXCEPT ![Target(cur)] = @ + 1]
  /\ Succeed
  /\ UNCHANGED <<cur, faults, file, meta, deviceLines, link, held, errors>>

\* Any OSError is answered as DuplicateBatchConflict, which is one.
StoreFaultAsConflict ==
  /\ phase \in StorePhase
  /\ faults < MaxFaults
  /\ faults' = faults + 1
  /\ Raise("duplicate_batch_id_conflict")
  /\ UNCHANGED <<cur, disk>>

\* A quarantine write that fails is not logged a second time.
HoldFaultUnlogged ==
  /\ phase \in QuarantinePhase
  /\ faults < MaxFaults
  /\ faults' = faults + 1
  /\ GoTo("answer")
  /\ UNCHANGED <<cur, disk>>

-----------------------------------------------------------------------------
(* store() *)

\* assert_space_available: free space is the environment's choice.
CheckSpace ==
  /\ phase = "space"
  /\ GoTo("lookup") \/ Raise("disk_space_below_threshold")
  /\ UNCHANGED <<cur, faults, disk>>

\* mkdir, exists() and, when the file is there, the comparison of the texts.
\* An undecodable text raises UnicodeDecodeError, which is no OSError.
Lookup ==
  /\ phase = "lookup"
  /\ \/ file[Target(cur)] = "absent" /\ GoTo("open")
     \/ file[Target(cur)] = cur.body /\ Succeed
     \/ file[Target(cur)] = "garbled" /\ Raise("internal_error")
     \/ /\ file[Target(cur)] \notin {"absent", "garbled", cur.body}
        /\ Raise("duplicate_batch_id_conflict")
  /\ UNCHANGED <<cur, faults, disk>>

\* write_text opens with "w": the file exists, empty, before it is filled.
OpenBatch ==
  /\ phase = "open"
  /\ file' = [file EXCEPT ![Target(cur)] = "torn"]
  /\ GoTo("fill")
  /\ UNCHANGED <<cur, faults, meta, deviceLines, batchLines, link, held, errors>>

FillBatch ==
  /\ phase = "fill"
  /\ cur.body \notin Unencodable
  /\ file' = [file EXCEPT ![Target(cur)] = cur.body]
  /\ GoTo("meta_open")
  /\ UNCHANGED <<cur, faults, meta, deviceLines, batchLines, link, held, errors>>

\* UnicodeEncodeError: the empty file stays behind.
EncodingFails ==
  /\ phase = "fill"
  /\ cur.body \in Unencodable
  /\ Raise("internal_error")
  /\ UNCHANGED <<cur, faults, disk>>

OpenMeta ==
  /\ phase = "meta_open"
  /\ meta' = [meta EXCEPT ![Target(cur)] = "torn"]
  /\ GoTo("meta_fill")
  /\ UNCHANGED <<cur, faults, file, deviceLines, batchLines, link, held, errors>>

FillMeta ==
  /\ phase = "meta_fill"
  /\ meta' = [meta EXCEPT ![Target(cur)] = "ok"]
  /\ GoTo("device_line")
  /\ UNCHANGED <<cur, faults, file, deviceLines, batchLines, link, held, errors>>

AppendDevice ==
  /\ phase = "device_line"
  /\ deviceLines' = [deviceLines EXCEPT ![cur.device] = @ + 1]
  /\ GoTo("batch_line")
  /\ UNCHANGED <<cur, faults, file, meta, batchLines, link, held, errors>>

AppendBatch ==
  /\ phase = "batch_line"
  /\ batchLines' = [batchLines EXCEPT ![Target(cur)] = @ + 1]
  /\ IF cur.body \in Labelled THEN GoTo("link") ELSE Succeed
  /\ UNCHANGED <<cur, faults, file, meta, deviceLines, link, held, errors>>

\* An entry left by an earlier store would be unlinked and made again.
MakeLink ==
  /\ phase = "link"
  /\ link' = [link EXCEPT ![Target(cur)] = "ok"]
  /\ Succeed
  /\ UNCHANGED <<cur, faults, file, meta, deviceLines, batchLines, held, errors>>

\* A filesystem without symlinks gets a pointer file, opened and then filled.
SymlinkFails ==
  /\ phase = "link"
  /\ link' = [link EXCEPT ![Target(cur)] = "torn"]
  /\ GoTo("pointer")
  /\ UNCHANGED <<cur, faults, file, meta, deviceLines, batchLines, held, errors>>

FillPointer ==
  /\ phase = "pointer"
  /\ link' = [link EXCEPT ![Target(cur)] = "ok"]
  /\ Succeed
  /\ UNCHANGED <<cur, faults, file, meta, deviceLines, batchLines, held, errors>>

\* What a batch file can hold when its write is cut short.
CutShort ==
  IF phase = "fill" /\ cur.body \notin Unencodable
  THEN \E rest \in {"torn", "garbled"} :
         file' = [file EXCEPT ![Target(cur)] = rest]
  ELSE UNCHANGED file

\* Any of these operations may raise OSError; the handler answers 507.
StoreFault ==
  /\ phase \in StorePhase
  /\ faults < MaxFaults
  /\ faults' = faults + 1
  /\ CutShort
  /\ Raise("storage_write_failed")
  /\ UNCHANGED <<cur, meta, deviceLines, batchLines, link, held, errors>>

-----------------------------------------------------------------------------
(* quarantine() and append_error() *)

OpenHold ==
  /\ phase = "hold_open"
  /\ cur.body \notin Unencodable
  /\ held' = [held EXCEPT ![Quarantine(cur)] = "torn"]
  /\ GoTo("hold_fill")
  /\ UNCHANGED <<cur, faults, file, meta, deviceLines, batchLines, link, errors>>

\* Hashing the payload encodes it first, and that is no OSError either.
HashingFails ==
  /\ phase = "hold_open"
  /\ cur.body \in Unencodable
  /\ Raise("internal_error")
  /\ UNCHANGED <<cur, faults, disk>>

FillHold ==
  /\ phase = "hold_fill"
  /\ held' = [held EXCEPT ![Quarantine(cur)] = cur.body]
  /\ GoTo("hold_line")
  /\ UNCHANGED <<cur, faults, file, meta, deviceLines, batchLines, link, errors>>

ErrorLine(r, reason) == <<r.device, r.batch, reason>>

AppendHoldLine ==
  /\ phase = "hold_line"
  /\ errors' = errors \cup {ErrorLine(cur, verdict)}
  /\ GoTo("answer")
  /\ UNCHANGED <<cur, faults, file, meta, deviceLines, batchLines, link, held>>

\* _quarantine_reject catches OSError and still tries to log the reason.
HoldFault ==
  /\ phase \in QuarantinePhase
  /\ faults < MaxFaults
  /\ faults' = faults + 1
  /\ GoTo("reject")
  /\ UNCHANGED <<cur, disk>>

\* _safe_append_error ...
LogRejection ==
  /\ phase = "reject"
  /\ errors' = errors \cup {ErrorLine(cur, verdict)}
  /\ GoTo("answer")
  /\ UNCHANGED <<cur, faults, file, meta, deviceLines, batchLines, link, held>>

\* ... which swallows an OSError of its own.
LogFault ==
  /\ phase = "reject"
  /\ faults < MaxFaults
  /\ faults' = faults + 1
  /\ GoTo("answer")
  /\ UNCHANGED <<cur, disk>>

StoreStep ==
  \/ CheckSpace \/ Lookup \/ OpenBatch \/ FillBatch \/ EncodingFails
  \/ OpenMeta \/ FillMeta \/ AppendDevice \/ AppendBatch
  \/ MakeLink \/ SymlinkFails \/ FillPointer \/ StoreFault

QuarantineStep ==
  \/ OpenHold \/ HashingFails \/ FillHold \/ AppendHoldLine \/ HoldFault

LogStep == LogRejection \/ LogFault

-----------------------------------------------------------------------------
StoreTypeOK ==
  /\ phase \in Busy \cup {"idle", "down"}
  /\ cur \in Request \cup {NoRequest}
  /\ phase \in Busy => cur \in Request
  /\ verdict \in Verdict
  /\ file \in [Path -> FileState]
  /\ meta \in [Path -> {"absent", "torn", "ok"}]
  /\ link \in [Path -> {"absent", "torn", "ok"}]
  /\ held \in [Path -> Body \cup {"absent", "torn"}]
  /\ deviceLines \in [Device -> Nat]
  /\ batchLines \in [Path -> Nat]
  /\ errors \subseteq Device \X BatchId \X Verdict
  /\ faults \in Nat
=============================================================================
