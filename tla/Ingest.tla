------------------------------- MODULE Ingest -------------------------------
(***************************************************************************)
(* The ingest service: the POST /api/v1/ingest handler of app/main.py over *)
(* the disk of DiskStore, the process being killed and restarted under it, *)
(* and the Android uploader, which lives in another repository and is      *)
(* modelled from what the code here says of it: an upload that is not      *)
(* answered, or answered 408, 429 or 5xx, stays queued and is sent again;  *)
(* any other refusal, or MaxAttempts sends, puts it aside for good.        *)
(*                                                                         *)
(* A copy of an upload is [req, try].  Copies travel in any order; one may *)
(* never arrive, and one whose sender has stopped waiting may.             *)
(***************************************************************************)
EXTENDS DiskStore, FiniteSets

CONSTANTS
  MaxAttempts,   \* sends of one upload before the client sets it aside
  MaxCrashes,    \* bound: times the server process is killed
  Scenario       \* the sets of uploads that are made together

ASSUME IngestAssumption ==
  /\ Valid \subseteq Body
  /\ Flaw = {"invalid_envelope", "invalid_base64", "payload_hash_mismatch",
             "corrupted_lz4_payload", "invalid_json"}
  /\ MaxAttempts \in Nat \ {0}
  /\ MaxCrashes \in Nat
  /\ Scenario \subseteq SUBSET Request

VARIABLES
  turn,          \* which copy of `cur' the handler works on
  inflight,      \* copies sent and not yet taken by the server
  status,        \* the client's view of each upload
  attempts,      \* sends of each upload so far
  waiting,       \* uploads whose last copy the client still waits for
  acked,         \* history: bodies answered with 200
  crashes        \* times the process has been killed

client == <<status, attempts, waiting>>
vars == <<phase, cur, verdict, disk, faults,
          turn, inflight, client, acked, crashes>>

Copy == [req : Request, try : 1 .. MaxAttempts]

Retriable ==
  {"disk_space_below_threshold", "storage_write_failed", "internal_error"}

\* The server has just come up, and no upload has been sent.
ServiceInit ==
  /\ phase = "idle" /\ cur = NoRequest /\ verdict = "none" /\ turn = 0
  /\ inflight = {}
  /\ \E S \in Scenario :
       status = [r \in Request |-> IF r \in S THEN "queued" ELSE "unmade"]
  /\ attempts = [r \in Request |-> 0]
  /\ waiting = {}
  /\ acked = {}
  /\ crashes = 0

Init == StoreInit /\ ServiceInit

-----------------------------------------------------------------------------
(* The handler. *)

\* The first check of ingest() that the upload fails, in the code's order.
Check(r) ==
  IF r.flaw # "none" THEN r.flaw
  ELSE IF r.body \notin Valid THEN "schema_validation_failed"
  ELSE IF DeviceOf[r.body] # r.device THEN "envelope_batch_device_id_mismatch"
  ELSE IF BatchOf[r.body] # r.batch THEN "envelope_batch_id_mismatch"
  ELSE "ok"

\* An upload whose sender has stopped waiting is dropped (a mutant).
ReceiveIfAwaited(m) ==
  /\ phase = "idle"
  /\ m \in inflight
  /\ inflight' = inflight \ {m}
  /\ IF m.req \in waiting /\ m.try = attempts[m.req] /\ Check(m.req) = "ok"
     THEN cur' = m.req /\ turn' = m.try /\ GoTo("space")
     ELSE UNCHANGED <<phase, cur, verdict, turn>>
  /\ UNCHANGED <<disk, faults, client, acked, crashes>>

Receive(m) ==
  /\ phase = "idle"
  /\ m \in inflight
  /\ inflight' = inflight \ {m}
  /\ cur' = m.req
  /\ turn' = m.try
  /\ IF Check(m.req) = "ok" THEN GoTo("space")
     ELSE IF Check(m.req) \in QuarantineReason
          THEN phase' = "hold_open" /\ verdict' = Check(m.req)
          ELSE Raise(Check(m.req))
  /\ UNCHANGED <<disk, faults, client, acked, crashes>>

Serve == (StoreStep \/ QuarantineStep \/ LogStep)
         /\ UNCHANGED <<turn, inflight, client, acked, crashes>>

\* Does the client still wait for the copy that is being answered?
Heard == cur \in waiting /\ turn = attempts[cur]

Learn(r, v) ==
  status' = [status EXCEPT ![r] = IF v = "ok" THEN "stored"
                                  ELSE IF v \in Retriable THEN "queued"
                                  ELSE "dead"]

Answer ==
  /\ phase = "answer"
  /\ acked' = IF verdict = "ok" THEN acked \cup {cur.body} ELSE acked
  /\ IF Heard
     THEN Learn(cur, verdict) /\ waiting' = waiting \ {cur}
     ELSE UNCHANGED <<status, waiting>>
  /\ phase' = "idle" /\ cur' = NoRequest /\ verdict' = "none" /\ turn' = 0
  /\ UNCHANGED <<disk, faults, inflight, attempts, crashes>>

-----------------------------------------------------------------------------
(* The process. *)

\* Connections die with the process, and a batch file may be cut short.
Crash ==
  /\ phase # "down"
  /\ crashes < MaxCrashes
  /\ crashes' = crashes + 1
  /\ CutShort
  /\ phase' = "down" /\ cur' = NoRequest /\ verdict' = "none" /\ turn' = 0
  /\ inflight' = {}
  /\ UNCHANGED <<meta, deviceLines, batchLines, link, held, errors, faults,
                 client, acked>>

\* DiskStore._ensure_dirs only makes what is missing: nothing is repaired.
Restart ==
  /\ phase = "down"
  /\ phase' = "idle"
  /\ UNCHANGED <<cur, verdict, disk, faults, turn, inflight, client, acked,
                 crashes>>

-----------------------------------------------------------------------------
(* The uploader. *)

Send(r) ==
  /\ status[r] = "queued"
  /\ r \notin waiting
  /\ attempts[r] < MaxAttempts
  /\ attempts' = [attempts EXCEPT ![r] = @ + 1]
  /\ waiting' = waiting \cup {r}
  /\ inflight' = inflight \cup {[req |-> r, try |-> attempts[r] + 1]}
  /\ UNCHANGED <<phase, cur, verdict, disk, faults, turn, status, acked, crashes>>

\* The call timeout, or a connection that fails: no answer will be heard.
Timeout(r) ==
  /\ r \in waiting
  /\ waiting' = waiting \ {r}
  /\ UNCHANGED <<phase, cur, verdict, disk, faults, turn, inflight, status,
                 attempts, acked, crashes>>

SetAside(r) ==
  /\ status[r] = "queued"
  /\ r \notin waiting
  /\ attempts[r] = MaxAttempts
  /\ status' = [status EXCEPT ![r] = "dead"]
  /\ UNCHANGED <<phase, cur, verdict, disk, faults, turn, inflight, attempts,
                 waiting, acked, crashes>>

-----------------------------------------------------------------------------
Server == (\E m \in inflight : Receive(m)) \/ Serve \/ Answer \/ Restart

Uploader == \E r \in Request : Send(r) \/ Timeout(r) \/ SetAside(r)

Next == Server \/ Crash \/ Uploader

Spec == Init /\ [][Next]_vars

(***************************************************************************)
(* The event loop runs on, docker restarts the service (restart:           *)
(* unless-stopped), and the uploader's replay timer and call timeout fire. *)
(***************************************************************************)
Fairness == WF_vars(Server) /\ WF_vars(Uploader)

FairSpec == Spec /\ Fairness

-----------------------------------------------------------------------------
(* Properties. *)

\* Every variable stays in its range, and a busy handler has an upload.
TypeOK ==
  /\ StoreTypeOK
  /\ turn \in 0 .. MaxAttempts
  /\ inflight \subseteq Copy
  /\ status \in [Request -> {"unmade", "queued", "stored", "dead"}]
  /\ attempts \in [Request -> 0 .. MaxAttempts]
  /\ waiting \subseteq Request
  /\ acked \subseteq Body
  /\ crashes \in Nat

\* No upload is answered 200 unless its own body is on the disk, whole, and it
\* stays there through every later crash, refused write, retry and conflict.
AckedIsStored == \A b \in acked : file[PathOf(b)] = b

\* Whatever body a file holds passed the schema and lies under its own device,
\* batch id and day: no upload that is refused or quarantined leaves a body.
StoredIsAccepted ==
  \A p \in Path : file[p] \in Body => file[p] \in Valid /\ PathOf(file[p]) = p

\* A batch file that is whole is never written again, and one whose write was
\* cut short is never taken up again except by the write that is under way.
WriteOnce ==
  [][\A p \in Path :
       file'[p] # file[p] =>
         \/ file[p] = "absent"
         \/ phase = "fill" /\ p = Target(cur) /\ file[p] = "torn"]_vars

\* A reader of the index is never ahead of the store: a by_category entry has
\* an index line, an index line a whole sidecar, a sidecar a whole batch, and
\* no path is ever indexed twice, however often its upload is repeated.
IndexFollowsBatch ==
  \A p \in Path :
    /\ meta[p] # "absent" => file[p] \in Body
    /\ batchLines[p] > 0 => meta[p] = "ok"
    /\ batchLines[p] <= 1
    /\ link[p] # "absent" => batchLines[p] = 1 /\ file[p] \in Labelled

PathsOf(d) == {p \in Path : p[1] = d}

\* While no process was killed and no disk operation failed, a body answered
\* 200 has its sidecar, its index line and, if it is labelled, its entry in
\* by_category.
UninterruptedAckIsIndexed ==
  crashes = 0 /\ faults = 0 =>
    \A b \in acked :
      /\ meta[PathOf(b)] = "ok"
      /\ batchLines[PathOf(b)] = 1
      /\ b \in Labelled => link[PathOf(b)] = "ok"

Conflicting == verdict = "duplicate_batch_id_conflict"

\* An upload of the same place whose text cannot be encoded has been sent.
Spoiled(r) ==
  \E q \in Request :
    Target(q) = Target(r) /\ q.body \in Unencodable /\ attempts[q] > 0

\* In the same calm, an upload is refused as a conflict only when the file holds
\* another whole body, or when a text that cannot be encoded was sent for it.
UninterruptedConflictIsReal ==
  crashes = 0 /\ faults = 0 /\ Conflicting =>
    file[Target(cur)] \in Body \ {cur.body} \/ Spoiled(cur)

\* An upload the handler quarantines leaves a line in errors.jsonl before it is
\* answered, even if one disk operation fails on the way, and a refused upload
\* leaves one when none fails.
RefusalIsRecorded ==
  phase = "answer" /\ verdict # "ok" =>
    \/ ErrorLine(cur, verdict) \in errors
    \/ faults >= 1 /\ verdict \notin QuarantineReason
    \/ faults >= 2

\* What an upload must be: sound, valid, and named as its envelope names it.
Acceptable(r) ==
  /\ r.flaw = "none" /\ r.body \in Valid
  /\ DeviceOf[r.body] = r.device /\ BatchOf[r.body] = r.batch

\* What the client concludes agrees with the disk: an upload it counts as stored
\* is stored, and one it puts aside before its last attempt was refused by a
\* check or met a file that is there and does not hold its body.
ClientAgreesWithDisk ==
  \A r \in Request :
    /\ status[r] = "stored" => file[Target(r)] = r.body
    /\ status[r] = "dead" /\ attempts[r] < MaxAttempts =>
         \/ ~Acceptable(r)
         \/ file[Target(r)] \notin {"absent", r.body}

Good(r) == status[r] # "unmade" /\ Acceptable(r) /\ r.body \notin Unencodable

Calm == crashes = 0 /\ faults = 0 /\ verdict # "disk_space_below_threshold"

\* While nothing crashes or fails, the disk has room and every copy arrives in
\* the end, each good upload is stored, or another whole body under its batch
\* id is, even if its sender stopped waiting for each answer.
GoodUploadsAreStored ==
  []Calm /\ []<>(inflight = {}) =>
    <>(\A r \in Request : Good(r) => file[Target(r)] \in Body \/ Spoiled(r))

-----------------------------------------------------------------------------
(* The promise of BatchStore.  A file that is being filled does not count as *)
(* written until it is whole; a file whose write was cut short is spoiled.   *)

Entry ==
  [p \in Path |->
     IF phase = "fill" /\ p = Target(cur) THEN "absent"
     ELSE IF file[p] \in {"torn", "garbled"} THEN "spoiled"
     ELSE file[p]]

Promise == INSTANCE BatchStore WITH entry <- Entry

\* The service implements the write-once registers of BatchStore.
KeepsPromise == Promise!Spec

-----------------------------------------------------------------------------
(* What the tests say of an accepted upload, without a crash in sight. *)

\* A 409 is for a batch id whose stored content differs ("same batch_id and same
\* content is a no-op, different content 409"): it never answers the content
\* that the server itself was storing under that id.
ConflictMeansDifferent ==
  Conflicting => file[Target(cur)] \in Body \ {cur.body}
=============================================================================
