--------------------------- MODULE Ingest_proofs ---------------------------
(***************************************************************************)
(* Proofs about Ingest for any set of bodies, devices, days and uploads,   *)
(* any number of attempts, crashes and failing disk operations.            *)
(***************************************************************************)
EXTENDS Ingest, TLAPS

-----------------------------------------------------------------------------
(* Facts about uploads that every step uses. *)

\* An upload's parts lie in the sets its record type names, and so do the
\* paths computed from them.
LEMMA RequestParts ==
  ASSUME NEW r \in Request
  PROVE  /\ r.body \in Body /\ r.device \in Device /\ r.batch \in BatchId
         /\ r.flaw \in Flaw \cup {"none"}
         /\ Target(r) \in Path /\ Quarantine(r) \in Path
BY RequestAssumption, BodyAssumption DEF Target, Quarantine, Path

\* A body is no sentinel of a file's state.
LEMMA BodyIsNoSentinel ==
  ASSUME NEW b \in Body
  PROVE  b # "absent" /\ b # "torn" /\ b # "garbled"
BY SentinelAssumption

\* The path of a body's own fields is a path of the store.
LEMMA BodyHasPath ==
  ASSUME NEW b \in Body
  PROVE  PathOf(b) \in Path
BY BodyAssumption DEF PathOf, Path

\* The handler's checks end in one of the verdicts of their kind.
LEMMA CheckRange ==
  ASSUME NEW r \in Request
  PROVE  Check(r) \in {"ok"} \cup Flaw \cup QuarantineReason
BY RequestParts, IngestAssumption DEF Check, QuarantineReason

\* An upload that passes the checks of ingest() carries a valid body, and the
\* path computed from its envelope is the path of the body's own fields.
LEMMA PassedCheck ==
  ASSUME NEW r \in Request, Check(r) = "ok"
  PROVE  r.body \in Valid /\ PathOf(r.body) = Target(r)
<1>1. r.flaw = "none"
  BY RequestParts, IngestAssumption DEF Check
<1>2. r.body \in Valid
  BY <1>1 DEF Check
<1>3. DeviceOf[r.body] = r.device /\ BatchOf[r.body] = r.batch
  BY <1>1, <1>2 DEF Check
<1>4. QED BY <1>2, <1>3 DEF PathOf, Target

-----------------------------------------------------------------------------
(* Type correctness. *)

\* Every step keeps every variable in its range.
LEMMA TypingStep == TypeOK /\ [Next]_vars => TypeOK'
<1> SUFFICES ASSUME TypeOK, [Next]_vars PROVE TypeOK'
  OBVIOUS
<1> USE DEF TypeOK, StoreTypeOK
<1>1. ASSUME NEW m \in inflight, Receive(m) PROVE TypeOK'
  <2>1. m.req \in Request /\ m.try \in 1 .. MaxAttempts
    BY DEF Copy
  <2>2. Check(m.req) \in Verdict
    BY <2>1, CheckRange DEF Verdict
  <2>3. /\ phase' \in Busy
        /\ verdict' \in Verdict
        /\ cur' \in Request
        /\ turn' \in 0 .. MaxAttempts
    BY <1>1, <2>1, <2>2, IngestAssumption
    DEF Receive, GoTo, Raise, Busy, StorePhase, QuarantinePhase
  <2>4. QED BY <1>1, <2>3 DEF Receive, disk, client
<1>2. ASSUME Serve PROVE TypeOK'
  <2> USE DEF disk, client, GoTo, Raise, Succeed
  <2>1. CASE StoreStep
    <3>1. phase \in StorePhase /\ cur \in Request
      BY <2>1 DEF StoreStep, CheckSpace, Lookup, OpenBatch, FillBatch,
         EncodingFails, OpenMeta, FillMeta, AppendDevice, AppendBatch,
         MakeLink, SymlinkFails, FillPointer, StoreFault, Busy, StorePhase
    <3>2. Target(cur) \in Path /\ cur.body \in Body /\ cur.device \in Device
      BY <3>1, RequestParts
    <3>3. /\ phase' \in Busy /\ cur' = cur /\ verdict' \in Verdict
          /\ faults' \in Nat
      BY <1>2, <2>1 DEF StoreStep, CheckSpace, Lookup, OpenBatch, FillBatch,
         EncodingFails, OpenMeta, FillMeta, AppendDevice, AppendBatch,
         MakeLink, SymlinkFails, FillPointer, StoreFault, Busy, StorePhase,
         Verdict, StoreReason
    <3>4. file' \in [Path -> FileState]
      BY <2>1, <3>2 DEF StoreStep, CheckSpace, Lookup, OpenBatch, FillBatch,
         EncodingFails, OpenMeta, FillMeta, AppendDevice, AppendBatch,
         MakeLink, SymlinkFails, FillPointer, StoreFault, CutShort, FileState
    <3>5. /\ meta' \in [Path -> {"absent", "torn", "ok"}]
          /\ link' \in [Path -> {"absent", "torn", "ok"}]
      BY <2>1, <3>2 DEF StoreStep, CheckSpace, Lookup, OpenBatch, FillBatch,
         EncodingFails, OpenMeta, FillMeta, AppendDevice, AppendBatch,
         MakeLink, SymlinkFails, FillPointer, StoreFault
    <3>6. /\ deviceLines' \in [Device -> Nat]
          /\ batchLines' \in [Path -> Nat]
          /\ held' = held /\ errors' = errors
      BY <2>1, <3>2 DEF StoreStep, CheckSpace, Lookup, OpenBatch, FillBatch,
         EncodingFails, OpenMeta, FillMeta, AppendDevice, AppendBatch,
         MakeLink, SymlinkFails, FillPointer, StoreFault
    <3>7. QED BY <1>2, <3>1, <3>3, <3>4, <3>5, <3>6 DEF Serve
  <2>2. CASE QuarantineStep \/ LogStep
    <3>1. phase \in Busy /\ cur \in Request
      BY <2>2 DEF QuarantineStep, OpenHold, HashingFails, FillHold,
         AppendHoldLine, HoldFault, LogStep, LogRejection, LogFault, Busy,
         QuarantinePhase
    <3>2. /\ Quarantine(cur) \in Path /\ cur.body \in Body
          /\ ErrorLine(cur, verdict) \in Device \X BatchId \X Verdict
      BY <3>1, RequestParts DEF ErrorLine
    <3>3. /\ phase' \in Busy /\ cur' = cur /\ verdict' \in Verdict
          /\ faults' \in Nat
          /\ UNCHANGED <<file, meta, deviceLines, batchLines, link>>
      BY <2>2 DEF QuarantineStep, OpenHold, HashingFails, FillHold,
         AppendHoldLine, HoldFault, LogStep, LogRejection, LogFault, Busy,
         QuarantinePhase, Verdict, StoreReason
    <3>4. held' \in [Path -> Body \cup {"absent", "torn"}]
      BY <2>2, <3>2 DEF QuarantineStep, OpenHold, HashingFails, FillHold,
         AppendHoldLine, HoldFault, LogStep, LogRejection, LogFault
    <3>5. errors' \subseteq Device \X BatchId \X Verdict
      BY <2>2, <3>2 DEF QuarantineStep, OpenHold, HashingFails, FillHold,
         AppendHoldLine, HoldFault, LogStep, LogRejection, LogFault
    <3>6. QED BY <1>2, <3>1, <3>3, <3>4, <3>5 DEF Serve
  <2>3. QED BY <1>2, <2>1, <2>2 DEF Serve
<1>3. ASSUME Answer PROVE TypeOK'
  <2>1. cur \in Request /\ cur.body \in Body
    BY <1>3, RequestParts DEF Answer, Busy
  <2>2. acked' \subseteq Body
    BY <1>3, <2>1 DEF Answer
  <2>3. /\ status' \in [Request -> {"unmade", "queued", "stored", "dead"}]
        /\ waiting' \subseteq Request
    BY <1>3, <2>1 DEF Answer, Learn
  <2>4. phase' = "idle" /\ cur' = NoRequest /\ verdict' = "none" /\ turn' = 0
    BY <1>3 DEF Answer
  <2>5. QED BY <1>3, <2>2, <2>3, <2>4, IngestAssumption
    DEF Answer, disk, Busy, StorePhase, QuarantinePhase, Verdict
<1>4. ASSUME Crash PROVE TypeOK'
  <2>1. file' \in [Path -> FileState]
    <3>1. CASE phase = "fill"
      BY <1>4, <3>1, RequestParts DEF Crash, CutShort, FileState, Busy, StorePhase
    <3>2. CASE phase # "fill"
      BY <1>4, <3>2 DEF Crash, CutShort
    <3>3. QED BY <3>1, <3>2
  <2>2. QED BY <1>4, <2>1, IngestAssumption
    DEF Crash, client, Busy, StorePhase, QuarantinePhase, Verdict
<1>5. ASSUME Restart PROVE TypeOK'
  BY <1>5 DEF Restart, disk, client, Busy, StorePhase, QuarantinePhase
<1>6. ASSUME Uploader PROVE TypeOK'
  <2>1. ASSUME NEW r \in Request, Send(r) PROVE TypeOK'
    <3>1. attempts[r] + 1 \in 1 .. MaxAttempts
      BY <2>1, IngestAssumption DEF Send
    <3>2. [req |-> r, try |-> attempts[r] + 1] \in Copy
      BY <3>1 DEF Copy
    <3>3. QED BY <2>1, <3>1, <3>2 DEF Send, disk
  <2>2. ASSUME NEW r \in Request, Timeout(r) PROVE TypeOK'
    BY <2>2 DEF Timeout, disk
  <2>3. ASSUME NEW r \in Request, SetAside(r) PROVE TypeOK'
    BY <2>3 DEF SetAside, disk
  <2>4. QED BY <1>6, <2>1, <2>2, <2>3 DEF Uploader
<1>7. CASE UNCHANGED vars
  BY <1>7 DEF vars, disk, client
<1>8. QED BY <1>1, <1>2, <1>3, <1>4, <1>5, <1>6, <1>7 DEF Next, Server

\* The handler's control point, upload, verdict and disk, and the client's
\* books, stay in their ranges.
THEOREM Typing == Spec => []TypeOK
<1>1. Init => TypeOK
  BY IngestAssumption, BoundAssumption
  DEF Init, ServiceInit, StoreInit, StoreHolds, TypeOK, StoreTypeOK, FileState, Verdict,
      Busy, StorePhase, QuarantinePhase
<1>2. QED BY <1>1, TypingStep, PTL DEF Spec

-----------------------------------------------------------------------------
(* The inductive invariant behind the safety properties.  AckedIsStored and  *)
(* StoredIsAccepted are not inductive alone: that a file is whole when `ok'  *)
(* is answered, and that the file being filled is the one that was absent,   *)
(* depends on where the handler stands.                                      *)

WritePhase == {"meta_open", "meta_fill", "device_line", "batch_line", "link", "pointer"}

\* What the handler has established about its upload and its file by now.
HandlerInv ==
  /\ phase \in {"idle", "down"} => verdict = "none"
  /\ phase \in StorePhase => Check(cur) = "ok" /\ verdict = "none"
  /\ phase \in QuarantinePhase => verdict \in QuarantineReason
  /\ phase = "reject" => verdict # "ok"
  /\ phase = "open" => file[Target(cur)] = "absent"
  /\ phase = "fill" => file[Target(cur)] = "torn"
  /\ phase \in WritePhase => file[Target(cur)] = cur.body
  /\ phase = "answer" /\ verdict = "ok" =>
       Check(cur) = "ok" /\ file[Target(cur)] = cur.body

\* What the index may hold for the path the handler is working on.
IndexInv ==
  /\ phase \in {"meta_open", "meta_fill", "device_line", "batch_line"} =>
       batchLines[Target(cur)] = 0
  /\ phase = "meta_open" => meta[Target(cur)] = "absent"
  /\ phase \in {"device_line", "batch_line", "link", "pointer"} =>
       meta[Target(cur)] = "ok"
  /\ phase \in {"link", "pointer"} =>
       batchLines[Target(cur)] = 1 /\ cur.body \in Labelled

SafetyInv ==
  HandlerInv /\ StoredIsAccepted /\ AckedIsStored /\ IndexInv /\ IndexFollowsBatch

\* Init establishes the invariant: nothing is stored and nobody is served.
LEMMA SafetyInit == Init => SafetyInv
<1> SUFFICES ASSUME Init PROVE SafetyInv
  OBVIOUS
<1>1. /\ phase = "idle" /\ verdict = "none" /\ acked = {}
      /\ file = [p \in Path |-> "absent"] /\ meta = [p \in Path |-> "absent"]
  BY DEF Init, ServiceInit, StoreInit, StoreHolds
<1>2. link = [p \in Path |-> "absent"] /\ batchLines = [p \in Path |-> 0]
  <2>1. "absent" \notin Labelled
    BY SentinelAssumption, BodyAssumption
  <2> QED BY <2>1 DEF Init, StoreInit, StoreHolds
<1> QED
  BY <1>1, <1>2, SentinelAssumption
  DEF SafetyInv, HandlerInv, StoredIsAccepted, AckedIsStored, IndexInv, IndexFollowsBatch,
      StorePhase, QuarantinePhase, WritePhase

\* Each step of store() preserves the invariant.
LEMMA StoreStepSafe ==
  ASSUME TypeOK, SafetyInv, StoreStep, UNCHANGED acked
  PROVE  SafetyInv'
<1> DEFINE p == Target(cur)
<1> USE DEF GoTo, Raise, Succeed, disk
<1>1. /\ phase \in StorePhase /\ cur \in Request /\ cur' = cur
  BY DEF TypeOK, StoreTypeOK, StoreStep, CheckSpace, Lookup, OpenBatch, FillBatch,
     EncodingFails, OpenMeta, FillMeta, AppendDevice, AppendBatch,
     MakeLink, SymlinkFails, FillPointer, StoreFault, Busy, StorePhase
<1>2. /\ p \in Path /\ cur.body \in Body
      /\ cur.body \in Valid /\ PathOf(cur.body) = p
      /\ Check(cur) = "ok" /\ verdict = "none"
  BY <1>1, RequestParts, PassedCheck DEF SafetyInv, HandlerInv
<1>3. /\ cur.body # "absent" /\ cur.body # "torn" /\ cur.body # "garbled"
      /\ \A b \in Body : b # "absent" /\ b # "torn" /\ b # "garbled"
  BY <1>2, BodyIsNoSentinel
<1>4. file \in [Path -> FileState] /\ meta \in [Path -> {"absent", "torn", "ok"}]
      /\ link \in [Path -> {"absent", "torn", "ok"}]
      /\ batchLines \in [Path -> Nat] /\ acked \subseteq Body
  BY DEF TypeOK, StoreTypeOK
<1> HIDE DEF p
<1>5. CASE CheckSpace
  BY <1>1, <1>2, <1>3, <1>4, <1>5
  DEF CheckSpace, SafetyInv, HandlerInv, StoredIsAccepted, AckedIsStored, IndexInv,
      IndexFollowsBatch, StorePhase, QuarantinePhase, WritePhase, p
<1>6. CASE Lookup
  BY <1>1, <1>2, <1>3, <1>4, <1>6
  DEF Lookup, SafetyInv, HandlerInv, StoredIsAccepted, AckedIsStored, IndexInv,
      IndexFollowsBatch, StorePhase, QuarantinePhase, WritePhase, p
<1>7. CASE OpenBatch
  BY <1>1, <1>2, <1>3, <1>4, <1>7
  DEF OpenBatch, SafetyInv, HandlerInv, StoredIsAccepted, AckedIsStored, IndexInv,
      IndexFollowsBatch, StorePhase, QuarantinePhase, WritePhase, p
<1>8. CASE FillBatch
  BY <1>1, <1>2, <1>3, <1>4, <1>8
  DEF FillBatch, SafetyInv, HandlerInv, StoredIsAccepted, AckedIsStored, IndexInv,
      IndexFollowsBatch, StorePhase, QuarantinePhase, WritePhase, p
<1>9. CASE EncodingFails
  BY <1>1, <1>2, <1>3, <1>4, <1>9
  DEF EncodingFails, SafetyInv, HandlerInv, StoredIsAccepted, AckedIsStored, IndexInv,
      IndexFollowsBatch, StorePhase, QuarantinePhase, WritePhase, p
<1>10. CASE OpenMeta
  BY <1>1, <1>2, <1>3, <1>4, <1>10
  DEF OpenMeta, SafetyInv, HandlerInv, StoredIsAccepted, AckedIsStored, IndexInv,
      IndexFollowsBatch, StorePhase, QuarantinePhase, WritePhase, p
<1>11. CASE FillMeta
  BY <1>1, <1>2, <1>3, <1>4, <1>11
  DEF FillMeta, SafetyInv, HandlerInv, StoredIsAccepted, AckedIsStored, IndexInv,
      IndexFollowsBatch, StorePhase, QuarantinePhase, WritePhase, p
<1>12. CASE AppendDevice
  BY <1>1, <1>2, <1>3, <1>4, <1>12
  DEF AppendDevice, SafetyInv, HandlerInv, StoredIsAccepted, AckedIsStored, IndexInv,
      IndexFollowsBatch, StorePhase, QuarantinePhase, WritePhase, p
<1>13. CASE AppendBatch
  BY <1>1, <1>2, <1>3, <1>4, <1>13
  DEF AppendBatch, SafetyInv, HandlerInv, StoredIsAccepted, AckedIsStored, IndexInv,
      IndexFollowsBatch, StorePhase, QuarantinePhase, WritePhase, p
<1>14. CASE MakeLink
  BY <1>1, <1>2, <1>3, <1>4, <1>14
  DEF MakeLink, SafetyInv, HandlerInv, StoredIsAccepted, AckedIsStored, IndexInv,
      IndexFollowsBatch, StorePhase, QuarantinePhase, WritePhase, p
<1>15. CASE SymlinkFails
  BY <1>1, <1>2, <1>3, <1>4, <1>15
  DEF SymlinkFails, SafetyInv, HandlerInv, StoredIsAccepted, AckedIsStored, IndexInv,
      IndexFollowsBatch, StorePhase, QuarantinePhase, WritePhase, p
<1>16. CASE FillPointer
  BY <1>1, <1>2, <1>3, <1>4, <1>16
  DEF FillPointer, SafetyInv, HandlerInv, StoredIsAccepted, AckedIsStored, IndexInv,
      IndexFollowsBatch, StorePhase, QuarantinePhase, WritePhase, p
<1>17. CASE StoreFault
  <2>1. /\ phase' = "reject" /\ verdict' = "storage_write_failed"
        /\ UNCHANGED <<cur, meta, deviceLines, batchLines, link>>
    BY <1>17 DEF StoreFault
  <2>2. CASE phase = "fill"
    <3>1. file[p] = "torn"
      BY <2>2 DEF SafetyInv, HandlerInv, p
    <3>2. /\ \A q \in Path : q # p => file'[q] = file[q]
          /\ file'[p] \in {"torn", "garbled"}
      BY <1>2, <1>4, <1>17, <2>2, <3>1 DEF StoreFault, CutShort, p
    <3>3. \A b \in acked : PathOf(b) \in Path /\ PathOf(b) # p
      BY <1>3, <1>4, <3>1, BodyHasPath DEF SafetyInv, AckedIsStored
    <3>4. QED BY <1>2, <1>3, <1>4, <2>1, <3>1, <3>2, <3>3
      DEF SafetyInv, HandlerInv, StoredIsAccepted, AckedIsStored, IndexInv,
          IndexFollowsBatch, StorePhase, QuarantinePhase, WritePhase
  <2>3. CASE phase # "fill"
    <3>1. UNCHANGED file
      BY <1>17, <2>3 DEF StoreFault, CutShort
    <3>2. QED BY <2>1, <3>1
      DEF SafetyInv, HandlerInv, StoredIsAccepted, AckedIsStored, IndexInv,
          IndexFollowsBatch, StorePhase, QuarantinePhase, WritePhase
  <2>4. QED BY <2>2, <2>3
<1>18. QED BY <1>5, <1>6, <1>7, <1>8, <1>9, <1>10, <1>11, <1>12, <1>13, <1>14, <1>15, <1>16, <1>17 DEF StoreStep

\* So does each step of quarantine() and of the error log, which touch neither
\* the batches nor the index.
LEMMA LogStepSafe ==
  ASSUME TypeOK, SafetyInv, QuarantineStep \/ LogStep, UNCHANGED acked
  PROVE  SafetyInv'
<1>1. /\ UNCHANGED <<cur, file, meta, batchLines, link>>
      /\ phase \in QuarantinePhase \cup {"reject"}
      /\ phase' \in {"hold_fill", "hold_line", "reject", "answer"}
      /\ verdict' = verdict \/ verdict' = "internal_error"
  BY DEF QuarantineStep, OpenHold, HashingFails, FillHold, AppendHoldLine,
     HoldFault, LogStep, LogRejection, LogFault, GoTo, Raise, disk, QuarantinePhase
<1>2. phase' \in QuarantinePhase => phase \in QuarantinePhase /\ verdict' = verdict
  BY DEF QuarantineStep, OpenHold, HashingFails, FillHold, AppendHoldLine,
     HoldFault, LogStep, LogRejection, LogFault, GoTo, Raise, QuarantinePhase
<1>3. verdict # "ok" /\ verdict' # "ok"
  BY <1>1 DEF SafetyInv, HandlerInv, QuarantinePhase, QuarantineReason
<1>4. QED BY <1>1, <1>2, <1>3
  DEF SafetyInv, HandlerInv, StoredIsAccepted, AckedIsStored, IndexInv,
      IndexFollowsBatch, StorePhase, QuarantinePhase, WritePhase

\* A new upload starts with nothing established but its checks.
LEMMA ReceiveSafe ==
  ASSUME TypeOK, SafetyInv, NEW m \in inflight, Receive(m)
  PROVE  SafetyInv'
<1>1. m.req \in Request
  BY DEF TypeOK, Copy
<1>2. /\ UNCHANGED <<file, meta, batchLines, link, acked>>
      /\ cur' = m.req
  BY DEF Receive, disk
<1>3. \/ phase' = "space" /\ verdict' = verdict /\ Check(m.req) = "ok"
      \/ /\ phase' = "hold_open" /\ verdict' \in QuarantineReason
      \/ /\ phase' = "reject" /\ verdict' # "ok"
  BY <1>1, CheckRange, IngestAssumption DEF Receive, GoTo, Raise, QuarantineReason
<1>4. phase = "idle"
  BY DEF Receive
<1>5. verdict = "none"
  BY <1>4 DEF SafetyInv, HandlerInv
<1>6. QED BY <1>2, <1>3, <1>5
  DEF SafetyInv, HandlerInv, StoredIsAccepted, AckedIsStored, IndexInv,
      IndexFollowsBatch, StorePhase, QuarantinePhase, WritePhase

\* Answering adds the body to the acknowledged ones only when it is stored.
LEMMA AnswerSafe ==
  ASSUME TypeOK, SafetyInv, Answer
  PROVE  SafetyInv'
<1>1. cur \in Request
  BY DEF TypeOK, StoreTypeOK, Answer, Busy
<1>2. \A b \in acked' : file[PathOf(b)] = b
  <2>1. CASE verdict = "ok"
    BY <1>1, <2>1, PassedCheck DEF Answer, SafetyInv, HandlerInv, AckedIsStored
  <2>2. CASE verdict # "ok"
    BY <2>2 DEF Answer, SafetyInv, AckedIsStored
  <2>3. QED BY <2>1, <2>2
<1>3. phase' = "idle" /\ verdict' = "none" /\ UNCHANGED <<file, meta, batchLines, link>>
  BY DEF Answer, disk
<1>4. QED BY <1>2, <1>3
  DEF SafetyInv, HandlerInv, StoredIsAccepted, AckedIsStored, IndexInv,
      IndexFollowsBatch, StorePhase, QuarantinePhase, WritePhase

\* A crash can cut short only the file that is being filled.
LEMMA CrashSafe ==
  ASSUME TypeOK, SafetyInv, Crash
  PROVE  SafetyInv'
<1> DEFINE p == Target(cur)
<1>1. /\ phase' = "down" /\ verdict' = "none"
      /\ UNCHANGED <<meta, batchLines, link, acked>>
  BY DEF Crash
<1>2. CASE phase = "fill" /\ cur.body \notin Unencodable
  <2>1. cur \in Request /\ p \in Path
    BY <1>2, RequestParts DEF TypeOK, StoreTypeOK, Busy, StorePhase
  <2>2. file[p] = "torn"
    BY <1>2 DEF SafetyInv, HandlerInv
  <2>3. /\ \A q \in Path : q # p => file'[q] = file[q]
        /\ file'[p] \in {"torn", "garbled"}
    BY <1>2, <2>1 DEF Crash, CutShort, TypeOK, StoreTypeOK
  <2>4. \A b \in acked : PathOf(b) \in Path /\ PathOf(b) # p
    BY <2>2, BodyIsNoSentinel, BodyHasPath DEF SafetyInv, AckedIsStored, TypeOK
  <2> HIDE DEF p
  <2>5. QED BY <1>1, <2>1, <2>2, <2>3, <2>4, BodyIsNoSentinel
    DEF SafetyInv, HandlerInv, StoredIsAccepted, AckedIsStored, IndexInv,
        IndexFollowsBatch, StorePhase, QuarantinePhase, WritePhase
<1>3. CASE ~(phase = "fill" /\ cur.body \notin Unencodable)
  <2>1. UNCHANGED file
    BY <1>3 DEF Crash, CutShort
  <2>2. QED BY <1>1, <2>1
    DEF SafetyInv, HandlerInv, StoredIsAccepted, AckedIsStored, IndexInv,
        IndexFollowsBatch, StorePhase, QuarantinePhase, WritePhase
<1>4. QED BY <1>2, <1>3

\* The invariant holds of every reachable state.
THEOREM Safety == Spec => []SafetyInv
<1>1. Init => SafetyInv
  BY SafetyInit
<1>2. TypeOK /\ SafetyInv /\ [Next]_vars => SafetyInv'
  <2> SUFFICES ASSUME TypeOK, SafetyInv, [Next]_vars PROVE SafetyInv'
    OBVIOUS
  <2>1. ASSUME NEW m \in inflight, Receive(m) PROVE SafetyInv'
    BY <2>1, ReceiveSafe
  <2>2. ASSUME Serve PROVE SafetyInv'
    BY <2>2, StoreStepSafe, LogStepSafe DEF Serve
  <2>3. ASSUME Answer PROVE SafetyInv'
    BY <2>3, AnswerSafe
  <2>4. ASSUME Crash PROVE SafetyInv'
    BY <2>4, CrashSafe
  <2>5. ASSUME Restart \/ Uploader \/ UNCHANGED vars PROVE SafetyInv'
    <3>1. UNCHANGED <<cur, verdict, file, meta, batchLines, link, acked>>
      BY <2>5 DEF Restart, Uploader, Send, Timeout, SetAside, vars, disk
    <3>2. phase' = phase \/ (phase = "down" /\ phase' = "idle")
      BY <2>5 DEF Restart, Uploader, Send, Timeout, SetAside, vars
    <3>3. QED BY <3>1, <3>2
      DEF SafetyInv, HandlerInv, StoredIsAccepted, AckedIsStored, IndexInv,
          IndexFollowsBatch, StorePhase, QuarantinePhase, WritePhase
  <2>6. QED BY <2>1, <2>2, <2>3, <2>4, <2>5 DEF Next, Server
<1>3. QED BY <1>1, <1>2, Typing, PTL DEF Spec

\* A body that was answered 200 is on the disk, whole, in every later state.
THEOREM AckedStaysStored == Spec => []AckedIsStored
BY Safety, PTL DEF SafetyInv

\* Only bodies that passed every check are stored, each under its own path.
THEOREM OnlyAcceptedIsStored == Spec => []StoredIsAccepted
BY Safety, PTL DEF SafetyInv

\* The index and the sidecars never run ahead of the batches, and no path is
\* indexed twice.
THEOREM IndexNeverAhead == Spec => []IndexFollowsBatch
BY Safety, PTL DEF SafetyInv

-----------------------------------------------------------------------------
(* Steps. *)

\* The only steps that change a batch file open an absent one or end the write
\* of the one that is torn.
LEMMA FileStep ==
  ASSUME [Next]_vars
  PROVE  \/ UNCHANGED file
         \/ OpenBatch \/ FillBatch
         \/ phase = "fill" /\ CutShort /\ phase' \in {"reject", "down"}
<1>1. ASSUME NEW m \in inflight, Receive(m) PROVE UNCHANGED file
  BY <1>1 DEF Receive, disk
<1>2. ASSUME StoreStep PROVE \/ UNCHANGED file \/ OpenBatch \/ FillBatch
                             \/ phase = "fill" /\ CutShort /\ phase' = "reject"
  BY <1>2 DEF StoreStep, CheckSpace, Lookup, EncodingFails, OpenMeta, FillMeta,
     AppendDevice, AppendBatch, MakeLink, SymlinkFails, FillPointer, StoreFault,
     CutShort, Raise, disk
<1>3. ASSUME QuarantineStep \/ LogStep PROVE UNCHANGED file
  BY <1>3 DEF QuarantineStep, OpenHold, HashingFails, FillHold, AppendHoldLine,
     HoldFault, LogStep, LogRejection, LogFault, disk
<1>4. ASSUME Crash PROVE \/ UNCHANGED file
                         \/ phase = "fill" /\ CutShort /\ phase' = "down"
  BY <1>4 DEF Crash, CutShort
<1>5. ASSUME Answer \/ Restart \/ Uploader \/ UNCHANGED vars PROVE UNCHANGED file
  BY <1>5 DEF Answer, Restart, Uploader, Send, Timeout, SetAside, vars, disk
<1>6. QED BY <1>1, <1>2, <1>3, <1>4, <1>5 DEF Next, Server, Serve

\* What handles the file that is being filled or opened.
LEMMA HandledPath ==
  ASSUME TypeOK, SafetyInv
  PROVE  phase \in StorePhase =>
           /\ cur \in Request /\ Target(cur) \in Path /\ cur.body \in Body
           /\ PathOf(cur.body) = Target(cur)
BY RequestParts, PassedCheck DEF TypeOK, StoreTypeOK, SafetyInv, HandlerInv, Busy

\* A batch file changes only when it is the handler's own: an absent one is
\* opened, or the write of the torn one ends.
LEMMA FileChange ==
  ASSUME TypeOK, SafetyInv, [Next]_vars, NEW p \in Path, file'[p] # file[p]
  PROVE  /\ p = Target(cur)
         /\ \/ OpenBatch /\ file[p] = "absent"
            \/ phase = "fill" /\ file[p] = "torn"
<1>1. CASE OpenBatch
  <2>1. p = Target(cur)
    BY <1>1 DEF OpenBatch, TypeOK, StoreTypeOK
  <2>2. QED BY <1>1, <2>1 DEF OpenBatch, SafetyInv, HandlerInv
<1>2. CASE phase = "fill"
  <2>1. file' = file \/ \E s : file' = [file EXCEPT ![Target(cur)] = s]
    BY <1>2, FileStep DEF FillBatch, OpenBatch, CutShort
  <2>2. p = Target(cur)
    BY <2>1 DEF TypeOK, StoreTypeOK
  <2>3. QED BY <1>2, <2>2 DEF SafetyInv, HandlerInv
<1>3. QED BY <1>1, <1>2, FileStep DEF FillBatch

\* The handler comes to fill a file only by opening it.
LEMMA FillStep ==
  ASSUME TypeOK, SafetyInv, [Next]_vars, phase' = "fill"
  PROVE  cur' = cur /\ (OpenBatch \/ phase = "fill")
BY DEF Next, Server, Serve, Receive, StoreStep, CheckSpace, Lookup, OpenBatch,
   FillBatch, EncodingFails, OpenMeta, FillMeta, AppendDevice, AppendBatch,
   MakeLink, SymlinkFails, FillPointer, StoreFault, QuarantineStep, OpenHold,
   HashingFails, FillHold, AppendHoldLine, HoldFault, LogStep, LogRejection,
   LogFault, Answer, Restart, Crash, Uploader, Send, Timeout, SetAside, vars,
   GoTo, Raise, Succeed

\* A whole batch file is never written again, nor a torn one except by the
\* write under way.
THEOREM FilesAreWrittenOnce == Spec => WriteOnce
<1> DEFINE Once == \A p \in Path :
                     file'[p] # file[p] =>
                       \/ file[p] = "absent"
                       \/ phase = "fill" /\ p = Target(cur) /\ file[p] = "torn"
<1>1. ASSUME TypeOK, SafetyInv, [Next]_vars PROVE Once
  BY <1>1, FileChange
<1>2. QED BY <1>1, Typing, Safety, PTL DEF Spec, WriteOnce

-----------------------------------------------------------------------------
(* The service implements the write-once registers of BatchStore. *)

\* A step that ends the write under way turns its register, and only that one,
\* into what the file holds; every other step leaves the registers alone.
LEMMA EntryStep ==
  ASSUME TypeOK, SafetyInv, [Next]_vars
  PROVE  \/ Entry' = Entry
         \/ /\ FillBatch
            /\ Entry[Target(cur)] = "absent"
            /\ Entry' = [Entry EXCEPT ![Target(cur)] = cur.body]
         \/ /\ phase = "fill"
            /\ Entry[Target(cur)] = "absent"
            /\ Entry' = [Entry EXCEPT ![Target(cur)] = "spoiled"]
<1>1. CASE phase = "fill"
  <2>1. /\ cur \in Request /\ Target(cur) \in Path /\ cur.body \in Body
        /\ file[Target(cur)] = "torn" /\ file \in [Path -> FileState]
        /\ Entry[Target(cur)] = "absent"
    BY <1>1, HandledPath DEF SafetyInv, HandlerInv, StorePhase, Entry, TypeOK, StoreTypeOK
  <2>2. CASE FillBatch
    <3>1. /\ phase' = "meta_open" /\ file' = [file EXCEPT ![Target(cur)] = cur.body]
      BY <2>2 DEF FillBatch, GoTo
    <3>2. Entry' = [Entry EXCEPT ![Target(cur)] = cur.body]
      BY <1>1, <2>1, <3>1, BodyIsNoSentinel DEF Entry
    <3>3. QED BY <2>1, <2>2, <3>2
  <2>3. CASE phase' = "fill" /\ cur' = cur /\ UNCHANGED file
    BY <1>1, <2>3 DEF Entry
  <2>4. CASE /\ phase' # "fill"
             /\ \/ UNCHANGED file
                \/ \E rest \in {"torn", "garbled"} :
                     file' = [file EXCEPT ![Target(cur)] = rest]
    <3>1. file'[Target(cur)] \in {"torn", "garbled"}
          /\ \A q \in Path : q # Target(cur) => file'[q] = file[q]
      BY <2>1, <2>4
    <3>2. Entry' = [Entry EXCEPT ![Target(cur)] = "spoiled"]
      BY <1>1, <2>1, <2>4, <3>1 DEF Entry
    <3>3. QED BY <1>1, <2>1, <3>2
  <2>5. \/ FillBatch
        \/ phase' = "fill" /\ cur' = cur /\ UNCHANGED file
        \/ /\ phase' # "fill"
           /\ \/ UNCHANGED file
              \/ \E rest \in {"torn", "garbled"} :
                   file' = [file EXCEPT ![Target(cur)] = rest]
    <3>1. CASE UNCHANGED file
      <4>1. CASE cur' = cur
        BY <3>1, <4>1
      <4>2. CASE cur' # cur
        <5>1. ~Serve
          BY <4>2 DEF Serve, StoreStep, CheckSpace, Lookup, OpenBatch,
             FillBatch, EncodingFails, OpenMeta, FillMeta, AppendDevice,
             AppendBatch, MakeLink, SymlinkFails, FillPointer, StoreFault,
             QuarantineStep, OpenHold, HashingFails, FillHold,
             AppendHoldLine, HoldFault, LogStep, LogRejection, LogFault
        <5>2. phase' # "fill"
          BY <1>1, <4>2, <5>1 DEF Next, Server, Receive, Answer, Restart,
             Crash, Uploader, Send, Timeout, SetAside, vars
        <5>3. QED BY <3>1, <5>2
      <4>3. QED BY <4>1, <4>2, <3>1
    <3>2. CASE CutShort /\ phase' \in {"reject", "down"}
      BY <3>2 DEF CutShort
    <3>3. QED BY <1>1, <3>1, <3>2, FileStep DEF OpenBatch
  <2>6. QED BY <2>2, <2>3, <2>4, <2>5
<1>2. CASE phase # "fill"
  <2>1. CASE OpenBatch
    <3>1. /\ Target(cur) \in Path /\ file[Target(cur)] = "absent"
          /\ phase' = "fill" /\ cur' = cur
          /\ file' = [file EXCEPT ![Target(cur)] = "torn"]
      BY <2>1, HandledPath DEF OpenBatch, GoTo, SafetyInv, HandlerInv, StorePhase
    <3>2. QED BY <1>2, <3>1 DEF Entry, TypeOK, StoreTypeOK
  <2>2. CASE ~OpenBatch
    <3>1. UNCHANGED file
      BY <1>2, <2>2, FileStep DEF FillBatch
    <3>2. phase' # "fill"
      BY <1>2, <2>2 DEF Next, Server, Serve, Receive, StoreStep, CheckSpace,
         Lookup, FillBatch, EncodingFails, OpenMeta, FillMeta,
         AppendDevice, AppendBatch, MakeLink, SymlinkFails, FillPointer,
         StoreFault, QuarantineStep, OpenHold, HashingFails, FillHold,
         AppendHoldLine, HoldFault, LogStep, LogRejection, LogFault, Answer,
         Restart, Crash, Uploader, Send, Timeout, SetAside, vars, GoTo, Raise, Succeed
    <3>3. QED BY <1>2, <3>1, <3>2 DEF Entry
  <2>3. QED BY <2>1, <2>2
<1>3. QED BY <1>1, <1>2

\* Acknowledgements grow only by a body its register holds.
LEMMA AckedStep ==
  ASSUME TypeOK, SafetyInv, [Next]_vars
  PROVE  \/ acked' = acked
         \/ /\ Entry' = Entry
            /\ cur.body \in Body
            /\ Entry[PathOf(cur.body)] = cur.body
            /\ acked' = acked \cup {cur.body}
<1>1. CASE Answer /\ verdict = "ok"
  <2>1. /\ cur \in Request /\ Check(cur) = "ok"
        /\ file[Target(cur)] = cur.body /\ phase = "answer"
        /\ phase' = "idle" /\ UNCHANGED file
        /\ acked' = acked \cup {cur.body}
    BY <1>1 DEF Answer, SafetyInv, HandlerInv, TypeOK, StoreTypeOK, Busy, disk
  <2>2. /\ cur.body \in Body /\ PathOf(cur.body) = Target(cur)
        /\ Target(cur) \in Path
    BY <2>1, RequestParts, PassedCheck
  <2>3. Entry' = Entry
    BY <2>1 DEF Entry
  <2>4. Entry[PathOf(cur.body)] = cur.body
    BY <2>1, <2>2, BodyIsNoSentinel DEF Entry
  <2>5. QED BY <2>1, <2>2, <2>3, <2>4
<1>2. CASE ~(Answer /\ verdict = "ok")
  BY <1>2 DEF Next, Server, Serve, Receive, Answer, Restart, Crash, Uploader,
     Send, Timeout, SetAside, vars
<1>3. QED BY <1>1, <1>2

\* Every behaviour of the service, crashes and failures included, is one of the
\* write-once registers.
THEOREM StoreKeepsPromise == Spec => KeepsPromise
<1>1. Init => Promise!Init
  BY DEF Init, ServiceInit, StoreInit, StoreHolds, Promise!Init, Entry
<1>2. ASSUME TypeOK, SafetyInv, [Next]_vars
      PROVE  [Promise!Next]_<<Entry, acked>>
  <2>1. CASE UNCHANGED <<Entry, acked>>
    BY <2>1
  <2>2. CASE Entry' = Entry /\ acked' # acked
    <3>1. Promise!Acknowledge(cur.body) /\ cur.body \in Body
      BY <1>2, <2>2, AckedStep DEF Promise!Acknowledge
    <3>2. QED BY <3>1 DEF Promise!Next
  <2>3. CASE Entry' # Entry
    <3>1. /\ acked' = acked
          /\ cur.body \in Body /\ Target(cur) \in Path
          /\ PathOf(cur.body) = Target(cur)
      BY <1>2, <2>3, AckedStep, EntryStep, HandledPath DEF FillBatch, StorePhase
    <3>2. Promise!Store(cur.body) \/ Promise!Spoil(Target(cur))
      BY <1>2, <2>3, <3>1, EntryStep DEF Promise!Store, Promise!Spoil
    <3>3. QED BY <3>1, <3>2 DEF Promise!Next
  <2>4. QED BY <2>1, <2>2, <2>3
<1>3. QED BY <1>1, <1>2, Typing, Safety, PTL DEF Spec, KeepsPromise, Promise!Spec

-----------------------------------------------------------------------------
(* A refusal leaves a line in errors.jsonl.                                  *)

\* A quarantined upload reaches the plain rejection log only after a failure.
RecordInv ==
  /\ phase = "reject" /\ verdict \in QuarantineReason => faults >= 1
  /\ RefusalIsRecorded

\* Every step that ends in an answer has written the line, or counts the
\* failures that kept it from being written.
THEOREM RefusalsAreRecorded == Spec => []RefusalIsRecorded
<1>1. Init => RecordInv
  BY DEF Init, ServiceInit, RecordInv, RefusalIsRecorded
<1>2. TypeOK /\ SafetyInv /\ RecordInv /\ [Next]_vars => RecordInv'
  <2> SUFFICES ASSUME TypeOK, SafetyInv, RecordInv, [Next]_vars PROVE RecordInv'
    OBVIOUS
  <2> USE DEF RecordInv, RefusalIsRecorded
  <2>1. ASSUME NEW m \in inflight, Receive(m) PROVE RecordInv'
    <3>1. phase = "idle" /\ verdict = "none"
      BY <2>1 DEF Receive, SafetyInv, HandlerInv
    <3>2. phase' # "answer"
      BY <2>1, <3>1 DEF Receive, GoTo, Raise
    <3>3. phase' = "reject" => verdict' \notin QuarantineReason
      BY <2>1, <3>1 DEF Receive, GoTo, Raise
    <3>4. QED BY <3>2, <3>3
  <2>2. ASSUME StoreStep PROVE RecordInv'
    <3>1. phase' = "answer" => verdict' = "ok"
      BY <2>2 DEF StoreStep, CheckSpace, Lookup, OpenBatch, FillBatch, EncodingFails,
         OpenMeta, FillMeta, AppendDevice, AppendBatch, MakeLink, SymlinkFails,
         FillPointer, StoreFault, GoTo, Raise, Succeed
    <3>2. phase' = "reject" => verdict' \notin QuarantineReason
      BY <2>2 DEF StoreStep, CheckSpace, Lookup, OpenBatch, FillBatch, EncodingFails,
         OpenMeta, FillMeta, AppendDevice, AppendBatch, MakeLink, SymlinkFails,
         FillPointer, StoreFault, GoTo, Raise, Succeed, QuarantineReason
    <3>3. QED BY <3>1, <3>2
  <2>3. ASSUME QuarantineStep PROVE RecordInv'
    <3>1. faults \in Nat
      BY DEF TypeOK, StoreTypeOK
    <3>2. CASE OpenHold \/ FillHold
      BY <3>2 DEF OpenHold, FillHold, GoTo
    <3>3. CASE HashingFails
      BY <3>3 DEF HashingFails, Raise, QuarantineReason
    <3>4. CASE AppendHoldLine
      BY <3>4 DEF AppendHoldLine, GoTo, ErrorLine
    <3>5. CASE HoldFault
      BY <3>1, <3>5 DEF HoldFault, GoTo
    <3>6. QED BY <2>3, <3>2, <3>3, <3>4, <3>5 DEF QuarantineStep
  <2>4. ASSUME LogStep PROVE RecordInv'
    <3>1. faults \in Nat
      BY DEF TypeOK, StoreTypeOK
    <3>2. CASE LogRejection
      BY <3>2 DEF LogRejection, GoTo, ErrorLine
    <3>3. CASE LogFault
      BY <3>1, <3>3 DEF LogFault, GoTo
    <3>4. QED BY <2>4, <3>2, <3>3 DEF LogStep
  <2>5. ASSUME Answer \/ Crash \/ Restart PROVE RecordInv'
    BY <2>5 DEF Answer, Crash, Restart
  <2>6. ASSUME Uploader \/ UNCHANGED vars PROVE RecordInv'
    BY <2>6 DEF Uploader, Send, Timeout, SetAside, vars, disk, ErrorLine
  <2>7. QED BY <2>1, <2>2, <2>3, <2>4, <2>5, <2>6 DEF Next, Server, Serve
<1>3. QED BY <1>1, <1>2, Typing, Safety, PTL DEF Spec, RecordInv

-----------------------------------------------------------------------------
(* What the client concludes agrees with the disk.                           *)

\* What a verdict says of the upload the handler works on.
RefusalInv ==
  /\ phase \in {"reject", "answer"} => verdict # "none"
  /\ phase \in Busy /\ verdict \in Flaw \cup QuarantineReason => ~Acceptable(cur)
  /\ Conflicting => /\ phase \in {"reject", "answer"}
                   /\ file[Target(cur)] \notin {"absent", cur.body}

\* A file the client was told about stays as it was told, since a file that is
\* neither absent nor being filled is never taken up again.
ClientInv ==
  /\ RefusalInv
  /\ \A r \in Request :
       /\ status[r] = "stored" => file[Target(r)] = r.body
       /\ status[r] = "dead" /\ attempts[r] < MaxAttempts /\ Acceptable(r) =>
            /\ file[Target(r)] \notin {"absent", r.body}
            /\ ~(phase = "fill" /\ Target(cur) = Target(r))

\* The handler's verdicts differ: no defect of an upload is a failure of the
\* service, nor the other way around.
LEMMA VerdictsDiffer ==
  /\ Flaw \cap QuarantineReason = {}
  /\ \A v \in Flaw \cup QuarantineReason :
       v \notin StoreReason /\ v \notin {"ok", "none"}
BY IngestAssumption DEF QuarantineReason, StoreReason

\* An upload that fails a check is not acceptable.
LEMMA FailedCheck ==
  ASSUME NEW r \in Request, Check(r) # "ok"
  PROVE  ~Acceptable(r)
BY DEF Check, Acceptable

\* A step of store() ends in success, a failure of the service, or the conflict
\* that Lookup met.
LEMMA StoreStepRefusals ==
  ASSUME TypeOK, SafetyInv, RefusalInv, StoreStep
  PROVE  RefusalInv'
<1>1. phase \in StorePhase /\ verdict = "none" /\ cur' = cur
  BY DEF StoreStep, CheckSpace, Lookup, OpenBatch, FillBatch, EncodingFails,
     OpenMeta, FillMeta, AppendDevice, AppendBatch, MakeLink, SymlinkFails,
     FillPointer, StoreFault, StorePhase, SafetyInv, HandlerInv
<1>2. \/ verdict' \in ({"none", "ok"} \cup StoreReason) \ {"duplicate_batch_id_conflict"}
      \/ /\ verdict' = "duplicate_batch_id_conflict"
         /\ phase' = "reject" /\ UNCHANGED file
         /\ file[Target(cur)] \notin {"absent", cur.body}
  BY <1>1 DEF StoreStep, CheckSpace, Lookup, OpenBatch, FillBatch, EncodingFails,
     OpenMeta, FillMeta, AppendDevice, AppendBatch, MakeLink, SymlinkFails,
     FillPointer, StoreFault, StoreReason, GoTo, Raise, Succeed, disk
<1>3. phase' \in {"reject", "answer"} => verdict' # "none"
  BY <1>1 DEF StoreStep, CheckSpace, Lookup, OpenBatch, FillBatch, EncodingFails,
     OpenMeta, FillMeta, AppendDevice, AppendBatch, MakeLink, SymlinkFails,
     FillPointer, StoreFault, StorePhase, GoTo, Raise, Succeed
<1>4. verdict' \notin Flaw \cup QuarantineReason
  BY <1>2, VerdictsDiffer DEF StoreReason
<1>5. QED BY <1>1, <1>2, <1>3, <1>4 DEF RefusalInv, Conflicting

\* So do the steps of the quarantine and the log, which keep the verdict or
\* turn it into a failure of the service.
LEMMA LogStepRefusals ==
  ASSUME TypeOK, SafetyInv, RefusalInv, QuarantineStep \/ LogStep
  PROVE  RefusalInv'
<1>1. /\ UNCHANGED <<cur, file>>
      /\ phase \in QuarantinePhase \cup {"reject"}
      /\ phase' \in {"hold_fill", "hold_line", "reject", "answer"}
      /\ phase = "reject" => phase' = "answer"
      /\ verdict' = verdict \/ verdict' = "internal_error"
  BY DEF QuarantineStep, OpenHold, HashingFails, FillHold, AppendHoldLine,
     HoldFault, LogStep, LogRejection, LogFault, GoTo, Raise, disk, QuarantinePhase
<1>2. verdict # "none" /\ phase \in Busy
  BY <1>1, VerdictsDiffer DEF SafetyInv, HandlerInv, RefusalInv, Busy
<1>3. Conflicting' => Conflicting /\ phase' = "answer"
  BY <1>1 DEF RefusalInv, Conflicting, QuarantinePhase
<1>4. QED BY <1>1, <1>2, <1>3, VerdictsDiffer DEF RefusalInv, Conflicting, StoreReason, Acceptable

\* A new upload is refused at once only by a check it fails.
LEMMA ReceiveRefusals ==
  ASSUME TypeOK, SafetyInv, RefusalInv, NEW m \in inflight, Receive(m)
  PROVE  RefusalInv'
<1>1. m.req \in Request /\ phase = "idle" /\ verdict = "none" /\ cur' = m.req
  BY DEF TypeOK, Copy, Receive, SafetyInv, HandlerInv
<1>2. \/ phase' = "space" /\ verdict' = "none"
      \/ verdict' = Check(m.req) /\ Check(m.req) # "ok"
  BY <1>1 DEF Receive, GoTo, Raise
<1>3. verdict' # "none" => ~Acceptable(m.req) /\ verdict' \in Flaw \cup QuarantineReason
  BY <1>1, <1>2, FailedCheck, CheckRange
<1>4. phase' \in {"reject", "answer"} => verdict' # "none"
  BY <1>1, CheckRange, VerdictsDiffer DEF Receive, GoTo, Raise
<1>5. QED BY <1>1, <1>3, <1>4, VerdictsDiffer DEF RefusalInv, Conflicting, StoreReason, Acceptable

\* Every step keeps what a verdict says.
LEMMA RefusalStep ==
  ASSUME TypeOK, SafetyInv, RefusalInv, [Next]_vars
  PROVE  RefusalInv'
<1>1. ASSUME NEW m \in inflight, Receive(m) PROVE RefusalInv'
  BY <1>1, ReceiveRefusals
<1>2. ASSUME Serve PROVE RefusalInv'
  BY <1>2, StoreStepRefusals, LogStepRefusals DEF Serve
<1>3. ASSUME Answer \/ Crash \/ Restart PROVE RefusalInv'
  <2>1. /\ phase' \in {"idle", "down"}
        /\ verdict' = "none"
    BY <1>3 DEF Answer, Crash, Restart, SafetyInv, HandlerInv
  <2>2. QED BY <2>1, VerdictsDiffer DEF RefusalInv, Conflicting
<1>4. ASSUME Uploader \/ UNCHANGED vars PROVE RefusalInv'
  <2>1. UNCHANGED <<phase, cur, verdict, file>>
    BY <1>4 DEF Uploader, Send, Timeout, SetAside, vars, disk
  <2>2. QED BY <2>1 DEF RefusalInv, Conflicting, Acceptable
<1>5. QED BY <1>1, <1>2, <1>3, <1>4 DEF Next, Server

\* The client's view of an upload, and its count of sends, change only when it
\* hears an answer, sends the upload or gives it up.
LEMMA StatusStep ==
  ASSUME TypeOK, [Next]_vars, NEW r \in Request
  PROVE  \/ status'[r] = status[r] /\ attempts'[r] = attempts[r]
         \/ Answer /\ r = cur /\ Learn(cur, verdict) /\ UNCHANGED attempts
         \/ Send(r)
         \/ SetAside(r)
<1>1. CASE Answer
  BY <1>1 DEF Answer, Learn, TypeOK
<1>2. CASE Uploader
  <2>1. PICK q \in Request : Send(q) \/ Timeout(q) \/ SetAside(q)
    BY <1>2 DEF Uploader
  <2>2. QED BY <2>1 DEF Send, Timeout, SetAside, TypeOK
<1>3. CASE ~Answer /\ ~Uploader
  BY <1>3 DEF Next, Server, Receive, Serve, Restart, Crash, vars, client
<1>4. QED BY <1>1, <1>2, <1>3

\* What the client has been told of a file stays true of it.
LEMMA ToldStaysTrue ==
  ASSUME TypeOK, SafetyInv, [Next]_vars, NEW r \in Request
  PROVE  /\ file[Target(r)] = r.body => file'[Target(r)] = r.body
         /\ /\ file[Target(r)] \notin {"absent", r.body}
            /\ ~(phase = "fill" /\ Target(cur) = Target(r))
            => /\ file'[Target(r)] = file[Target(r)]
               /\ ~(phase' = "fill" /\ Target(cur') = Target(r))
<1>1. Target(r) \in Path /\ r.body # "absent" /\ r.body # "torn"
  BY RequestParts, BodyIsNoSentinel
<1>2. file'[Target(r)] # file[Target(r)] =>
        /\ Target(r) = Target(cur)
        /\ file[Target(r)] = "absent" \/ (phase = "fill" /\ file[Target(r)] = "torn")
  BY <1>1, FileChange
<1>3. phase' = "fill" =>
        cur' = cur /\ (phase = "fill" \/ file[Target(cur)] = "absent")
  BY FillStep DEF OpenBatch, SafetyInv, HandlerInv
<1>4. QED BY <1>1, <1>2, <1>3

\* What the client was told holds in every reachable state.
THEOREM ClientSafety == Spec => []ClientInv
<1>1. Init => ClientInv
  <2> SUFFICES ASSUME Init PROVE ClientInv
    OBVIOUS
  <2>1. \A r \in Request : status[r] \in {"queued", "unmade"}
    BY DEF Init, ServiceInit
  <2>2. QED BY <2>1, VerdictsDiffer
    DEF Init, ServiceInit, ClientInv, RefusalInv, Conflicting, Busy, StorePhase, QuarantinePhase
<1>2. TypeOK /\ SafetyInv /\ ClientInv /\ [Next]_vars => ClientInv'
  <2> SUFFICES ASSUME TypeOK, SafetyInv, ClientInv, [Next]_vars PROVE ClientInv'
    OBVIOUS
  <2>1. RefusalInv /\ RefusalInv'
    BY RefusalStep DEF ClientInv
  <2>2. ASSUME NEW r \in Request
        PROVE  /\ status'[r] = "stored" => file'[Target(r)] = r.body
               /\ status'[r] = "dead" /\ attempts'[r] < MaxAttempts /\ Acceptable(r) =>
                    /\ file'[Target(r)] \notin {"absent", r.body}
                    /\ ~(phase' = "fill" /\ Target(cur') = Target(r))
    <3>1. CASE status'[r] = status[r] /\ attempts'[r] = attempts[r]
      BY <3>1, ToldStaysTrue DEF ClientInv
    <3>2. CASE Answer /\ r = cur /\ Learn(cur, verdict) /\ UNCHANGED attempts
      <4>1. /\ phase = "answer" /\ phase' = "idle" /\ UNCHANGED file
            /\ verdict \in Verdict /\ verdict # "none"
        BY <2>1, <3>2 DEF Answer, disk, RefusalInv, TypeOK, StoreTypeOK
      <4>2. status'[r] = IF verdict = "ok" THEN "stored"
                         ELSE IF verdict \in Retriable THEN "queued"
                         ELSE "dead"
        BY <3>2 DEF Learn, TypeOK
      <4>3. status'[r] = "stored" => file[Target(r)] = r.body
        BY <3>2, <4>1, <4>2 DEF SafetyInv, HandlerInv
      <4>4. status'[r] = "dead" =>
              ~Acceptable(r) \/ file[Target(r)] \notin {"absent", r.body}
        <5>1. status'[r] = "dead" => verdict \in Flaw \cup QuarantineReason \/ Conflicting
          BY <4>1, <4>2 DEF Verdict, StoreReason, Retriable, Conflicting
        <5>2. phase \in Busy
          BY <4>1 DEF Busy
        <5>3. QED BY <2>1, <3>2, <5>1, <5>2 DEF RefusalInv
      <4>5. QED BY <4>1, <4>3, <4>4
    <3>3. CASE Send(r)
      BY <3>3 DEF Send
    <3>4. CASE SetAside(r)
      BY <3>4, IngestAssumption DEF SetAside, TypeOK
    <3>5. QED BY <3>1, <3>2, <3>3, <3>4, StatusStep
  <2>3. QED BY <2>1, <2>2 DEF ClientInv
<1>3. QED BY <1>1, <1>2, Typing, Safety, PTL DEF Spec

\* An upload the client counts as stored is stored, and one it puts aside early
\* was refused by a check or met a file that does not hold its body.
THEOREM ClientIsRight == Spec => []ClientAgreesWithDisk
<1>1. ClientInv => ClientAgreesWithDisk
  BY DEF ClientInv, ClientAgreesWithDisk
<1>2. QED BY <1>1, ClientSafety, PTL

-----------------------------------------------------------------------------
(* While no process is killed and no disk operation fails.                   *)

CalmSoFar == crashes = 0 /\ faults = 0

\* An upload that travels, or is worked on, has been sent.
SentInv ==
  /\ \A m \in inflight : attempts[m.req] > 0
  /\ phase \in Busy => attempts[cur] > 0

SpoiledAt(p) ==
  \E q \in Request : Target(q) = p /\ q.body \in Unencodable /\ attempts[q] > 0

Writing(p) == phase \in WritePhase /\ p = Target(cur)

Indexed(p) ==
  /\ meta[p] = "ok"
  /\ batchLines[p] = 1
  /\ file[p] \in Labelled => link[p] = "ok"

\* In the calm every file the handler has left is whole and indexed, or was
\* spoiled by a text that cannot be encoded.
CalmPath(p) ==
  /\ file[p] # "garbled"
  /\ file[p] = "torn" => (phase = "fill" /\ p = Target(cur)) \/ SpoiledAt(p)
  /\ file[p] \in Body => Writing(p) \/ Indexed(p)

CalmInv ==
  CalmSoFar =>
    /\ \A p \in Path : CalmPath(p)
    /\ UninterruptedConflictIsReal
    /\ phase \in WritePhase => cur.body \notin acked

\* Counts of sends never fall.
LEMMA AttemptsGrow ==
  ASSUME TypeOK, [Next]_vars, NEW r \in Request
  PROVE  attempts'[r] \in Nat /\ attempts'[r] >= attempts[r]
<1>1. attempts[r] \in Nat
  BY IngestAssumption DEF TypeOK
<1>2. Send(r) => attempts'[r] = attempts[r] + 1
  BY DEF Send, TypeOK
<1>3. Send(r) \/ attempts'[r] = attempts[r]
  BY StatusStep DEF SetAside
<1>4. QED BY <1>1, <1>2, <1>3

\* What has been sent stays sent ...
LEMMA SentStays ==
  ASSUME TypeOK, [Next]_vars
  PROVE  \A q \in Request : attempts[q] > 0 => attempts'[q] > 0
BY AttemptsGrow, IngestAssumption DEF TypeOK

\* ... so a place spoiled by an upload stays so.
LEMMA SpoiledStays ==
  ASSUME TypeOK, [Next]_vars, NEW p \in Path, SpoiledAt(p)
  PROVE  SpoiledAt(p)'
BY SentStays DEF SpoiledAt

\* Whatever is in flight or being handled has been sent.
THEOREM HandledWasSent == Spec => []SentInv
<1>1. Init => SentInv
  BY DEF Init, ServiceInit, SentInv, Busy, StorePhase, QuarantinePhase
<1>2. TypeOK /\ SentInv /\ [Next]_vars => SentInv'
  <2> SUFFICES ASSUME TypeOK, SentInv, [Next]_vars PROVE SentInv'
    OBVIOUS
  <2>1. \A m \in inflight' : m.req \in Request /\ attempts'[m.req] > 0
    <3>1. \A m \in inflight : m.req \in Request /\ attempts'[m.req] > 0
      BY AttemptsGrow, IngestAssumption DEF TypeOK, SentInv, Copy
    <3>2. ASSUME NEW r \in Request, Send(r)
          PROVE  attempts'[r] > 0 /\ inflight' = inflight \cup {[req |-> r, try |-> attempts[r] + 1]}
      BY <3>2, IngestAssumption DEF Send, TypeOK
    <3>3. (\E r \in Request : Send(r)) \/ inflight' \subseteq inflight
      BY DEF Next, Server, Serve, Receive, Answer, Restart, Crash, Uploader,
         Timeout, SetAside, vars
    <3>4. QED BY <3>1, <3>2, <3>3
  <2>2. phase' \in Busy => attempts'[cur'] > 0
    <3>1. CASE phase \in Busy /\ cur' = cur
      <4>1. cur \in Request /\ attempts[cur] > 0
        BY <3>1 DEF TypeOK, StoreTypeOK, SentInv
      <4>2. QED BY <3>1, <4>1, AttemptsGrow, IngestAssumption DEF TypeOK
    <3>2. CASE \E m \in inflight : Receive(m)
      <4>1. PICK m \in inflight : Receive(m)
        BY <3>2
      <4>2. cur' = m.req /\ UNCHANGED attempts
        BY <4>1 DEF Receive, client
      <4>3. QED BY <4>1, <4>2 DEF SentInv
    <3>3. CASE Answer \/ Crash \/ Restart
      BY <3>3 DEF Answer, Crash, Restart, Busy, StorePhase, QuarantinePhase
    <3>4. CASE Serve
      <4>1. phase \in Busy /\ cur' = cur
        BY <3>4 DEF Serve, StoreStep, CheckSpace, Lookup, OpenBatch, FillBatch,
           EncodingFails, OpenMeta, FillMeta, AppendDevice, AppendBatch,
           MakeLink, SymlinkFails, FillPointer, StoreFault, QuarantineStep,
           OpenHold, HashingFails, FillHold, AppendHoldLine, HoldFault, LogStep,
           LogRejection, LogFault, Busy, StorePhase, QuarantinePhase
      <4>2. QED BY <3>1, <4>1
    <3>5. CASE Uploader \/ UNCHANGED vars
      <4>1. phase' = phase /\ cur' = cur
        BY <3>5 DEF Uploader, Send, Timeout, SetAside, vars
      <4>2. QED BY <3>1, <4>1
    <3>6. QED BY <3>2, <3>3, <3>4, <3>5 DEF Next, Server
  <2>3. QED BY <2>1, <2>2 DEF SentInv
<1>3. QED BY <1>1, <1>2, Typing, PTL DEF Spec

\* A calm state follows only a calm one, by a step that neither kills the
\* process nor fails.
LEMMA CalmStep ==
  ASSUME TypeOK, [Next]_vars, CalmSoFar'
  PROVE  CalmSoFar /\ ~Crash /\ ~StoreFault /\ ~HoldFault /\ ~LogFault
<1>1. crashes \in Nat /\ faults \in Nat
  BY DEF TypeOK, StoreTypeOK
<1>2. ~Crash /\ ~StoreFault /\ ~HoldFault /\ ~LogFault
  BY <1>1 DEF CalmSoFar, Crash, StoreFault, HoldFault, LogFault
<1>3. UNCHANGED <<crashes, faults>>
  BY <1>2 DEF Next, Server, Serve, Receive, StoreStep, CheckSpace, Lookup,
     OpenBatch, FillBatch, EncodingFails, OpenMeta, FillMeta, AppendDevice,
     AppendBatch, MakeLink, SymlinkFails, FillPointer, QuarantineStep, OpenHold,
     HashingFails, FillHold, AppendHoldLine, LogStep, LogRejection, Answer,
     Restart, Uploader, Send, Timeout, SetAside, vars
<1>4. QED BY <1>2, <1>3 DEF CalmSoFar

\* A step of store() that does not fail leaves every file whole and indexed, or
\* still its own, or spoiled by its text.
LEMMA CalmStoreStep ==
  ASSUME TypeOK, SafetyInv, SentInv, [Next]_vars, StoreStep, ~StoreFault,
         NEW p \in Path, CalmPath(p)
  PROVE  CalmPath(p)'
<1>1. /\ cur \in Request /\ Target(cur) \in Path /\ cur.body \in Body
      /\ cur' = cur /\ phase \in StorePhase
  BY HandledPath DEF StoreStep, CheckSpace, Lookup, OpenBatch, FillBatch, EncodingFails,
     OpenMeta, FillMeta, AppendDevice, AppendBatch, MakeLink, SymlinkFails,
     FillPointer, StoreFault, StorePhase
<1>2. /\ cur.body # "absent" /\ cur.body # "torn" /\ cur.body # "garbled"
      /\ \A b \in Body : b # "absent" /\ b # "torn" /\ b # "garbled"
  BY <1>1, BodyIsNoSentinel
<1>3. /\ file \in [Path -> FileState] /\ meta \in [Path -> {"absent", "torn", "ok"}]
      /\ link \in [Path -> {"absent", "torn", "ok"}]
      /\ batchLines \in [Path -> Nat]
  BY DEF TypeOK, StoreTypeOK
<1>4. SpoiledAt(p) => SpoiledAt(p)'
  BY SpoiledStays
<1>5. CASE CheckSpace \/ Lookup \/ AppendDevice
  BY <1>4, <1>5
  DEF CheckSpace, Lookup, AppendDevice, CalmPath, Writing, Indexed, WritePhase,
      GoTo, Raise, Succeed, disk
<1>6. CASE OpenBatch
  BY <1>1, <1>2, <1>3, <1>4, <1>6
  DEF OpenBatch, CalmPath, Writing, Indexed, WritePhase, GoTo
<1>7. CASE FillBatch
  BY <1>1, <1>2, <1>3, <1>4, <1>7
  DEF FillBatch, CalmPath, Writing, Indexed, WritePhase, GoTo
<1>8. CASE EncodingFails
  <2>1. p = Target(cur) => SpoiledAt(p)
    BY <1>1, <1>8 DEF EncodingFails, SpoiledAt, SentInv, Busy
  <2>2. QED BY <1>4, <1>8, <2>1
    DEF EncodingFails, CalmPath, Writing, Indexed, WritePhase, Raise, disk
<1>9. CASE OpenMeta \/ FillMeta
  BY <1>1, <1>3, <1>4, <1>9
  DEF OpenMeta, FillMeta, CalmPath, Writing, Indexed, WritePhase, GoTo
<1>10. CASE AppendBatch
  <2>1. /\ meta[Target(cur)] = "ok" /\ batchLines[Target(cur)] = 0
        /\ file[Target(cur)] = cur.body
    BY <1>10 DEF AppendBatch, SafetyInv, HandlerInv, IndexInv, WritePhase
  <2>2. QED BY <1>1, <1>3, <1>4, <1>10, <2>1
    DEF AppendBatch, CalmPath, Writing, Indexed, WritePhase, GoTo, Succeed
<1>11. CASE MakeLink \/ SymlinkFails \/ FillPointer
  <2>1. meta[Target(cur)] = "ok" /\ batchLines[Target(cur)] = 1
    BY <1>11 DEF MakeLink, SymlinkFails, FillPointer, SafetyInv, IndexInv
  <2>2. QED BY <1>1, <1>3, <1>4, <1>11, <2>1
    DEF MakeLink, SymlinkFails, FillPointer, CalmPath, Writing, Indexed, WritePhase,
        GoTo, Succeed
<1>12. QED BY <1>5, <1>6, <1>7, <1>8, <1>9, <1>10, <1>11 DEF StoreStep

\* Every other step that neither fails nor kills the process leaves the disk,
\* and the handler's place in it, alone.
LEMMA CalmOtherStep ==
  ASSUME TypeOK, SafetyInv, [Next]_vars, ~StoreStep, ~Crash, NEW p \in Path, CalmPath(p)
  PROVE  CalmPath(p)'
<1>1. UNCHANGED <<file, meta, batchLines, link>>
  BY DEF Next, Server, Serve, Receive, QuarantineStep, OpenHold, HashingFails,
     FillHold, AppendHoldLine, HoldFault, LogStep, LogRejection, LogFault, Answer,
     Restart, Uploader, Send, Timeout, SetAside, vars, disk
<1>2. \/ UNCHANGED <<phase, cur>>
      \/ phase \notin WritePhase \cup {"fill"} /\ phase' \notin WritePhase \cup {"fill"}
  BY DEF Next, Server, Serve, Receive, QuarantineStep, OpenHold, HashingFails,
     FillHold, AppendHoldLine, HoldFault, LogStep, LogRejection, LogFault, Answer,
     Restart, Uploader, Send, Timeout, SetAside, vars, WritePhase, QuarantinePhase,
     GoTo, Raise
<1>3. SpoiledAt(p) => SpoiledAt(p)'
  BY SpoiledStays
<1>4. QED BY <1>1, <1>2, <1>3 DEF CalmPath, Writing, Indexed

\* In the calm a conflict is raised by Lookup, over a file that is whole or was
\* spoiled by its text, and its file stays what it was until it is answered.
LEMMA CalmConflictStep ==
  ASSUME TypeOK, SafetyInv, RefusalInv, CalmSoFar, CalmInv, [Next]_vars,
         ~Crash, ~StoreFault, Conflicting'
  PROVE  file'[Target(cur')] \in Body \ {cur'.body} \/ Spoiled(cur)'
<1>1. CASE Lookup
  <2>1. /\ cur \in Request /\ Target(cur) \in Path /\ verdict = "none" /\ cur' = cur
        /\ phase = "lookup" /\ UNCHANGED file /\ file[Target(cur)] \in FileState
    BY <1>1, HandledPath DEF Lookup, SafetyInv, HandlerInv, StorePhase, TypeOK,
       StoreTypeOK, disk
  <2>2. file[Target(cur)] \notin {"absent", "garbled", cur.body}
    BY <1>1, <2>1 DEF Lookup, Conflicting, GoTo, Raise, Succeed
  <2>3. CASE file[Target(cur)] = "torn"
    <3>1. SpoiledAt(Target(cur))
      BY <2>1, <2>3 DEF CalmInv, CalmPath
    <3>2. QED BY <2>1, <3>1, SentStays DEF SpoiledAt, Spoiled
  <2>4. CASE file[Target(cur)] # "torn"
    BY <2>1, <2>2, <2>4 DEF FileState
  <2>5. QED BY <2>3, <2>4
<1>2. CASE ~Lookup
  <2>1. Conflicting /\ cur' = cur /\ UNCHANGED file /\ cur \in Request
    <3>1. Conflicting /\ cur' = cur
      <4>1. ASSUME NEW m \in inflight, Receive(m) PROVE FALSE
        <5>1. m.req \in Request /\ phase = "idle" /\ verdict = "none"
          BY <4>1 DEF TypeOK, Copy, Receive, SafetyInv, HandlerInv
        <5>2. verdict' \in {"none"} \cup Flaw \cup QuarantineReason
          BY <4>1, <5>1, CheckRange DEF Receive, GoTo, Raise
        <5>3. QED BY <5>2, VerdictsDiffer DEF Conflicting, StoreReason
      <4>2. ASSUME Serve PROVE Conflicting /\ cur' = cur
        BY <1>2, <4>2 DEF Serve, StoreStep, CheckSpace, OpenBatch, FillBatch,
           EncodingFails, OpenMeta, FillMeta, AppendDevice, AppendBatch,
           MakeLink, SymlinkFails, FillPointer, QuarantineStep,
           OpenHold, HashingFails, FillHold, AppendHoldLine, HoldFault, LogStep,
           LogRejection, LogFault, GoTo, Raise, Succeed, Conflicting
      <4>3. ASSUME Answer \/ Restart PROVE FALSE
        BY <4>3 DEF Answer, Restart, SafetyInv, HandlerInv, Conflicting
      <4>4. ASSUME Uploader \/ UNCHANGED vars PROVE Conflicting /\ cur' = cur
        BY <4>4 DEF Uploader, Send, Timeout, SetAside, vars, Conflicting
      <4>5. QED BY <4>1, <4>2, <4>3, <4>4 DEF Next, Server
    <3>2. phase \in {"reject", "answer"}
      BY <3>1 DEF RefusalInv
    <3>3. UNCHANGED file
      BY <3>2, FileStep DEF OpenBatch, FillBatch
    <3>4. QED BY <3>1, <3>2, <3>3 DEF TypeOK, StoreTypeOK, Busy
  <2>2. CASE file[Target(cur)] \in Body \ {cur.body}
    BY <2>1, <2>2
  <2>3. CASE Spoiled(cur)
    BY <2>1, <2>3, SentStays DEF Spoiled
  <2>4. QED BY <2>1, <2>2, <2>3 DEF CalmInv, CalmSoFar, UninterruptedConflictIsReal
<1>3. QED BY <1>1, <1>2

\* A body that is being written has not been acknowledged: its file was torn.
LEMMA CalmAckStep ==
  ASSUME TypeOK, SafetyInv, [Next]_vars, phase \in WritePhase => cur.body \notin acked,
         phase' \in WritePhase
  PROVE  cur'.body \notin acked'
<1>1. CASE FillBatch
  <2>1. /\ file[Target(cur)] = "torn" /\ UNCHANGED <<cur, acked>>
        /\ cur.body \in Body /\ PathOf(cur.body) = Target(cur)
    BY <1>1, HandledPath DEF FillBatch, SafetyInv, HandlerInv, StorePhase, Next,
       Server, Serve, Receive, Answer, Restart, Crash, Uploader, Send, Timeout,
       SetAside, vars
  <2>2. QED BY <2>1, BodyIsNoSentinel DEF SafetyInv, AckedIsStored
<1>2. CASE ~FillBatch
  <2>1. phase \in WritePhase /\ UNCHANGED <<cur, acked>>
    BY <1>2 DEF Next, Server, Serve, Receive, StoreStep, CheckSpace, Lookup,
       OpenBatch, EncodingFails, OpenMeta, FillMeta, AppendDevice, AppendBatch,
       MakeLink, SymlinkFails, FillPointer, StoreFault, QuarantineStep, OpenHold,
       HashingFails, FillHold, AppendHoldLine, HoldFault, LogStep, LogRejection,
       LogFault, Answer, Restart, Crash, Uploader, Send, Timeout, SetAside, vars,
       GoTo, Raise, Succeed, WritePhase
  <2>2. QED BY <2>1
<1>3. QED BY <1>1, <1>2

\* The calm invariant holds of every reachable state.
THEOREM CalmSafety == Spec => []CalmInv
<1>1. Init => CalmInv
  BY SentinelAssumption DEF Init, ServiceInit, StoreInit, StoreHolds, CalmInv, CalmPath, WritePhase,
     UninterruptedConflictIsReal, Conflicting
<1>2. TypeOK /\ SafetyInv /\ SentInv /\ ClientInv /\ CalmInv /\ [Next]_vars => CalmInv'
  <2> SUFFICES ASSUME TypeOK, SafetyInv, SentInv, ClientInv, CalmInv, [Next]_vars,
                      CalmSoFar'
               PROVE  /\ \A p \in Path : CalmPath(p)'
                      /\ UninterruptedConflictIsReal'
                      /\ phase' \in WritePhase => cur'.body \notin acked'
    BY DEF CalmInv
  <2>1. /\ CalmSoFar /\ ~Crash /\ ~StoreFault
        /\ \A p \in Path : CalmPath(p)
        /\ phase \in WritePhase => cur.body \notin acked
    BY CalmStep DEF CalmInv
  <2>2. ASSUME NEW p \in Path PROVE CalmPath(p)'
    BY <2>1, CalmStoreStep, CalmOtherStep
  <2>3. UninterruptedConflictIsReal'
    <3>1. Conflicting' => file'[Target(cur')] \in Body \ {cur'.body} \/ Spoiled(cur)'
      BY <2>1, CalmConflictStep DEF ClientInv
    <3>2. QED BY <3>1 DEF UninterruptedConflictIsReal
  <2>4. phase' \in WritePhase => cur'.body \notin acked'
    BY <2>1, CalmAckStep
  <2>5. QED BY <2>2, <2>3, <2>4
<1>3. QED BY <1>1, <1>2, Typing, Safety, HandledWasSent, ClientSafety, PTL DEF Spec

\* While nothing was interrupted, a conflict is over another whole body, or over
\* a place that a text without an encoding has spoiled.
THEOREM CalmConflictsAreReal == Spec => []UninterruptedConflictIsReal
<1>1. CalmInv => UninterruptedConflictIsReal
  BY DEF CalmInv, CalmSoFar, UninterruptedConflictIsReal
<1>2. QED BY <1>1, CalmSafety, PTL

\* While nothing was interrupted, an acknowledged body is indexed in full.
THEOREM CalmAcksAreIndexed == Spec => []UninterruptedAckIsIndexed
<1>1. TypeOK /\ SafetyInv /\ CalmInv => UninterruptedAckIsIndexed
  <2> SUFFICES ASSUME TypeOK, SafetyInv, CalmInv, CalmSoFar, NEW b \in acked
               PROVE  /\ meta[PathOf(b)] = "ok"
                      /\ batchLines[PathOf(b)] = 1
                      /\ b \in Labelled => link[PathOf(b)] = "ok"
    BY DEF UninterruptedAckIsIndexed, CalmSoFar
  <2>1. b \in Body /\ PathOf(b) \in Path /\ file[PathOf(b)] = b
    BY BodyHasPath DEF TypeOK, SafetyInv, AckedIsStored
  <2>2. ~Writing(PathOf(b))
    BY <2>1 DEF Writing, CalmInv, SafetyInv, HandlerInv
  <2>3. QED BY <2>1, <2>2 DEF CalmInv, CalmPath, Indexed
<1>2. QED BY <1>1, Typing, Safety, CalmSafety, PTL

=============================================================================
