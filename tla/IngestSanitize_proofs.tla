------------------------ MODULE IngestSanitize_proofs ------------------------
(***************************************************************************)
(* Proofs about the sanitizer beside the live server, for any number of    *)
(* bodies, crashes, failing disk operations and runs of the tool, and      *)
(* about the stripping of batches of any size.                             *)
(*                                                                         *)
(* The argument: the server opens only a file that is absent and fills     *)
(* only the torn one it opened, the tool opens only a whole one and fills  *)
(* only the torn one it opened, so neither touches what the other has in   *)
(* hand; and what the tool read is still there when it opens the file.     *)
(* A file that a run noted as failing stays whole and keeps breaking       *)
(* another rule than the youngest; and a batch that is clean is never      *)
(* rewritten, so that one left without its stamp is never given another.   *)
(***************************************************************************)
EXTENDS IngestSanitize, Ingest_proofs

-----------------------------------------------------------------------------
(* The stripping of a batch. *)

\* An event stays one when it is stripped, and loses only what the rule on
\* event_detail forbids; stripped again it stays as it is.
LEMMA StrippedEvent ==
  ASSUME NEW e \in EventRecord
  PROVE  /\ Stripped(e) \in EventRecord
         /\ Stripped(e).id = e.id
         /\ EventPassed(e) => EventPassed(Stripped(e))
         /\ DetailPasses(Stripped(e))
         /\ Stripped(Stripped(e)) = Stripped(e)
<1>1. CASE ~e.hasDetail
  BY <1>1 DEF Stripped, DetailPasses
<1>2. CASE e.hasDetail
  <2> DEFINE s == [e EXCEPT !.detail = @ \ Lost(e), !.millis = IF e.textEvent THEN 0 ELSE @]
  <2>1. Stripped(e) = s
    BY <1>2 DEF Stripped
  <2>2. /\ s \in EventRecord
        /\ s.id = e.id /\ s.textEvent = e.textEvent /\ s.hasDetail = e.hasDetail
        /\ s.title = e.title /\ s.nodes = e.nodes
        /\ s.detail = e.detail \ Lost(e)
        /\ s.millis = IF e.textEvent THEN 0 ELSE e.millis
    <3> DEFINE d == e.detail \ Lost(e)
               m == IF e.textEvent THEN 0 ELSE e.millis
               Keys == SUBSET (Telemetry \cup Index \cup {"other"})
               Nodes == Seq([password : BOOLEAN, text : BOOLEAN])
    <3>1. EventRecord =
            [id : Int, textEvent : BOOLEAN, hasDetail : BOOLEAN, detail : Keys,
             millis : 0 .. 999, title : BOOLEAN, nodes : Nodes]
      BY DEF EventRecord
    <3>2. d \in Keys /\ m \in 0 .. 999
      BY <3>1
    <3>3. s = [e EXCEPT !.detail = d, !.millis = m]
      BY <3>1
    <3> HIDE DEF d, m, Keys, Nodes, s
    <3>4. s \in EventRecord
      BY <3>1, <3>2, <3>3
    <3>5. /\ s.id = e.id /\ s.textEvent = e.textEvent /\ s.hasDetail = e.hasDetail
          /\ s.title = e.title /\ s.nodes = e.nodes
      BY <3>1, <3>3
    <3>6. s.detail = d /\ s.millis = m
      BY <3>1, <3>3
    <3> QED BY <3>4, <3>5, <3>6 DEF d, m
  <2>3. Lost(s) = Lost(e) /\ Telemetry \subseteq Lost(e) /\ (e.textEvent => "index" \in Lost(e))
    BY <2>2 DEF Lost, Index
  <2>4. EventPassed(e) => EventPassed(s)
    BY <2>2 DEF EventPassed
  <2>5. DetailPasses(s)
    BY <2>2, <2>3 DEF DetailPasses
  <2>6. Stripped(s) = s
    <3>1. /\ s.detail \ Lost(s) = s.detail
          /\ (IF s.textEvent THEN 0 ELSE s.millis) = s.millis
      BY <2>2, <2>3
    <3>2. Stripped(s) = [s EXCEPT !.detail = s.detail, !.millis = s.millis]
      BY <1>2, <2>2, <3>1 DEF Stripped
    <3> HIDE DEF s
    <3> QED BY <2>2, <3>2 DEF EventRecord
  <2> QED BY <2>1, <2>2, <2>4, <2>5, <2>6
<1> QED BY <1>1, <1>2

\* A batch that passes every rule but the one on event_detail passes them all
\* once it is cleaned, and cleaning it again changes nothing.
LEMMA Cleaning ==
  ASSUME NEW b \in BatchRecord
  PROVE  /\ Sanitize(b) \in BatchRecord
         /\ Passed(b) => Accepts(Sanitize(b))
         /\ Sanitize(Sanitize(b)) = Sanitize(b)
<1> DEFINE ev == [i \in DOMAIN b.events |-> Stripped(b.events[i])]
           s == [b EXCEPT !.events = ev]
<1>1. b.events \in Seq(EventRecord)
  BY DEF BatchRecord
<1>2. \A i \in DOMAIN b.events : b.events[i] \in EventRecord
  BY <1>1
<1>3. /\ ev \in Seq(EventRecord) /\ Len(ev) = Len(b.events)
      /\ DOMAIN ev = DOMAIN b.events
      /\ \A i \in DOMAIN ev : ev[i] = Stripped(b.events[i])
  <2>1. Len(b.events) \in Nat /\ DOMAIN b.events = 1 .. Len(b.events)
    BY <1>1
  <2>2. \A i \in DOMAIN b.events : Stripped(b.events[i]) \in EventRecord
    BY <1>2, StrippedEvent
  <2> QED BY <2>1, <2>2
<1>4. Sanitize(b) = s
  BY DEF Sanitize
<1> HIDE DEF ev
<1>5. /\ s \in BatchRecord /\ s.events = ev
      /\ s.source = b.source /\ s.task = b.task /\ s.started = b.started
      /\ s.ended = b.ended /\ s.rate = b.rate /\ s.samples = b.samples
      /\ s.touches = b.touches /\ s.features = b.features /\ s.counted = b.counted
  BY <1>3 DEF BatchRecord
<1>6. ASSUME Passed(b) PROVE Accepts(s)
  <2>1. s.started <= s.ended /\ TaskPasses(s) /\ CountsPass(s)
    BY <1>3, <1>5, <1>6 DEF Passed, TaskPasses, CountsPass
  <2>2. \A i \in DOMAIN s.features : FeaturePasses(s, s.features[i])
    <3> SUFFICES ASSUME NEW i \in DOMAIN b.features PROVE FeaturePasses(s, b.features[i])
      BY <1>5
    <3>1. FeaturePasses(b, b.features[i])
      BY <1>6 DEF Passed
    <3>2. PICK j \in DOMAIN b.events : b.events[j].id = b.features[i].event
      BY <3>1 DEF FeaturePasses
    <3>3. j \in DOMAIN s.events /\ s.events[j].id = b.features[i].event
      BY <1>2, <1>3, <1>5, <3>2, StrippedEvent
    <3> QED BY <1>5, <3>1, <3>3 DEF FeaturePasses
  <2>3. \A i \in DOMAIN s.events : EventPassed(s.events[i]) /\ DetailPasses(s.events[i])
    BY <1>2, <1>3, <1>5, <1>6, StrippedEvent DEF Passed
  <2> QED BY <2>1, <2>2, <2>3 DEF Accepts, Passed
<1>7. Sanitize(s) = s
  <2>1. \A i \in DOMAIN ev : Stripped(ev[i]) = ev[i]
    BY <1>2, <1>3, StrippedEvent
  <2>2. [i \in DOMAIN ev |-> Stripped(ev[i])] = ev
    BY <1>3, <2>1
  <2>3. Sanitize(s) = [s EXCEPT !.events = ev]
    BY <1>5, <2>2 DEF Sanitize
  <2> HIDE DEF s
  <2> QED BY <1>5, <2>3 DEF BatchRecord
<1> QED BY <1>4, <1>5, <1>6, <1>7

\* A body stays at its place when it is cleaned, and is valid then if it passes
\* every rule but the one on event_detail; one that is clean and not valid breaks
\* another rule.
LEMMA CleanBody ==
  ASSUME NEW b \in Body
  PROVE  /\ Clean[b] \in Body /\ Clean[Clean[b]] = Clean[b] /\ PathOf(Clean[b]) = PathOf(b)
         /\ Passed(Content[b]) => Clean[b] \in Valid
         /\ Clean[b] \notin Valid => ~Passed(Content[Clean[b]])
<1>1. Clean[b] \in Body /\ Clean[Clean[b]] = Clean[b] /\ PathOf(Clean[b]) = PathOf(b)
  BY SanitizerAssumption
<1>2. ASSUME NEW c \in Body, Passed(Content[c]) PROVE Clean[c] \in Valid
  <2>1. Content[c] \in BatchRecord /\ Content[Clean[c]] = Sanitize(Content[c])
    BY ContentAssumption
  <2>2. Clean[c] \in Body
    BY SanitizerAssumption
  <2> QED BY <1>2, <2>1, <2>2, Cleaning, ContentAssumption
<1> QED BY <1>1, <1>2
-----------------------------------------------------------------------------
(* The invariant of the two processes. *)

CleanFile(p) == file[p] \in Body /\ Clean[file[p]] = file[p]

\* A file that was worked on, and one that was and failed.
Judged(p) == CleanFile(p) /\ (p \in failing \/ file[p] \in Valid)

Failed(p) == CleanFile(p) /\ ~Passed(Content[file[p]])

\* A rewrite under way knows the body that it is the cleaning of.
Kept(b) ==
  \/ file[PathOf(b)] \in {b, Clean[b]}
  \/ Rewriting(PathOf(b)) /\ text \in {b, Clean[b]}
  \/ PathOf(b) \in lost

\* What the handler may rely on although the tool runs beside it.
ServerInv ==
  /\ phase \in {"idle", "down"} => verdict = "none"
  /\ phase \in StorePhase => Check(cur) = "ok" /\ verdict = "none"
  /\ phase \in QuarantinePhase => verdict \in QuarantineReason
  /\ phase = "reject" => verdict # "ok"
  /\ phase = "open" => file[Target(cur)] = "absent"
  /\ phase = "fill" => file[Target(cur)] = "torn" /\ ~Rewriting(Target(cur))
  /\ phase \in WritePhase => Kept(cur.body)
  /\ phase = "answer" /\ verdict = "ok" => Check(cur) = "ok" /\ Kept(cur.body)

\* What the tool may rely on although the server runs beside it.
ToolInv ==
  /\ tool \in {"off", "next", "judge", "rewrite"} \cup Stamping
  /\ todo \subseteq listed /\ listed \subseteq Path
  /\ tool \in {"judge", "rewrite"} \cup Stamping => at \in listed
  /\ tool = "judge" /\ text \in Body => file[at] = text
  /\ tool = "rewrite" =>
       /\ text \in Body /\ PathOf(text) = at /\ file[at] = "torn"
       /\ at \in failing \/ Clean[text] \in Valid
  /\ tool \in Stamping => CleanFile(at)
  /\ tool # "off" => outcome = "none"
  /\ tool # "off" =>
       \A p \in listed \ todo : Judged(p) \/ (tool \in {"judge", "rewrite"} /\ at = p)

\* What it has noted of the files that the schema refuses.
FailInv ==
  /\ tool = "off" => failing = {}
  /\ \A p \in failing :
       /\ p \in listed
       /\ Failed(p) \/ (Rewriting(p) /\ ~Passed(Content[Clean[text]]))

\* What the sidecars say, and what runs that broke off have left unsaid.
StampInv ==
  /\ CleanedIsStamped
  /\ \A p \in stamped \cup unstamped : p \in Path /\ CleanFile(p)
  /\ tool \in Stamping => at \notin stamped \cup unstamped

\* A body is stored at its own place.
StoredIsPlaced == \A p \in Path : file[p] \in Body => PathOf(file[p]) = p

\* What the store holds, and what a run that ended says of it.
FileInv ==
  /\ StoredIsPlaced
  /\ \A b \in acked : Kept(b)
  /\ outcome \in {"done", "refused"} => \A p \in listed : CleanFile(p)
  /\ outcome = "done" => \A p \in listed : file[p] \in Valid
  /\ outcome = "refused" => \E p \in listed : Failed(p)

BothInv == TypeOK /\ ServerInv /\ ToolInv /\ FailInv /\ StampInv /\ FileInv

-----------------------------------------------------------------------------
(* Steps of the server. *)

\* A batch file changes only when it is the handler's own, which opens an
\* absent file and fills or cuts short the torn one that it opened.
LEMMA ServerFile ==
  ASSUME BothInv, [Next]_vars, NEW p \in Path, file'[p] # file[p]
  PROVE  /\ p = Target(cur) /\ phase \in {"open", "fill"}
         /\ phase = "open" => file[p] = "absent"
         /\ phase = "fill" => file[p] = "torn" /\ ~Rewriting(p)
         /\ \/ file'[p] \in {"torn", "garbled"}
            \/ file'[p] = cur.body /\ PathOf(cur.body) = p
<1>1. OpenBatch \/ FillBatch \/ (phase = "fill" /\ CutShort)
  BY FileStep
<1>2. phase \in {"open", "fill"} /\ phase \in StorePhase
  BY <1>1 DEF OpenBatch, FillBatch, StorePhase
<1>3. cur \in Request /\ Check(cur) = "ok" /\ file \in [Path -> FileState]
  BY <1>2 DEF BothInv, TypeOK, StoreTypeOK, Busy, ServerInv
<1>4. Target(cur) \in Path /\ cur.body \in Valid /\ PathOf(cur.body) = Target(cur)
  BY <1>3, RequestParts, PassedCheck
<1>5. /\ p = Target(cur)
      /\ file'[p] \in {"torn", "garbled"} \/ file'[p] = cur.body
  BY <1>1, <1>3, <1>4 DEF OpenBatch, FillBatch, CutShort
<1> QED BY <1>2, <1>4, <1>5 DEF BothInv, ServerInv

\* So whatever is whole or in the tool's hands stays as it is.
LEMMA ServerLeaves ==
  ASSUME BothInv, ServerSide \/ UNCHANGED <<vars, toolVars>>
  PROVE  /\ TypeOK' /\ [Next]_vars
         /\ UNCHANGED toolVars
         /\ \A p \in Path : file[p] \in Body \/ Rewriting(p) => file'[p] = file[p]
         /\ \A b \in Body : Kept(b) => Kept(b)'
         /\ \A p \in Path : CleanFile(p) => CleanFile(p)'
<1>1. [Next]_vars /\ UNCHANGED toolVars
  BY DEF ServerSide
<1>2. TypeOK'
  BY <1>1, TypingStep DEF BothInv
<1>3. \A p \in Path : file[p] \in Body \/ Rewriting(p) => file'[p] = file[p]
  <2> SUFFICES ASSUME NEW p \in Path, file[p] \in Body \/ Rewriting(p), file'[p] # file[p]
               PROVE  FALSE
    OBVIOUS
  <2>1. \/ phase = "open" /\ file[p] = "absent"
        \/ phase = "fill" /\ file[p] = "torn" /\ ~Rewriting(p)
    BY <1>1, ServerFile
  <2>2. Rewriting(p) => file[p] = "torn"
    BY DEF Rewriting, BothInv, ToolInv
  <2> QED BY <2>1, <2>2, BodyIsNoSentinel
<1>4. \A p \in Path : CleanFile(p) => CleanFile(p)'
  BY <1>3 DEF CleanFile
<1>5. \A b \in Body : Kept(b) => Kept(b)'
  <2> SUFFICES ASSUME NEW b \in Body, Kept(b) PROVE Kept(b)'
    OBVIOUS
  <2>1. PathOf(b) \in Path /\ Clean[b] \in Body
    BY BodyHasPath, CleanBody
  <2> QED BY <1>1, <1>3, <2>1 DEF Kept, Rewriting, toolVars, history
<1> QED BY <1>1, <1>2, <1>3, <1>4, <1>5

\* The handler keeps what it relies on.
LEMMA ServerStep ==
  ASSUME BothInv, Next, ServerSide
  PROVE  ServerInv' /\ \A b \in acked' : Kept(b)'
<1> DEFINE t == Target(cur)
<1>1. /\ TypeOK /\ ServerInv /\ ToolInv /\ FileInv
      /\ UNCHANGED toolVars
      /\ file \in [Path -> FileState] /\ acked \subseteq Body
      /\ \A b \in Body : Kept(b) => Kept(b)'
  BY ServerLeaves DEF BothInv, TypeOK, StoreTypeOK
<1>2. \A b \in acked : Kept(b)'
  BY <1>1 DEF FileInv
<1>3. phase \in StorePhase =>
        /\ cur \in Request /\ t \in Path /\ cur.body \in Body /\ PathOf(cur.body) = t
        /\ Check(cur) = "ok" /\ verdict = "none"
  BY <1>1, RequestParts, PassedCheck DEF TypeOK, StoreTypeOK, Busy, ServerInv
<1> USE DEF GoTo, Raise, Succeed
<1>4. ASSUME StoreStep, UNCHANGED acked PROVE ServerInv'
  <2>1. phase \in StorePhase /\ cur' = cur
    BY <1>4 DEF StoreStep, CheckSpace, Lookup, OpenBatch, FillBatch, EncodingFails,
       OpenMeta, FillMeta, AppendDevice, AppendBatch, MakeLink, SymlinkFails, FillPointer,
       StoreFault, StorePhase, disk
  <2>2. Check(cur)' = Check(cur) /\ Target(cur)' = t
    BY <2>1 DEF Check, Target
  <2> USE DEF StorePhase, QuarantinePhase, WritePhase
  <2>3. CASE CheckSpace
    BY <1>3, <2>1, <2>2, <2>3 DEF CheckSpace, ServerInv
  <2>4. CASE Lookup
    <3>1. UNCHANGED file
      BY <2>4 DEF Lookup, disk
    <3>2. CASE phase' = "open"
      BY <1>3, <2>1, <2>2, <2>4, <3>1, <3>2, BodyIsNoSentinel DEF Lookup, ServerInv
    <3>3. CASE phase' = "answer"
      <4>1. file[t] = cur.body /\ verdict' = "ok"
        BY <2>4, <3>3 DEF Lookup
      <4>2. Kept(cur.body)
        BY <1>3, <2>1, <4>1 DEF Kept
      <4>3. Kept(cur.body)'
        BY <1>1, <1>3, <2>1, <4>2 DEF Kept
      <4> QED BY <1>3, <2>1, <2>2, <3>3, <4>3 DEF ServerInv
    <3>4. CASE phase' = "reject"
      BY <2>1, <2>4, <3>4 DEF Lookup, ServerInv
    <3> QED BY <2>4, <3>2, <3>3, <3>4 DEF Lookup
  <2>5. CASE OpenBatch
    <3>1. phase' = "fill" /\ verdict' = verdict /\ file[t] = "absent" /\ file'[t] = "torn"
      BY <1>1, <1>3, <2>1, <2>5 DEF OpenBatch, ServerInv
    <3>2. ~Rewriting(t)
      BY <1>1, <3>1 DEF Rewriting, ToolInv
    <3>3. ~Rewriting(t)'
      BY <1>1, <2>1, <3>2 DEF Rewriting, Target, toolVars
    <3> QED BY <1>3, <2>1, <2>2, <3>1, <3>3 DEF ServerInv
  <2>6. CASE FillBatch
    <3>1. phase' = "meta_open" /\ verdict' = verdict /\ file'[t] = cur.body
      BY <1>1, <1>3, <2>1, <2>6 DEF FillBatch
    <3>2. Kept(cur.body)'
      BY <1>3, <2>1, <3>1 DEF Kept, PathOf
    <3> QED BY <1>3, <2>1, <2>2, <3>1, <3>2 DEF ServerInv
  <2>7. CASE EncodingFails \/ StoreFault
    BY <2>1, <2>7 DEF EncodingFails, StoreFault, ServerInv
  <2>8. CASE OpenMeta \/ FillMeta \/ AppendDevice \/ AppendBatch \/ MakeLink
             \/ SymlinkFails \/ FillPointer
    <3>1. /\ phase \in WritePhase
          /\ \/ phase' \in WritePhase /\ verdict' = verdict
             \/ phase' = "answer" /\ verdict' = "ok"
      BY <2>8 DEF OpenMeta, FillMeta, AppendDevice, AppendBatch, MakeLink, SymlinkFails,
         FillPointer
    <3>2. Kept(cur.body)'
      BY <1>1, <1>3, <2>1, <3>1 DEF ServerInv, Kept
    <3> QED BY <1>3, <2>1, <2>2, <3>1, <3>2 DEF ServerInv
  <2> QED BY <1>4, <2>3, <2>4, <2>5, <2>6, <2>7, <2>8 DEF StoreStep
<1>5. ASSUME QuarantineStep \/ LogStep PROVE ServerInv'
  <2>1. /\ phase' \in {"hold_fill", "hold_line"} => phase \in QuarantinePhase /\ verdict' = verdict
        /\ phase' \in {"hold_fill", "hold_line", "reject", "answer"}
        /\ phase \in QuarantinePhase \cup {"reject"}
        /\ verdict' = verdict \/ verdict' = "internal_error"
    BY <1>5 DEF QuarantineStep, OpenHold, HashingFails, FillHold, AppendHoldLine,
       HoldFault, LogStep, LogRejection, LogFault, QuarantinePhase
  <2>2. verdict # "ok" /\ verdict' # "ok"
    BY <1>1, <2>1 DEF ServerInv, QuarantinePhase, QuarantineReason
  <2> QED BY <1>1, <2>1, <2>2 DEF ServerInv, StorePhase, QuarantinePhase, WritePhase
<1>6. ASSUME NEW m \in inflight, Receive(m) PROVE ServerInv'
  <2>1. m.req \in Request
    BY <1>1 DEF TypeOK, Copy
  <2>2. /\ cur' = m.req /\ phase = "idle" /\ verdict = "none"
        /\ \/ phase' = "space" /\ verdict' = verdict /\ Check(m.req) = "ok"
           \/ phase' = "hold_open" /\ verdict' \in QuarantineReason
           \/ phase' = "reject" /\ verdict' # "ok"
    BY <1>1, <1>6, <2>1, CheckRange, IngestAssumption DEF Receive, ServerInv, QuarantineReason
  <2>3. Check(cur)' = Check(m.req)
    BY <2>2 DEF Check
  <2> QED BY <2>2, <2>3 DEF ServerInv, StorePhase, QuarantinePhase, WritePhase
<1>7. ASSUME Answer PROVE ServerInv' /\ \A b \in acked' : Kept(b)'
  <2>1. ServerInv'
    BY <1>7 DEF Answer, ServerInv, StorePhase, QuarantinePhase, WritePhase
  <2>2. verdict = "ok" => cur.body \in Body /\ Kept(cur.body)
    BY <1>1, <1>7, RequestParts DEF Answer, ServerInv, TypeOK, StoreTypeOK, Busy
  <2>3. \A b \in acked' : b \in acked \/ (verdict = "ok" /\ b = cur.body)
    BY <1>7 DEF Answer
  <2> QED BY <1>1, <1>2, <2>1, <2>2, <2>3
<1>8. ASSUME Crash \/ Restart PROVE ServerInv'
  BY <1>1, <1>8 DEF Crash, Restart, ServerInv, StorePhase, QuarantinePhase, WritePhase
<1>9. ASSUME Uploader PROVE ServerInv'
  <2>1. UNCHANGED <<phase, cur, verdict, file>>
    BY <1>9 DEF Uploader, Send, Timeout, SetAside, disk
  <2> QED BY <1>1, <2>1 DEF ServerInv, Kept, Rewriting, Check, Target,
       toolVars, history
<1>10. ~Answer => UNCHANGED acked
  BY DEF Next, Server, Serve, Receive, Restart, Crash, Uploader, Send, Timeout, SetAside
<1> QED
  BY <1>2, <1>4, <1>5, <1>6, <1>7, <1>8, <1>9, <1>10 DEF Next, Server, Serve
\* The server keeps what the tool relies on, and what the store holds.
LEMMA ServerSafe ==
  ASSUME BothInv, ServerSide \/ UNCHANGED <<vars, toolVars>>
  PROVE  BothInv'
<1>1. /\ TypeOK' /\ [Next]_vars
      /\ UNCHANGED toolVars
      /\ \A p \in Path : file[p] \in Body \/ Rewriting(p) => file'[p] = file[p]
      /\ \A p \in Path : CleanFile(p) => CleanFile(p)'
  BY ServerLeaves
<1>2. ServerInv' /\ \A b \in acked' : Kept(b)'
  <2>1. CASE ServerSide
    BY <2>1, ServerStep DEF ServerSide
  <2>2. CASE UNCHANGED <<vars, toolVars>>
    <3>1. UNCHANGED <<phase, cur, verdict, file, acked>>
      BY <2>2 DEF vars, disk
    <3>2. ServerInv'
      BY <1>1, <3>1 DEF BothInv, ServerInv, Kept, Rewriting, Check,
         Target, toolVars, history
    <3>3. \A b \in acked' : Kept(b)'
      BY <1>1, <3>1 DEF BothInv, FileInv, Kept, Rewriting, toolVars, history
    <3> QED BY <3>2, <3>3
  <2> QED BY <2>1, <2>2
<1>3. StoredIsPlaced'
  <2> SUFFICES ASSUME NEW p \in Path, file'[p] \in Body
               PROVE  PathOf(file'[p]) = p
    BY DEF StoredIsPlaced, PathOf
  <2>1. CASE file'[p] = file[p]
    BY <2>1 DEF BothInv, FileInv, StoredIsPlaced
  <2>2. CASE file'[p] # file[p]
    BY <1>1, <2>2, ServerFile, BodyIsNoSentinel
  <2> QED BY <2>1, <2>2
<1>4. /\ UNCHANGED <<todo, at, text, tool, failing, outcome, stamped>>
      /\ UNCHANGED <<listed, lost, rewritten, unstamped>>
  BY <1>1 DEF toolVars, history
<1>5. listed \subseteq Path /\ Valid \subseteq Body
  BY IngestAssumption DEF BothInv, ToolInv
<1>6. /\ \A p \in Path : Judged(p) => Judged(p)'
      /\ \A p \in Path : Failed(p) => Failed(p)'
      /\ \A p \in Path : file[p] \in Valid => file'[p] \in Valid
  BY <1>1, <1>4, <1>5 DEF Judged, Failed, CleanFile
<1>7. ToolInv'
  <2>1. tool \in {"judge", "rewrite"} \cup Stamping => at \in listed /\ at \in Path
    BY <1>5 DEF BothInv, ToolInv
  <2>2. tool = "judge" /\ text \in Body => file'[at] = text
    BY <1>1, <2>1 DEF BothInv, ToolInv
  <2>3. tool = "rewrite" => file'[at] = "torn"
    BY <1>1, <2>1 DEF BothInv, ToolInv, Rewriting
  <2>4. tool \in Stamping => CleanFile(at)'
    BY <1>1, <1>4, <2>1 DEF BothInv, ToolInv, CleanFile
  <2>5. tool # "off" =>
          \A p \in listed \ todo : Judged(p)' \/ (tool \in {"judge", "rewrite"} /\ at = p)
    BY <1>5, <1>6 DEF BothInv, ToolInv
  <2> QED BY <1>4, <2>2, <2>3, <2>4, <2>5 DEF BothInv, ToolInv, CleanFile, PathOf
<1>8. FailInv'
  BY <1>4, <1>5, <1>6 DEF BothInv, FailInv, Rewriting
<1>9. StampInv'
  BY <1>1, <1>4 DEF BothInv, StampInv, CleanedIsStamped, CleanFile
<1>10. FileInv'
  <2>1. /\ outcome \in {"done", "refused"} => \A p \in listed : CleanFile(p)'
        /\ outcome = "done" => \A p \in listed : file'[p] \in Valid
        /\ outcome = "refused" => \E p \in listed : Failed(p)'
    BY <1>1, <1>5, <1>6 DEF BothInv, FileInv
  <2> QED BY <1>2, <1>3, <1>4, <2>1 DEF FileInv
<1> QED BY <1>1, <1>2, <1>7, <1>8, <1>9, <1>10 DEF BothInv

-----------------------------------------------------------------------------
(* Steps of the tool. *)

\* The server's variables keep their ranges.
LEMMA ToolTyping ==
  ASSUME BothInv, ToolSide
  PROVE  TypeOK'
<1>1. /\ UNCHANGED <<phase, cur, verdict, faults, turn, inflight, status, attempts,
                     waiting, acked, crashes, deviceLines, batchLines, link, held, errors>>
  BY DEF ToolSide, server, client, ToolStep, Interrupt, ListFiles, ReadNext, ReadFails,
     SkipClean, OpenRewrite, FillRewrite, ReadMeta, StampFails, OpenStamp, FillStamp,
     EndRun, Finish, disk
<1>2. /\ TypeOK /\ file \in [Path -> FileState] /\ meta \in [Path -> {"absent", "torn", "ok"}]
      /\ tool = "rewrite" => Clean[text] \in Body
  BY CleanBody, IngestAssumption DEF BothInv, TypeOK, StoreTypeOK, ToolInv
<1>3. file' \in [Path -> FileState] /\ meta' \in [Path -> {"absent", "torn", "ok"}]
  BY <1>2 DEF ToolSide, ToolStep, Interrupt, ListFiles, ReadNext, ReadFails,
     SkipClean, OpenRewrite, FillRewrite, ReadMeta, StampFails, OpenStamp, FillStamp,
     EndRun, Finish, disk, FileState
<1> QED BY <1>1, <1>2, <1>3 DEF TypeOK, StoreTypeOK

\* A step that writes no batch file leaves the store and the server alone.
LEMMA ToolIdles ==
  ASSUME BothInv, ToolSide, UNCHANGED <<file, lost>>,
         tool # "rewrite", tool' # "rewrite"
  PROVE  /\ ServerInv' /\ StoredIsPlaced'
         /\ \A b \in acked' : Kept(b)'
<1>1. UNCHANGED <<phase, cur, verdict, acked, file, lost>>
  BY DEF ToolSide, server
<1>2. \A p : ~Rewriting(p) /\ ~Rewriting(p)'
  BY DEF Rewriting
<1>3. StoredIsPlaced'
  BY <1>1 DEF BothInv, FileInv, StoredIsPlaced, PathOf
<1>4. \A b : Kept(b) => Kept(b)'
  BY <1>1, <1>2 DEF Kept, PathOf
<1>5. \A b \in acked' : Kept(b)'
  BY <1>1, <1>4 DEF BothInv, FileInv
<1>6. ServerInv'
  BY <1>1, <1>2, <1>4 DEF BothInv, ServerInv, Check, Target, Rewriting, Kept
<1> QED BY <1>3, <1>5, <1>6

\* The rewrite of the file in hand changes that file only, and it is neither
\* the one the handler is filling nor one that is clean.
LEMMA ToolWrites ==
  ASSUME BothInv, ToolSide, NEW new,
         file' = [file EXCEPT ![at] = new],
         \/ tool = "judge" /\ tool' = "rewrite" /\ at' = at /\ text' = text
            /\ text \in Body /\ Clean[text] # text /\ lost' = lost
         \/ tool = "rewrite" /\ tool' # "rewrite" /\ new = Clean[text] /\ lost' = lost
         \/ tool = "rewrite" /\ tool' # "rewrite" /\ new \in {"torn", "garbled"}
            /\ lost' = lost \cup {at}
  PROVE  /\ ServerInv'
         /\ \A b \in acked' : Kept(b)'
         /\ at \in Path /\ file'[at] = new
         /\ \A p \in Path : CleanFile(p) => CleanFile(p)' /\ p # at
         /\ \A p \in Path : p # at => file'[p] = file[p]
<1>1. /\ UNCHANGED <<phase, cur, verdict, acked>>
      /\ file \in [Path -> FileState] /\ at \in Path /\ acked \subseteq Body
      /\ ServerInv /\ \A b \in acked : Kept(b)
  BY DEF ToolSide, server, BothInv, TypeOK, StoreTypeOK, ToolInv, FileInv
<1>2. file'[at] = new /\ \A p \in Path : p # at => file'[p] = file[p]
  BY <1>1
<1>3. /\ tool = "judge" => file[at] = text
      /\ tool = "rewrite" => text \in Body /\ PathOf(text) = at /\ file[at] = "torn"
  BY IngestAssumption DEF BothInv, ToolInv
<1>4. \A p \in Path : CleanFile(p) => CleanFile(p)' /\ p # at
  BY <1>2, <1>3, BodyIsNoSentinel DEF CleanFile
<1>5. ASSUME NEW b \in Body, Kept(b) PROVE Kept(b)'
  <2> DEFINE p == PathOf(b)
  <2>1. p \in Path /\ p' = p /\ Clean[b] \in Body /\ Clean[Clean[b]] = Clean[b]
    BY BodyHasPath, CleanBody DEF PathOf
  <2>2. CASE p \in lost
    BY <2>1, <2>2 DEF Kept
  <2>3. CASE p # at
    <3>1. file[p] \in {b, Clean[b]} \/ p \in lost
      BY <1>5, <2>3 DEF Kept, Rewriting
    <3> QED BY <1>2, <2>1, <2>2, <2>3, <3>1 DEF Kept
  <2>4. CASE p = at /\ tool = "judge"
    <3>1. p \notin lost => text \in {b, Clean[b]}
      BY <1>3, <1>5, <2>4 DEF Kept, Rewriting
    <3>2. tool' = "rewrite" /\ at' = at /\ text' = text
      BY <2>4
    <3> QED BY <2>1, <2>2, <2>4, <3>1, <3>2 DEF Kept, Rewriting
  <2>5. CASE p = at /\ tool = "rewrite"
    <3>1. p \notin lost => text \in {b, Clean[b]}
      BY <1>3, <1>5, <2>1, <2>5, BodyIsNoSentinel DEF Kept, Rewriting
    <3>2. p \notin lost => Clean[text] \in {b, Clean[b]}
      BY <2>1, <3>1
    <3>3. file'[p] = Clean[text] \/ p \in lost'
      BY <1>2, <2>5
    <3> QED BY <2>1, <2>2, <3>2, <3>3 DEF Kept
  <2> QED BY <2>3, <2>4, <2>5
<1>6. \A b \in acked' : Kept(b)'
  BY <1>1, <1>5
<1>7. ServerInv'
  <2>1. phase \in StorePhase => cur \in Request /\ Target(cur) \in Path /\ cur.body \in Body
    BY RequestParts DEF BothInv, TypeOK, StoreTypeOK, Busy
  <2>2. phase = "answer" => cur.body \in Body
    BY RequestParts DEF BothInv, TypeOK, StoreTypeOK, Busy
  <2>3. phase = "open" => file'[Target(cur)] = "absent"
    BY <1>1, <1>2, <1>3, <2>1, BodyIsNoSentinel DEF ServerInv, StorePhase
  <2>4. phase = "fill" => file'[Target(cur)] = "torn" /\ ~Rewriting(Target(cur))'
    <3> SUFFICES ASSUME phase = "fill"
                 PROVE  file'[Target(cur)] = "torn" /\ ~Rewriting(Target(cur))'
      OBVIOUS
    <3>1. /\ Target(cur) \in Path /\ file[Target(cur)] = "torn" /\ ~Rewriting(Target(cur))
          /\ Target(cur)' = Target(cur)
      BY <1>1, <2>1 DEF ServerInv, StorePhase, Target
    <3>2. Target(cur) # at
      BY <1>3, <3>1, BodyIsNoSentinel DEF Rewriting
    <3> QED BY <1>2, <3>1, <3>2 DEF Rewriting
  <2>5. phase \in WritePhase => Kept(cur.body)'
    BY <1>1, <1>5, <2>1 DEF ServerInv, StorePhase, WritePhase, Kept
  <2>6. phase = "answer" /\ verdict = "ok" => Kept(cur.body)'
    BY <1>1, <1>5, <2>2 DEF ServerInv, Kept
  <2> QED BY <1>1, <2>3, <2>4, <2>5, <2>6 DEF ServerInv, Check, Target
<1> QED BY <1>1, <1>2, <1>4, <1>6, <1>7
\* What opening a file for its rewrite keeps.
LEMMA OpenSafe ==
  ASSUME BothInv, ToolSide, OpenRewrite
  PROVE  BothInv'
<1>1. /\ TypeOK' /\ ServerInv /\ ToolInv /\ FailInv /\ StampInv /\ FileInv
      /\ Valid \subseteq Body /\ listed \subseteq Path
  BY ToolTyping, IngestAssumption DEF BothInv, ToolInv
<1>2. /\ tool = "judge" /\ tool' = "rewrite" /\ text \in Body /\ Clean[text] # text
      /\ file' = [file EXCEPT ![at] = "torn"]
      /\ failing' = IF Clean[text] \in Valid THEN failing ELSE failing \cup {at}
      /\ UNCHANGED <<at, text, todo, listed, outcome, stamped, lost, rewritten, unstamped>>
  BY DEF OpenRewrite, Validate, history
<1>3. /\ ServerInv' /\ \A b \in acked' : Kept(b)'
      /\ at \in Path /\ file'[at] = "torn"
      /\ \A p \in Path : CleanFile(p) => CleanFile(p)' /\ p # at
      /\ \A p \in Path : p # at => file'[p] = file[p]
  BY <1>2, ToolWrites
<1>4. /\ \A p \in Path : Judged(p) => Judged(p)'
      /\ \A p \in Path : Failed(p) => Failed(p)'
  BY <1>2, <1>3 DEF Judged, Failed
<1>5. at \in listed /\ file[at] = text /\ PathOf(text) = at /\ PathOf(text)' = PathOf(text)
  BY <1>1, <1>2, <1>3 DEF ToolInv, FileInv, StoredIsPlaced, PathOf
<1>6. StoredIsPlaced'
  BY <1>1, <1>3, BodyIsNoSentinel DEF FileInv, StoredIsPlaced, PathOf
<1>7. ToolInv'
  BY <1>1, <1>2, <1>3, <1>4, <1>5 DEF ToolInv, Stamping
<1>8. FailInv'
  <2> SUFFICES ASSUME NEW p \in failing'
               PROVE  /\ p \in listed
                      /\ Failed(p)' \/ (Rewriting(p)' /\ ~Passed(Content[Clean[text]]))
    BY <1>2 DEF FailInv
  <2>1. CASE p \in failing
    BY <1>1, <1>2, <1>4, <2>1 DEF FailInv, Rewriting
  <2>2. CASE p \notin failing
    <3>1. p = at /\ Clean[text] \notin Valid
      BY <1>2, <2>2
    <3> QED BY <1>2, <1>5, <3>1, CleanBody DEF Rewriting
  <2> QED BY <2>1, <2>2
<1>9. StampInv'
  BY <1>1, <1>2, <1>3 DEF StampInv, CleanedIsStamped, Stamping
<1>10. FileInv'
  BY <1>1, <1>2, <1>3, <1>6 DEF FileInv, ToolInv
<1> QED BY <1>1, <1>3, <1>7, <1>8, <1>9, <1>10 DEF BothInv

\* What filling it keeps.
LEMMA FillSafe ==
  ASSUME BothInv, ToolSide, FillRewrite
  PROVE  BothInv'
<1>1. /\ TypeOK' /\ ServerInv /\ ToolInv /\ FailInv /\ StampInv /\ FileInv
      /\ Valid \subseteq Body /\ listed \subseteq Path
  BY ToolTyping, IngestAssumption DEF BothInv, ToolInv
<1>2. /\ tool = "rewrite" /\ tool' = "stamp"
      /\ file' = [file EXCEPT ![at] = Clean[text]]
      /\ rewritten' = rewritten \cup {at}
      /\ UNCHANGED <<at, text, todo, listed, failing, outcome, stamped, lost, unstamped>>
  BY DEF FillRewrite
<1>3. /\ ServerInv' /\ \A b \in acked' : Kept(b)'
      /\ at \in Path /\ file'[at] = Clean[text]
      /\ \A p \in Path : CleanFile(p) => CleanFile(p)' /\ p # at
      /\ \A p \in Path : p # at => file'[p] = file[p]
  BY <1>2, ToolWrites
<1>4. /\ at \in listed /\ Clean[text] \in Body /\ PathOf(Clean[text]) = at
      /\ Clean[Clean[text]] = Clean[text]
      /\ at \in failing \/ Clean[text] \in Valid
  BY <1>1, <1>2, CleanBody DEF ToolInv
<1>5. /\ \A p \in Path : Judged(p) => Judged(p)'
      /\ \A p \in Path : Failed(p) => Failed(p)'
      /\ CleanFile(at)' /\ Judged(at)'
  BY <1>2, <1>3, <1>4 DEF Judged, Failed, CleanFile
<1>6. StoredIsPlaced'
  BY <1>1, <1>3, <1>4 DEF FileInv, StoredIsPlaced, PathOf
<1>7. ToolInv'
  BY <1>1, <1>2, <1>4, <1>5 DEF ToolInv, Stamping
<1>8. FailInv'
  BY <1>1, <1>2, <1>3, <1>5 DEF FailInv, Rewriting, Failed
<1>9. StampInv'
  <2>1. at \notin stamped \cup unstamped
    BY <1>1, <1>3 DEF StampInv
  <2> QED BY <1>1, <1>2, <1>3, <2>1 DEF StampInv, CleanedIsStamped, Stamping
<1>10. FileInv'
  BY <1>1, <1>2, <1>3, <1>6 DEF FileInv, ToolInv
<1> QED BY <1>1, <1>3, <1>7, <1>8, <1>9, <1>10 DEF BothInv

\* What a kill in the middle of it keeps.
LEMMA BreakSafe ==
  ASSUME BothInv, ToolSide, Interrupt, tool = "rewrite"
  PROVE  BothInv'
<1>1. /\ TypeOK' /\ ServerInv /\ ToolInv /\ StampInv /\ FileInv
      /\ listed \subseteq Path
  BY ToolTyping DEF BothInv, ToolInv
<1>2. /\ tool' = "off" /\ outcome' = "killed" /\ todo' = {} /\ failing' = {}
      /\ lost' = lost \cup {at} /\ UNCHANGED <<listed, stamped, rewritten, unstamped>>
  BY DEF Interrupt, Finish, Stamping
<1>3. PICK rest \in {"torn", "garbled"} : file' = [file EXCEPT ![at] = rest]
  BY DEF Interrupt
<1>4. /\ ServerInv' /\ \A b \in acked' : Kept(b)'
      /\ at \in Path /\ file'[at] = rest
      /\ \A p \in Path : CleanFile(p) => CleanFile(p)' /\ p # at
      /\ \A p \in Path : p # at => file'[p] = file[p]
  BY <1>2, <1>3, ToolWrites
<1>5. StoredIsPlaced'
  BY <1>1, <1>4, BodyIsNoSentinel DEF FileInv, StoredIsPlaced, PathOf
<1>6. ToolInv' /\ FailInv'
  BY <1>1, <1>2 DEF ToolInv, FailInv, Stamping
<1>7. StampInv'
  BY <1>1, <1>2, <1>4 DEF StampInv, CleanedIsStamped, Stamping
<1>8. FileInv'
  BY <1>2, <1>4, <1>5 DEF FileInv
<1> QED BY <1>1, <1>4, <1>6, <1>7, <1>8 DEF BothInv

\* What the steps keep that write no batch file.
LEMMA QuietSafe ==
  ASSUME BothInv, ToolSide,
         \/ ListFiles \/ ReadNext \/ ReadFails \/ SkipClean
         \/ ReadMeta \/ StampFails \/ OpenStamp \/ FillStamp \/ EndRun
         \/ (Interrupt /\ tool # "rewrite")
  PROVE  BothInv'
<1> USE DEF disk, history, Finish
<1>1. /\ TypeOK' /\ ServerInv /\ ToolInv /\ FailInv /\ StampInv /\ FileInv
      /\ Valid \subseteq Body /\ listed \subseteq Path /\ todo \subseteq Path
  BY ToolTyping, IngestAssumption DEF BothInv, ToolInv
<1>2. /\ UNCHANGED <<file, lost, rewritten>> /\ tool # "rewrite" /\ tool' # "rewrite"
  BY DEF ListFiles, ReadNext, ReadFails, SkipClean, ReadMeta, StampFails,
     OpenStamp, FillStamp, EndRun, Interrupt
<1>3. /\ ServerInv' /\ StoredIsPlaced'
      /\ \A b \in acked' : Kept(b)'
  BY <1>2, ToolIdles
<1>4. /\ \A p : CleanFile(p)' <=> CleanFile(p)
      /\ \A p : Failed(p)' <=> Failed(p)
      /\ \A p : ~Rewriting(p) /\ ~Rewriting(p)'
  BY <1>2 DEF CleanFile, Failed, Rewriting
<1>5. CASE ListFiles
  <2>1. ToolInv'
    BY <1>1, <1>5 DEF ListFiles, ToolInv, Stamping
  <2>2. FailInv'
    BY <1>1, <1>5 DEF ListFiles, FailInv
  <2>3. StampInv'
    BY <1>1, <1>2, <1>4, <1>5 DEF ListFiles, StampInv, CleanedIsStamped, Stamping
  <2>4. FileInv'
    BY <1>3, <1>5 DEF ListFiles, FileInv
  <2> QED BY <1>1, <1>3, <2>1, <2>2, <2>3, <2>4 DEF BothInv
<1>6. CASE ReadNext
  <2>1. PICK p \in todo : todo' = todo \ {p} /\ at' = p /\ text' = file[p]
    BY <1>6 DEF ReadNext
  <2>2. /\ tool = "next" /\ tool' = "judge"
        /\ UNCHANGED <<failing, outcome, stamped, listed, unstamped>>
    BY <1>6 DEF ReadNext
  <2>3. \A q : Judged(q)' <=> Judged(q)
    BY <1>2, <2>2 DEF Judged, CleanFile
  <2>4. ToolInv'
    BY <1>1, <1>2, <2>1, <2>2, <2>3 DEF ToolInv, Stamping
  <2>5. FailInv'
    BY <1>1, <1>4, <2>2 DEF FailInv
  <2>6. StampInv'
    BY <1>1, <1>2, <1>4, <2>2 DEF StampInv, CleanedIsStamped, Stamping
  <2>7. FileInv'
    BY <1>1, <1>3, <2>2 DEF FileInv, ToolInv
  <2> QED BY <1>1, <1>3, <2>4, <2>5, <2>6, <2>7 DEF BothInv
<1>7. CASE SkipClean
  <2>1. /\ tool = "judge" /\ text \in Body /\ Clean[text] = text /\ tool' = "next"
        /\ failing' = IF Clean[text] \in Valid THEN failing ELSE failing \cup {at}
        /\ UNCHANGED <<todo, at, outcome, stamped, listed, unstamped>>
    BY <1>7 DEF SkipClean, Validate
  <2>2. CleanFile(at) /\ file[at] = text /\ at \in listed
    BY <1>1, <2>1 DEF ToolInv, CleanFile
  <2>3. Judged(at)' /\ \A q : Judged(q) => Judged(q)'
    BY <1>2, <2>1, <2>2 DEF Judged, CleanFile
  <2>4. ToolInv'
    BY <1>1, <2>1, <2>3 DEF ToolInv, Stamping
  <2>5. FailInv'
    <3>1. Clean[text] \notin Valid => Failed(at)
      BY <2>1, <2>2, CleanBody DEF Failed
    <3> QED BY <1>1, <1>4, <2>1, <2>2, <3>1 DEF FailInv
  <2>6. StampInv'
    BY <1>1, <1>2, <1>4, <2>1 DEF StampInv, CleanedIsStamped, Stamping
  <2>7. FileInv'
    BY <1>1, <1>3, <2>1 DEF FileInv, ToolInv
  <2> QED BY <1>1, <1>3, <2>4, <2>5, <2>6, <2>7 DEF BothInv
<1>8. CASE ReadMeta \/ OpenStamp \/ FillStamp
  <2>1. /\ tool \in Stamping /\ UNCHANGED <<todo, at, text, failing, outcome, listed, unstamped>>
        /\ \/ tool' \in Stamping /\ UNCHANGED stamped
           \/ tool' = "next" /\ stamped' = stamped \cup {at}
    BY <1>8 DEF ReadMeta, OpenStamp, FillStamp, Stamping
  <2>2. at \in listed /\ CleanFile(at) /\ at \notin stamped \cup unstamped
    BY <1>1, <2>1 DEF ToolInv, StampInv
  <2>3. \A q : Judged(q)' <=> Judged(q)
    BY <1>2, <2>1 DEF Judged, CleanFile
  <2>4. ToolInv'
    <3>1. \A p \in listed \ todo : Judged(p)
      BY <1>1, <2>1 DEF ToolInv, Stamping
    <3> QED BY <1>1, <1>4, <2>1, <2>2, <2>3, <3>1 DEF ToolInv, Stamping
  <2>5. FailInv'
    BY <1>1, <1>4, <2>1 DEF FailInv, Stamping
  <2>6. StampInv'
    BY <1>1, <1>2, <1>4, <2>1, <2>2 DEF StampInv, CleanedIsStamped, Stamping
  <2>7. FileInv'
    BY <1>1, <1>3, <2>1 DEF FileInv, ToolInv, Stamping
  <2> QED BY <1>1, <1>3, <2>4, <2>5, <2>6, <2>7 DEF BothInv
<1>9. CASE ReadFails \/ StampFails \/ EndRun \/ (Interrupt /\ tool # "rewrite")
  <2>1. /\ tool # "off" /\ tool' = "off" /\ todo' = {} /\ failing' = {}
        /\ UNCHANGED <<listed, stamped>>
        /\ unstamped' = IF tool \in Stamping THEN unstamped \cup {at} ELSE unstamped
    BY <1>9 DEF ReadFails, StampFails, EndRun, Interrupt, Stamping
  <2>2. ToolInv' /\ FailInv'
    BY <1>1, <2>1 DEF ToolInv, FailInv, Stamping
  <2>3. tool \in Stamping => at \in Path /\ CleanFile(at) /\ at \notin stamped \cup unstamped
    BY <1>1 DEF ToolInv, StampInv
  <2>4. StampInv'
    BY <1>1, <1>2, <1>4, <2>1, <2>3 DEF StampInv, CleanedIsStamped, Stamping
  <2>5. FileInv'
    <3>1. CASE EndRun
      <4>1. /\ tool = "next" /\ todo = {}
            /\ outcome' = IF failing = {} THEN "done" ELSE "refused"
        BY <3>1 DEF EndRun
      <4>2. \A p \in listed : Judged(p)
        BY <1>1, <4>1 DEF ToolInv
      <4>3. outcome' = "done" => \A p \in listed : file[p] \in Valid
        BY <4>1, <4>2 DEF Judged
      <4>4. outcome' = "refused" => \E p \in listed : Failed(p)
        BY <1>1, <1>4, <4>1 DEF FailInv
      <4>5. \A p \in listed : CleanFile(p)
        BY <4>2 DEF Judged
      <4> QED BY <1>2, <1>3, <1>4, <2>1, <4>3, <4>4, <4>5 DEF FileInv
    <3>2. CASE ~EndRun
      <4>1. outcome' \in {"failed", "killed"}
        BY <1>9, <3>2 DEF ReadFails, StampFails, Interrupt
      <4> QED BY <1>3, <4>1 DEF FileInv
    <3> QED BY <3>1, <3>2
  <2> QED BY <1>1, <1>3, <2>2, <2>4, <2>5 DEF BothInv
<1> QED BY <1>5, <1>6, <1>7, <1>8, <1>9

\* The tool keeps what the server relies on, what it relies on itself, and what
\* the store holds.
LEMMA ToolSafe ==
  ASSUME BothInv, ToolSide
  PROVE  BothInv'
BY OpenSafe, FillSafe, BreakSafe, QuietSafe DEF ToolSide, ToolStep

-----------------------------------------------------------------------------
(* Theorems. *)

\* Whatever the two processes and the client do in whatever order, each finds
\* what it relies on.
THEOREM BothSafe == SSpec => []BothInv
<1>1. SInit => BothInv
  <2> SUFFICES ASSUME SInit PROVE BothInv
    OBVIOUS
  <2>1. PICK kept \in Stock : StoreHolds(kept)
    BY DEF SInit
  <2>2. /\ kept \in [Path -> Body \cup {"absent"}]
        /\ \A p \in Path : kept[p] \in Body => PathOf(kept[p]) = p
    BY StockAssumption
  <2>3. TypeOK
    BY <2>1, <2>2, IngestAssumption, BoundAssumption
    DEF SInit, ServiceInit, StoreHolds, TypeOK, StoreTypeOK, FileState, Verdict, Busy,
        StorePhase, QuarantinePhase
  <2>4. file = kept /\ phase = "idle" /\ verdict = "none" /\ acked = {}
    BY <2>1 DEF SInit, ServiceInit, StoreHolds
  <2>5. ServerInv
    BY <2>4 DEF ServerInv, StorePhase, QuarantinePhase, WritePhase
  <2>6. /\ tool = "off" /\ todo = {} /\ listed = {} /\ failing = {} /\ outcome = "none"
        /\ stamped = {} /\ rewritten = {} /\ unstamped = {}
    BY DEF SInit, ToolInit
  <2>7. ToolInv /\ FailInv /\ StampInv
    BY <2>6 DEF ToolInv, FailInv, StampInv, CleanedIsStamped, Stamping
  <2>8. FileInv
    BY <2>2, <2>4, <2>6 DEF FileInv, StoredIsPlaced
  <2> QED BY <2>3, <2>5, <2>7, <2>8 DEF BothInv
<1>2. BothInv /\ [SNext]_<<vars, toolVars>> => BothInv'
  BY ServerSafe, ToolSafe DEF SNext
<1> QED BY <1>1, <1>2, PTL DEF SSpec

\* A body that was answered 200 stays on the disk, as it was or cleaned, unless
\* the tool that was rewriting it was killed.
THEOREM AckedIsNeverSpoiled == SSpec => []AckedIsKeptOrCleaned
<1>1. BothInv => AckedIsKeptOrCleaned
  BY DEF BothInv, FileInv, Kept, AckedIsKeptOrCleaned
<1> QED BY <1>1, BothSafe, PTL

\* What the sidecar says of a batch stays true.
THEOREM StampsAreTrue == SSpec => []StampedIsClean
<1>1. BothInv => StampedIsClean
  BY DEF BothInv, StampInv, CleanFile, StampedIsClean
<1> QED BY <1>1, BothSafe, PTL

\* A run that came to its end has left nothing behind in what it listed.
THEOREM FinishedRunsAreClean == SSpec => []DoneMeansClean
<1>1. BothInv => DoneMeansClean
  BY DEF BothInv, FileInv, CleanFile, DoneMeansClean
<1> QED BY <1>1, BothSafe, PTL

\* The status of a run tells the truth about the schema, whatever older servers
\* stored; and cleaned batches of any size pass, and are cleaned in one go.
THEOREM CleanedBatchesPass == SSpec => []CleaningMeetsTheSchema
<1>1. Spoilt = {}
  BY Cleaning, ContentAssumption DEF Spoilt
<1>2. ASSUME BothInv, outcome = "done", NEW p \in listed PROVE Accepts(Content[file[p]])
  <2>1. file[p] \in Valid
    BY <1>2 DEF BothInv, FileInv
  <2> QED BY <2>1, ContentAssumption
<1>3. BothInv /\ outcome = "refused" => \E p \in listed : ~Passed(Content[file[p]])
  BY DEF BothInv, FileInv, Failed
<1>4. BothInv => CleaningMeetsTheSchema
  BY <1>1, <1>2, <1>3 DEF CleaningMeetsTheSchema
<1> QED BY <1>4, BothSafe, PTL

\* A rewritten batch lacks its stamp only while it is being stamped or if a run
\* broke off right there, and then for good.
THEOREM RewritesAreStamped == SSpec => []CleanedIsStamped
<1>1. BothInv => CleanedIsStamped
  BY DEF BothInv, StampInv
<1> QED BY <1>1, BothSafe, PTL
==============================================================================
