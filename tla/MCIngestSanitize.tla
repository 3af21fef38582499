-------------------------- MODULE MCIngestSanitize --------------------------
(***************************************************************************)
(* A small instance of IngestSanitize: an upload with a text event timed   *)
(* to the millisecond (`timed', cleaned to `floored'), one that has such   *)
(* an event without event_detail; two batches of an older server, with a   *)
(* text length (`measured') and with a window title too (`titled', cleaned *)
(* to `untimed'); and samples of up to two events and one feature.         *)
(***************************************************************************)
EXTENDS IngestSanitize

CONSTANTS timed, floored, bare, measured, titled, untimed, phone, id1, id2, day1

MCBody == {timed, floored, bare, measured, titled, untimed}
MCDeviceOf == [b \in MCBody |-> phone]
MCBatchOf == [b \in MCBody |-> IF b \in {bare, titled, untimed} THEN id2 ELSE id1]
MCDayOf == [b \in MCBody |-> day1]
MCClean ==
  [b \in MCBody |-> CASE b \in {timed, measured} -> floored
                     [] b = titled -> untimed
                     [] OTHER -> b]
MCFlaw == {"invalid_envelope", "invalid_base64", "payload_hash_mismatch",
           "corrupted_lz4_payload", "invalid_json"}

Upload(b) == [device |-> phone, batch |-> MCBatchOf[b], created |-> day1,
              body |-> b, flaw |-> "none"]

MCRequest == {Upload(timed), Upload(bare)}
MCScenario == {{Upload(timed)}, MCRequest}

Event(id, typed, hasDetail, detail, millis, flaws) ==
  [id |-> id, textEvent |-> typed, hasDetail |-> hasDetail, detail |-> detail, millis |-> millis,
   title |-> "title" \in flaws,
   nodes |-> <<[password |-> "password" \in flaws, text |-> "text" \in flaws]>>]

Feature(event, source, task) == [event |-> event, source |-> source, task |-> task]

Batch(source, task, events, features, counted) ==
  [source |-> source, task |-> task, started |-> 0, ended |-> 1, rate |-> 50,
   samples |-> 1, touches |-> 0, events |-> events, features |-> features,
   counted |-> [samples |-> 1, events |-> counted, touches |-> 0, rate |-> Null]]

Other(events) == Batch("THIRD_PARTY_APP", NoTask, events, <<>>, Len(events))

MCContent ==
  [b \in MCBody |->
     CASE b = timed -> Other(<<Event(1, TRUE, TRUE, {"other"}, 7, {})>>)
       [] b = floored -> Other(<<Event(1, TRUE, TRUE, {"other"}, 0, {})>>)
       [] b = bare -> Other(<<Event(1, TRUE, FALSE, {}, 7, {})>>)
       [] b = measured -> Other(<<Event(1, TRUE, TRUE, {"other", "length"}, 7, {})>>)
       [] b = titled -> Other(<<Event(1, TRUE, TRUE, {"length"}, 7, {"title"})>>)
       [] b = untimed -> Other(<<Event(1, TRUE, TRUE, {}, 0, {"title"})>>)]

MCValid == {timed, floored, bare}

MCStock ==
  {[p \in Path |-> CASE \E b \in old : PathOf(b) = p -> CHOOSE b \in old : PathOf(b) = p
                     [] OTHER -> "absent"] : old \in SUBSET {measured, titled}}

Walk == [f \in TaskField |-> IF f \in {"sequence", "id", "category"} THEN 3 ELSE 1]

Retired == [f \in TaskField |-> CASE f = "sequence" -> 3
                                   [] f \in {"id", "category"} -> 13
                                   [] OTHER -> 1]

Events ==
  {Event(id, typed, hasDetail, IF hasDetail THEN detail ELSE {}, millis, {}) :
     id \in {1, 2}, typed \in BOOLEAN, hasDetail \in BOOLEAN,
     detail \in {{}, {"length", "other"}, {"index"}, {"length", "unset"}}, millis \in {0, 7}}
  \cup {Event(1, FALSE, FALSE, {}, 0, flaws) : flaws \in {{"title"}, {"password"}, {"text"}}}

MCSamples ==
  {Other(<<d, e>>) : d \in Events, e \in Events}
  \cup {Batch(source, task, <<e>>, <<Feature(1, "BUILTIN_TASK", repeated)>>, counted) :
           source \in {"BUILTIN_TASK", "THIRD_PARTY_APP"}, e \in Events, counted \in {1, 2},
           task \in {Walk, Retired, NoTask, [Walk EXCEPT !["name"] = Null]},
           repeated \in {Walk, Retired}}
=============================================================================
