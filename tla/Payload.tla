------------------------------- MODULE Payload -------------------------------
(***************************************************************************)
(* What is in a batch: the rules of app/schemas.py that relate its parts   *)
(* to each other, and the stripping of tools/sanitize_event_detail.py.     *)
(* Texts are there or not; a task category is its digit, the retired ones  *)
(* C0..C6 ten more; a time is a second and the milliseconds beyond it.     *)
(***************************************************************************)
EXTENDS Integers, Sequences, Functions

Null == -1

TaskCategory == (0 .. 7) \cup (10 .. 16)

TaskField ==
  {"sequence", "id", "name", "description", "category", "session", "started", "elapsed"}

NoTask == [f \in TaskField |-> Null]

\* Fields of the task that each context feature repeats.
Repeated == {"sequence", "id", "name", "description", "category", "session"}

-----------------------------------------------------------------------------
(* Events.  Keys of event_detail: a length or a count of typed text; an    *)
(* index into it, set or unset (-1 or null); anything else.                *)

Telemetry == {"length"}

Index == {"index", "unset"}

EventRecord ==
  [id : Int, textEvent : BOOLEAN, hasDetail : BOOLEAN,
   detail : SUBSET (Telemetry \cup Index \cup {"other"}), millis : 0 .. 999,
   title : BOOLEAN, nodes : Seq([password : BOOLEAN, text : BOOLEAN])]

\* NodeSnapshot: no password field, and no text under any name.
NodePasses(node) == ~node.password /\ ~node.text

\* ContextEvent without its rule on event_detail, which is the youngest.
EventPassed(e) == ~e.title /\ \A i \in DOMAIN e.nodes : NodePasses(e.nodes[i])

\* reject_event_detail_text_telemetry
DetailPasses(e) ==
  e.hasDetail =>
    /\ e.detail \cap Telemetry = {}
    /\ e.textEvent => "index" \notin e.detail

-----------------------------------------------------------------------------
(* The batch. *)

BatchRecord ==
  [source : {"BUILTIN_TASK", "THIRD_PARTY_APP"}, task : [TaskField -> Int],
   started : Nat, ended : Nat, rate : Nat \cup {Null}, samples : Nat, touches : Nat,
   events : Seq(EventRecord),
   features : Seq([event : Int, source : {"BUILTIN_TASK", "THIRD_PARTY_APP"},
                   task : [TaskField -> Int]]),
   counted : [samples : Int, events : Int, touches : Int, rate : Int]]

\* validate_task_label_contract: a built-in task has all its fields, and they
\* agree; another app's batch has none.
TaskPasses(b) ==
  IF b.source = "BUILTIN_TASK"
  THEN /\ Null \notin Range(b.task)
       /\ b.task["category"] \in TaskCategory
       /\ b.task["id"] = b.task["category"]
       /\ b.task["sequence"] = b.task["id"] % 10
  ELSE b.task = NoTask

\* Every feature is about an event of the batch, and repeats its task.
FeaturePasses(b, f) ==
  /\ f.source = b.source
  /\ \A field \in Repeated : f.task[field] = b.task[field]
  /\ \E i \in DOMAIN b.events : b.events[i].id = f.event

\* BatchDiagnostics counts what is there.
CountsPass(b) ==
  /\ b.counted.samples = b.samples
  /\ b.counted.events = Len(b.events)
  /\ b.counted.touches = b.touches
  /\ b.counted.rate \in {Null, b.rate}

\* The schema before the rule on event_detail.
Passed(b) ==
  /\ b.started <= b.ended
  /\ TaskPasses(b)
  /\ \A i \in DOMAIN b.features : FeaturePasses(b, b.features[i])
  /\ CountsPass(b)
  /\ \A i \in DOMAIN b.events : EventPassed(b.events[i])

Accepts(b) == Passed(b) /\ \A i \in DOMAIN b.events : DetailPasses(b.events[i])

-----------------------------------------------------------------------------
(* sanitize_batch *)

\* Keys that an event loses.
Lost(e) == Telemetry \cup IF e.textEvent THEN Index ELSE {}

\* An event without event_detail stays as it is.
Stripped(e) ==
  IF ~e.hasDetail THEN e
  ELSE [e EXCEPT !.detail = @ \ Lost(e), !.millis = IF e.textEvent THEN 0 ELSE @]

Sanitize(b) == [b EXCEPT !.events = [i \in DOMAIN @ |-> Stripped(@[i])]]
==============================================================================
