------------------------------ MODULE Sessions ------------------------------
(***************************************************************************)
(* research/preprocessing: how the stored batches of the phones become     *)
(* analysis sessions and windows.  align.py lays the samples of a device   *)
(* out batch by batch, in the order of the batches' wall-clock starts;     *)
(* sessionize.py walks over them and cuts them into sessions; windowing.py *)
(* gives the samples of a session one time axis and slides a window over   *)
(* it.  run_preprocess.py calls them one after the other, for every device *)
(* at once or device by device.                                            *)
(*                                                                         *)
(* The stream is generated rather than sorted: the next sample is any that *)
(* may follow in the sorted frame.  Wall time and the elapsed clock tick   *)
(* alike within a batch (a phone estimates the former from the latter), so *)
(* a sample carries its wall time only; a batch starts at its first sample.*)
(* A file that cannot be read never reaches the stream.                    *)
(***************************************************************************)
EXTENDS Naturals, Sequences

CONSTANTS
  Device,        \* devices, as numbers in the order of their ids
  Uploaded,      \* session ids the phones give
  Package,       \* foreground apps
  OwnScreens,    \* uploaded sessions in the collector's own app, tasks aside
  Base,          \* base_elapsed_nanos: the elapsed clock when a batch starts
  MaxWall,       \* wall times are 0 .. MaxWall
  DayOf,         \* the study-timezone day of a wall time
  Gap,           \* gap_min: longer silences cut a session
  MinSpan,       \* min_session_seconds: shorter sessions are dropped
  Window, Stride, Guard,   \* window_ns, stride_ns, _INTER_BATCH_GUARD_NS
  SteppedClock,  \* may a phone's wall clock be set back between two batches?
  MaxRows        \* bound: samples of the stream

Wall == 0 .. MaxWall

ASSUME StreamAssumption ==
  /\ Device \subseteq Nat /\ Base \subseteq Nat
  /\ OwnScreens \subseteq Uploaded \X Package
  /\ MaxWall \in Nat /\ MaxRows \in Nat /\ Gap \in Nat
  /\ DayOf \in [Wall -> Nat]
  /\ \A v, w \in Wall : v <= w => DayOf[v] <= DayOf[w]
  /\ SteppedClock \in BOOLEAN

ASSUME WindowAssumption ==
  /\ Window \in Nat \ {0} /\ Stride \in Nat \ {0} /\ Stride <= Window
  /\ Guard \in Nat \ {0} /\ MinSpan \in Nat

VARIABLES
  stage,         \* "load", "rows", "windows", "raised"
  damage,        \* kinds of unreadable files under devices/
  rows,          \* the sessionized samples so far
  windows        \* the windows cut from them

vars == <<stage, damage, rows, windows>>

Init ==
  /\ stage = "load"
  /\ damage \in SUBSET {"torn", "invalid", "garbled"}
  /\ rows = <<>>
  /\ windows = {}

SessionOf(r) == <<r.device, r.day, r.seg>>

Indices == 1 .. Len(rows)

Prev == rows[Len(rows)]

-----------------------------------------------------------------------------
(* Mutants: definitions with a bug a change could introduce. *)

\* A process restart is not noticed.
CutMissesRestart(p, s) ==
  \/ s.device # p.device \/ s.day # p.day
  \/ s.up # p.up \/ s.pkg # p.pkg
  \/ s.wall > p.wall + Gap

\* Every batch of a session starts at its origin again, as the elapsed clock does.
PlaceRestarts(s, j) ==
  IF s.order = rows[j].order THEN rows[j].at + (s.wall - rows[j].wall) ELSE 0

\* Only windows that end before the last sample are cut.
StartsWithoutSlack(last) ==
  {k * Stride : k \in {n \in 0 .. last : n * Stride + Window <= last}}

\* The wall-clock end of a window excludes its last sample.
SeesExclusive(w, t) ==
  /\ \E i \in w.samples : rows[i].wall <= t
  /\ \E i \in w.samples : t < rows[i].wall

-----------------------------------------------------------------------------
(* load_batches(strict=False) *)

\* Files that do not parse (an empty or cut text) or lack a key are passed over.
LoadAll ==
  /\ stage = "load"
  /\ "garbled" \notin damage
  /\ stage' = "rows"
  /\ damage' = {}
  /\ UNCHANGED <<rows, windows>>

\* A text cut inside a character raises UnicodeDecodeError, which the except
\* clause does not name: the run ends.
LoadRaises ==
  /\ stage = "load"
  /\ "garbled" \in damage
  /\ stage' = "raised"
  /\ damage' = {}
  /\ UNCHANGED <<rows, windows>>

-----------------------------------------------------------------------------
(* sessionize() *)

\* Does sample s, after sample p, start a new session?  The elapsed clock went
\* backwards if a batch's base is below that of the batch before it.
Cut(p, s) ==
  \/ s.device # p.device \/ s.day # p.day
  \/ s.up # p.up \/ s.pkg # p.pkg
  \/ s.order # p.order /\ s.base < p.base
  \/ s.wall > p.wall + Gap

\* seg_index: from 0 on a device's new day, counted up at any other boundary.
Seg(s) ==
  IF rows = <<>> \/ s.device # Prev.device \/ s.day # Prev.day THEN 0
  ELSE IF Cut(Prev, s) THEN Prev.seg + 1
  ELSE Prev.seg

(***************************************************************************)
(* _session_relative_axis.  make_windows groups the samples by session id: *)
(* the sample before s on the axis is the last one with the same id, j.    *)
(* A batch follows the one before it after a guard, whatever lay between.  *)
(***************************************************************************)
Place(s, j) ==
  rows[j].at + (IF s.order = rows[j].order THEN s.wall - rows[j].wall ELSE Guard)

At(s, session) ==
  LET same == {i \in Indices : SessionOf(rows[i]) = session}
  IN  IF same = {} THEN 0
      ELSE Place(s, CHOOSE j \in same : \A i \in same : i <= j)

Append1(s) ==
  LET seg == Seg(s)
      session == <<s.device, s.day, seg>>
  IN  rows' = Append(rows, [device |-> s.device, order |-> s.order, base |-> s.base,
                            up |-> s.up, pkg |-> s.pkg, first |-> s.first,
                            wall |-> s.wall, day |-> s.day,
                            seg |-> seg, at |-> At(s, session)])

\* The first sample of a device's next batch.
StartBatch ==
  /\ stage = "rows"
  /\ Len(rows) < MaxRows
  /\ \E d \in Device, b \in Base, u \in Uploaded, k \in Package, w \in Wall :
       /\ rows # <<>> => d >= Prev.device
       /\ rows # <<>> /\ d = Prev.device =>
            w >= (IF SteppedClock THEN Prev.first ELSE Prev.wall)
       /\ Append1([device |-> d, base |-> b, up |-> u, pkg |-> k,
                   first |-> w, wall |-> w, day |-> DayOf[w],
                   order |-> IF rows = <<>> \/ d # Prev.device THEN 0
                             ELSE Prev.order + 1])
  /\ UNCHANGED <<stage, damage, windows>>

\* A further sample of the same batch.
NextSample ==
  /\ stage = "rows"
  /\ rows # <<>>
  /\ Len(rows) < MaxRows
  /\ \E w \in Prev.wall .. MaxWall :
       Append1([device |-> Prev.device, base |-> Prev.base, up |-> Prev.up,
                pkg |-> Prev.pkg, first |-> Prev.first, order |-> Prev.order,
                wall |-> w, day |-> DayOf[w]])
  /\ UNCHANGED <<stage, damage, windows>>

-----------------------------------------------------------------------------
(* _drop_short_sessions(), make_windows() and the windows that are dropped *)

Sessions == {SessionOf(rows[i]) : i \in Indices}

Members(s) == {i \in Indices : SessionOf(rows[i]) = s}

\* The wall-clock span of a session, over all its samples.
Long(s) ==
  MinSpan = 0 \/ \E i, j \in Members(s) : rows[j].wall >= rows[i].wall + MinSpan

\* A session lies in one app and one uploaded session, and a task has an uploaded
\* session of its own: its windows are the collector's own screens or none is.
Own(s) == \E i \in Members(s) : <<rows[i].up, rows[i].pkg>> \in OwnScreens

Kept == {s \in Sessions : Long(s) /\ ~Own(s)}

\* The end of a session's axis.
LastAt(s) == CHOOSE a \in {rows[i].at : i \in Members(s)} :
               \A i \in Members(s) : rows[i].at <= a

\* Where windows start: while start_ns + window_ns <= last_ns + stride_ns.
Starts(last) ==
  {k * Stride : k \in {n \in 0 .. last : n * Stride + Window <= last + Stride}}

Inside(s, start) ==
  {i \in Members(s) : start <= rows[i].at /\ rows[i].at < start + Window}

\* A window without a sample is passed over.
WindowsOf(s) ==
  {w \in [session : {s}, start : Starts(LastAt(s)), samples : SUBSET Members(s)] :
     w.samples = Inside(s, w.start) /\ w.samples # {}}

MakeWindows ==
  /\ stage = "rows"
  /\ stage' = "windows"
  /\ windows' = UNION {WindowsOf(s) : s \in Kept}
  /\ UNCHANGED <<damage, rows>>

\* Events are attached to a window by wall time, from its first sample to its last.
Sees(w, t) ==
  /\ \E i \in w.samples : rows[i].wall <= t
  /\ \E i \in w.samples : t < rows[i].wall + 1

Next == LoadAll \/ LoadRaises \/ StartBatch \/ NextSample \/ MakeWindows

Spec == Init /\ [][Next]_vars

-----------------------------------------------------------------------------
(* Properties. *)

Row == [device : Device, order : Nat, base : Base, up : Uploaded, pkg : Package,
        first : Wall, wall : Wall, day : Nat, seg : Nat, at : Nat]

\* The stream and the windows have their types.
TypeOK ==
  /\ stage \in {"load", "rows", "windows", "raised"}
  /\ damage \subseteq {"torn", "invalid", "garbled"}
  /\ \A i \in Indices : rows[i] \in Row
  /\ windows \subseteq [session : Sessions, start : Nat, samples : SUBSET Indices]

\* Two neighbours that belong together: one device, day, uploaded session and
\* app, no restart of the phone and no long silence between them.
Together(p, s) ==
  /\ s.device = p.device /\ s.day = p.day /\ s.up = p.up /\ s.pkg = p.pkg
  /\ s.order # p.order => s.base >= p.base
  /\ s.wall <= p.wall + Gap

\* A session is one unbroken run of samples that belong together: its id is
\* never given again, so no later sample is merged into it, if the wall clock
\* of a phone is never set back.
SessionsAreRuns ==
  \A i, j \in Indices :
    i < j /\ SessionOf(rows[i]) = SessionOf(rows[j]) =>
      \A k \in i .. j - 1 : /\ SessionOf(rows[k]) = SessionOf(rows[j])
                            /\ Together(rows[k], rows[k + 1])

\* The axis of a session keeps the distances inside a batch, never runs
\* backwards, sets two batches apart, and stretches no silence between batches
\* beyond the guard.
AxisKeepsTime ==
  \A i, j \in Indices :
    LET r == rows[i]
        s == rows[j]
    IN  i < j /\ SessionOf(r) = SessionOf(s) =>
          IF r.order = s.order THEN s.at + r.wall = r.at + s.wall
          ELSE /\ s.at >= r.at + Guard
               /\ s.at + r.wall <= r.at + s.wall + Guard * (s.order - r.order)

Spans(s) == LastAt(s) + Stride >= Window

\* No sample of a session that is long enough is lost between two windows or at
\* the tail; a session that is too short gives no window at all, and neither do
\* the collector's own screens.
EverySampleWindowed ==
  stage = "windows" =>
    /\ \A w \in windows : w.session \in Kept /\ Spans(w.session)
    /\ \A s \in Kept : Spans(s) =>
         \A i \in Members(s) : \E w \in windows : w.session = s /\ i \in w.samples

\* Whatever happened between two samples of a session, however long nothing was
\* recorded between two of its batches, falls into the wall bounds of one of
\* its windows, so the event is attached to it; unless a batch was silent for
\* longer than two windows share.
EveryMomentIsSeen ==
  stage = "windows" =>
    \A s \in Kept : Spans(s) =>
      \A i \in Members(s) :
        i + 1 \in Members(s) /\ rows[i + 1].at + Stride <= rows[i].at + Window =>
          \A t \in rows[i].wall .. rows[i + 1].wall :
            \E w \in windows : w.session = s /\ Sees(w, t)
=============================================================================
