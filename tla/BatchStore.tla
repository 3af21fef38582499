----------------------------- MODULE BatchStore -----------------------------
(***************************************************************************)
(* What the store promises, whatever happens to the process or the disk: a *)
(* write-once register for every path.  A register goes from absent to one *)
(* body, or is spoiled for good by a write that did not finish, and a body *)
(* is acknowledged only while its register holds it.                       *)
(***************************************************************************)
CONSTANTS Body, Path, PathOf(_)

VARIABLES entry, acked

Init == entry = [p \in Path |-> "absent"] /\ acked = {}

Store(b) ==
  /\ entry[PathOf(b)] = "absent"
  /\ entry' = [entry EXCEPT ![PathOf(b)] = b]
  /\ UNCHANGED acked

Spoil(p) ==
  /\ entry[p] = "absent"
  /\ entry' = [entry EXCEPT ![p] = "spoiled"]
  /\ UNCHANGED acked

Acknowledge(b) ==
  /\ entry[PathOf(b)] = b
  /\ acked' = acked \cup {b}
  /\ UNCHANGED entry

Next ==
  \/ \E b \in Body : Store(b) \/ Acknowledge(b)
  \/ \E p \in Path : Spoil(p)

Spec == Init /\ [][Next]_<<entry, acked>>
=============================================================================
