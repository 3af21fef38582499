------------------------------ MODULE Startup ------------------------------
(***************************************************************************)
(* The life of one server process around its two small files: it imports   *)
(* the rules, then answers /api/v1/config from a pool of threads until it  *)
(* is killed, and the container starts it again.                           *)
(***************************************************************************)
EXTENDS StudySalt, RulesFile

CONSTANT MaxStops        \* bound: times the process is killed

ASSUME StartupAssumption == MaxStops \in Nat

VARIABLE stops

vars == <<saltVars, rulesVars, stops>>

Init == SaltInit /\ RulesInit /\ stops = 0

Boot == BootStep /\ UNCHANGED <<saltVars, stops>>

ServeConfig == boot = "up" /\ SaltStep /\ UNCHANGED <<rulesVars, stops>>

Edit == EditRules /\ UNCHANGED <<saltVars, stops>>

Stop ==
  /\ boot # "off"
  /\ stops < MaxStops
  /\ stops' = stops + 1
  /\ RulesCrash
  /\ SaltCrash

Next == Boot \/ ServeConfig \/ Edit \/ Stop

Spec == Init /\ [][Next]_vars

\* docker starts the container again (restart: unless-stopped).
FairSpec == Spec /\ WF_vars(Boot)

-----------------------------------------------------------------------------
\* Both files, the threads and the boot stay in their ranges.
TypeOK == SaltTypeOK /\ RulesTypeOK /\ stops \in Nat

\* The server comes up again and again, unless its rules file holds something
\* that does not parse and validate: then it cannot, until somebody edits it.
ServerComesUp == []<>(boot = "up" \/ rulesFile \in {"torn", "bad"})
=============================================================================
