----------------------------- MODULE RulesFile -----------------------------
(***************************************************************************)
(* app/rules.py: the redaction rules.  While app.rules is imported, before *)
(* the server accepts a connection, ensure_rules_file seeds rules.json     *)
(* from the packaged rules if it is not there, and load_rules reads and    *)
(* validates it; what it returns is served until the process ends.  The    *)
(* file is the operator's to edit.                                         *)
(*                                                                         *)
(* A rules file is absent, torn (an empty or partial JSON text), "bad" (an *)
(* edit that does not validate) or holds a version of the rules.           *)
(***************************************************************************)
EXTENDS Naturals

CONSTANTS
  Packaged,      \* the rules of default_rules.json, with RULES_VERSION
  Edited,        \* rules an operator may write
  MaxEdits       \* bound: edits by the operator

ASSUME RulesAssumption ==
  /\ ({Packaged} \cup Edited) \cap {"absent", "torn", "bad", "none"} = {}
  /\ MaxEdits \in Nat

VARIABLES
  rulesFile,     \* rules.json
  active,        \* ACTIVE_RULES of the running process
  boot,          \* where the process stands: "off", a step of the import, "up"
  edits,         \* edits so far
  stale          \* history: edited since the running process read the file

rulesVars == <<rulesFile, active, boot, edits, stale>>

Rules == {Packaged} \cup Edited

RulesInit ==
  /\ rulesFile = "absent"
  /\ active = "none"
  /\ boot = "off"
  /\ edits = 0
  /\ stale = FALSE

\* Mutant: the file is loaded without having been seeded.
StartUnseeded ==
  /\ boot = "off"
  /\ boot' = "load"
  /\ UNCHANGED <<rulesFile, active, edits, stale>>

\* The container starts the server, and the import asks whether the file exists.
StartServer ==
  /\ boot = "off"
  /\ boot' = IF rulesFile = "absent" THEN "open" ELSE "load"
  /\ UNCHANGED <<rulesFile, active, edits, stale>>

OpenRules ==
  /\ boot = "open"
  /\ rulesFile' = "torn"
  /\ boot' = "fill"
  /\ UNCHANGED <<active, edits, stale>>

FillRules ==
  /\ boot = "fill"
  /\ rulesFile' = Packaged
  /\ boot' = "load"
  /\ UNCHANGED <<active, edits, stale>>

\* Mutant: the import serves the packaged rules, whatever the file holds.
LoadPackaged ==
  /\ boot = "load"
  /\ rulesFile \in Rules
  /\ active' = Packaged
  /\ boot' = "up"
  /\ stale' = FALSE
  /\ UNCHANGED <<rulesFile, edits>>

LoadRules ==
  /\ boot = "load"
  /\ rulesFile \in Rules
  /\ active' = rulesFile
  /\ boot' = "up"
  /\ stale' = FALSE
  /\ UNCHANGED <<rulesFile, edits>>

\* invalid_rules_json, or a ValidationError: the import fails, the process ends.
LoadFails ==
  /\ boot = "load"
  /\ rulesFile \notin Rules
  /\ boot' = "off"
  /\ UNCHANGED <<rulesFile, active, edits, stale>>

BootStep == StartServer \/ OpenRules \/ FillRules \/ LoadRules \/ LoadFails

EditRules ==
  /\ edits < MaxEdits
  /\ edits' = edits + 1
  /\ rulesFile' \in Edited \cup {"bad"}
  /\ stale' = TRUE
  /\ UNCHANGED <<active, boot>>

RulesCrash ==
  /\ boot' = "off"
  /\ active' = "none"
  /\ UNCHANGED <<rulesFile, edits, stale>>

-----------------------------------------------------------------------------
RulesTypeOK ==
  /\ rulesFile \in Rules \cup {"absent", "torn", "bad"}
  /\ active \in Rules \cup {"none"}
  /\ boot \in {"off", "open", "fill", "load", "up"}
  /\ edits \in Nat
  /\ stale \in BOOLEAN

\* A process that serves has rules that were valid when it read them, and they
\* are the file's until the operator edits it.
ServedRulesAreTheFiles ==
  boot = "up" => active \in Rules /\ (~stale => active = rulesFile)
=============================================================================
