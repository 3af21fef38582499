--------------------------- MODULE Startup_proofs ---------------------------
(***************************************************************************)
(* Proofs about Startup: the salt and the rules that a running server      *)
(* hands out, for any number of threads, tokens, edits and crashes.        *)
(***************************************************************************)
EXTENDS Startup, TLAPS

(***************************************************************************)
(* Unless the salt is random, no thread holds a salt but the default, and  *)
(* the file can hold no other.  In "env" mode no thread touches the file.  *)
(* A thread that is about to read has seen a file, and files never vanish. *)
(***************************************************************************)
SaltInv ==
  /\ mode # "random" =>
       /\ saltFile \in {"absent", "empty", DefaultSalt}
       /\ \A t \in Thread : minted[t] = DefaultSalt
       /\ mode = "env" => \A t \in Thread : saltPc[t] = "idle"
  /\ \A t \in Thread : saltPc[t] = "read" => saltFile # "absent"

StartupInv ==
  TypeOK /\ SaltInv /\ PlannedSaltIsStable /\ ServedRulesAreTheFiles

USE SaltAssumption, RulesAssumption, StartupAssumption

\* The initial states satisfy the invariant.
LEMMA InitInv == Init => StartupInv
<1> SUFFICES ASSUME Init PROVE StartupInv
  OBVIOUS
<1>1. TypeOK
  BY DEF Init, SaltInit, RulesInit, TypeOK, SaltTypeOK, RulesTypeOK
<1>2. SaltInv /\ PlannedSaltIsStable
  BY DEF Init, SaltInit, SaltInv, PlannedSaltIsStable
<1>3. ServedRulesAreTheFiles
  BY DEF Init, RulesInit, ServedRulesAreTheFiles
<1> QED BY <1>1, <1>2, <1>3 DEF StartupInv

\* A thread's step inside get_server_study_salt keeps the types and SaltInv,
\* and hands out no salt but the planned one.
LEMMA ThreadStep ==
  ASSUME SaltTypeOK, SaltInv, PlannedSaltIsStable, SaltStep
  PROVE  SaltTypeOK' /\ SaltInv' /\ PlannedSaltIsStable'
<1> USE DEF SaltTypeOK, SaltInv, PlannedSaltIsStable, Salt
<1>1. PICK t \in Thread :
        \/ AnswerEnv(t) \/ FindFile(t) \/ ReadFile(t)
        \/ Mint(t) \/ OpenSalt(t) \/ FillSalt(t)
  BY DEF SaltStep
<1>2. CASE AnswerEnv(t)
  BY <1>2 DEF AnswerEnv
<1>3. CASE FindFile(t)
  BY <1>3 DEF FindFile
<1>4. CASE ReadFile(t)
  <2>1. saltFile \in Token \cup {DefaultSalt, "empty"}
    BY <1>4 DEF ReadFile
  <2>2. SaltIn(saltFile) \in Token \cup {DefaultSalt}
    BY <2>1 DEF SaltIn
  <2>3. mode # "random" => SaltIn(saltFile) = DefaultSalt /\ mode # "env"
    BY <1>4, <2>1 DEF ReadFile, SaltIn
  <2> QED BY <1>4, <2>2, <2>3 DEF ReadFile
<1>5. CASE Mint(t)
  <2>1. UNCHANGED <<mode, saltFile, answered>>
        /\ saltPc' = [saltPc EXCEPT ![t] = "open"] /\ mode # "env"
    BY <1>5 DEF Mint
  <2>2. CASE mode = "default"
    <3>1. minted' = [minted EXCEPT ![t] = DefaultSalt] /\ spent' = spent
      BY <1>5, <2>2 DEF Mint
    <3> QED BY <2>1, <2>2, <3>1
  <2>3. CASE mode = "random"
    <3>1. PICK s \in Token \ spent :
            minted' = [minted EXCEPT ![t] = s] /\ spent' = spent \cup {s}
      BY <1>5, <2>3 DEF Mint
    <3> QED BY <2>1, <2>3, <3>1
  <2> QED BY <2>1, <2>2, <2>3
<1>6. CASE OpenSalt(t)
  BY <1>6 DEF OpenSalt
<1>7. CASE FillSalt(t)
  BY <1>7 DEF FillSalt
<1> QED BY <1>1, <1>2, <1>3, <1>4, <1>5, <1>6, <1>7

\* A crash loses the threads, and nothing else.
LEMMA StopStep ==
  ASSUME SaltTypeOK, SaltInv, PlannedSaltIsStable, SaltCrash
  PROVE  SaltTypeOK' /\ SaltInv' /\ PlannedSaltIsStable'
BY DEF SaltCrash, SaltTypeOK, SaltInv, PlannedSaltIsStable

\* A step of the import, an edit and a crash keep what is said of the rules.
LEMMA RulesStep ==
  ASSUME RulesTypeOK, ServedRulesAreTheFiles, BootStep \/ EditRules \/ RulesCrash
  PROVE  RulesTypeOK' /\ ServedRulesAreTheFiles'
<1> USE DEF RulesTypeOK, ServedRulesAreTheFiles, Rules
<1>1. CASE StartServer
  BY <1>1 DEF StartServer
<1>2. CASE OpenRules
  BY <1>2 DEF OpenRules
<1>3. CASE FillRules
  BY <1>3 DEF FillRules
<1>4. CASE LoadRules
  BY <1>4 DEF LoadRules
<1>5. CASE LoadFails
  BY <1>5 DEF LoadFails
<1>6. CASE EditRules
  BY <1>6 DEF EditRules
<1>7. CASE RulesCrash
  BY <1>7 DEF RulesCrash
<1> QED BY <1>1, <1>2, <1>3, <1>4, <1>5, <1>6, <1>7 DEF BootStep

\* The salt's invariant speaks of the salt's variables, the rules' of theirs.
LEMMA Unmoved ==
  /\ SaltTypeOK /\ SaltInv /\ PlannedSaltIsStable /\ UNCHANGED saltVars =>
       SaltTypeOK' /\ SaltInv' /\ PlannedSaltIsStable'
  /\ RulesTypeOK /\ ServedRulesAreTheFiles /\ UNCHANGED rulesVars =>
       RulesTypeOK' /\ ServedRulesAreTheFiles'
BY DEF SaltTypeOK, SaltInv, PlannedSaltIsStable, saltVars,
       RulesTypeOK, ServedRulesAreTheFiles, rulesVars

\* Every step of Startup keeps the invariant.
LEMMA StepInv == StartupInv /\ [Next]_vars => StartupInv'
<1> SUFFICES ASSUME StartupInv, [Next]_vars PROVE StartupInv'
  OBVIOUS
<1> USE DEF StartupInv, TypeOK
<1>1. CASE Boot
  BY <1>1, Unmoved, RulesStep DEF Boot
<1>2. CASE ServeConfig
  BY <1>2, Unmoved, ThreadStep DEF ServeConfig
<1>3. CASE Edit
  BY <1>3, Unmoved, RulesStep DEF Edit
<1>4. CASE Stop
  BY <1>4, StopStep, RulesStep DEF Stop
<1>5. CASE UNCHANGED vars
  BY <1>5, Unmoved DEF vars
<1> QED BY <1>1, <1>2, <1>3, <1>4, <1>5 DEF Next

\* The invariant holds of every state of Startup.
THEOREM StartupIsSafe == Spec => []StartupInv
BY InitInv, StepInv, PTL DEF Spec

\* get_server_study_salt: every answer of a deployment that did not ask for a
\* random salt is the same, for any number of threads and crashes.
THEOREM PlannedSaltStays == Spec => []PlannedSaltIsStable
<1>1. StartupInv => PlannedSaltIsStable
  BY DEF StartupInv
<1> QED BY <1>1, StartupIsSafe, PTL

\* app/rules.py: what a running process serves was read from the file and valid.
THEOREM ServedRulesAreRead == Spec => []ServedRulesAreTheFiles
<1>1. StartupInv => ServedRulesAreTheFiles
  BY DEF StartupInv
<1> QED BY <1>1, StartupIsSafe, PTL

\* A salt file that nobody is writing is final, in random mode too: the race
\* that hands out two salts is over with the first calls.
THEOREM SettledSaltIsFinal == Spec => SettledSaltStays
<1>1. [Next]_vars =>
        [Settled /\ mode # "env" =>
           saltFile' = saltFile
           /\ answered' \subseteq answered \cup {SaltIn(saltFile)}]_saltVars
  <2> SUFFICES ASSUME [Next]_vars, Settled, mode # "env"
               PROVE  saltFile' = saltFile
                      /\ answered' \subseteq answered \cup {SaltIn(saltFile)}
    OBVIOUS
  <2>1. CASE UNCHANGED saltVars
    BY <2>1 DEF saltVars
  <2>2. CASE ServeConfig
    BY <2>2 DEF ServeConfig, SaltStep, Settled, AnswerEnv, FindFile, ReadFile,
                Mint, OpenSalt, FillSalt
  <2>3. CASE Stop
    BY <2>3 DEF Stop, SaltCrash
  <2> QED BY <2>1, <2>2, <2>3 DEF Next, Boot, Edit, vars
<1> QED BY <1>1, PTL DEF Spec, SettledSaltStays
=============================================================================
