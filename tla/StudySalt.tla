----------------------------- MODULE StudySalt -----------------------------
(***************************************************************************)
(* get_server_study_salt of app/config.py: the salt that GET /api/v1/config*)
(* hands to every phone, which derives its device id from it.  The endpoint*)
(* is a plain function, so the server runs it in a thread pool: several    *)
(* threads can be inside it at once, sharing nothing but the salt file.    *)
(*                                                                         *)
(* The mode is the deployment's choice: "env" when SERVER_STUDY_SALT is    *)
(* set, "random" when SERVER_GENERATE_RANDOM_STUDY_SALT asks for a salt    *)
(* of its own, "default" otherwise.                                        *)
(***************************************************************************)
CONSTANTS
  Thread,        \* threads of the server's pool
  Token,         \* what secrets.token_urlsafe can return
  EnvSalt,       \* the value of SERVER_STUDY_SALT
  DefaultSalt    \* DEFAULT_STUDY_SALT

ASSUME SaltAssumption ==
  /\ DefaultSalt \notin Token
  /\ {"absent", "empty"} \cap (Token \cup {EnvSalt, DefaultSalt}) = {}

VARIABLES
  mode,          \* how the deployment chose its salt
  saltFile,      \* server_study_salt.txt: "absent", "empty" or a salt
  saltPc,        \* where each thread stands
  minted,        \* the salt each thread is about to write
  spent,         \* tokens drawn so far: a fresh one is never drawn again
  answered       \* history: the salts handed out

saltVars == <<mode, saltFile, saltPc, minted, spent, answered>>

Salt == Token \cup {EnvSalt, DefaultSalt}

SaltInit ==
  /\ mode \in {"env", "random", "default"}
  /\ saltFile = "absent"
  /\ saltPc = [t \in Thread |-> "idle"]
  /\ minted = [t \in Thread |-> DefaultSalt]
  /\ spent = {}
  /\ answered = {}

\* Mutants: get_server_study_salt with a bug a change could introduce.

\* An empty file is taken as "no salt yet" only by the reader: it hands out a
\* salt of its own without writing it.
SaltInDrawn(f) == IF f = "empty" THEN CHOOSE s \in Token : TRUE ELSE f

\* An empty file is repaired by whoever reads it, with a salt of its own.
ReadFileRepairs(t) ==
  /\ saltPc[t] = "read"
  /\ IF saltFile = "empty" /\ mode = "random"
     THEN \E s \in Token \ spent :
            /\ saltFile' = s
            /\ spent' = spent \cup {s}
            /\ answered' = answered \cup {s}
     ELSE /\ answered' = answered \cup {saltFile}
          /\ UNCHANGED <<saltFile, spent>>
  /\ saltPc' = [saltPc EXCEPT ![t] = "idle"]
  /\ UNCHANGED <<mode, minted>>

\* The salt a file that is there stands for: an empty one means the default.
SaltIn(f) == IF f = "empty" THEN DefaultSalt ELSE f

\* SERVER_STUDY_SALT wins, and touches no file.
AnswerEnv(t) ==
  /\ saltPc[t] = "idle"
  /\ mode = "env"
  /\ answered' = answered \cup {EnvSalt}
  /\ UNCHANGED <<mode, saltFile, saltPc, minted, spent>>

\* exists() finds the file; it is read in a later step.
FindFile(t) ==
  /\ saltPc[t] = "idle"
  /\ mode # "env"
  /\ saltFile # "absent"
  /\ saltPc' = [saltPc EXCEPT ![t] = "read"]
  /\ UNCHANGED <<mode, saltFile, minted, spent, answered>>

ReadFile(t) ==
  /\ saltPc[t] = "read"
  /\ answered' = answered \cup {SaltIn(saltFile)}
  /\ saltPc' = [saltPc EXCEPT ![t] = "idle"]
  /\ UNCHANGED <<mode, saltFile, minted, spent>>

\* exists() finds no file: the thread will write one, whoever else does.
Mint(t) ==
  /\ saltPc[t] = "idle"
  /\ mode # "env"
  /\ saltFile = "absent"
  /\ saltPc' = [saltPc EXCEPT ![t] = "open"]
  /\ \/ /\ mode = "default"
        /\ minted' = [minted EXCEPT ![t] = DefaultSalt]
        /\ UNCHANGED spent
     \/ /\ mode = "random"
        /\ \E s \in Token \ spent :
             /\ minted' = [minted EXCEPT ![t] = s]
             /\ spent' = spent \cup {s}
  /\ UNCHANGED <<mode, saltFile, answered>>

OpenSalt(t) ==
  /\ saltPc[t] = "open"
  /\ saltFile' = "empty"
  /\ saltPc' = [saltPc EXCEPT ![t] = "fill"]
  /\ UNCHANGED <<mode, minted, spent, answered>>

\* The thread hands out what it wrote, not what the file holds by then.
FillSalt(t) ==
  /\ saltPc[t] = "fill"
  /\ saltFile' = minted[t]
  /\ answered' = answered \cup {minted[t]}
  /\ saltPc' = [saltPc EXCEPT ![t] = "idle"]
  /\ UNCHANGED <<mode, minted, spent>>

SaltStep == \E t \in Thread :
  \/ AnswerEnv(t) \/ FindFile(t) \/ ReadFile(t)
  \/ Mint(t) \/ OpenSalt(t) \/ FillSalt(t)

\* The process dies with its threads; the file stays as it is.
SaltCrash ==
  /\ saltPc' = [t \in Thread |-> "idle"]
  /\ UNCHANGED <<mode, saltFile, minted, spent, answered>>

-----------------------------------------------------------------------------
SaltTypeOK ==
  /\ mode \in {"env", "random", "default"}
  /\ saltFile \in Token \cup {DefaultSalt, "absent", "empty"}
  /\ saltPc \in [Thread -> {"idle", "read", "open", "fill"}]
  /\ minted \in [Thread -> Token \cup {DefaultSalt}]
  /\ spent \subseteq Token
  /\ answered \subseteq Salt

\* Unless the deployment asked for a random salt, every phone is told the same
\* one, whatever threads race for the file and whenever the process dies.
PlannedSaltIsStable ==
  mode # "random" =>
    answered \subseteq {IF mode = "env" THEN EnvSalt ELSE DefaultSalt}

\* Nobody is on the way from a missed exists() to a written file.
Settled == saltFile # "absent" /\ \A t \in Thread : saltPc[t] \notin {"open", "fill"}

\* Once the file is there and nobody is writing it, it never changes again and
\* every further answer is the salt it stands for.
SettledSaltStays ==
  [][Settled /\ mode # "env" =>
       saltFile' = saltFile /\ answered' \subseteq answered \cup {SaltIn(saltFile)}]_saltVars

=============================================================================
