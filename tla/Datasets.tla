------------------------------ MODULE Datasets ------------------------------
(***************************************************************************)
(* research/datasets: build_dataset of builders.py deals the windows out   *)
(* by a protocol of Splits, pairs each test window with impostors          *)
(* (impostors.py), and writes six files into one directory, one after the  *)
(* other; only then does it assert its own leakage check.  The directory   *)
(* is named after the protocol and not after the seed, so that a second    *)
(* build goes into the first one's files; the process may die between two  *)
(* of them or in the middle of one.                                        *)
(***************************************************************************)
EXTENDS Splits

CONSTANTS
  NPerGenuine,   \* n_impostor_per_genuine
  MaxBuilds,     \* bound: builds of the directory
  MaxCrashes     \* bound: builds that die

ASSUME DatasetsAssumption ==
  NPerGenuine \in Nat /\ MaxBuilds \in Nat /\ MaxCrashes \in Nat

VARIABLES
  protocol,      \* the directory's protocol
  table,         \* windows.parquet
  job,           \* the build that runs: the next file, and what it will write
  dir,           \* the directory: files there, files cut short, contents
  builds,        \* builds begun
  crashes        \* builds that died

buildVars == <<protocol, table, job, dir, builds, crashes>>

Files == <<"train", "val", "test", "pairs", "feature", "manifest">>

FileName == {"train", "val", "test", "pairs", "feature", "manifest"}

NoSplit == [train |-> {}, val |-> {}, test |-> {}, cols |-> {}, notes |-> {}]

NoManifest == [noEnroll |-> {}, neverTested |-> {}, warnings |-> {}]

Idle == [step |-> 0, split |-> NoSplit, pairs |-> {}, manifest |-> NoManifest]

Empty == [train |-> {}, val |-> {}, test |-> {}, pairs |-> {}, manifest |-> NoManifest]

BuildInit ==
  /\ protocol \in Protocol
  /\ table \in Tables[protocol]
  /\ job = Idle
  /\ dir = [has |-> {}, torn |-> {}, data |-> Empty]
  /\ builds = 0
  /\ crashes = 0

-----------------------------------------------------------------------------
(* Mutants: definitions with a bug a change could introduce. *)

\* Impostors are drawn from the whole table.
PoolIsTable(t, s) == DOMAIN t

\* There is no relaxed match.
StrictCandidates(t, s, g) ==
  {i \in s.test : t[i].user # t[g].user /\ t[i].top1 = t[g].top1}

\* Only train is thought to enroll.
NoEnrollByTrain(t, s) == Values(t, s.test, "user") \ Values(t, s.train, "user")

\* That nobody attacks is a warning only where there is a single user.
QuieterWarnings(t, s, pairs) ==
  s.notes
  \cup (IF Cardinality(Keys(t, "user")) < 2
        THEN {"single_user_dataset", "no_impostor_pairs"} ELSE {})
  \cup (IF Keys(t, "user") # Values(t, s.test, "user")
        THEN {"user_coverage_never_tested"} ELSE {})

-----------------------------------------------------------------------------
(* Impostors. *)

\* Rows that impostors are drawn from: the test split's own.
Pool(t, s) == s.test

Strangers(t, s, g) == {i \in Pool(t, s) : t[i].user # t[g].user}

Exact(t, s, g) == {i \in Strangers(t, s, g) : t[i].top1 = t[g].top1}

\* Windows of other users in the same scene or, if there are none, windows of
\* other users that may be in it.
Candidates(t, s, g) ==
  IF Exact(t, s, g) # {} THEN Exact(t, s, g)
  ELSE {i \in Strangers(t, s, g) : t[g].top1 \in t[i].topk}

\* The draws for one window: as many candidates as asked for, or all.
Draws(t, s, g) ==
  {D \in SUBSET Candidates(t, s, g) :
     Cardinality(D) = IF NPerGenuine < Cardinality(Candidates(t, s, g))
                      THEN NPerGenuine ELSE Cardinality(Candidates(t, s, g))}

\* Every outcome of sample_matched_impostors: its draws depend on the seed.
ImpostorPairs(t, s) ==
  LET Drawn == {d \in [s.test -> UNION {Draws(t, s, g) : g \in s.test}] :
                  \A g \in s.test : d[g] \in Draws(t, s, g)}
  IN {{p \in s.test \X Pool(t, s) : p[2] \in d[p[1]]} : d \in Drawn}

-----------------------------------------------------------------------------
(* What the build says of its split. *)

Apart(t, R, S, col) == Values(t, R, col) \cap Values(t, S, col) = {}

LeakageCheck(t, s, pairs) ==
  [no_session_leak |-> Apart(t, s.train, s.test, "session") /\ Apart(t, s.val, s.test, "session"),
   no_day_leak |-> "day" \in s.cols => Apart(t, s.train, s.test, "day"),
   no_app_leak |-> "app" \in s.cols => Apart(t, s.train, s.test, "app"),
   enroll_query_sessions_disjoint |-> Apart(t, s.train \cup s.val, s.test, "session"),
   impostor_pool_user_disjoint |-> \A p \in pairs : t[p[1]].user # t[p[2]].user,
   impostor_windows_test_only |-> \A p \in pairs : p[2] \in s.test]

NoEnroll(t, s) == Values(t, s.test, "user") \ Values(t, s.train \cup s.val, "user")

NeverTested(t, s) == Keys(t, "user") \ Values(t, s.test, "user")

Warnings(t, s, pairs) ==
  s.notes
  \cup (IF Cardinality(Keys(t, "user")) < 2 THEN {"single_user_dataset"} ELSE {})
  \cup (IF pairs = {} THEN {"no_impostor_pairs"} ELSE {})
  \cup (IF NeverTested(t, s) # {} THEN {"user_coverage_never_tested"} ELSE {})
  \cup (IF NoEnroll(t, s) # {} THEN {"user_coverage_no_enroll"} ELSE {})
  \cup (IF /\ {"day", "app"} \cap s.cols # {}
           /\ {t[p[2]].user : p \in pairs} \cap Values(t, s.train, "user") # {}
        THEN {"impostor_users_in_train_identity_set"} ELSE {})

-----------------------------------------------------------------------------
(* The build. *)

Checked(s, pairs) == \A c \in DOMAIN LeakageCheck(table, s, pairs) : LeakageCheck(table, s, pairs)[c]

\* All that precedes the first write, under some seed.
Build ==
  /\ job.step = 0
  /\ builds < MaxBuilds
  /\ builds' = builds + 1
  /\ \E rank \in Ranks(Ranked(table, protocol)) :
       \E s \in {MakeSplit(table, protocol, rank)} :
         \E pairs \in ImpostorPairs(table, s) :
           job' = [step |-> 1, split |-> s, pairs |-> pairs,
                   manifest |-> [noEnroll |-> NoEnroll(table, s),
                                 neverTested |-> NeverTested(table, s),
                                 warnings |-> Warnings(table, s, pairs)]]
  /\ UNCHANGED <<protocol, table, dir, crashes>>

Written(data, f) ==
  CASE f \in {"train", "val", "test"} -> [data EXCEPT ![f] = job.split[f]]
    [] f = "pairs" -> [data EXCEPT !.pairs = job.pairs]
    [] f = "manifest" -> [data EXCEPT !.manifest = job.manifest]
    [] f = "feature" -> data

WriteFile ==
  /\ job.step \in 1 .. Len(Files)
  /\ LET f == Files[job.step]
     IN dir' = [has |-> dir.has \cup {f}, torn |-> dir.torn \ {f},
                data |-> Written(dir.data, f)]
  /\ job' = [job EXCEPT !.step = @ + 1]
  /\ UNCHANGED <<protocol, table, builds, crashes>>

\* The last line: nothing is taken back if a check fails.
Assert ==
  /\ job.step = Len(Files) + 1
  /\ job' = Idle
  /\ UNCHANGED <<protocol, table, dir, builds, crashes>>

\* The process dies, perhaps in the middle of a file.
Die ==
  /\ job.step # 0
  /\ crashes < MaxCrashes
  /\ crashes' = crashes + 1
  /\ job' = Idle
  /\ \/ UNCHANGED dir
     \/ /\ job.step \in 1 .. Len(Files)
        /\ dir' = [dir EXCEPT !.has = @ \cup {Files[job.step]},
                              !.torn = @ \cup {Files[job.step]}]
  /\ UNCHANGED <<protocol, table, builds>>

BuildNext == Build \/ WriteFile \/ Assert \/ Die

-----------------------------------------------------------------------------
(* Properties. *)

Rows == DOMAIN table

SplitOfRows(s) ==
  /\ s.train \subseteq Rows /\ s.val \subseteq Rows /\ s.test \subseteq Rows
  /\ s.cols \subseteq {"session", "day", "app"}

\* What is dealt out and written are rows of the table.
BuildTypeOK ==
  /\ protocol \in Protocol /\ table \in Seq(WindowRow)
  /\ job.step \in 0 .. Len(Files) + 1
  /\ SplitOfRows(job.split) /\ job.pairs \subseteq Rows \X Rows
  /\ dir.has \subseteq FileName /\ dir.torn \subseteq dir.has
  /\ \A f \in {"train", "val", "test"} : dir.data[f] \subseteq Rows
  /\ dir.data.pairs \subseteq Rows \X Rows
  /\ builds \in 0 .. MaxBuilds /\ crashes \in 0 .. MaxCrashes

\* No build ends in an AssertionError: however the hash falls, the leakage check
\* of build_dataset holds, in the degenerate cases and their fallbacks as well.
NoBuildFails == job.step = Len(Files) + 1 => Checked(job.split, job.pairs)

Building(p) == job.step # 0 /\ protocol = p

Enrolled == job.split.train \cup job.split.val

\* leave_session_out gives every user with two sessions one to enroll with and
\* one to be tested on, and holds back the only session of any other.
EnrolledAndQueried ==
  Building("leave_session_out") =>
    \A u \in Keys(table, "user") :
      /\ u \in Values(table, Enrolled, "user")
      /\ Cardinality(SessionsOf(table, u)) >= 2 <=> u \in Values(table, job.split.test, "user")

Earlier(R, S) == \A i \in R, j \in S : table[i].day < table[j].day

\* What a protocol holds out, nothing the verifier enrolls with has: the tested
\* days lie after all of train and, under leave_day_out, of val; the tested apps
\* are in neither.  The build's own check looks at train alone.
HeldOutIsUnseen ==
  /\ Building("leave_day_out") /\ ~SingleDay(table) => Earlier(Enrolled, job.split.test)
  /\ Building("leave_app_out") => Apart(table, Enrolled, job.split.test, "app")
  /\ Building("combined_day_app") =>
       /\ Apart(table, Enrolled, job.split.test, "app")
       /\ SingleDay(table) \/ Earlier(job.split.train, job.split.test)
=============================================================================
