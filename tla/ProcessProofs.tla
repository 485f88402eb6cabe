---------------------------- MODULE ProcessProofs -----------------------------
(***************************************************************************)
(* Theorems about Process, for any list of migrations, any number of       *)
(* starts, releases, operator's changes, requests, jobs and faults.        *)
(***************************************************************************)
EXTENDS Process, FiniteSetTheorems, TLAPS

(* A set of numbers that is not empty has a least one: the initial         *)
(* segments below its members are finite, and strict inclusion among       *)
(* finite sets is well-founded.                                            *)
LEMMA MinFacts ==
  ASSUME NEW S \in SUBSET Nat, S # {}
  PROVE  Min(S) \in S /\ \A n \in S : Min(S) <= n
<1> DEFINE T == {0..n : n \in S}
<1>1. T \subseteq FiniteSubsetsOf(Nat) /\ T # {}
  <2>1. \A n \in S : 0..n \in SUBSET Nat /\ IsFiniteSet(0..n)
    BY FS_Interval
  <2>2. QED
    BY <2>1 DEF FiniteSubsetsOf
<1>2. PICK X \in T : \A Y \in T : <<Y, X>> \notin StrictSubsetOrdering(Nat)
  BY <1>1, FS_StrictSubsetOrderingWellFounded, WFMin
<1>3. PICK m \in S : X = 0..m
  OBVIOUS
<1>4. \A n \in S : m <= n
  <2> SUFFICES ASSUME NEW n \in S, n < m PROVE FALSE
    OBVIOUS
  <2>1. 0..n \subseteq 0..m /\ m \in 0..m /\ m \notin 0..n
    OBVIOUS
  <2>2. <<0..n, 0..m>> \in StrictSubsetOrdering(Nat)
    BY <2>1 DEF StrictSubsetOrdering
  <2>3. QED
    BY <1>2, <1>3, <2>2
<1>5. QED
  BY <1>4 DEF Min

LEMMA PendingFacts ==
  ASSUME Pending # {}, recorded \subseteq 1..release, release \in 0..Len(Columns)
  PROVE  Min(Pending) \in 1..release /\ Min(Pending) \in DOMAIN Columns
<1>1. Pending \in SUBSET Nat /\ Pending \subseteq 1..release
  BY ProcessAssumption DEF Pending
<1>2. Min(Pending) \in 1..release
  BY <1>1, MinFacts
<1>3. Len(Columns) \in Nat /\ DOMAIN Columns = 1..Len(Columns)
  BY ProcessAssumption
<1>4. QED
  BY <1>2, <1>3
-----------------------------------------------------------------------------
(* The inductive invariants: one for each of the three things a process    *)
(* carries from one phase, or one run, to the next.                        *)

(* The process knows its configuration only from Load on.                  *)
Unloaded == {"off", "yaml", "fillYaml", "dotenv", "fillDotenv", "load"}
Phases   == Unloaded \cup Database \cup Running

(* What a secret may be set to.                                            *)
Values == Randoms \cup {"none", "empty", "operator", Placeholder}

(* The secret in force.                                                    *)
InForce == Resolved("AUTH_HMAC_SECRET")

(* The files and the secret: once a run has signed, the .env is there and  *)
(* still resolves to what it signed with, until the operator changes it.   *)
Keys ==
  /\ dotenv \in [Secrets -> Values]
  /\ secretEnv \in [Secrets -> Values]
  /\ phase \in Phases
  /\ phase \in {"fillDotenv", "load"} \cup Database \cup Running => ".env" \in files
  /\ phase = "fillDotenv" => signing = "none"
  /\ signing # "none" => signing = InForce /\ ".env" \in files
  /\ phase \in Unloaded => config.secret = "none"
  /\ phase \in Database \cup Running =>
       /\ config.secret = InForce
       /\ config.secret \notin {"none", "empty", Placeholder}
       /\ config.timeouts["stuck_job_timeout"] > config.timeouts["job_timeout"]

(* The database: a migration on record has all its columns.                *)
Schema ==
  /\ release \in 0..Len(Columns)
  /\ \A m \in recorded : Columns[m] \subseteq columns
  /\ phase = "off" => applied = {}
  /\ phase \in Running => recorded = 1..release
  /\ why # "schema"

(* The end: what the shutdown has waited for does not come back.           *)
Ending ==
  /\ phase \in {"stop", "close"} /\ ~excused => requests = 0
  /\ phase = "close" /\ ~excused => jobs = 0

PInv == TypeOK /\ Keys /\ Schema /\ Ending

LEMMA SecretNames == Secrets = {"DATABASE_PASSWORD", "AUTH_HMAC_SECRET"}
BY DEF Secrets

LEMMA InitP == Init => PInv
<1> SUFFICES ASSUME Init PROVE PInv
  OBVIOUS
<1>1. Len(Columns) \in Nat /\ MaxActive \in Nat
  BY ProcessAssumption
<1>2. TypeOK
  <2>1. files \subseteq {"config.yaml", ".env"} /\ recorded \subseteq 1..release
    BY DEF Init
  <2>2. tables \subseteq DOMAIN Columns /\ columns \subseteq UNION {Columns[m] : m \in 1..release}
    BY DEF Init
  <2>3. requests \in 0..MaxActive /\ jobs \in 0..MaxActive
    BY <1>1 DEF Init
  <2>4. applied = {}
    BY DEF Init
  <2>5. config.secret = "none" /\ active = <<0, 0, FALSE>> /\ ~signalled
    BY DEF Init, active
  <2>6. QED
    BY <2>1, <2>2, <2>3, <2>4, <2>5 DEF TypeOK
<1>3. Keys
  <2>1. dotenv \in [Secrets -> Values] /\ secretEnv \in [Secrets -> Values]
    BY DEF Init, NoSecrets, Values
  <2>2. phase = "off" /\ config.secret = "none" /\ signing = "none"
    BY DEF Init
  <2>3. QED
    BY <2>1, <2>2 DEF Keys, Phases, Unloaded, Database, Running
<1>4. Schema /\ Ending
  BY <1>1 DEF Init, Schema, Ending, Running
<1>5. QED
  BY <1>2, <1>3, <1>4 DEF PInv
-----------------------------------------------------------------------------
(* The secret.                                                             *)

LEMMA KeysStep == ASSUME PInv, [Next]_vars PROVE Keys'
<1> USE DEF Values, Phases, Unloaded, Database, Running, Goto, machine, bounds, active, schema
<1>1. Keys
  BY DEF PInv
<1>2. CASE CreateYAML \/ FillYAML \/ KeepFile
  <2>1. /\ UNCHANGED <<dotenv, secretEnv, config, signing>>
        /\ files \subseteq files'
        /\ phase' \in {"fillYaml", "dotenv", "load"}
        /\ phase' = "load" => ".env" \in files'
        /\ phase \in {"yaml", "fillYaml", "dotenv"}
    BY <1>2 DEF CreateYAML, FillYAML, AfterYAML, KeepFile, Create, Keep, Missing
  <2>2. QED
    BY <1>1, <2>1 DEF Keys, InForce, Resolved
<1>15. CASE CreateDotenv
  <2>1. /\ UNCHANGED <<secretEnv, config, signing>> /\ dotenv' = NoSecrets
        /\ files' = files \cup {".env"} /\ ".env" \notin files
        /\ phase = "dotenv" /\ phase' = "fillDotenv"
    BY <1>15 DEF CreateDotenv, Create, Missing
  <2>2. dotenv' \in [Secrets -> Values]
    BY <2>1 DEF NoSecrets
  <2>3. QED
    BY <1>1, <2>1, <2>2 DEF Keys
<1>3. CASE FillDotenv
  <2>1. dotenv' \in [Secrets -> Values]
    <3>1. PICK r \in Randoms, typed \in {"operator", Placeholder} :
            dotenv' = [s \in Secrets |-> IF s = "AUTH_HMAC_SECRET" THEN r ELSE typed]
      BY <1>3 DEF FillDotenv
    <3>2. QED
      BY <3>1
  <2>2. /\ phase = "fillDotenv" /\ phase' = "load"
        /\ UNCHANGED <<files, secretEnv, config, signing>>
    BY <1>3 DEF FillDotenv
  <2>3. QED
    BY <1>1, <2>1, <2>2 DEF Keys
<1>4. CASE Load
  <2>1. UNCHANGED <<files, dotenv, secretEnv, signing>> /\ phase = "load"
    BY <1>4 DEF Load
  <2>2. CASE Validated /\ Goto("connect")
    <3>1. /\ config'.secret = InForce
          /\ config'.timeouts["stuck_job_timeout"] = Layered("stuck_job_timeout")
          /\ config'.timeouts["job_timeout"] = Layered("job_timeout")
      BY <1>4, <2>2 DEF Load, Leave, InForce, Timeouts
    <3>2. /\ InForce \notin {"none", "empty", Placeholder}
          /\ Layered("stuck_job_timeout") > Layered("job_timeout")
      BY <2>2 DEF Validated, InForce, Secrets
    <3>3. QED
      BY <1>1, <2>1, <2>2, <3>1, <3>2 DEF Keys, InForce, Resolved
  <2>3. CASE Leave("configuration")
    BY <1>1, <2>1, <2>3 DEF Leave, Keys, InForce, Resolved
  <2>4. QED
    BY <1>4, <2>2, <2>3 DEF Load
<1>5. CASE Connect \/ (\E t \in DOMAIN Columns : CreateTable(t)) \/ SchemaEnsured
             \/ (\E m \in DOMAIN Columns : \E c \in Columns[m] : AddColumn(c)) \/ RecordMigration
  BY <1>1, <1>5 DEF Connect, CreateTable, SchemaEnsured, Keep, AddColumn, RecordMigration, Leave,
     Keys, InForce, Resolved
<1>6. CASE Run
  BY <1>1, <1>6 DEF Run, Keys, InForce, Resolved
<1>7. CASE Stopping \/ StatementFails \/ ServeFails \/ Crash
  BY <1>1, <1>7 DEF Stopping, BeginShutdown, Drained, WorkerStopped, Close, StatementFails,
     ServeFails, Crash, Only, Leave, Keys, InForce, Resolved
<1>8. CASE Request \/ Answer \/ FeedJob \/ FinishJob \/ Purge \/ Signal
  BY <1>1, <1>8 DEF Request, Answer, FeedJob, FinishJob, Purge, Signal, Only, Keys, InForce, Resolved
<1>9. CASE Launch \/ RemoveYAML \/ Deploy
  BY <1>1, <1>9 DEF Launch, RemoveYAML, Deploy, Edit, Keys, InForce, Resolved
<1>10. ASSUME NEW k \in Timeouts, NEW t, WriteYAML(k, t) \/ SetTimeout(k, t) PROVE Keys'
  BY <1>1, <1>10 DEF WriteYAML, SetTimeout, Edit, Keys, InForce, Resolved
<1>11. ASSUME NEW s \in Secrets,
              WriteSecret(s) \/ \E v \in {"empty", "operator"} : SetSecret(s, v)
       PROVE  Keys'
  <2>1. /\ phase = "off" /\ phase' = "off" /\ UNCHANGED <<config, files>>
        /\ signing' = Unsigned(s)
    BY <1>11 DEF WriteSecret, SetSecret, Edit
  <2>2. \/ dotenv' = [dotenv EXCEPT ![s] = "operator"] /\ UNCHANGED secretEnv
        \/ \E v \in {"empty", "operator"} : secretEnv' = [secretEnv EXCEPT ![s] = v] /\ UNCHANGED dotenv
    BY <1>11 DEF WriteSecret, SetSecret, Edit
  <2>3. dotenv' \in [Secrets -> Values] /\ secretEnv' \in [Secrets -> Values]
    BY <1>1, <2>2 DEF Keys
  <2>4. s # "AUTH_HMAC_SECRET" => InForce' = InForce
    BY <1>1, <2>2, SecretNames DEF Keys, InForce, Resolved
  <2>5. QED
    BY <1>1, <2>1, <2>3, <2>4 DEF Keys, Unsigned
<1>13. CASE UNCHANGED vars
  BY <1>1, <1>13 DEF vars, Keys, InForce, Resolved
<1>14. QED
  BY <1>2, <1>3, <1>4, <1>5, <1>6, <1>7, <1>8, <1>9, <1>10, <1>11, <1>13, <1>15
     DEF Next, Starting, Operator
-----------------------------------------------------------------------------
(* The database.                                                           *)

(* The columns the first n migrations add.                                 *)
Added(n) == UNION {Columns[m] : m \in 1..n}

(* What a step means to the schema: nothing, the end of a run, or one of   *)
(* the statements of the migrations.                                       *)
Quiet ==
  /\ UNCHANGED <<release, tables, columns, recorded>>
  /\ \/ UNCHANGED <<applied, why>> /\ (phase' = "off" => phase = "off")
                                   /\ (phase' \in Running => phase \in Running)
     \/ applied' = {} /\ why' # "schema" /\ phase' = "off"
     \/ UNCHANGED applied /\ why' = "none" /\ phase' \in Running /\ Pending = {}

LEMMA SchemaSplit ==
  ASSUME Schema, TypeOK, [Next]_vars
  PROVE  \/ Quiet
         \/ \E t \in DOMAIN Columns : CreateTable(t)
         \/ \E m \in DOMAIN Columns : \E c \in Columns[m] :
              /\ AddColumn(c)
              /\ c \in Columns[Min(Pending)] /\ Pending # {}
              /\ phase = "migrate" /\ UNCHANGED <<phase, why>>
              /\ applied' = applied \cup {c} /\ columns' = columns \cup {c}
              /\ UNCHANGED <<release, tables, recorded>>
         \/ RecordMigration
         \/ Deploy
<1> USE DEF Running, Goto, machine, bounds, active, schema, Quiet
<1>1. CASE CreateYAML \/ FillYAML \/ CreateDotenv \/ FillDotenv \/ KeepFile \/ SchemaEnsured
  BY <1>1 DEF CreateYAML, FillYAML, AfterYAML, CreateDotenv, FillDotenv, KeepFile, SchemaEnsured,
     Create, Keep
<1>2. CASE Load \/ Connect \/ StatementFails \/ Close \/ Crash
  BY <1>2 DEF Load, Connect, StatementFails, Close, Crash, Only, Leave
<1>3. CASE Run \/ BeginShutdown \/ Drained \/ WorkerStopped \/ ServeFails
  BY <1>3 DEF Run, BeginShutdown, Drained, WorkerStopped, ServeFails, Only
<1>4. CASE Request \/ Answer \/ FeedJob \/ FinishJob \/ Purge \/ Signal
  BY <1>4 DEF Request, Answer, FeedJob, FinishJob, Purge, Signal, Only
<1>5. CASE Operator /\ ~Deploy
  BY <1>5 DEF Operator, Launch, RemoveYAML, WriteYAML, SetTimeout, WriteSecret, SetSecret, Edit
<1>6. ASSUME NEW c, AddColumn(c)
      PROVE  /\ c \in Columns[Min(Pending)] /\ Pending # {}
             /\ phase = "migrate" /\ UNCHANGED <<phase, why>>
             /\ applied' = applied \cup {c} /\ columns' = columns \cup {c}
             /\ UNCHANGED <<release, tables, recorded>>
  BY <1>6 DEF AddColumn, Skips
<1>7. CASE UNCHANGED vars
  BY <1>7 DEF vars
<1>8. QED
  BY <1>1, <1>2, <1>3, <1>4, <1>5, <1>6, <1>7 DEF Next, Starting, Stopping

LEMMA SchemaStep ==
  ASSUME PInv, [Next]_vars
  PROVE  /\ Schema'
         /\ recorded' \subseteq 1..release' /\ tables' \subseteq DOMAIN Columns
         /\ columns' \subseteq Added(release')
         /\ applied' \subseteq IF Pending' = {} THEN {} ELSE Columns[Min(Pending')] \cap columns'
<1> USE DEF Running, Goto, machine, bounds, active, schema
<1>1. /\ Schema /\ TypeOK /\ recorded \subseteq 1..release /\ tables \subseteq DOMAIN Columns
      /\ columns \subseteq Added(release)
      /\ applied \subseteq IF Pending = {} THEN {} ELSE Columns[Min(Pending)] \cap columns
  BY DEF PInv, TypeOK, Added
<1>2. Len(Columns) \in Nat /\ DOMAIN Columns = 1..Len(Columns)
  BY ProcessAssumption
<1>3. release \in 0..Len(Columns) /\ release \in Nat
  BY <1>1, <1>2 DEF Schema
<1>4. CASE Quiet
  <2>1. UNCHANGED <<release, tables, columns, recorded>> /\ Pending' = Pending
    BY <1>4 DEF Quiet, Pending
  <2>2. applied' \in {applied, {}}
    BY <1>4 DEF Quiet
  <2>3. phase' \in Running => recorded = 1..release
    BY <1>1, <1>4 DEF Quiet, Schema, Pending
  <2>4. phase' = "off" => applied' = {}
    BY <1>1, <1>4 DEF Quiet, Schema
  <2>5. why' # "schema"
    BY <1>1, <1>4 DEF Quiet, Schema
  <2>6. Schema'
    BY <1>1, <2>1, <2>3, <2>4, <2>5 DEF Schema
  <2>7. QED
    BY <1>1, <2>1, <2>2, <2>6
<1>5. ASSUME NEW t \in DOMAIN Columns, CreateTable(t)
      PROVE  /\ Schema' /\ UNCHANGED <<recorded, release, applied>> /\ Pending' = Pending
             /\ tables' \subseteq DOMAIN Columns
             /\ columns \subseteq columns' /\ columns' \subseteq Added(release)
  <2>1. /\ tables' = tables \cup {t} /\ UNCHANGED <<recorded, release, applied, why, phase>>
        /\ columns' = columns \cup (IF t <= release THEN Columns[t] ELSE {})
        /\ Pending' = Pending
    BY <1>5 DEF CreateTable, Pending
  <2>2. t \in 1..Len(Columns)
    BY <1>2
  <2>3. CASE t <= release
    <3>1. t \in 1..release
      BY <1>2, <1>3, <2>2, <2>3
    <3>2. Columns[t] \subseteq Added(release)
      BY <3>1 DEF Added
    <3>3. QED
      BY <1>1, <2>1, <2>3, <3>2 DEF Schema
  <2>4. CASE ~(t <= release)
    BY <1>1, <2>1, <2>4 DEF Schema
  <2>5. QED
    BY <2>3, <2>4
<1>6. ASSUME NEW c, c \in Columns[Min(Pending)], Pending # {},
             phase = "migrate", UNCHANGED <<phase, why>>,
             applied' = applied \cup {c}, columns' = columns \cup {c},
             UNCHANGED <<release, tables, recorded>>
      PROVE  /\ Schema' /\ columns' \subseteq Added(release')
             /\ applied' \subseteq IF Pending' = {} THEN {} ELSE Columns[Min(Pending')] \cap columns'
  <2>1. Min(Pending) \in 1..release
    BY <1>1, <1>3, <1>6, PendingFacts
  <2>2. c \in Added(release)
    BY <1>6, <2>1 DEF Added
  <2>3. Pending' = Pending
    BY <1>6 DEF Pending
  <2>4. QED
    BY <1>1, <1>6, <2>2, <2>3 DEF Schema
<1>7. CASE RecordMigration
  <2>1. /\ Pending # {} /\ applied = Columns[Min(Pending)]
        /\ recorded' = recorded \cup {Min(Pending)} /\ applied' = {}
        /\ UNCHANGED <<release, tables, columns, phase, why>> /\ phase = "migrate"
    BY <1>7 DEF RecordMigration
  <2>2. Min(Pending) \in 1..release
    BY <1>1, <1>3, <2>1, PendingFacts
  <2>3. Columns[Min(Pending)] \subseteq columns
    BY <1>1, <2>1
  <2>4. QED
    BY <1>1, <2>1, <2>2, <2>3 DEF Schema
<1>8. CASE Deploy
  <2>1. /\ phase = "off" /\ release < Len(Columns) /\ release' = release + 1
        /\ UNCHANGED <<tables, columns, recorded, phase, applied, why>>
    BY <1>8 DEF Deploy
  <2>2. release' \in 0..Len(Columns) /\ 1..release \subseteq 1..release'
    BY <1>2, <1>3, <2>1
  <2>3. Added(release) \subseteq Added(release')
    BY <2>2 DEF Added
  <2>4. applied' = {}
    BY <1>1, <2>1 DEF Schema
  <2>5. Schema'
    BY <1>1, <2>1, <2>2, <2>4 DEF Schema
  <2>6. QED
    BY <1>1, <2>1, <2>2, <2>3, <2>4, <2>5
<1>9. QED
  <2>1. CASE \E t \in DOMAIN Columns : CreateTable(t)
    BY <1>1, <1>5, <2>1
  <2>2. CASE \E m \in DOMAIN Columns : \E c \in Columns[m] :
               /\ AddColumn(c)
               /\ c \in Columns[Min(Pending)] /\ Pending # {}
               /\ phase = "migrate" /\ UNCHANGED <<phase, why>>
               /\ applied' = applied \cup {c} /\ columns' = columns \cup {c}
               /\ UNCHANGED <<release, tables, recorded>>
    BY <1>1, <1>6, <2>2
  <2>3. CASE RecordMigration
    <3>1. recorded' \subseteq 1..release' /\ UNCHANGED <<release, tables, columns>>
      BY <1>1, <1>3, <2>3, PendingFacts DEF RecordMigration
    <3>2. applied' = {}
      BY <2>3 DEF RecordMigration
    <3>3. QED
      BY <1>1, <1>7, <2>3, <3>1, <3>2
  <2>4. QED
    BY <1>1, <1>4, <1>8, <2>1, <2>2, <2>3, SchemaSplit
-----------------------------------------------------------------------------
(* The end of a run.                                                       *)

(* The rest of the type invariant: what a process leaves behind in memory  *)
(* is nothing.                                                             *)
Counts ==
  /\ files \subseteq {"config.yaml", ".env"}
  /\ requests \in 0..MaxActive /\ jobs \in 0..MaxActive
  /\ phase = "off" => config.secret = "none" /\ active = <<0, 0, FALSE>> /\ ~signalled

LEMMA EndingStep ==
  ASSUME PInv, [Next]_vars
  PROVE  Ending' /\ Counts'
<1> USE DEF Goto, machine, bounds, active, schema
<1>1. /\ Ending /\ Counts /\ MaxActive \in Nat
      /\ phase = "off" => config.secret = "none" /\ requests = 0 /\ jobs = 0 /\ purging = FALSE
                            /\ ~signalled
  BY ProcessAssumption DEF PInv, TypeOK, Counts
<1>2. ASSUME NEW reason, Leave(reason), UNCHANGED files PROVE Ending' /\ Counts'
  <2>1. /\ phase' = "off" /\ config'.secret = "none" /\ requests' = 0 /\ jobs' = 0
        /\ active' = <<0, 0, FALSE>> /\ ~signalled'
    BY <1>2 DEF Leave
  <2>2. files' \subseteq {"config.yaml", ".env"} /\ 0 \in 0..MaxActive
    BY <1>1, <1>2 DEF Counts
  <2> HIDE DEF active
  <2>3. QED
    BY <2>1, <2>2 DEF Ending, Counts
<1>3. ASSUME UNCHANGED <<active, excused, signalled>>,
             phase' \in {"off", "stop", "close"} => phase' = phase /\ UNCHANGED config,
             files' \subseteq {"config.yaml", ".env"}
      PROVE  Ending' /\ Counts'
  BY <1>1, <1>3 DEF Ending, Counts
<1>4. CASE CreateYAML \/ FillYAML \/ CreateDotenv \/ FillDotenv \/ KeepFile \/ SchemaEnsured
  <2>1. /\ UNCHANGED <<requests, jobs, purging, excused, signalled>>
        /\ phase' \in {"fillYaml", "fillDotenv", "dotenv", "load", "migrate"}
        /\ files' \subseteq files \cup {"config.yaml", ".env"}
    BY <1>4 DEF CreateYAML, FillYAML, AfterYAML, CreateDotenv, FillDotenv, KeepFile,
       SchemaEnsured, Create, Keep
  <2>2. QED
    BY <1>1, <1>3, <2>1 DEF Counts
<1>5. CASE Load \/ Connect \/ StatementFails \/ Close \/ Crash
             \/ (\E m \in DOMAIN Columns : \E c \in Columns[m] : AddColumn(c))
  <2>1. /\ UNCHANGED files
        /\ \/ \E reason : Leave(reason)
           \/ UNCHANGED <<requests, jobs, purging, excused, signalled>>
              /\ (phase' \in {"connect", "tables"} \/ (phase' = phase /\ UNCHANGED config))
    BY <1>5 DEF Load, Connect, StatementFails, Close, Crash, AddColumn
  <2>2. QED
    BY <1>1, <1>2, <1>3, <2>1 DEF Counts
<1>6. CASE Run \/ ServeFails \/ BeginShutdown
  <2>1. /\ UNCHANGED <<files, requests, jobs, signalled>>
        /\ phase' \in {"up", "drain"} \/ (phase' = "stop" /\ excused')
    BY <1>6 DEF Run, ServeFails, BeginShutdown, Only
  <2>2. QED
    BY <1>1, <2>1 DEF Ending, Counts
<1>7. CASE Drained \/ WorkerStopped
  <2>1. /\ UNCHANGED <<files, requests, jobs, signalled>>
        /\ \/ /\ phase = "drain" /\ phase' = "stop"
              /\ \/ requests = 0
                 \/ excused'
           \/ /\ phase = "stop" /\ phase' = "close"
              /\ \/ jobs = 0 /\ UNCHANGED excused
                 \/ excused'
    BY <1>7 DEF Drained, WorkerStopped, Only, Awaits, OutOfTime
  <2>2. QED
    BY <1>1, <2>1 DEF Ending, Counts
<1>8. CASE Request \/ FeedJob
  <2>1. /\ UNCHANGED <<files, phase, signalled>> /\ phase = "up"
        /\ requests' = requests \/ (requests < MaxActive /\ requests' = requests + 1)
        /\ jobs' = jobs \/ (jobs < MaxActive /\ jobs' = jobs + 1)
    BY <1>8 DEF Request, FeedJob, Feeding, Only
  <2>2. QED
    BY <1>1, <2>1 DEF Ending, Counts
<1>9. CASE Answer \/ FinishJob
  <2>1. /\ UNCHANGED <<files, phase, signalled, excused, config>>
        /\ \/ requests > 0 /\ requests' = requests - 1 /\ jobs' = jobs
           \/ jobs > 0 /\ jobs' = jobs - 1 /\ requests' = requests
    BY <1>9 DEF Answer, FinishJob, Only
  <2>2. requests \in 0..MaxActive /\ jobs \in 0..MaxActive
    BY <1>1 DEF Counts
  <2>3. phase # "off"
    BY <1>1, <2>1
  <2>4. requests' \in 0..MaxActive /\ jobs' \in 0..MaxActive
    BY <1>1, <2>1, <2>2
  <2>5. /\ requests = 0 => requests' = 0
        /\ jobs = 0 => jobs' = 0
    BY <2>1
  <2>6. QED
    BY <1>1, <2>1, <2>3, <2>4, <2>5 DEF Ending, Counts
<1>10. CASE Purge \/ Signal
  <2>1. /\ UNCHANGED <<files, phase, requests, jobs, excused, config>>
        /\ phase # "off"
    BY <1>1, <1>10 DEF Purge, Signal, Only, Running
  <2>2. QED
    BY <1>1, <2>1 DEF Ending, Counts
<1>11. CASE (\E t \in DOMAIN Columns : CreateTable(t)) \/ RecordMigration \/ UNCHANGED vars
  BY <1>1, <1>3, <1>11 DEF CreateTable, RecordMigration, vars, Counts
<1>12. CASE Operator
  <2>1. /\ UNCHANGED <<requests, jobs, purging, excused, signalled, config>>
        /\ phase' = phase \/ phase' = "yaml"
        /\ files' \subseteq files
    BY <1>12 DEF Operator, Launch, RemoveYAML, Deploy, WriteYAML, SetTimeout, WriteSecret,
       SetSecret, Edit
  <2>2. QED
    BY <1>1, <1>3, <2>1 DEF Counts
<1>13. QED
  BY <1>4, <1>5, <1>6, <1>7, <1>8, <1>9, <1>10, <1>11, <1>12 DEF Next, Starting, Stopping
-----------------------------------------------------------------------------
LEMMA NextP == PInv /\ [Next]_vars => PInv'
<1> SUFFICES ASSUME PInv, [Next]_vars PROVE PInv'
  OBVIOUS
<1>1. Keys' /\ Ending' /\ Counts'
  BY KeysStep, EndingStep
<1>2. /\ Schema'
      /\ recorded' \subseteq 1..release' /\ tables' \subseteq DOMAIN Columns
      /\ columns' \subseteq Added(release')
      /\ applied' \subseteq IF Pending' = {} THEN {} ELSE Columns[Min(Pending')] \cap columns'
  BY SchemaStep
<1>3. TypeOK'
  BY <1>1, <1>2 DEF TypeOK, Counts, Added
<1>4. QED
  BY <1>1, <1>2, <1>3 DEF PInv

(* In every reachable state the three invariants and the types hold.       *)
THEOREM ProcessInvariance == Spec => []PInv
<1>1. QED
  BY InitP, NextP, PTL DEF Spec

(* The signing secret of one run is that of the next, unless the operator  *)
(* changes it: through crashes between the creation of a file and its      *)
(* contents, a config.yaml written again and empty environment variables   *)
(* (config/main.go Load and writeEnv).                                     *)
THEOREM SecretIsKept == Spec => []SecretKept
<1>1. PInv => SecretKept
  BY DEF PInv, Keys, SecretKept, Phases
<1>2. QED
  BY <1>1, ProcessInvariance, PTL

(* Whatever serves requests or works on jobs has a configuration that was  *)
(* validated as a whole and a database with every column of its release,   *)
(* and no crash within the migrations keeps the program from starting      *)
(* again (config/main.go Validate, database/migrations.go RunMigrations).  *)
THEOREM ServesWhenReady == Spec => []UpIsReady
<1>1. PInv => UpIsReady
  <2> SUFFICES ASSUME PInv PROVE UpIsReady
    OBVIOUS
  <2>1. UpIsSound
    BY DEF PInv, Keys, UpIsSound
  <2>2. Migrated
    BY DEF PInv, Schema, Migrated
  <2>3. QED
    BY <2>1, <2>2 DEF PInv, UpIsReady, Schema, StartsAgain
<1>2. QED
  BY <1>1, ProcessInvariance, PTL

(* Close runs after the requests were answered and the processors are      *)
(* done, however signals, requests, jobs and failures interleave, or when  *)
(* a deadline has passed or the server had failed (app.go Run, worker.go   *)
(* Stop).                                                                  *)
THEOREM ClosesLast == Spec => []NothingCutOff
<1>1. PInv => NothingCutOff
  BY DEF PInv, Ending, NothingCutOff
<1>2. QED
  BY <1>1, ProcessInvariance, PTL
=============================================================================
