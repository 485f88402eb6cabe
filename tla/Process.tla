------------------------------ MODULE Process -------------------------------
(***************************************************************************)
(* One deployment of the program from its first start on: config.Load      *)
(* generates and layers its files, database brings the schema up to the    *)
(* release, app.go runs the server, the worker and the purge, and a signal *)
(* takes them down again.  Between runs the operator edits the files and   *)
(* the environment, or deploys the next release.                           *)
(*                                                                         *)
(* Of the configuration, two secrets and the two timeouts that Validate    *)
(* relates are kept.  os.WriteFile creates the file and then fills it.     *)
(***************************************************************************)
EXTENDS Integers, Sequences, FiniteSetsExt

CONSTANTS
  Columns,      \* the columns each migration adds, in the order of Migrations()
  Randoms,      \* what generateSecret may draw, each value once
  MaxLaunches,  \* bounds: starts, operator's changes, requests and jobs at a
  MaxEdits,     \* time, statements and listeners that fail
  MaxActive,
  MaxFaults

(* A drawn secret is 32 random bytes in base64, never one of the words the *)
(* validation refuses or the model stands for (config/main.go:475).        *)
ASSUME ProcessAssumption ==
  /\ Columns \in Seq(SUBSET STRING)
  /\ Randoms \cap {"none", "empty", "operator", "CHANGE_ME"} = {}
  /\ {MaxLaunches, MaxEdits, MaxActive, MaxFaults} \subseteq Nat

Secrets  == {"DATABASE_PASSWORD", "AUTH_HMAC_SECRET"}
Timeouts == {"job_timeout", "stuck_job_timeout"}
Releases == 0..Len(Columns)

VARIABLES
  \* the machine
  files,       \* which of config.yaml and .env exist
  yaml, dotenv,          \* their contents
  setting, secretEnv,    \* the environment: overrides of timeouts, secrets
  release,     \* migrations the installed build knows
  \* the database
  tables, columns, recorded,
  \* the process
  phase,
  config,      \* what Load returned: the timeouts and the signing secret
  applied,     \* columns the migration being applied has dealt with
  signalled, worker, requests, jobs, purging,
  \* history and bounds
  signing,     \* the secret of the last run, until the operator changes it
  why,         \* what made the last start fail
  excused,     \* a deadline passed, or the server failed, before the end
  drawn, launches, edits, faults

machine  == <<files, yaml, dotenv, setting, secretEnv, release>>
schema   == <<tables, columns, recorded>>
active   == <<requests, jobs, purging>>
bounds   == <<drawn, launches, edits, faults>>
vars     == <<machine, schema, phase, config, applied, signalled, worker, active,
              signing, why, excused, bounds>>

Unset   == -1
Unparseable == -2
Default == [k \in Timeouts |-> IF k = "job_timeout" THEN 1 ELSE 2]
Unwritten == [k \in Timeouts |-> Unset]
NoSecrets == [s \in Secrets |-> "none"]
Placeholder == "CHANGE_ME"

Goto(p) == phase' = p

-----------------------------------------------------------------------------
(* config.Load.                                                            *)

Missing(f) == f \notin files

Create(f, next) ==
  /\ files' = files \cup {f}
  /\ Goto(next)
  /\ UNCHANGED <<setting, secretEnv, release, schema, config, applied, signalled, worker,
                 active, signing, why, excused, bounds>>

Keep(next) ==
  /\ Goto(next)
  /\ UNCHANGED <<machine, schema, config, applied, signalled, worker, active, signing, why,
                 excused, bounds>>

CreateYAML ==
  /\ phase = "yaml" /\ Missing("config.yaml")
  /\ yaml' = Unwritten /\ UNCHANGED dotenv
  /\ Create("config.yaml", "fillYaml")

CreateDotenv ==
  /\ phase = "dotenv" /\ Missing(".env")
  /\ dotenv' = NoSecrets /\ UNCHANGED yaml
  /\ Create(".env", "fillDotenv")

KeepFile ==
  \/ phase = "yaml" /\ ~Missing("config.yaml") /\ Keep("dotenv")
  \/ phase = "dotenv" /\ ~Missing(".env") /\ Keep("load")

(* Mutant of AfterYAML: both files are written, whichever is missing.      *)
BothFiles == "fillDotenv"

AfterYAML == "dotenv"

(* buildYAMLTree leaves the secrets out.                                   *)
FillYAML ==
  /\ phase = "fillYaml"
  /\ yaml' = Default
  /\ Goto(AfterYAML)
  /\ UNCHANGED <<files, dotenv, setting, secretEnv, release, schema, config, applied,
                 signalled, worker, active, signing, why, excused, bounds>>

(* collectSecrets: the signing secret is drawn, the password is asked for  *)
(* on a terminal and a placeholder elsewhere.                              *)
FillDotenv ==
  /\ phase = "fillDotenv"
  /\ \E r \in Randoms \ drawn, typed \in {"operator", Placeholder} :
       /\ dotenv' = [s \in Secrets |-> IF s = "AUTH_HMAC_SECRET" THEN r ELSE typed]
       /\ drawn' = drawn \cup {r}
  /\ Goto("load")
  /\ UNCHANGED <<files, yaml, setting, secretEnv, release, schema, config, applied, signalled,
                 worker, active, signing, why, excused, launches, edits, faults>>

(* loadEnvOverrides for a timeout: a value setScalar cannot parse changes  *)
(* nothing.                                                                *)
Layered(k) ==
  CASE setting[k] >= 0   -> setting[k]
    [] yaml[k] # Unset   -> yaml[k]
    [] OTHER             -> Default[k]

(* godotenv sets only what the environment does not have, so a variable    *)
(* that is there but empty hides the one in the file.                      *)
Resolved(s) == IF secretEnv[s] = "none" THEN dotenv[s] ELSE secretEnv[s]

(* validateSecrets and Validate.                                           *)
Validated ==
  /\ \A s \in Secrets : Resolved(s) \notin {"none", "empty", Placeholder}
  /\ Layered("stuck_job_timeout") > Layered("job_timeout")

Leave(reason) ==
  /\ Goto("off")
  /\ config' = [timeouts |-> Default, secret |-> "none"]
  /\ applied' = {} /\ signalled' = FALSE /\ excused' = FALSE
  /\ requests' = 0 /\ jobs' = 0 /\ purging' = FALSE
  /\ why' = reason

Load ==
  /\ phase = "load"
  /\ \/ /\ Validated
        /\ config' = [timeouts |-> [k \in Timeouts |-> Layered(k)],
                      secret |-> Resolved("AUTH_HMAC_SECRET")]
        /\ Goto("connect")
        /\ UNCHANGED <<applied, signalled, active, why, excused>>
     \/ ~Validated /\ Leave("configuration")
  /\ UNCHANGED <<machine, schema, worker, signing, bounds>>

-----------------------------------------------------------------------------
(* database: Connect, Migrate, RunMigrations.                              *)

Database == {"connect", "tables", "migrate"}

(* Connect is the last step of a start that looks at the signal.           *)
Connect ==
  /\ phase = "connect"
  /\ \/ ~signalled /\ Goto("tables") /\ UNCHANGED <<config, applied, signalled, active, why, excused>>
     \/ signalled /\ Leave("signal")
  /\ UNCHANGED <<machine, schema, worker, signing, bounds>>

(* A statement fails, or the connection.                                   *)
StatementFails ==
  /\ phase \in Database
  /\ faults < MaxFaults /\ faults' = faults + 1
  /\ Leave("database")
  /\ UNCHANGED <<machine, schema, worker, signing, drawn, launches, edits>>

(* CREATE TABLE IF NOT EXISTS with every column of this release.           *)
CreateTable(t) ==
  /\ phase = "tables" /\ t \notin tables
  /\ tables' = tables \cup {t}
  /\ columns' = columns \cup (IF t <= release THEN Columns[t] ELSE {})
  /\ UNCHANGED <<machine, recorded, phase, config, applied, signalled, worker, active, signing,
                 why, excused, bounds>>

SchemaEnsured ==
  /\ phase = "tables" /\ tables = DOMAIN Columns
  /\ Keep("migrate")

Pending == (1..release) \ recorded

(* Mutant of Skips: AddColumn does not look for the column.                *)
NeverSkips(c) == FALSE

Skips(c) == c \in columns

(* AddColumn; a map has no order.  ALTER TABLE fails on a column the table *)
(* already has.                                                            *)
AddColumn(c) ==
  /\ phase = "migrate" /\ Pending # {} /\ c \in Columns[Min(Pending)] \ applied
  /\ IF ~Skips(c) /\ c \in columns
     THEN Leave("schema") /\ UNCHANGED columns
     ELSE /\ applied' = applied \cup {c}
          /\ columns' = columns \cup {c}
          /\ UNCHANGED <<phase, config, signalled, active, why, excused>>
  /\ UNCHANGED <<machine, tables, recorded, worker, signing, bounds>>

RecordMigration ==
  /\ phase = "migrate" /\ Pending # {} /\ applied = Columns[Min(Pending)]
  /\ recorded' = recorded \cup {Min(Pending)}
  /\ applied' = {}
  /\ UNCHANGED <<machine, tables, columns, phase, config, signalled, worker, active, signing,
                 why, excused, bounds>>

-----------------------------------------------------------------------------
(* App.Run and Close.                                                      *)

Running == {"up", "drain", "stop", "close"}

(* The rest of NewApp, the purge, worker.Start (without ffmpeg there is no *)
(* worker) and server.Start.  A port that is taken skips the shutdown of   *)
(* the server.                                                             *)
Run ==
  /\ phase = "migrate" /\ Pending = {}
  /\ worker' \in BOOLEAN
  /\ purging' = TRUE
  /\ signing' = config.secret
  /\ why' = "none"
  /\ \/ Goto("up") /\ UNCHANGED <<excused, faults>>
     \/ faults < MaxFaults /\ faults' = faults + 1 /\ Goto("stop") /\ excused' = TRUE
  /\ UNCHANGED <<machine, schema, config, applied, signalled, requests, jobs, drawn, launches,
                 edits>>

Only(changed) ==
  /\ changed
  /\ UNCHANGED <<machine, schema, config, applied, worker, signing, why, bounds>>

Request == Only(
  /\ phase = "up" /\ requests < MaxActive
  /\ requests' = requests + 1
  /\ UNCHANGED <<phase, signalled, jobs, purging, excused>>)

Answer == Only(
  /\ requests > 0
  /\ requests' = requests - 1
  /\ UNCHANGED <<phase, signalled, jobs, purging, excused>>)

(* The dispatcher stops at the signal or when Stop closes its channel.     *)
Feeding == worker /\ ~signalled /\ phase = "up"

(* A claimed batch is fed to the processors, which finish what they got.   *)
FeedJob == Only(
  /\ Feeding /\ jobs < MaxActive
  /\ jobs' = jobs + 1
  /\ UNCHANGED <<phase, signalled, requests, purging, excused>>)

FinishJob == Only(
  /\ jobs > 0
  /\ jobs' = jobs - 1
  /\ UNCHANGED <<phase, signalled, requests, purging, excused>>)

(* purgeExpired: at the start and on the hour, awaited by nobody.          *)
Purge == Only(
  /\ \/ purging /\ purging' = FALSE
     \/ phase \in Running /\ ~signalled /\ ~purging /\ purging' = TRUE
  /\ UNCHANGED <<phase, signalled, requests, jobs, excused>>)

Signal == Only(
  /\ phase # "off" /\ ~signalled
  /\ signalled' = TRUE
  /\ UNCHANGED <<phase, active, excused>>)

BeginShutdown == Only(
  /\ phase = "up" /\ signalled
  /\ Goto("drain")
  /\ UNCHANGED <<signalled, active, excused>>)

(* server.Run returns the error without a Shutdown.                        *)
ServeFails ==
  /\ phase = "up"
  /\ faults < MaxFaults /\ faults' = faults + 1
  /\ Goto("stop") /\ excused' = TRUE
  /\ UNCHANGED <<machine, schema, config, applied, signalled, worker, active, signing, why,
                 drawn, launches, edits>>

(* Mutant of Awaits: Shutdown and Stop return at once.                     *)
AwaitsNothing(n) == TRUE

Awaits(n) == n = 0

(* Mutant of OutOfTime: the wait has no deadline.                          *)
NoDeadline(n) == FALSE

OutOfTime(n) == n > 0

(* Shutdown returns when the requests are answered or its time is up, and  *)
(* Stop when the processors are done or ShutdownGrace has passed.          *)
Drained == Only(
  /\ phase = "drain"
  /\ \/ Awaits(requests) /\ UNCHANGED excused
     \/ OutOfTime(requests) /\ excused' = TRUE
  /\ Goto("stop")
  /\ UNCHANGED <<signalled, active>>)

WorkerStopped == Only(
  /\ phase = "stop"
  /\ \/ Awaits(jobs) /\ UNCHANGED excused
     \/ OutOfTime(jobs) /\ excused' = TRUE
  /\ Goto("close")
  /\ UNCHANGED <<signalled, active>>)

Close ==
  /\ phase = "close"
  /\ Leave("none")
  /\ UNCHANGED <<machine, schema, worker, signing, bounds>>

(* The process dies at any point.                                          *)
Crash ==
  /\ phase # "off"
  /\ faults < MaxFaults /\ faults' = faults + 1
  /\ Leave("crash")
  /\ UNCHANGED <<machine, schema, worker, signing, drawn, launches, edits>>

-----------------------------------------------------------------------------
(* Between runs.                                                           *)

Launch ==
  /\ phase = "off" /\ launches < MaxLaunches
  /\ launches' = launches + 1
  /\ Goto("yaml")
  /\ UNCHANGED <<machine, schema, config, applied, signalled, worker, active, signing, why,
                 excused, drawn, edits, faults>>

Edit(changed) ==
  /\ phase = "off" /\ edits < MaxEdits
  /\ edits' = edits + 1
  /\ changed
  /\ UNCHANGED <<schema, phase, config, applied, signalled, worker, active, why, excused,
                 drawn, launches, faults>>

WriteYAML(k, t) == Edit(
  /\ "config.yaml" \in files
  /\ yaml' = [yaml EXCEPT ![k] = t]
  /\ UNCHANGED <<files, dotenv, setting, secretEnv, release, signing>>)

Unsigned(s) == IF s = "AUTH_HMAC_SECRET" THEN "none" ELSE signing

WriteSecret(s) == Edit(
  /\ ".env" \in files
  /\ dotenv' = [dotenv EXCEPT ![s] = "operator"]
  /\ signing' = Unsigned(s)
  /\ UNCHANGED <<files, yaml, setting, secretEnv, release>>)

(* The operator has config.yaml written again, the .env stays.             *)
RemoveYAML == Edit(
  /\ "config.yaml" \in files
  /\ files' = files \ {"config.yaml"} /\ yaml' = Unwritten
  /\ UNCHANGED <<dotenv, setting, secretEnv, release, signing>>)

SetTimeout(k, t) == Edit(
  /\ setting' = [setting EXCEPT ![k] = t]
  /\ UNCHANGED <<files, yaml, dotenv, secretEnv, release, signing>>)

SetSecret(s, v) == Edit(
  /\ secretEnv' = [secretEnv EXCEPT ![s] = v]
  /\ signing' = Unsigned(s)
  /\ UNCHANGED <<files, yaml, dotenv, setting, release>>)

Deploy ==
  /\ phase = "off" /\ release < Len(Columns)
  /\ release' = release + 1
  /\ UNCHANGED <<files, yaml, dotenv, setting, secretEnv, schema, phase, config, applied,
                 signalled, worker, active, signing, why, excused, bounds>>

Init ==
  /\ files = {} /\ yaml = Unwritten /\ dotenv = NoSecrets
  /\ setting = Unwritten
  /\ secretEnv \in {NoSecrets, [NoSecrets EXCEPT !["DATABASE_PASSWORD"] = "operator"]}
  /\ release = 0
  /\ tables = {} /\ columns = {} /\ recorded = {}
  /\ phase = "off" /\ config = [timeouts |-> Default, secret |-> "none"] /\ applied = {}
  /\ signalled = FALSE /\ worker = FALSE /\ requests = 0 /\ jobs = 0 /\ purging = FALSE
  /\ signing = "none" /\ why = "none" /\ excused = FALSE
  /\ drawn = {} /\ launches = 0 /\ edits = 0 /\ faults = 0

Starting ==
  \/ CreateYAML \/ FillYAML \/ CreateDotenv \/ FillDotenv \/ KeepFile \/ Load
  \/ Connect \/ (\E t \in DOMAIN Columns : CreateTable(t)) \/ SchemaEnsured
  \/ (\E m \in DOMAIN Columns : \E c \in Columns[m] : AddColumn(c)) \/ RecordMigration
  \/ Run

Stopping == BeginShutdown \/ Drained \/ WorkerStopped \/ Close

Operator ==
  \/ Launch \/ RemoveYAML \/ Deploy
  \/ \E k \in Timeouts : \/ \E t \in {Unset, 1, 2} : WriteYAML(k, t)
                         \/ \E t \in {Unparseable, 1, 2} : SetTimeout(k, t)
  \/ \E s \in Secrets : WriteSecret(s) \/ \E v \in {"empty", "operator"} : SetSecret(s, v)

Next ==
  \/ Starting \/ Stopping \/ Operator
  \/ Request \/ Answer \/ FeedJob \/ FinishJob \/ Purge
  \/ Signal \/ StatementFails \/ ServeFails \/ Crash

Spec == Init /\ [][Next]_vars

(* The process goes on as long as it is alive: every wait of its start is  *)
(* for a statement or a file, every wait of its end has a deadline.        *)
Fairness == WF_vars(Starting) /\ WF_vars(Stopping)

FairSpec == Spec /\ Fairness
-----------------------------------------------------------------------------
(* Every variable keeps its type; nothing of a run outlives it.            *)
TypeOK ==
  /\ files \subseteq {"config.yaml", ".env"}
  /\ recorded \subseteq 1..release /\ tables \subseteq DOMAIN Columns
  /\ columns \subseteq UNION {Columns[m] : m \in 1..release}
  /\ requests \in 0..MaxActive /\ jobs \in 0..MaxActive
  /\ applied \subseteq IF Pending = {} THEN {} ELSE Columns[Min(Pending)] \cap columns
  /\ phase = "off" => config.secret = "none" /\ active = <<0, 0, FALSE>> /\ ~signalled

(* A start with a secret the last run signed with still has it: neither a  *)
(* crash while the files are written nor a config.yaml written again       *)
(* replaces the .env (config/main.go:79).                                  *)
SecretKept == config.secret = "none" \/ signing \in {"none", config.secret}

(* No connection is opened, and nothing served, with a missing secret, a   *)
(* placeholder, or a stuck timeout that would requeue a job still being    *)
(* encoded, whichever of the layers the values came from                   *)
(* (config/main.go:370).                                                   *)
UpIsSound ==
  phase \in Database \cup Running =>
    /\ config.secret \notin {"none", "empty", Placeholder}
    /\ config.timeouts["stuck_job_timeout"] > config.timeouts["job_timeout"]

(* Requests and jobs meet a database with every column of their release,   *)
(* also after starts that died anywhere in the migrations.                 *)
Migrated ==
  phase \in Running =>
    /\ UNION {Columns[m] : m \in 1..release} \subseteq columns
    /\ recorded = 1..release

(* "Apply must be idempotent" (database/migrations.go:13): no migration    *)
(* that died between its columns or before its record stops later starts.  *)
StartsAgain == why # "schema"

(* Nothing is served before its configuration is sound and its database    *)
(* migrated, and nothing that died in a migration stops a later start.     *)
UpIsReady == TypeOK /\ UpIsSound /\ Migrated /\ StartsAgain

(* The database is closed under a request or a job only when a deadline    *)
(* had passed or the server had failed by itself.                          *)
NothingCutOff == phase = "close" /\ ~excused => requests = 0 /\ jobs = 0

(* After the signal the process ends, whatever it was doing.               *)
Stops == signalled ~> phase = "off"
=============================================================================
