------------------------------ MODULE Startup -------------------------------
(***************************************************************************)
(* Instances of the server that start on one database (cmd/server/main.go, *)
(* internal/infra/config, internal/infra/postgres): each loads its         *)
(* configuration, migrates the database if it uses one, opens its stores   *)
(* and begins to serve, or exits.  Nothing in the code keeps two of them   *)
(* from migrating at a time; the database does, by making one wait for the *)
(* other where both create the same thing.                                 *)
(*                                                                         *)
(* An instance that has exited comes back only when somebody starts it     *)
(* again: docker-compose.yml has no restart policy for it.                 *)
(***************************************************************************)
EXTENDS Naturals, FiniteSets

CONSTANTS
    Instances,
    Deployments,    \* the settings that the instances may be given, see Settings
    LastVersion,    \* migrations.go has versions 1 .. LastVersion
    MaxFaults       \* bound: failures of calls, and crashes

VARIABLES
    settings,       \* of each instance: its configuration file and environment
    config,         \* the configuration that each instance has loaded
    pc,             \* how far each instance has got
    next,           \* the migration each instance is to apply next
    writing,        \* the migration in each instance's open transaction, or 0
    table,          \* whether the database has the table `migrations'
    applied,        \* the versions in it
    built,          \* how often what a migration builds has been built
    faults          \* failures so far

database == <<table, applied, built>>
vars == <<settings, config, pc, next, writing, database, faults>>

Versions == 1 .. LastVersion

Keys == {"logLevel", "databaseType", "databaseURI", "blobType", "blobPlace"}

\* A configuration, a file or the environment: "" is a setting that is not set.
\* blobPlace is the path of the disk, or the bucket and region of S3.
NotLoaded == [k \in Keys |-> ""]

\* The configuration file is not there, cannot be read or parsed, or says something.
Settings(s) ==
    /\ s.file \in {"absent", "broken", "read"}
    /\ DOMAIN s.says = Keys
    /\ DOMAIN s.env = Keys

ASSUME StartupAssumption ==
    /\ LastVersion \in Nat
    /\ MaxFaults \in Nat
    /\ \A d \in Deployments :
         DOMAIN d = Instances /\ \A i \in Instances : Settings(d[i])

Stages == {"off", "pool", "creating", "version", "migrate", "commit",
           "stores", "listen", "serving", "exited"}

TypeOK ==
    /\ \A i \in Instances : Settings(settings[i])
    /\ DOMAIN config = Instances
    /\ \A i \in Instances : DOMAIN config[i] = Keys
    /\ pc \in [Instances -> Stages]
    /\ next \in [Instances -> 1 .. LastVersion + 1]
    /\ writing \in [Instances -> {0} \cup Versions]
    /\ table \in BOOLEAN
    /\ applied \in SUBSET Versions
    /\ built \in [Versions -> Nat]
    /\ faults \in 0 .. MaxFaults

\* The database is new, or one that some version of the program has migrated.
Init ==
    /\ settings \in Deployments
    /\ config = [i \in Instances |-> NotLoaded]
    /\ pc = [i \in Instances |-> "off"]
    /\ next = [i \in Instances |-> 1]
    /\ writing = [i \in Instances |-> 0]
    /\ \E v \in 0 .. LastVersion :
         /\ applied = 1 .. v
         /\ built = [m \in Versions |-> IF m <= v THEN 1 ELSE 0]
         /\ table \in (IF v = 0 THEN BOOLEAN ELSE {TRUE})
    /\ faults = 0

-----------------------------------------------------------------------------
(* Configuration.                                                           *)

\* Without a file: nothing is read from the environment, nothing is checked.
DefaultConfig ==
    [k \in Keys |-> CASE k = "logLevel" -> "info"
                      [] k \in {"databaseType", "blobType"} -> "memory"
                      [] OTHER -> ""]

applyEnvOverrides(file, env) ==
    [k \in Keys |-> IF env[k] # "" THEN env[k] ELSE file[k]]

\* Load, when the file can be read.
Loaded(s) ==
    IF s.file = "absent" THEN DefaultConfig
    ELSE LET c == applyEnvOverrides(s.says, s.env)
         IN  IF c["logLevel"] = "" THEN [c EXCEPT !["logLevel"] = "info"] ELSE c

Validate(c) ==
    /\ c["logLevel"] \in {"debug", "info", "warn", "error"}
    /\ c["databaseType"] = "postgres" => c["databaseURI"] # ""
    /\ c["blobType"] \in {"disk", "s3"} => c["blobPlace"] # ""

\* Validate lets every type pass; the stores are made of these only.
Supported(c) ==
    /\ c["databaseType"] \in {"memory", "postgres"}
    /\ c["blobType"] \in {"memory", "disk", "s3"}

Goes(i, stage) == pc' = [pc EXCEPT ![i] = stage]

\* os.Exit, or the end of main: an open transaction ends with its connection.
Exits(i) ==
    /\ Goes(i, "exited")
    /\ writing' = [writing EXCEPT ![i] = 0]

Fault == faults < MaxFaults /\ faults' = faults + 1

LoadConfig(i) ==
    /\ pc[i] = "off"
    /\ settings[i].file # "broken"
    /\ config' = [config EXCEPT ![i] = Loaded(settings[i])]
    /\ LET c == Loaded(settings[i])
       IN  IF settings[i].file # "absent" /\ ~Validate(c) THEN Goes(i, "exited")
           ELSE Goes(i, IF c["databaseType"] = "postgres" THEN "pool" ELSE "stores")
    /\ UNCHANGED <<settings, next, writing, database, faults>>

LoadConfigFails(i) ==
    /\ pc[i] = "off"
    /\ settings[i].file = "broken"
    /\ Goes(i, "exited")
    /\ UNCHANGED <<settings, config, next, writing, database, faults>>

-----------------------------------------------------------------------------
(* runMigrations.                                                           *)

\* CREATE TABLE IF NOT EXISTS does nothing when the table is there.  Two
\* sessions that both find none both create it, and the second one fails.
CreateTableBegins(i) ==
    /\ pc[i] = "pool"
    /\ Goes(i, IF table THEN "version" ELSE "creating")
    /\ UNCHANGED <<settings, config, next, writing, database, faults>>

CreateTableEnds(i) ==
    /\ pc[i] = "creating"
    /\ table' = TRUE
    /\ Goes(i, IF table THEN "exited" ELSE "version")
    /\ UNCHANGED <<settings, config, next, writing, applied, built, faults>>

\* Broken variant: every migration is run at every start.
ReadVersionIgnored(i) ==
    /\ pc[i] = "version"
    /\ next' = [next EXCEPT ![i] = 1]
    /\ Goes(i, "migrate")
    /\ UNCHANGED <<settings, config, writing, database, faults>>

\* The highest version is read outside of any transaction.
ReadVersion(i) ==
    /\ pc[i] = "version"
    /\ \E v \in applied \cup {0} :
         /\ \A m \in applied : m <= v
         /\ next' = [next EXCEPT ![i] = v + 1]
    /\ Goes(i, "migrate")
    /\ UNCHANGED <<settings, config, writing, database, faults>>

\* Another session that creates the same things must end first.
Free(i, v) == \A k \in Instances : writing[k] = v => k = i

\* Broken variant: the migration is not run in the transaction.
MigrateOutside(i) ==
    /\ pc[i] = "migrate"
    /\ next[i] \in Versions
    /\ Free(i, next[i])
    /\ IF built[next[i]] > 0 \/ next[i] \in applied
       THEN Exits(i) /\ UNCHANGED built
       ELSE /\ writing' = [writing EXCEPT ![i] = next[i]]
            /\ built' = [built EXCEPT ![next[i]] = @ + 1]
            /\ Goes(i, "commit")
    /\ UNCHANGED <<settings, config, next, table, applied, faults>>

\* Begin, Up and the insertion of the version, in a transaction: a trigger that
\* is there already, or a version, is an error that ends the process.
Migrate(i) ==
    /\ pc[i] = "migrate"
    /\ next[i] \in Versions
    /\ Free(i, next[i])
    /\ IF built[next[i]] > 0 \/ next[i] \in applied THEN Exits(i)
       ELSE /\ writing' = [writing EXCEPT ![i] = next[i]]
            /\ Goes(i, "commit")
    /\ UNCHANGED <<settings, config, next, database, faults>>

TakesEffect(v) ==
    /\ applied' = applied \cup {v}
    /\ built' = [built EXCEPT ![v] = @ + 1]

Commit(i) ==
    /\ pc[i] = "commit"
    /\ TakesEffect(writing[i])
    /\ writing' = [writing EXCEPT ![i] = 0]
    /\ next' = [next EXCEPT ![i] = @ + 1]
    /\ Goes(i, "migrate")
    /\ UNCHANGED <<settings, config, table, faults>>

\* The commit takes effect, and its answer is lost.
CommitUnanswered(i) ==
    /\ pc[i] = "commit"
    /\ Fault
    /\ TakesEffect(writing[i])
    /\ Exits(i)
    /\ UNCHANGED <<settings, config, next, table>>

\* Broken variant: the loop ends after the first migration it applies.
MigratedSome(i) ==
    /\ pc[i] = "migrate"
    /\ next[i] - 1 \in applied
    /\ Goes(i, "stores")
    /\ UNCHANGED <<settings, config, next, writing, database, faults>>

Migrated(i) ==
    /\ pc[i] = "migrate"
    /\ next[i] \notin Versions
    /\ Goes(i, "stores")
    /\ UNCHANGED <<settings, config, next, writing, database, faults>>

-----------------------------------------------------------------------------
\* The rest of LoadStores, and NewService, which asks the tools for their
\* versions; then the pool runs, before anything is served.
OpenStores(i) ==
    /\ pc[i] = "stores"
    /\ Goes(i, IF Supported(config[i]) THEN "listen" ELSE "exited")
    /\ UNCHANGED <<settings, config, next, writing, database, faults>>

Listen(i) ==
    /\ pc[i] = "listen"
    /\ Goes(i, "serving")
    /\ UNCHANGED <<settings, config, next, writing, database, faults>>

\* A call fails, the port is taken, or the process is killed.
Dies(i) ==
    /\ pc[i] \notin {"off", "exited"}
    /\ Fault
    /\ Exits(i)
    /\ UNCHANGED <<settings, config, next, database>>

\* Somebody starts the instance again.
Restart(i) ==
    /\ pc[i] = "exited"
    /\ Goes(i, "off")
    /\ config' = [config EXCEPT ![i] = NotLoaded]
    /\ next' = [next EXCEPT ![i] = 1]
    /\ UNCHANGED <<settings, writing, database, faults>>

-----------------------------------------------------------------------------
MainStep(i) ==
    \/ LoadConfig(i) \/ LoadConfigFails(i)
    \/ CreateTableBegins(i) \/ CreateTableEnds(i) \/ ReadVersion(i)
    \/ Migrate(i) \/ Commit(i) \/ CommitUnanswered(i) \/ Migrated(i)
    \/ OpenStores(i) \/ Listen(i)

Next == \E i \in Instances : MainStep(i) \/ Dies(i) \/ Restart(i)

Spec == Init /\ [][Next]_vars

\* main goes on; a session that waits for another is woken when that one ends.
FairSpec == Spec /\ \A i \in Instances : WF_vars(MainStep(i))

-----------------------------------------------------------------------------
\* However many instances migrate at a time, and wherever one of them dies: a
\* version is recorded exactly when what it builds is there, built once, and the
\* versions that are recorded have no gap, so that the highest one, all that an
\* instance reads, stands for the rest (migration_runner.go:32-72).
SchemaRecorded ==
    /\ \A v \in Versions : built[v] = (IF v \in applied THEN 1 ELSE 0)
    /\ \A v \in applied : 1 .. v \subseteq applied

\* A pool and a server that use the database find all of it, whoever migrated it
\* (postgres.go:10-23, main.go:31-70).
ServesMigrated ==
    \A i \in Instances :
        pc[i] \in {"stores", "listen", "serving"} /\ config[i]["databaseType"] = "postgres"
            => applied = Versions

Startable(s) ==
    \/ s.file = "absent"
    \/ /\ s.file # "broken"
       /\ Validate(Loaded(s)) /\ Supported(Loaded(s))

\* Unless a call fails or a process is killed, instances that can start do not
\* all give up: of those that race on one database one gets through
\* (migration_runner.go:20-72, main.go:31-35).
SomeoneServes ==
    (\A i \in Instances : Startable(settings[i]))
        => <>(faults > 0 \/ \E i \in Instances : pc[i] = "serving")

\* An instance that can start is not thrown out for ever: however often it loses a
\* race or is killed, and whatever a killed one left in the database, somebody who
\* starts it again each time it exits sees it serve in the end
\* (migration_runner.go:20-72, migrations.go:30-125).
RestartsEnd ==
    \A i \in Instances : Startable(settings[i])
        => <>[](pc[i] = "exited") \/ <>[](pc[i] = "serving")
=============================================================================
