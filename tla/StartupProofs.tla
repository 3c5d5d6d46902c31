--------------------------- MODULE StartupProofs ----------------------------
(***************************************************************************)
(* Proofs about Startup.tla, for any number of instances and migrations:   *)
(* the schema and the record of it agree whatever fails, and nothing is    *)
(* opened on a database that is not fully migrated.                        *)
(***************************************************************************)
EXTENDS Startup, TLAPS

\* What is open is what the instance is to commit, is in nobody else's
\* transaction and not in the database yet; and whatever an instance takes for
\* done, because it read a later version or did it itself, is done.
IndInv ==
    /\ TypeOK
    /\ SchemaRecorded
    /\ ServesMigrated
    /\ \A i \in Instances : pc[i] = "commit" <=> writing[i] # 0
    /\ \A i \in Instances : writing[i] # 0 =>
         /\ writing[i] = next[i]
         /\ writing[i] \notin applied
         /\ Free(i, writing[i])
    /\ \A i \in Instances : pc[i] \in {"migrate", "commit"} =>
         \A v \in Versions : v < next[i] => v \in applied

\* A new database, or one that is migrated up to some version.
LEMMA InitInv == Init => IndInv
<1> SUFFICES ASSUME Init PROVE IndInv
  OBVIOUS
<1>1. TypeOK
  <2>1. \A i \in Instances : Settings(settings[i])
    BY StartupAssumption DEF Init
  <2>2. /\ DOMAIN config = Instances
        /\ \A i \in Instances : DOMAIN config[i] = Keys
    BY DEF Init, NotLoaded
  <2>3. /\ pc \in [Instances -> Stages]
        /\ next \in [Instances -> 1 .. LastVersion + 1]
        /\ writing \in [Instances -> {0} \cup Versions]
        /\ faults \in 0 .. MaxFaults
    BY StartupAssumption DEF Init, Stages
  <2>4. PICK v \in 0 .. LastVersion :
          /\ applied = 1 .. v
          /\ built = [m \in Versions |-> IF m <= v THEN 1 ELSE 0]
          /\ table \in (IF v = 0 THEN BOOLEAN ELSE {TRUE})
    BY DEF Init
  <2>5. table \in BOOLEAN
    BY <2>4
  <2>6. applied \in SUBSET Versions /\ built \in [Versions -> Nat]
    BY <2>4, StartupAssumption DEF Versions
  <2> QED
    BY <2>1, <2>2, <2>3, <2>5, <2>6 DEF TypeOK
<1>2. SchemaRecorded
  BY StartupAssumption DEF Init, SchemaRecorded, Versions
<1> QED
  BY <1>1, <1>2 DEF Init, IndInv, ServesMigrated

-----------------------------------------------------------------------------
\* Steps of an instance outside of its migrations: the database stays.
LEMMA ConfigInv ==
    ASSUME IndInv, NEW i \in Instances,
           LoadConfig(i) \/ LoadConfigFails(i) \/ CreateTableBegins(i) \/ CreateTableEnds(i)
    PROVE  IndInv'
<1>1. DOMAIN Loaded(settings[i]) = Keys
  BY DEF Loaded, DefaultConfig, applyEnvOverrides
<1>2. TypeOK'
  <2>1. /\ settings' = settings
        /\ config' = config \/ config' = [config EXCEPT ![i] = Loaded(settings[i])]
        /\ \E stage \in Stages : pc' = [pc EXCEPT ![i] = stage]
        /\ table' = table \/ table' = TRUE
        /\ UNCHANGED <<next, writing, applied, built, faults>>
    BY DEF LoadConfig, LoadConfigFails, CreateTableBegins, CreateTableEnds, Goes, Stages, database
  <2>2. DOMAIN config' = Instances /\ \A k \in Instances : DOMAIN config'[k] = Keys
    <3> DEFINE c == Loaded(settings[i])
    <3>1. DOMAIN c = Keys
      BY <1>1
    <3> HIDE DEF c
    <3> QED
      BY <2>1, <3>1 DEF IndInv, TypeOK, c
  <2>3. pc' \in [Instances -> Stages]
    <3>1. PICK stage \in Stages : pc' = [pc EXCEPT ![i] = stage]
      BY <2>1
    <3>2. pc \in [Instances -> Stages]
      BY DEF IndInv, TypeOK
    <3> QED
      BY <3>1, <3>2
  <2>4. table' \in BOOLEAN
    BY <2>1, ZenonT(30) DEF IndInv, TypeOK
  <2> QED
    BY <2>1, <2>2, <2>3, <2>4 DEF IndInv, TypeOK
<1>3. SchemaRecorded'
  BY DEF IndInv, SchemaRecorded, LoadConfig, LoadConfigFails, CreateTableBegins, CreateTableEnds,
         database
<1>4. ServesMigrated'
  BY <1>1 DEF IndInv, TypeOK, ServesMigrated, LoadConfig, LoadConfigFails, CreateTableBegins,
         CreateTableEnds, Goes, database
<1>5. UNCHANGED <<writing, applied, next>>
  BY DEF LoadConfig, LoadConfigFails, CreateTableBegins, CreateTableEnds, database
<1>6. /\ \A k \in Instances : (pc[k] = "commit") = (pc'[k] = "commit")
      /\ \A k \in Instances : pc'[k] \in {"migrate", "commit"} => pc[k] \in {"migrate", "commit"}
  BY DEF IndInv, TypeOK, LoadConfig, LoadConfigFails, CreateTableBegins, CreateTableEnds, Goes
<1> QED
  BY <1>2, <1>3, <1>4, <1>5, <1>6 DEF IndInv, Free

\* What is below the highest version is done, since the versions have no gap.
LEMMA ReadVersionInv ==
    ASSUME IndInv, NEW i \in Instances, ReadVersion(i)
    PROVE  IndInv'
<1> USE StartupAssumption
<1>1. PICK v \in applied \cup {0} : next' = [next EXCEPT ![i] = v + 1]
  BY DEF ReadVersion
<1>2. /\ v \in Nat /\ v <= LastVersion
      /\ \A m \in Versions : m <= v => m \in applied
  BY DEF IndInv, TypeOK, SchemaRecorded, Versions
<1>3. TypeOK'
  BY <1>1, <1>2 DEF IndInv, TypeOK, ReadVersion, Goes, Stages, database
<1>4. SchemaRecorded'
  BY DEF IndInv, SchemaRecorded, ReadVersion, database
<1>5. ServesMigrated'
  BY DEF IndInv, TypeOK, ServesMigrated, ReadVersion, Goes, database
<1>6. pc[i] = "version" /\ pc' = [pc EXCEPT ![i] = "migrate"] /\ UNCHANGED <<writing, applied>>
  BY DEF ReadVersion, Goes, database
<1>7. \A m \in Versions : m < v + 1 => m \in applied
  BY <1>2 DEF Versions
<1> QED
  BY <1>1, <1>3, <1>4, <1>5, <1>6, <1>7 DEF IndInv, TypeOK, Free

\* A migration is begun only when nobody has it in a transaction, and it is not
\* in the database.
LEMMA MigrateInv ==
    ASSUME IndInv, NEW i \in Instances, Migrate(i)
    PROVE  IndInv'
<1> USE StartupAssumption
<1>1. CASE built[next[i]] > 0 \/ next[i] \in applied
  <2>1. /\ pc' = [pc EXCEPT ![i] = "exited"]
        /\ writing' = [writing EXCEPT ![i] = 0]
        /\ UNCHANGED <<settings, config, next, table, applied, built, faults>>
    BY <1>1 DEF Migrate, Exits, Goes, database
  <2> QED
    BY <2>1 DEF IndInv, TypeOK, Stages, SchemaRecorded, ServesMigrated, Free
<1>2. CASE ~(built[next[i]] > 0 \/ next[i] \in applied)
  <2>1. /\ pc' = [pc EXCEPT ![i] = "commit"]
        /\ writing' = [writing EXCEPT ![i] = next[i]]
        /\ UNCHANGED <<settings, config, next, table, applied, built, faults>>
    BY <1>2 DEF Migrate, Goes, database
  <2>2. /\ pc[i] = "migrate" /\ next[i] \in Versions /\ next[i] \notin applied
        /\ Free(i, next[i])
    BY <1>2 DEF Migrate
  <2>3. TypeOK'
    BY <2>1, <2>2 DEF IndInv, TypeOK, Stages
  <2>4. SchemaRecorded' /\ ServesMigrated'
    BY <2>1 DEF IndInv, TypeOK, SchemaRecorded, ServesMigrated
  <2>5. \A k \in Instances : pc'[k] = "commit" <=> writing'[k] # 0
    BY <2>1, <2>2 DEF IndInv, TypeOK, Versions
  <2>6. \A k \in Instances : writing'[k] # 0 =>
          writing'[k] = next'[k] /\ writing'[k] \notin applied' /\ Free(k, writing[k])'
    BY <2>1, <2>2 DEF IndInv, TypeOK, Free
  <2>7. \A k \in Instances : pc'[k] \in {"migrate", "commit"} =>
          \A v \in Versions : v < next'[k] => v \in applied'
    BY <2>1, <2>2 DEF IndInv, TypeOK
  <2> QED
    BY <2>3, <2>4, <2>5, <2>6, <2>7 DEF IndInv
<1> QED
  BY <1>1, <1>2

\* A commit adds the next version, to a record that has all before it.
LEMMA CommitEffect ==
    ASSUME IndInv, NEW i \in Instances, pc[i] = "commit", TakesEffect(writing[i])
    PROVE  /\ writing[i] \in Versions /\ writing[i] = next[i]
           /\ applied' = applied \cup {next[i]}
           /\ SchemaRecorded'
           /\ applied' \in SUBSET Versions /\ built' \in [Versions -> Nat]
           /\ \A k \in Instances : k # i /\ writing[k] # 0 => writing[k] \notin applied'
           /\ \A v \in Versions : v < next[i] + 1 => v \in applied'
<1> USE StartupAssumption
<1>1. /\ writing[i] \in Versions /\ writing[i] = next[i] /\ writing[i] \notin applied
      /\ Free(i, writing[i])
  BY DEF IndInv, TypeOK
<1>2. /\ applied' = applied \cup {next[i]}
      /\ built' = [built EXCEPT ![next[i]] = @ + 1]
  BY <1>1 DEF TakesEffect
<1>3. \A v \in Versions : v < next[i] => v \in applied
  BY DEF IndInv
<1>4. SchemaRecorded'
  BY <1>1, <1>2, <1>3 DEF IndInv, TypeOK, SchemaRecorded, Versions
<1>5. built' \in [Versions -> Nat]
  <2>1. built \in [Versions -> Nat] /\ next[i] \in Versions
    BY <1>1 DEF IndInv, TypeOK
  <2> QED
    BY <1>2, <2>1
<1>6. applied' \in SUBSET Versions
  BY <1>1, <1>2 DEF IndInv, TypeOK
<1>7. \A k \in Instances : k # i /\ writing[k] # 0 => writing[k] \notin applied'
  BY <1>1, <1>2 DEF IndInv, Free
<1>8. \A v \in Versions : v < next[i] + 1 => v \in applied'
  BY <1>1, <1>2, <1>3 DEF Versions
<1> QED
  BY <1>1, <1>2, <1>4, <1>5, <1>6, <1>7, <1>8

\* The instance goes on after its commit, or ends for want of the answer.
LEMMA CommitInv ==
    ASSUME IndInv, NEW i \in Instances, Commit(i) \/ CommitUnanswered(i)
    PROVE  IndInv'
<1> USE StartupAssumption
<1>1. /\ pc[i] = "commit" /\ TakesEffect(writing[i])
      /\ UNCHANGED <<settings, config, table>>
      /\ faults' \in 0 .. MaxFaults
      /\ writing' = [writing EXCEPT ![i] = 0]
      /\ \/ next' = [next EXCEPT ![i] = @ + 1] /\ pc' = [pc EXCEPT ![i] = "migrate"]
         \/ next' = next /\ pc' = [pc EXCEPT ![i] = "exited"]
  BY DEF Commit, CommitUnanswered, Goes, Exits, Fault, IndInv, TypeOK
<1>2. /\ writing[i] \in Versions /\ writing[i] = next[i]
      /\ applied' = applied \cup {next[i]}
      /\ SchemaRecorded'
      /\ applied' \in SUBSET Versions /\ built' \in [Versions -> Nat]
      /\ \A k \in Instances : k # i /\ writing[k] # 0 => writing[k] \notin applied'
      /\ \A v \in Versions : v < next[i] + 1 => v \in applied'
  BY <1>1, CommitEffect
<1>3. TypeOK'
  <2>1. next[i] + 1 \in 1 .. LastVersion + 1
    BY <1>2 DEF Versions
  <2>2. next \in [Instances -> 1 .. LastVersion + 1]
    BY DEF IndInv, TypeOK
  <2>3. next' \in [Instances -> 1 .. LastVersion + 1]
    BY <1>1, <2>1, <2>2
  <2> QED
    BY <1>1, <1>2, <2>3 DEF IndInv, TypeOK, Stages
<1>4. ServesMigrated'
  BY <1>1, <1>2 DEF IndInv, TypeOK, ServesMigrated
<1>5. \A k \in Instances : pc'[k] = "commit" <=> writing'[k] # 0
  BY <1>1 DEF IndInv, TypeOK
<1>6. \A k \in Instances : writing'[k] # 0 =>
        writing'[k] = next'[k] /\ writing'[k] \notin applied' /\ Free(k, writing[k])'
  BY <1>1, <1>2 DEF IndInv, TypeOK, Free
<1>7. \A k \in Instances : pc'[k] \in {"migrate", "commit"} =>
        \A v \in Versions : v < next'[k] => v \in applied'
  BY <1>1, <1>2 DEF IndInv, TypeOK
<1> QED
  BY <1>2, <1>3, <1>4, <1>5, <1>6, <1>7 DEF IndInv

\* The loop ends when every version is below the next one.
LEMMA MigratedInv ==
    ASSUME IndInv, NEW i \in Instances, Migrated(i)
    PROVE  IndInv'
<1> USE StartupAssumption
<1>1. /\ pc[i] = "migrate" /\ pc' = [pc EXCEPT ![i] = "stores"]
      /\ UNCHANGED <<settings, config, next, writing, table, applied, built, faults>>
  BY DEF Migrated, Goes, database
<1>2. applied = Versions
  <2>1. next[i] \in 1 .. LastVersion + 1 /\ next[i] \notin 1 .. LastVersion
    BY DEF Migrated, IndInv, TypeOK, Versions
  <2>2. \A v \in Versions : v < next[i]
    BY <2>1 DEF Versions
  <2> QED
    BY <1>1, <2>2 DEF IndInv, TypeOK
<1> QED
  BY <1>1, <1>2 DEF IndInv, TypeOK, Stages, SchemaRecorded, ServesMigrated, Free

\* The steps after the migrations, and the ends and starts of a process.
LEMMA OtherInv ==
    ASSUME IndInv, NEW i \in Instances,
           OpenStores(i) \/ Listen(i) \/ Dies(i) \/ Restart(i)
    PROVE  IndInv'
<1> USE StartupAssumption
<1>1. CASE OpenStores(i) \/ Listen(i)
  <2>1. /\ pc[i] \in {"stores", "listen"}
        /\ \E stage \in {"listen", "exited", "serving"} : pc' = [pc EXCEPT ![i] = stage]
        /\ UNCHANGED <<settings, config, next, writing, table, applied, built, faults>>
    BY <1>1 DEF OpenStores, Listen, Goes, database
  <2> QED
    BY <2>1 DEF IndInv, TypeOK, Stages, SchemaRecorded, ServesMigrated, Free
<1>2. CASE Dies(i)
  <2>1. /\ pc' = [pc EXCEPT ![i] = "exited"] /\ writing' = [writing EXCEPT ![i] = 0]
        /\ faults' \in 0 .. MaxFaults
        /\ UNCHANGED <<settings, config, next, table, applied, built>>
    BY <1>2 DEF Dies, Goes, Exits, Fault, database, IndInv, TypeOK
  <2> QED
    BY <2>1 DEF IndInv, TypeOK, Stages, SchemaRecorded, ServesMigrated, Free
<1>3. CASE Restart(i)
  <2>1. /\ pc[i] = "exited" /\ pc' = [pc EXCEPT ![i] = "off"]
        /\ config' = [config EXCEPT ![i] = NotLoaded]
        /\ next' = [next EXCEPT ![i] = 1]
        /\ UNCHANGED <<settings, writing, table, applied, built, faults>>
    BY <1>3 DEF Restart, Goes, database
  <2>2. TypeOK'
    <3>1. /\ DOMAIN config' = Instances
          /\ \A k \in Instances : DOMAIN config'[k] = Keys
      BY <2>1 DEF IndInv, TypeOK, NotLoaded
    <3> QED
      BY <2>1, <3>1 DEF IndInv, TypeOK, Stages
  <2>3. SchemaRecorded' /\ ServesMigrated'
    BY <2>1 DEF IndInv, TypeOK, SchemaRecorded, ServesMigrated
  <2> QED
    BY <2>1, <2>2, <2>3 DEF IndInv, TypeOK, Free
<1> QED
  BY <1>1, <1>2, <1>3

\* Every step keeps the invariant.
LEMMA StepInv == IndInv /\ [Next]_vars => IndInv'
<1> SUFFICES ASSUME IndInv, [Next]_vars PROVE IndInv'
  OBVIOUS
<1>1. CASE UNCHANGED vars
  BY <1>1 DEF vars, database, IndInv, TypeOK, SchemaRecorded, ServesMigrated, Free
<1>2. ASSUME NEW i \in Instances, MainStep(i) \/ Dies(i) \/ Restart(i)
      PROVE  IndInv'
  BY <1>2, ConfigInv, ReadVersionInv, MigrateInv, CommitInv, MigratedInv, OtherInv DEF MainStep
<1> QED
  BY <1>1, <1>2 DEF Next

-----------------------------------------------------------------------------
\* The strengthened invariant holds of every behaviour.
THEOREM Invariance == Spec => []IndInv
<1> QED
  BY InitInv, StepInv, PTL DEF Spec

\* The record of the schema is true in every state, however many instances
\* migrate and wherever they fail (migration_runner.go:32-72).
THEOREM SchemaIsRecorded == Spec => []SchemaRecorded
<1>1. IndInv => SchemaRecorded
  BY DEF IndInv
<1> QED
  BY <1>1, Invariance, PTL

\* No store is opened on a database that is not fully migrated (postgres.go:10-23).
THEOREM MigratedBeforeUse == Spec => []ServesMigrated
<1>1. IndInv => ServesMigrated
  BY DEF IndInv
<1> QED
  BY <1>1, Invariance, PTL

-----------------------------------------------------------------------------
\* From its start to its end an instance has the configuration that it made of
\* its settings, which passed the checks it has come by.
Configured ==
    \A i \in Instances :
        /\ pc[i] \notin {"off", "exited"} =>
             /\ config[i] = Loaded(settings[i])
             /\ settings[i].file # "absent" => Validate(config[i])
        /\ pc[i] \in {"listen", "serving"} => Supported(config[i])

\* Only LoadConfig makes a configuration, and only OpenStores looks at its types.
LEMMA ConfiguredStep ==
    ASSUME IndInv, Configured, [Next]_vars
    PROVE  Configured'
<1>1. ASSUME NEW i \in Instances, LoadConfig(i) PROVE Configured'
  <2> DEFINE c == Loaded(settings[i])
  <2>1. /\ config' = [config EXCEPT ![i] = c] /\ settings' = settings
        /\ \/ pc' = [pc EXCEPT ![i] = "exited"]
           \/ /\ pc' = [pc EXCEPT ![i] = "pool"] \/ pc' = [pc EXCEPT ![i] = "stores"]
              /\ settings[i].file # "absent" => Validate(c)
    BY <1>1 DEF LoadConfig, Goes
  <2>2. c = Loaded(settings[i])
    OBVIOUS
  <2> HIDE DEF c
  <2> QED
    BY <2>1, <2>2 DEF IndInv, TypeOK, Configured
<1>2. ASSUME NEW i \in Instances,
             \/ LoadConfigFails(i) \/ CreateTableBegins(i) \/ CreateTableEnds(i) \/ ReadVersion(i)
             \/ Migrate(i) \/ Commit(i) \/ CommitUnanswered(i) \/ Migrated(i)
             \/ Dies(i)
      PROVE  Configured'
  <2>1. /\ UNCHANGED <<settings, config>>
        /\ \/ pc' = [pc EXCEPT ![i] = "exited"]
           \/ /\ pc[i] \notin {"off", "exited"}
              /\ \E stage \in Stages \ {"listen", "serving"} : pc' = [pc EXCEPT ![i] = stage]
    BY <1>2 DEF LoadConfigFails, CreateTableBegins, CreateTableEnds, ReadVersion, Migrate, Commit,
                CommitUnanswered, Migrated, Dies, Exits, Goes, Stages
  <2> QED
    BY <2>1 DEF IndInv, TypeOK, Configured, Stages
<1>3. ASSUME NEW i \in Instances, OpenStores(i) PROVE Configured'
  <2>1. /\ UNCHANGED <<settings, config>> /\ pc[i] = "stores"
        /\ \/ pc' = [pc EXCEPT ![i] = "listen"] /\ Supported(config[i])
           \/ pc' = [pc EXCEPT ![i] = "exited"]
    BY <1>3 DEF OpenStores, Goes
  <2> QED
    BY <2>1 DEF IndInv, TypeOK, Configured
<1>4. ASSUME NEW i \in Instances, Listen(i) PROVE Configured'
  BY <1>4 DEF Listen, Goes, IndInv, TypeOK, Configured
<1>5. ASSUME NEW i \in Instances, Restart(i) PROVE Configured'
  BY <1>5 DEF Restart, Goes, IndInv, TypeOK, Configured
<1>6. CASE UNCHANGED vars
  BY <1>6 DEF vars, Configured
<1> QED
  BY <1>1, <1>2, <1>3, <1>4, <1>5, <1>6 DEF Next, MainStep

-----------------------------------------------------------------------------
(* What SomeoneServes rests on: of instances that race, one is never beaten. *)

AllStartable == \A i \in Instances : Startable(settings[i])

\* Nothing that another instance has done makes this one give up.
Unbeaten(i) ==
    /\ pc[i] # "exited"
    /\ pc[i] = "creating" => ~table
    /\ pc[i] \in {"migrate", "commit"} => next[i] \notin applied

\* It waits for the transaction of another one.
Waits(i) == pc[i] = "migrate" /\ next[i] \in Versions /\ ~Free(i, next[i])

\* Unless a call failed or a process was killed, somebody serves or can take its
\* next step at once: instances that can start neither all give up nor all wait.
SomeoneGoesOn ==
    faults = 0 /\ AllStartable => \E i \in Instances : pc[i] # "exited" /\ ~Waits(i)

SomeoneUnbeaten == faults = 0 /\ AllStartable => \E i \in Instances : Unbeaten(i)

\* Configurations that can start pass all checks.
LEMMA StartableSupported ==
    ASSUME NEW s, Startable(s)
    PROVE  s.file # "broken" /\ Supported(Loaded(s)) /\ (s.file # "absent" => Validate(Loaded(s)))
<1>1. CASE s.file = "absent"
  <2>1. Loaded(s) = DefaultConfig
    BY <1>1 DEF Loaded
  <2>2. DefaultConfig["databaseType"] = "memory" /\ DefaultConfig["blobType"] = "memory"
    BY DEF DefaultConfig, Keys
  <2> QED
    BY <1>1, <2>1, <2>2 DEF Supported
<1>2. CASE s.file # "absent"
  BY <1>2 DEF Startable
<1> QED
  BY <1>1, <1>2

\* A step either leaves the instance that takes it unbeaten, or ends it because it
\* was beaten, and then it leaves everybody else as they were.
LEMMA BeatenOrNot ==
    ASSUME IndInv, Configured, AllStartable, NEW i \in Instances,
           MainStep(i) \/ Dies(i) \/ Restart(i), faults' = faults
    PROVE  \/ Unbeaten(i)'
           \/ /\ ~Unbeaten(i) /\ UNCHANGED <<table, applied, next>>
              /\ pc' = [pc EXCEPT ![i] = "exited"]
<1> USE DEF IndInv, TypeOK
<1>1. faults \in Nat /\ ~Dies(i) /\ ~CommitUnanswered(i)
  BY StartupAssumption DEF Dies, CommitUnanswered, Fault
<1>2. /\ settings[i].file # "broken" /\ Supported(Loaded(settings[i]))
      /\ settings[i].file # "absent" => Validate(Loaded(settings[i]))
  BY StartableSupported DEF AllStartable
<1>3. CASE LoadConfig(i) \/ LoadConfigFails(i)
  <2>1. pc'[i] = "pool" \/ pc'[i] = "stores"
    BY <1>2, <1>3 DEF LoadConfig, LoadConfigFails, Goes
  <2> QED
    BY <2>1 DEF Unbeaten
<1>4. CASE CreateTableBegins(i)
  <2>1. table' = table /\ pc'[i] = (IF table THEN "version" ELSE "creating")
    BY <1>4 DEF CreateTableBegins, Goes, database
  <2> QED
    BY <2>1 DEF Unbeaten
<1>5. CASE CreateTableEnds(i)
  <2>1. /\ pc[i] = "creating" /\ table' = TRUE /\ UNCHANGED <<applied, next>>
        /\ pc' = [pc EXCEPT ![i] = IF table THEN "exited" ELSE "version"]
    BY <1>5 DEF CreateTableEnds, Goes
  <2>2. CASE table
    BY <2>1, <2>2 DEF Unbeaten
  <2>3. CASE ~table
    BY <2>1, <2>3 DEF Unbeaten
  <2> QED
    BY <2>2, <2>3
<1>6. CASE ReadVersion(i)
  <2>1. PICK v \in applied \cup {0} :
          (\A m \in applied : m <= v) /\ next' = [next EXCEPT ![i] = v + 1]
    BY <1>6 DEF ReadVersion
  <2>2. applied' = applied /\ pc'[i] = "migrate"
    BY <1>6 DEF ReadVersion, Goes, database
  <2>3. v \in Nat /\ \A m \in applied : m \in Nat
    <3>1. \A m \in applied : m \in 1 .. LastVersion
      BY DEF Versions
    <3>2. LastVersion \in Nat
      BY StartupAssumption
    <3> HIDE DEF IndInv
    <3> QED
      BY <2>1, <3>1, <3>2
  <2>4. v + 1 \notin applied
    BY <2>1, <2>3
  <2> QED
    BY <2>1, <2>2, <2>4 DEF Unbeaten
<1>7. CASE Migrate(i)
  <2>1. /\ pc[i] = "migrate" /\ next[i] \in Versions
        /\ UNCHANGED <<table, applied, next>>
    BY <1>7 DEF Migrate, database
  <2>2. built[next[i]] > 0 <=> next[i] \in applied
    BY <2>1 DEF SchemaRecorded
  <2>3. CASE next[i] \in applied
    <3>1. pc' = [pc EXCEPT ![i] = "exited"]
      BY <1>7, <2>3 DEF Migrate, Exits, Goes
    <3> QED
      BY <2>1, <2>3, <3>1 DEF Unbeaten
  <2>4. CASE next[i] \notin applied
    <3>1. pc'[i] = "commit"
      BY <1>7, <2>2, <2>4 DEF Migrate, Goes
    <3> QED
      BY <2>1, <2>4, <3>1 DEF Unbeaten
  <2> QED
    BY <2>3, <2>4
<1>8. CASE Commit(i)
  <2>1. /\ pc[i] = "commit" /\ pc'[i] = "migrate" /\ next'[i] = next[i] + 1
        /\ TakesEffect(writing[i])
    BY <1>8 DEF Commit, Goes
  <2>2. /\ next[i] \in Versions /\ next[i] \notin applied
        /\ applied' = applied \cup {next[i]}
    BY <2>1, CommitEffect
  <2>3. next[i] + 1 \notin applied
    <3>1. ASSUME next[i] + 1 \in applied PROVE FALSE
      <4>1. next[i] \in 1 .. (next[i] + 1)
        BY <2>2, StartupAssumption DEF Versions
      <4> QED
        BY <2>2, <3>1, <4>1 DEF SchemaRecorded
    <3> QED
      BY <3>1
  <2>4. next[i] + 1 # next[i]
    BY <2>2, StartupAssumption DEF Versions
  <2> QED
    BY <2>1, <2>2, <2>3, <2>4 DEF Unbeaten
<1>9. CASE Migrated(i) \/ Listen(i) \/ Restart(i)
  <2>1. pc'[i] \in {"stores", "serving", "off"}
    BY <1>9 DEF Migrated, Listen, Restart, Goes
  <2> QED
    BY <2>1 DEF Unbeaten
<1>10. CASE OpenStores(i)
  <2>1. config[i] = Loaded(settings[i])
    BY <1>10 DEF OpenStores, Configured
  <2>2. pc'[i] = "listen"
    BY <1>2, <1>10, <2>1 DEF OpenStores, Goes
  <2> QED
    BY <2>2 DEF Unbeaten
<1> QED
  BY <1>1, <1>3, <1>4, <1>5, <1>6, <1>7, <1>8, <1>9, <1>10 DEF MainStep

\* Whoever commits first is not beaten itself; the others may be.
LEMMA UnbeatenStep ==
    ASSUME IndInv, Configured, SomeoneUnbeaten, [Next]_vars
    PROVE  SomeoneUnbeaten'
<1>1. CASE UNCHANGED vars
  BY <1>1 DEF vars, database, SomeoneUnbeaten, AllStartable, Unbeaten
<1>2. ASSUME NEW i \in Instances, MainStep(i) \/ Dies(i) \/ Restart(i) PROVE SomeoneUnbeaten'
  <2>1. settings' = settings
    BY <1>2 DEF MainStep, LoadConfig, LoadConfigFails, CreateTableBegins, CreateTableEnds,
                ReadVersion, Migrate, Commit, CommitUnanswered, Migrated, OpenStores, Listen,
                Dies, Restart
  <2>2. faults' = faults \/ faults' = faults + 1
    BY <1>2 DEF MainStep, LoadConfig, LoadConfigFails, CreateTableBegins, CreateTableEnds,
                ReadVersion, Migrate, Commit, CommitUnanswered, Migrated, OpenStores, Listen,
                Dies, Restart, Fault, database
  <2>3. SUFFICES ASSUME faults' = 0, AllStartable
                 PROVE  \E k \in Instances : Unbeaten(k)'
    BY <2>1 DEF SomeoneUnbeaten, AllStartable
  <2>4. faults = 0 /\ faults' = faults
    BY <2>2, <2>3, StartupAssumption DEF IndInv, TypeOK
  <2>5. PICK k \in Instances : Unbeaten(k)
    BY <2>3, <2>4 DEF SomeoneUnbeaten
  <2>6. CASE /\ ~Unbeaten(i) /\ UNCHANGED <<table, applied, next>>
             /\ pc' = [pc EXCEPT ![i] = "exited"]
    <3>1. k # i /\ pc'[k] = pc[k]
      BY <2>5, <2>6 DEF IndInv, TypeOK
    <3> QED
      BY <2>5, <2>6, <3>1 DEF Unbeaten
  <2> QED
    BY <1>2, <2>3, <2>4, <2>6, BeatenOrNot
<1> QED
  BY <1>1, <1>2 DEF Next

\* Unless something fails, instances that can start do not all give up over each
\* other's migrations, and not all of them wait: one serves or can go on
\* (migration_runner.go:20-72, main.go:31-35).
THEOREM NotAllGiveUp ==
    ASSUME Instances # {}
    PROVE  Spec => []SomeoneGoesOn
<1>1. Init => SomeoneUnbeaten /\ Configured
  BY DEF Init, SomeoneUnbeaten, Unbeaten, Configured
<1>2. IndInv /\ Configured /\ SomeoneUnbeaten /\ [Next]_vars => SomeoneUnbeaten' /\ Configured'
  BY UnbeatenStep, ConfiguredStep
<1>3. IndInv /\ SomeoneUnbeaten => SomeoneGoesOn
  <2> SUFFICES ASSUME IndInv, NEW i \in Instances, Unbeaten(i)
               PROVE  \E k \in Instances : pc[k] # "exited" /\ ~Waits(k)
    BY DEF SomeoneUnbeaten, SomeoneGoesOn
  <2>1. CASE ~Waits(i)
    BY <2>1 DEF Unbeaten
  <2>2. CASE Waits(i)
    <3>1. PICK k \in Instances : writing[k] = next[i] /\ next[i] \in Versions
      BY <2>2 DEF Waits, Free
    <3>2. writing[k] # 0
      BY <3>1, StartupAssumption DEF Versions
    <3>3. pc[k] = "commit"
      BY <3>2 DEF IndInv
    <3> QED
      BY <3>3 DEF Waits
  <2> QED
    BY <2>1, <2>2
<1> QED
  BY <1>1, <1>2, <1>3, Invariance, PTL DEF Spec

\* Every state is one of those TypeOK describes, for any settings of the instances
\* (config.go:11-72, migration_runner.go:20-72).
THEOREM TypeCorrect == Spec => []TypeOK
<1>1. IndInv => TypeOK
  BY DEF IndInv
<1> QED
  BY <1>1, Invariance, PTL
=============================================================================
