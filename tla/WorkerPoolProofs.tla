-------------------------- MODULE WorkerPoolProofs --------------------------
(***************************************************************************)
(* Proofs about WorkerPool.tla, for any number of jobs and workers, with   *)
(* failures and a shutdown at any time: the tokens in the channel and the  *)
(* wait group account for the workers exactly.                             *)
(***************************************************************************)
EXTENDS WorkerPool, JobStoreProofs, FiniteSetTheorems

\* Whoever has a copy, a worker or a goroutine it left behind, is alone with
\* it, and the store says that its job is processed.
CopiesOwned ==
    /\ \A copy \in running \cup writers : status[copy.id] = "processing"
    /\ \A c, d \in running \cup writers : c.id = d.id => c = d
    /\ \A copy \in running : copy.status = "processing"
    /\ \A copy \in writers : copy.status # "processing"

TokensBounded == sem <= MaxWorkers

\* Run starts the poller.
StartedTogether == at["loop"] = "off" <=> at["poller"] = "off"

\* A worker that starts to work on a job adds one to the count of those that
\* do only because it is a job nobody else works on: so the accounts rest on
\* the ownership of the copies.
IndInv ==
    /\ TypeOK
    /\ IsFiniteSet(running)
    /\ CopiesOwned
    /\ sem = Workers + Starting
    /\ TokensBounded
    /\ StartedTogether
    /\ WaitGroupMatches

-----------------------------------------------------------------------------
\* One worker more, and one worker less, that process a job.
LEMMA RunningCount ==
    ASSUME IsFiniteSet(running)
    PROVE  /\ Cardinality(running) \in Nat
           /\ \A copy : copy \notin running =>
                /\ IsFiniteSet(running \cup {copy})
                /\ Cardinality(running \cup {copy}) = Cardinality(running) + 1
           /\ \A copy \in running :
                /\ IsFiniteSet(running \ {copy})
                /\ Cardinality(running \ {copy}) = Cardinality(running) - 1
<1>1. ASSUME NEW copy, copy \notin running
      PROVE  /\ IsFiniteSet(running \cup {copy})
             /\ Cardinality(running \cup {copy}) = Cardinality(running) + 1
  BY <1>1, FS_AddElement
<1>2. ASSUME NEW copy \in running
      PROVE  /\ IsFiniteSet(running \ {copy})
             /\ Cardinality(running \ {copy}) = Cardinality(running) - 1
  BY <1>2, FS_RemoveElement
<1> QED
  BY <1>1, <1>2, FS_CardinalityType

\* The accounts are exact before anything happens.
LEMMA InitInv == Init => IndInv
<1> SUFFICES ASSUME Init PROVE IndInv
  OBVIOUS
<1>1. TypeOK
  <2>1. JobStoreTypeOK
    BY DEF Init, JobStoreTypeOK, JobStatus
  <2> QED
    BY <2>1 DEF Init, TypeOK
<1>2. IsFiniteSet(running) /\ Cardinality(running) = 0
  BY FS_EmptySet DEF Init
<1>3. CopiesOwned
  BY DEF Init, CopiesOwned
<1>4. (sem = Workers + Starting) /\ TokensBounded /\ StartedTogether /\ WaitGroupMatches
  BY <1>2, PoolAssumption
  DEF Init, Workers, Starting, TokensBounded, StartedTogether, WaitGroupMatches, Threads, Stages, CrewStages,
      PoolAssumption
<1> QED
  BY <1>1, <1>2, <1>3, <1>4 DEF IndInv

-----------------------------------------------------------------------------
\* Steps that change no copy and no status leave the copies owned.
LEMMA CopiesKept ==
    ASSUME CopiesOwned, UNCHANGED <<status, running, writers>>
    PROVE  CopiesOwned'
  BY DEF CopiesOwned

\* A caller of tryStartWorker that goes on, or returns: only one that is about to
\* start a worker, or has just done so, counts in Starting.
LEMMA MovesCount ==
    ASSUME TypeOK, NEW caller \in Callers, NEW from \in Stages,
           NEW to \in {"select", "send", "down"}, from # to, Moves(caller, from, to)
    PROVE  /\ at' \in [Threads -> Stages \cup {"off", "select", "done"}]
           /\ retries' \in [Stages -> Nat]
           /\ Starting \in Nat /\ Starting' \in Nat
           /\ from = "down" => Starting > 0
           /\ Starting' = Starting - (IF from = "down" THEN 1 ELSE 0)
                                   + (IF to = "down" THEN 1 ELSE 0)
           /\ at["poller"] \in {"off", "done"} <=> at'["poller"] \in {"off", "done"}
           /\ \A p \in Threads : at[p] = "off" <=> at'[p] = "off"
<1>1. CASE caller \in Threads
  <2>1. at[caller] = from /\ at' = [at EXCEPT ![caller] = to] /\ retries' = retries
    BY <1>1 DEF Moves
  <2>2. CASE caller = "loop"
    BY <2>1, <2>2 DEF TypeOK, Threads, Stages, Starting
  <2>3. CASE caller = "poller"
    BY <2>1, <2>3 DEF TypeOK, Threads, Stages, Starting
  <2> QED
    BY <1>1, <2>2, <2>3 DEF Threads
<1>2. CASE caller \notin Threads
  <2>1. /\ retries[from] > 0
        /\ retries' = [s \in Stages |-> retries[s] - (IF s = from THEN 1 ELSE 0)
                                                  + (IF s = to THEN 1 ELSE 0)]
        /\ at' = at
    BY <1>2 DEF Moves
  <2>2. retries' \in [Stages -> Nat]
    BY <2>1 DEF TypeOK
  <2>3. retries'["down"] = retries["down"] - (IF from = "down" THEN 1 ELSE 0)
                                           + (IF to = "down" THEN 1 ELSE 0)
    BY <2>1 DEF Stages
  <2> QED
    BY <2>1, <2>2, <2>3 DEF TypeOK, Stages, Starting
<1> QED
  BY <1>1, <1>2

\* tryStartWorker moves a token from its caller to the worker it starts.
LEMMA TryStartInv ==
    ASSUME IndInv, NEW caller \in Callers, TryStart(caller)
    PROVE  IndInv'
<1>1. Cardinality(running) \in Nat
  BY RunningCount DEF IndInv
<1>2. UNCHANGED <<storeVars, running, writers, stop, retried>>
  BY DEF TryStart, LoadPending, SendToken, StartWorker
<1>3. CopiesOwned' /\ IsFiniteSet(running)' /\ JobStoreTypeOK'
  BY <1>2, CopiesKept DEF IndInv, storeVars, TypeOK, JobStoreTypeOK
<1>4. CASE LoadPending(caller)
  <2>1. /\ at' \in [Threads -> Stages \cup {"off", "select", "done"}]
        /\ retries' \in [Stages -> Nat]
        /\ Starting' = Starting
        /\ at["poller"] \in {"off", "done"} <=> at'["poller"] \in {"off", "done"}
        /\ \A p \in Threads : at[p] = "off" <=> at'[p] = "off"
    <3>1. PICK to \in {"select", "send"} : Moves(caller, "load", to)
      BY <1>4 DEF LoadPending
    <3> QED
      BY <3>1, MovesCount DEF IndInv, Stages
  <2> QED
    BY <1>2, <1>3, <1>4, <2>1
    DEF LoadPending, IndInv, TypeOK, Workers, TokensBounded, StartedTogether, WaitGroupMatches, Threads
<1>5. CASE SendToken(caller)
  <2>1. CASE sem < MaxWorkers
    <3>1. Moves(caller, "send", "down") /\ sem' = sem + 1
      BY <1>5, <2>1 DEF SendToken
    <3>2. /\ at' \in [Threads -> Stages \cup {"off", "select", "done"}]
          /\ retries' \in [Stages -> Nat]
          /\ Starting \in Nat
          /\ Starting' = Starting + 1
          /\ at["poller"] \in {"off", "done"} <=> at'["poller"] \in {"off", "done"}
          /\ \A p \in Threads : at[p] = "off" <=> at'[p] = "off"
      BY <3>1, MovesCount DEF IndInv, Stages
    <3> QED
      BY <1>1, <1>2, <1>3, <1>5, <2>1, <3>1, <3>2, PoolAssumption
      DEF SendToken, IndInv, TypeOK, Workers, TokensBounded, StartedTogether, WaitGroupMatches, Threads, PoolAssumption,
          CrewStages
  <2>2. CASE ~(sem < MaxWorkers)
    <3>1. Moves(caller, "send", "select") /\ sem' = sem
      BY <1>5, <2>2 DEF SendToken
    <3>2. /\ at' \in [Threads -> Stages \cup {"off", "select", "done"}]
          /\ retries' \in [Stages -> Nat]
          /\ Starting' = Starting
          /\ at["poller"] \in {"off", "done"} <=> at'["poller"] \in {"off", "done"}
          /\ \A p \in Threads : at[p] = "off" <=> at'[p] = "off"
      BY <3>1, MovesCount DEF IndInv, Stages
    <3> QED
      BY <1>2, <1>3, <1>5, <3>1, <3>2
      DEF SendToken, IndInv, TypeOK, Workers, TokensBounded, StartedTogether, WaitGroupMatches, Threads
  <2> QED
    BY <2>1, <2>2
<1>6. CASE StartWorker(caller)
  <2>1. /\ at' \in [Threads -> Stages \cup {"off", "select", "done"}]
        /\ retries' \in [Stages -> Nat]
        /\ Starting \in Nat
        /\ Starting' = Starting - 1
        /\ at["poller"] \in {"off", "done"} <=> at'["poller"] \in {"off", "done"}
        /\ \A p \in Threads : at[p] = "off" <=> at'[p] = "off"
    <3>1. Moves(caller, "down", "select")
      BY <1>6 DEF StartWorker
    <3> QED
      BY <3>1, MovesCount DEF IndInv, Stages
  <2>2. /\ crew' \in [CrewStages -> Nat]
        /\ crew'["acquire"] = crew["acquire"] + 1
        /\ crew'["exit"] = crew["exit"]
    BY <1>6 DEF StartWorker, IndInv, TypeOK, CrewStages
  <2>3. pending' \in Int
    BY <1>6 DEF StartWorker, IndInv, TypeOK
  <2>4. Workers \in Nat /\ Workers' = Workers + 1
    BY <1>1, <1>2, <2>2 DEF Workers, IndInv, TypeOK, CrewStages
  <2> QED
    BY <1>2, <1>3, <1>6, <2>1, <2>2, <2>3, <2>4
    DEF StartWorker, IndInv, TypeOK, TokensBounded, StartedTogether, WaitGroupMatches, Threads
<1> QED
  BY <1>4, <1>5, <1>6 DEF TryStart

\* A new job had no status, so nobody has a copy of it.
LEMMA CreateInv ==
    ASSUME IndInv, NEW j \in JobIDs, Create(j)
    PROVE  IndInv'
<1>1. UNCHANGED poolVars /\ status[j] = "absent" /\ status' = [status EXCEPT ![j] = "pending"]
  BY DEF Create, CreateJob, Stored
<1>2. JobStoreTypeOK'
  BY DEF Create, CreateJob, IndInv, TypeOK, JobStoreTypeOK, JobStatus, notifySubscribers
<1>3. CopiesOwned'
  BY <1>1, JobFacts DEF poolVars, IndInv, TypeOK, JobStoreTypeOK, CopiesOwned
<1> QED
  BY <1>1, <1>2, <1>3
  DEF poolVars, IndInv, TypeOK, Workers, Starting, TokensBounded, StartedTogether, WaitGroupMatches

\* The two threads of the pool start, wait, and stop without a token; the poller
\* is counted in the wait group as long as it lives.
LEMMA ThreadInv ==
    ASSUME IndInv, StartRun \/ Notified \/ LoopStops \/ Tick \/ PollerStops
    PROVE  IndInv'
<1>1. UNCHANGED <<jobVars, sem, retries, crew, running, writers, stop, retried>>
  BY DEF StartRun, Notified, LoopStops, UnsubscribeOnJob, Tick, PollerStops, storeVars, jobVars
<1>2. CopiesOwned' /\ IsFiniteSet(running)'
  BY <1>1, CopiesKept DEF IndInv, jobVars
<1>3. Workers' = Workers /\ Workers \in Nat
  BY <1>1, RunningCount DEF Workers, IndInv, TypeOK, CrewStages
<1>4. JobStoreTypeOK'
  BY DEF StartRun, Notified, LoopStops, UnsubscribeOnJob, Tick, PollerStops, storeVars, jobVars,
         IndInv, TypeOK, JobStoreTypeOK
<1>5. CASE StartRun
  <2>1. at' = [p \in Threads |-> "select"] /\ wg' = wg + 1 /\ at["loop"] = "off"
    BY <1>5 DEF StartRun
  <2>2. pending' \in Int
    BY <1>5, FS_CardinalityType, JobStoreAssumption, FS_Subset
    DEF StartRun, CountPendingJobs, PendingJobs, IndInv, TypeOK, JobStoreAssumption
  <2> QED
    BY <1>1, <1>2, <1>3, <1>4, <2>1, <2>2
    DEF IndInv, TypeOK, Starting, TokensBounded, StartedTogether, WaitGroupMatches, Threads
<1>6. CASE Notified \/ LoopStops \/ Tick
  <2>1. PICK p \in Threads, to \in {"load", "done"} :
          at[p] = "select" /\ at' = [at EXCEPT ![p] = to] /\ (p = "poller" => to = "load")
    BY <1>6 DEF Notified, LoopStops, Tick, Idle, Threads
  <2>2. wg' = wg /\ pending' \in Int
    BY <1>6 DEF Notified, LoopStops, Tick, IndInv, TypeOK
  <2>3. at' \in [Threads -> Stages \cup {"off", "select", "done"}]
    BY <2>1 DEF IndInv, TypeOK, Stages
  <2>4. \A q \in Threads : at[q] = "down" <=> at'[q] = "down"
    BY <2>1 DEF IndInv, TypeOK
  <2>5. /\ at["poller"] \in {"off", "done"} <=> at'["poller"] \in {"off", "done"}
        /\ \A q \in Threads : at[q] = "off" <=> at'[q] = "off"
    BY <2>1 DEF IndInv, TypeOK, Threads
  <2>6. Starting' = Starting
    <3>1. {q \in Threads : at'[q] = "down"} = {q \in Threads : at[q] = "down"}
      BY <2>4
    <3> QED
      BY <1>1, <2>4 DEF Starting, Threads
  <2> QED
    BY <1>1, <1>2, <1>3, <1>4, <2>2, <2>3, <2>5, <2>6
    DEF IndInv, TypeOK, TokensBounded, StartedTogether, WaitGroupMatches, Threads
<1>7. CASE PollerStops
  BY <1>1, <1>2, <1>3, <1>4, <1>7
  DEF PollerStops, Idle, IndInv, TypeOK, Starting, TokensBounded, StartedTogether, WaitGroupMatches, Threads
<1> QED
  BY <1>5, <1>6, <1>7

\* A worker gets a job that nobody has, or nothing.
LEMMA RunStartsInv ==
    ASSUME IndInv, RunAcquires \/ RunFindsNothing
    PROVE  IndInv'
<1>1. CASE RunAcquires
  <2>1. PICK j \in JobIDs : AcquireJob(j) /\ running' = running \cup {Acquired(j)}
    BY <1>1 DEF RunAcquires
  <2>2. status[j] = "pending" /\ status' = [status EXCEPT ![j] = "processing"]
    BY <2>1, AcquiresPending DEF AcquireJob
  <2>3. /\ Acquired(j) \in Job
        /\ Acquired(j).id = j
        /\ Acquired(j).status = "processing"
    BY AcquiredJob DEF IndInv, TypeOK, JobStoreTypeOK
  <2>4. \A copy \in running \cup writers : copy.id # j /\ copy.id \in JobIDs
    BY <2>2, JobFacts DEF IndInv, CopiesOwned, TypeOK
  <2>5. JobStoreTypeOK'
    BY <2>1 DEF AcquireJob, IndInv, TypeOK, JobStoreTypeOK, JobStatus
  <2>6. CopiesOwned'
    BY <1>1, <2>1, <2>2, <2>3, <2>4 DEF RunAcquires, IndInv, TypeOK, JobStoreTypeOK, CopiesOwned
  <2>7. /\ IsFiniteSet(running')
        /\ Cardinality(running') = Cardinality(running) + 1
        /\ Cardinality(running) \in Nat
    BY <2>1, <2>3, <2>4, RunningCount DEF IndInv
  <2>8. /\ crew' \in [CrewStages -> Nat]
        /\ Workers' = Workers
    BY <1>1, <2>7 DEF RunAcquires, Workers, IndInv, TypeOK, CrewStages
  <2>9. running' \in SUBSET Job
    BY <2>1, <2>3 DEF IndInv, TypeOK
  <2> QED
    BY <1>1, <2>5, <2>6, <2>7, <2>8, <2>9
    DEF RunAcquires, IndInv, TypeOK, Starting, TokensBounded, StartedTogether, WaitGroupMatches
<1>2. CASE RunFindsNothing
  <2>1. UNCHANGED <<storeVars, pending, sem, wg, at, retries, running, writers, stop, retried>>
    BY <1>2 DEF RunFindsNothing
  <2>2. crew' \in [CrewStages -> Nat] /\ Workers' = Workers
    BY <1>2, RunningCount DEF RunFindsNothing, Crew, Workers, IndInv, TypeOK, CrewStages
  <2>3. CopiesOwned' /\ JobStoreTypeOK'
    BY <2>1, CopiesKept DEF storeVars, IndInv, TypeOK, JobStoreTypeOK
  <2> QED
    BY <2>1, <2>2, <2>3 DEF IndInv, TypeOK, Starting, TokensBounded, StartedTogether, WaitGroupMatches
<1> QED
  BY <1>1, <1>2

\* A worker that is done with a job still has its token.
LEMMA RunEndsInv ==
    ASSUME IndInv, NEW copy \in running, RunEnds(copy)
    PROVE  IndInv'
<1>1. /\ copy \in Job /\ copy.id \in JobIDs
      /\ \A c \in (running \cup writers) \ {copy} : c.id # copy.id /\ c.id \in JobIDs
  BY JobFacts DEF IndInv, TypeOK, CopiesOwned
<1>2. /\ running' = running \ {copy}
      /\ crew' = [crew EXCEPT !["exit"] = @ + 1]
      /\ UNCHANGED <<pending, sem, wg, at, retries, stop>>
  BY DEF RunEnds, RunCompletes, RunGivesBack
<1>3. /\ IsFiniteSet(running')
      /\ Cardinality(running') = Cardinality(running) - 1
      /\ Cardinality(running) \in Nat
  BY <1>2, RunningCount DEF IndInv
<1>4. crew' \in [CrewStages -> Nat] /\ Workers' = Workers
  BY <1>2, <1>3 DEF Workers, IndInv, TypeOK, CrewStages
<1>5. retried' \in Nat
  <2>1. CASE RunCompletes(copy)
    BY <2>1 DEF RunCompletes, IndInv, TypeOK
  <2>2. CASE RunGivesBack(copy)
    <3>1. retried' = retried + 1 \/ retried' = retried
      BY <2>2 DEF RunGivesBack
    <3> QED
      BY <3>1 DEF IndInv, TypeOK
  <2> QED
    BY <2>1, <2>2 DEF RunEnds
<1>6. JobStoreTypeOK' /\ CopiesOwned' /\ writers' \in SUBSET Job
  <2>1. CASE RunCompletes(copy)
    <3> DEFINE done == MarkCompleted(copy)
    <3>1. done \in Job /\ done.id = copy.id
      BY <1>1, MarkedJobs DEF Reasons
    <3>2. UpdateJob(done) /\ writers' = writers
      BY <2>1 DEF RunCompletes
    <3> HIDE DEF done
    <3> QED
      BY <1>1, <1>2, <3>1, <3>2, JobFacts
      DEF UpdateJob, IndInv, TypeOK, JobStoreTypeOK, CopiesOwned
  <2>2. CASE RunGivesBack(copy)
    <3>1. PICK e \in {"not found", "other"} :
            writers' = writers \cup
              {IF isRetryableError(e) THEN MarkPending(copy) ELSE MarkFailed(copy, e)}
      BY <2>2 DEF RunGivesBack
    <3> DEFINE back == IF isRetryableError(e) THEN MarkPending(copy) ELSE MarkFailed(copy, e)
    <3>2. e \in Reasons
      BY DEF Reasons, ErrorKinds
    <3>3. back \in Job /\ back.id = copy.id /\ back.status \in {"pending", "failed"}
      BY <1>1, <3>2, MarkedJobs
    <3>4. writers' = writers \cup {back} /\ UNCHANGED storeVars
      BY <2>2, <3>1 DEF RunGivesBack
    <3> HIDE DEF back
    <3>5. JobStoreTypeOK'
      BY <3>4 DEF storeVars, IndInv, TypeOK, JobStoreTypeOK
    <3>6. writers' \in SUBSET Job
      BY <3>3, <3>4 DEF IndInv, TypeOK
    <3>7. status' = status
      BY <3>4 DEF storeVars, jobVars
    <3>8. status[back.id] = "processing" /\ back.status # "processing"
      BY <3>3 DEF IndInv, CopiesOwned
    <3>9. copy \notin writers
      BY DEF IndInv, CopiesOwned
    <3>10. CopiesOwned'
      <4>1. running' \cup writers' = ((running \cup writers) \ {copy}) \cup {back}
        BY <1>1, <1>2, <3>4, <3>9
      <4>2. \A c \in running' \cup writers' : status'[c.id] = "processing"
        BY <3>3, <3>7, <3>8, <4>1 DEF IndInv, CopiesOwned
      <4>3. \A c, d \in running' \cup writers' : c.id = d.id => c = d
        BY <1>1, <3>3, <4>1 DEF IndInv, CopiesOwned
      <4>4. \A c \in running' : c.status = "processing"
        BY <1>2 DEF IndInv, CopiesOwned
      <4>5. \A c \in writers' : c.status # "processing"
        BY <3>4, <3>8 DEF IndInv, CopiesOwned
      <4> QED
        BY <4>2, <4>3, <4>4, <4>5 DEF CopiesOwned
    <3> QED
      BY <3>5, <3>6, <3>10
  <2> QED
    BY <2>1, <2>2 DEF RunEnds
<1> QED
  BY <1>2, <1>3, <1>4, <1>5, <1>6 DEF IndInv, TypeOK, Starting, TokensBounded, StartedTogether, WaitGroupMatches

\* The write that a worker left behind changes the status of its own job only.
LEMMA WriteInv ==
    ASSUME IndInv, NEW copy \in writers, Write(copy)
    PROVE  IndInv'
<1>1. /\ copy \in Job /\ copy.id \in JobIDs
      /\ \A c \in (running \cup writers) \ {copy} : c.id # copy.id /\ c.id \in JobIDs
      /\ copy \notin running
  BY JobFacts DEF IndInv, TypeOK, CopiesOwned
<1>2. JobStoreTypeOK'
  BY <1>1, JobFacts DEF Write, UpdateJob, IndInv, TypeOK, JobStoreTypeOK
<1>3. CopiesOwned'
  BY <1>1 DEF Write, UpdateJob, IndInv, TypeOK, JobStoreTypeOK, CopiesOwned
<1> QED
  BY <1>2, <1>3
  DEF Write, IndInv, TypeOK, Workers, Starting, TokensBounded, StartedTogether, WaitGroupMatches

\* A worker that exits takes itself out of both accounts.
LEMMA WorkerLeavesInv ==
    ASSUME IndInv, WorkerExits \/ WorkerChecks
    PROVE  IndInv'
<1>1. UNCHANGED <<storeVars, pending, at, running, writers, stop, retried>>
  BY DEF WorkerExits, WorkerChecks
<1>2. CopiesOwned' /\ JobStoreTypeOK' /\ IsFiniteSet(running)'
  BY <1>1, CopiesKept DEF storeVars, IndInv, TypeOK, JobStoreTypeOK
<1>3. Cardinality(running) \in Nat /\ Starting \in Nat
  BY RunningCount DEF IndInv, TypeOK, Starting, Stages
<1>4. CASE WorkerExits
  <2>1. /\ crew' \in [CrewStages -> Nat]
        /\ Workers \in Nat /\ Workers > 0
        /\ Workers' = Workers - 1
    BY <1>1, <1>3, <1>4 DEF WorkerExits, Crew, Workers, IndInv, TypeOK, CrewStages
  <2>2. sem' = sem - 1 /\ wg' = wg - 1 /\ retries' = retries
    BY <1>4 DEF WorkerExits
  <2> QED
    BY <1>1, <1>2, <1>3, <2>1, <2>2, PoolAssumption
    DEF IndInv, TypeOK, Starting, TokensBounded, StartedTogether, WaitGroupMatches, PoolAssumption
<1>5. CASE WorkerChecks
  <2>1. /\ crew' \in [CrewStages -> Nat]
        /\ Workers' = Workers
    BY <1>1, <1>5 DEF WorkerChecks, Workers, IndInv, TypeOK, CrewStages
  <2>2. retries' \in [Stages -> Nat] /\ retries'["down"] = retries["down"]
    BY <1>5 DEF WorkerChecks, IndInv, TypeOK, Stages
  <2> QED
    BY <1>1, <1>2, <1>5, <2>1, <2>2
    DEF WorkerChecks, IndInv, TypeOK, Starting, TokensBounded, StartedTogether, WaitGroupMatches
<1> QED
  BY <1>4, <1>5

\* Every step keeps the accounts exact.
LEMMA StepInv == IndInv /\ [Next]_vars => IndInv'
<1> SUFFICES ASSUME IndInv, [Next]_vars PROVE IndInv'
  OBVIOUS
<1>1. ASSUME NEW j \in JobIDs, Create(j) PROVE IndInv'
  BY <1>1, CreateInv
<1>2. CASE StartRun \/ Notified \/ LoopStops \/ Tick \/ PollerStops
  BY <1>2, ThreadInv
<1>3. ASSUME NEW caller \in Callers, TryStart(caller) PROVE IndInv'
  BY <1>3, TryStartInv
<1>4. CASE RunAcquires \/ RunFindsNothing
  BY <1>4, RunStartsInv
<1>5. ASSUME NEW copy \in running, RunEnds(copy) PROVE IndInv'
  BY <1>5, RunEndsInv
<1>6. ASSUME NEW copy \in writers, Write(copy) PROVE IndInv'
  BY <1>6, WriteInv
<1>7. CASE WorkerExits \/ WorkerChecks
  BY <1>7, WorkerLeavesInv
<1>8. CASE CloseStopCh \/ StopReturns \/ Exit \/ UNCHANGED vars
  <2>1. UNCHANGED <<storeVars, pending, sem, wg, at, retries, crew, running, writers, retried>>
    BY <1>8 DEF CloseStopCh, StopReturns, Exit, vars, poolVars
  <2>2. stop' \in {"no", "waiting", "stopped", "exited"}
    BY <1>8 DEF CloseStopCh, StopReturns, Exit, vars, poolVars, IndInv, TypeOK
  <2>3. CopiesOwned' /\ JobStoreTypeOK'
    BY <2>1, CopiesKept DEF storeVars, IndInv, TypeOK, JobStoreTypeOK
  <2> QED
    BY <2>1, <2>2, <2>3 DEF IndInv, TypeOK, Workers, Starting, TokensBounded, StartedTogether, WaitGroupMatches
<1> QED
  BY <1>1, <1>2, <1>3, <1>4, <1>5, <1>6, <1>7, <1>8 DEF Next

-----------------------------------------------------------------------------
\* The other direction of CopiesOwned: no job is processed without a holder.
Held == \A j \in JobIDs :
            status[j] = "processing" => \E copy \in running \cup writers : copy.id = j

\* A worker that acquires a job holds it; one that ends with it has written it
\* back, or leaves a goroutine that holds it; that one writes and lets go.
LEMMA HeldStep == IndInv /\ Held /\ [Next]_vars => Held'
<1> SUFFICES ASSUME IndInv, Held, [Next]_vars, NEW j \in JobIDs, status'[j] = "processing"
             PROVE  \E copy \in running' \cup writers' : copy.id = j
  BY DEF Held
<1> DEFINE HeldNow == status[j] = "processing" => \E copy \in running \cup writers : copy.id = j
<1>1. HeldNow
  BY DEF Held
<1>2. status \in [JobIDs -> JobStatus \cup {"absent"}]
  BY DEF IndInv, TypeOK, JobStoreTypeOK
<1>3. CASE UNCHANGED <<status, running, writers>>
  BY <1>1, <1>3
<1>4. ASSUME NEW k \in JobIDs, Create(k)
      PROVE  \E copy \in running' \cup writers' : copy.id = j
  <2>1. status' = [status EXCEPT ![k] = "pending"] /\ UNCHANGED <<running, writers>>
    BY <1>4 DEF Create, CreateJob, poolVars
  <2> QED
    BY <1>1, <1>2, <2>1
<1>5. CASE RunAcquires
  <2>1. PICK k \in JobIDs : AcquireJob(k) /\ running' = running \cup {Acquired(k)}
    BY <1>5 DEF RunAcquires
  <2>2. status' = [status EXCEPT ![k] = "processing"] /\ writers' = writers
    BY <1>5, <2>1 DEF AcquireJob, RunAcquires
  <2>3. Acquired(k).id = k
    BY DEF Acquired
  <2>4. CASE j = k
    BY <2>1, <2>3, <2>4
  <2>5. CASE j # k
    BY <1>1, <1>2, <2>1, <2>2, <2>5
  <2> QED
    BY <2>4, <2>5
<1>6. ASSUME NEW copy \in running, RunCompletes(copy)
      PROVE  \E c \in running' \cup writers' : c.id = j
  <2>1. copy \in Job /\ copy.id \in JobIDs
    BY JobFacts DEF IndInv, TypeOK
  <2>2. MarkCompleted(copy).id = copy.id /\ MarkCompleted(copy).status = "completed"
    BY <2>1, MarkedJobs DEF Reasons
  <2>3. status' = [status EXCEPT ![copy.id] = "completed"]
    BY <1>6, <2>2 DEF RunCompletes, UpdateJob
  <2>4. running' = running \ {copy} /\ writers' = writers
    BY <1>6 DEF RunCompletes
  <2>5. j # copy.id /\ status[j] = "processing"
    BY <1>2, <2>1, <2>3
  <2> QED
    BY <1>1, <2>4, <2>5
<1>7. ASSUME NEW copy \in running, RunGivesBack(copy)
      PROVE  \E c \in running' \cup writers' : c.id = j
  <2>1. copy \in Job
    BY DEF IndInv, TypeOK
  <2>2. PICK e \in {"not found", "other"} :
          writers' = writers \cup
            {IF isRetryableError(e) THEN MarkPending(copy) ELSE MarkFailed(copy, e)}
    BY <1>7 DEF RunGivesBack
  <2>3. \E back \in writers' : back.id = copy.id
    <3> DEFINE back == IF isRetryableError(e) THEN MarkPending(copy) ELSE MarkFailed(copy, e)
    <3>1. e \in Reasons
      BY DEF Reasons, ErrorKinds
    <3>2. back.id = copy.id
      BY <2>1, <3>1, MarkedJobs
    <3>3. back \in writers'
      BY <2>2
    <3> QED
      BY <3>2, <3>3
  <2>4. status' = status /\ running' = running \ {copy} /\ writers \subseteq writers'
    BY <1>7, <2>2 DEF RunGivesBack, storeVars, jobVars
  <2> QED
    BY <1>1, <2>3, <2>4
<1>8. ASSUME NEW copy \in writers, Write(copy)
      PROVE  \E c \in running' \cup writers' : c.id = j
  <2>1. copy.id \in JobIDs /\ copy.status # "processing"
    BY JobFacts DEF IndInv, TypeOK, CopiesOwned
  <2>2. /\ status' = [status EXCEPT ![copy.id] = copy.status]
        /\ writers' = writers \ {copy} /\ running' = running
    BY <1>8 DEF Write, UpdateJob
  <2>3. j # copy.id /\ status[j] = "processing"
    BY <1>2, <2>1, <2>2
  <2> QED
    BY <1>1, <2>2, <2>3
<1>9. CASE StartRun \/ Notified \/ LoopStops \/ Tick \/ PollerStops
  BY <1>3, <1>9 DEF StartRun, Notified, LoopStops, UnsubscribeOnJob, Tick, PollerStops, storeVars, jobVars
<1>10. ASSUME NEW caller \in Callers, TryStart(caller)
       PROVE  \E copy \in running' \cup writers' : copy.id = j
  <2>1. UNCHANGED <<status, running, writers>>
    BY <1>10 DEF TryStart, LoadPending, SendToken, StartWorker, storeVars, jobVars
  <2> QED
    BY <1>3, <2>1
<1>11. CASE RunFindsNothing \/ WorkerExits \/ WorkerChecks
  BY <1>3, <1>11 DEF RunFindsNothing, WorkerExits, WorkerChecks, storeVars, jobVars
<1>12. CASE CloseStopCh \/ StopReturns \/ Exit \/ UNCHANGED vars
  BY <1>3, <1>12 DEF CloseStopCh, StopReturns, Exit, vars, poolVars, storeVars, jobVars
<1> QED
  BY <1>4, <1>5, <1>6, <1>7, <1>8, <1>9, <1>10, <1>11, <1>12 DEF Next, RunEnds

-----------------------------------------------------------------------------
\* The invariant holds in every state of every behaviour.
THEOREM Invariance == Spec => []IndInv
  BY InitInv, StepInv, PTL DEF Spec

\* Every variable keeps its type; in particular neither the tokens nor the wait
\* group ever fall below zero, which would be a panic.
THEOREM TypeCorrect == Spec => []TypeOK
  BY Invariance, PTL DEF IndInv

\* At most maxWorkers workers run, whoever starts them and in whatever order the
\* callers read the counter, send a token and count down.
THEOREM WorkersLimited == Spec => []TokensMatchWorkers
<1>1. IndInv => TokensMatchWorkers
  <2> SUFFICES ASSUME IndInv PROVE Workers <= MaxWorkers
    BY DEF IndInv, TokensMatchWorkers
  <2>1. Workers \in Nat /\ Starting \in Nat
    BY RunningCount DEF IndInv, TypeOK, Workers, Starting, CrewStages, Stages
  <2> QED
    BY <2>1, PoolAssumption DEF IndInv, TokensBounded, PoolAssumption
<1> QED
  BY <1>1, Invariance, PTL

\* Stop waits for exactly the poller and the workers that have been started.
THEOREM WaitGroupExact == Spec => []WaitGroupMatches
  BY Invariance, PTL DEF IndInv

\* A job that is processed is held by exactly one worker or goroutine, until the
\* process exits (main.go:57-66, workerpool.go:91-125).
THEOREM ProcessingHeld == Spec => []ProcessingIsHeld
<1>1. Init => Held
  BY DEF Init, Held
<1>2. Spec => []Held
  BY <1>1, HeldStep, Invariance, PTL DEF Spec
<1>3. IndInv /\ Held => ProcessingIsHeld
  <2> SUFFICES ASSUME IndInv, Held PROVE ProcessingIsHeld
    OBVIOUS
  <2>1. \A c, d \in running \cup writers : c.id = d.id => c = d
    BY DEF IndInv, CopiesOwned
  <2>2. \A j \in JobIDs : (\E c \in running \cup writers : c.id = j) => status[j] = "processing"
    BY DEF IndInv, CopiesOwned
  <2> QED
    BY <2>1, <2>2 DEF Held, ProcessingIsHeld
<1> QED
  BY <1>2, <1>3, Invariance, PTL
-----------------------------------------------------------------------------
(* How the counter falls behind (the run Pool shows with TakenUnlessBehind  *)
(* that nothing else keeps a pending job waiting).                          *)

\* The jobs that somebody who will acquire one is on the way for.
Accounted == pending + (IF signal THEN 1 ELSE 0) + crew["acquire"]

FallsBehind == ~Behind /\ Behind'

\* A step that makes the pool fall behind is one of these: a job is created while
\* the channel is full, or after the pool let go of it; a job is given back, which
\* announces nothing; a worker that was started over a counter below zero or for
\* a notification already used finds nothing; Run could not count.
BehindOnlyBy ==
    [][FallsBehind =>
         \/ \E j \in JobIDs : Create(j) /\ (signal \/ ~subscribed)
         \/ \E copy \in writers : copy.status = "pending" /\ Write(copy)
         \/ RunFindsNothing /\ pending < 0
         \/ CountCanFail /\ StartRun]_vars

\* How many jobs are pending when the status of one changes.
LEMMA PendingCounts ==
    ASSUME JobStoreTypeOK, NEW j \in JobIDs, NEW s, status' = [status EXCEPT ![j] = s]
    PROVE  /\ CountPendingJobs \in Nat
           /\ s = "pending" /\ status[j] # "pending" => CountPendingJobs' = CountPendingJobs + 1
           /\ s # "pending" /\ status[j] = "pending" => CountPendingJobs' = CountPendingJobs - 1
           /\ (s = "pending" <=> status[j] = "pending") => CountPendingJobs' = CountPendingJobs
<1>1. IsFiniteSet(PendingJobs)
  BY FS_Subset, JobStoreAssumption DEF PendingJobs, JobStoreAssumption
<1>2. CountPendingJobs \in Nat
  BY <1>1, FS_CardinalityType DEF CountPendingJobs
<1>3. PendingJobs' = IF s = "pending" THEN PendingJobs \cup {j} ELSE PendingJobs \ {j}
  BY DEF PendingJobs, JobStoreTypeOK
<1>4. j \in PendingJobs <=> status[j] = "pending"
  BY DEF PendingJobs
<1>5. CASE s = "pending" /\ status[j] # "pending"
  <2>1. Cardinality(PendingJobs \cup {j}) = Cardinality(PendingJobs) + 1
    BY <1>1, <1>4, <1>5, FS_AddElement
  <2> QED
    BY <1>2, <1>3, <1>5, <2>1 DEF CountPendingJobs
<1>6. CASE s # "pending" /\ status[j] = "pending"
  <2>1. Cardinality(PendingJobs \ {j}) = Cardinality(PendingJobs) - 1
    BY <1>1, <1>4, <1>6, FS_RemoveElement
  <2> QED
    BY <1>2, <1>3, <1>6, <2>1 DEF CountPendingJobs
<1>7. CASE s = "pending" <=> status[j] = "pending"
  <2>1. PendingJobs' = PendingJobs
    BY <1>3, <1>4, <1>7
  <2> QED
    BY <1>2, <1>7, <2>1 DEF CountPendingJobs
<1> QED
  BY <1>2, <1>5, <1>6, <1>7

\* The count is a number, and one of the status alone.
LEMMA CountStays ==
    /\ JobStoreTypeOK => CountPendingJobs \in Nat
    /\ status' = status => CountPendingJobs' = CountPendingJobs
<1>1. IsFiniteSet(PendingJobs)
  BY FS_Subset, JobStoreAssumption DEF PendingJobs, JobStoreAssumption
<1>2. CountPendingJobs \in Nat
  BY <1>1, FS_CardinalityType DEF CountPendingJobs
<1>3. status' = status => CountPendingJobs' = CountPendingJobs
  BY DEF CountPendingJobs, PendingJobs
<1> QED
  BY <1>2, <1>3

\* A pool that runs stays at least where it was, when no more is added to what is
\* pending than to what is accounted for.
LEMMA NotBehind ==
    ASSUME ~Behind, at["loop"] # "off",
           Accounted \in Int, CountPendingJobs \in Nat,
           Accounted' \in Int, CountPendingJobs' \in Nat,
           CountPendingJobs' - CountPendingJobs <= Accounted' - Accounted
    PROVE  ~Behind'
  BY DEF Behind, Accounted

\* Before Run, and after it, by steps that do not start it.
LEMMA RunsAlready ==
    ASSUME IndInv, [Next]_vars, ~StartRun
    PROVE  at'["loop"] # "off" => at["loop"] # "off"
<1>1. ASSUME NEW j \in JobIDs, Create(j) PROVE at' = at
  BY <1>1 DEF Create, poolVars
<1>2. CASE Notified \/ LoopStops \/ Tick \/ PollerStops
  BY <1>2 DEF Notified, LoopStops, Tick, PollerStops, Idle, IndInv, TypeOK, Threads
<1>3. ASSUME NEW caller \in Callers, TryStart(caller)
      PROVE  at'["loop"] # "off" => at["loop"] # "off"
  <2>1. PICK from \in Stages, to \in {"select", "send", "down"} : Moves(caller, from, to)
    BY <1>3 DEF TryStart, LoadPending, SendToken, StartWorker, Stages
  <2> QED
    BY <2>1 DEF Moves, IndInv, TypeOK, Threads, Stages
<1>4. CASE RunAcquires \/ RunFindsNothing \/ WorkerExits \/ WorkerChecks
  BY <1>4 DEF RunAcquires, RunFindsNothing, WorkerExits, WorkerChecks
<1>5. ASSUME NEW copy \in running, RunEnds(copy) PROVE at' = at
  BY <1>5 DEF RunEnds, RunCompletes, RunGivesBack
<1>6. ASSUME NEW copy \in writers, Write(copy) PROVE at' = at
  BY <1>6 DEF Write
<1>7. CASE CloseStopCh \/ StopReturns \/ Exit \/ UNCHANGED vars
  BY <1>7 DEF CloseStopCh, StopReturns, Exit, vars, poolVars
<1> QED
  BY <1>1, <1>2, <1>3, <1>4, <1>5, <1>6, <1>7 DEF Next

\* What a creation adds is announced, unless the channel is full or let go of.
LEMMA CreateKeepsUp ==
    ASSUME IndInv, ~Behind, NEW j \in JobIDs, Create(j), ~signal, subscribed
    PROVE  ~Behind'
<1>1. /\ status' = [status EXCEPT ![j] = "pending"] /\ status[j] = "absent"
      /\ signal' = TRUE
      /\ UNCHANGED <<pending, crew, at>>
  BY DEF Create, CreateJob, Stored, notifySubscribers, poolVars
<1>2. CountPendingJobs \in Nat /\ CountPendingJobs' = CountPendingJobs + 1
  <2>1. JobStoreTypeOK
    BY DEF IndInv, TypeOK
  <2> QED
    BY <1>1, <2>1, PendingCounts
<1>3. Accounted \in Int /\ Accounted' = Accounted + 1
  BY <1>1 DEF Accounted, IndInv, TypeOK, CrewStages
<1>4. CASE at["loop"] = "off"
  BY <1>1, <1>4 DEF Behind
<1>5. CASE at["loop"] # "off"
  BY <1>2, <1>3, <1>5, NotBehind
<1> QED
  BY <1>4, <1>5

\* Run sets the counter to what is there.
LEMMA StartKeepsUp ==
    ASSUME IndInv, StartRun, ~CountCanFail
    PROVE  ~Behind'
<1>1. /\ pending' = CountPendingJobs
      /\ UNCHANGED <<status, signal, crew>>
  BY DEF StartRun, storeVars, jobVars
<1>2. CountPendingJobs \in Nat /\ CountPendingJobs' = CountPendingJobs
  BY <1>1, CountStays DEF IndInv, TypeOK
<1>3. crew'["acquire"] \in Nat
  BY <1>1 DEF IndInv, TypeOK, CrewStages
<1> QED
  BY <1>1, <1>2, <1>3 DEF Behind

\* A notification goes from the channel to the counter, and from there to a
\* worker; whoever acquires a job takes it out of what is pending.
LEMMA AccountKept ==
    ASSUME IndInv, ~Behind, at["loop"] # "off",
           \/ Notified \/ LoopStops \/ Tick \/ PollerStops
           \/ \E caller \in Callers : TryStart(caller)
           \/ WorkerExits \/ WorkerChecks
           \/ CloseStopCh \/ StopReturns \/ Exit \/ UNCHANGED vars
    PROVE  ~Behind'
<1>1. status' = status
  BY DEF Notified, LoopStops, UnsubscribeOnJob, Tick, PollerStops, TryStart, LoadPending, SendToken,
         StartWorker, WorkerExits, WorkerChecks, CloseStopCh, StopReturns, Exit, vars, storeVars, jobVars
<1>2. CountPendingJobs \in Nat /\ CountPendingJobs' = CountPendingJobs
  BY <1>1, CountStays DEF IndInv, TypeOK
<1>3. pending \in Int /\ signal \in BOOLEAN /\ crew \in [CrewStages -> Nat]
  BY DEF IndInv, TypeOK, JobStoreTypeOK
<1>4. Accounted \in Int /\ Accounted' \in Int /\ Accounted <= Accounted'
  <2>1. CASE Notified
    BY <1>3, <2>1 DEF Notified, Accounted, CrewStages
  <2>2. CASE LoopStops \/ Tick \/ PollerStops \/ CloseStopCh \/ StopReturns \/ Exit \/ UNCHANGED vars
    <3>1. UNCHANGED <<pending, signal, crew>>
      BY <2>2 DEF LoopStops, UnsubscribeOnJob, Tick, PollerStops, CloseStopCh, StopReturns, Exit,
                  vars, poolVars, storeVars
    <3> QED
      BY <1>3, <3>1 DEF Accounted, CrewStages
  <2>3. ASSUME NEW caller \in Callers, TryStart(caller)
        PROVE  Accounted \in Int /\ Accounted' \in Int /\ Accounted <= Accounted'
    <3>1. signal' = signal
      BY <2>3 DEF TryStart, LoadPending, SendToken, StartWorker, storeVars
    <3>2. CASE LoadPending(caller) \/ SendToken(caller)
      <4>1. UNCHANGED <<pending, crew>>
        BY <3>2 DEF LoadPending, SendToken
      <4> QED
        BY <1>3, <3>1, <4>1 DEF Accounted, CrewStages
    <3>3. CASE StartWorker(caller)
      <4>1. pending' \in {pending, pending - 1} /\ crew' = [crew EXCEPT !["acquire"] = @ + 1]
        BY <3>3 DEF StartWorker
      <4> QED
        BY <1>3, <3>1, <4>1 DEF Accounted, CrewStages
    <3> QED
      BY <2>3, <3>2, <3>3 DEF TryStart
  <2>4. CASE WorkerExits \/ WorkerChecks
    <3>1. /\ UNCHANGED <<pending, signal>>
          /\ crew'["acquire"] = crew["acquire"]
      BY <1>3, <2>4 DEF WorkerExits, WorkerChecks, Crew, storeVars, CrewStages
    <3> QED
      BY <1>3, <3>1 DEF Accounted, CrewStages
  <2> QED
    BY <2>1, <2>2, <2>3, <2>4
<1>5. CountPendingJobs' - CountPendingJobs <= Accounted' - Accounted
  <2>1. CountPendingJobs' - CountPendingJobs = 0
    BY <1>2
  <2>2. 0 <= Accounted' - Accounted
    <3>1. \A a, b \in Int : a <= b => 0 <= b - a
      OBVIOUS
    <3> QED
      BY <1>4, <3>1
  <2>3. Accounted' - Accounted \in Int
    BY <1>4
  <2> QED
    BY <2>1, <2>2, <2>3
<1> QED
  BY <1>2, <1>4, <1>5, NotBehind

\* Jobs that are not pending, before and after, do not matter; what a worker
\* acquires it was accounted for.
LEMMA WorkersKeepUp ==
    ASSUME IndInv, ~Behind, at["loop"] # "off",
           \/ RunAcquires
           \/ RunFindsNothing /\ pending >= 0
           \/ \E copy \in running : RunEnds(copy)
           \/ \E copy \in writers : copy.status # "pending" /\ Write(copy)
    PROVE  ~Behind'
<1>1. pending \in Int /\ signal \in BOOLEAN /\ crew \in [CrewStages -> Nat] /\ JobStoreTypeOK
  BY DEF IndInv, TypeOK, JobStoreTypeOK
<1>2. CASE RunAcquires
  <2>1. PICK j \in JobIDs : AcquireJob(j)
    BY <1>2 DEF RunAcquires
  <2>2. status' = [status EXCEPT ![j] = "processing"] /\ status[j] = "pending" /\ signal' = signal
    BY <2>1, AcquiresPending DEF AcquireJob
  <2>3. CountPendingJobs \in Nat /\ CountPendingJobs' = CountPendingJobs - 1
    <3>1. PICK s : s = "processing"
      OBVIOUS
    <3>2. status' = [status EXCEPT ![j] = s]
      BY <2>2, <3>1
    <3> QED
      BY <1>1, <2>2, <3>1, <3>2, PendingCounts
  <2>4. CountPendingJobs' \in Nat
    BY <1>1, <2>1, <2>2, FS_CardinalityType, FS_Subset, JobStoreAssumption
    DEF CountPendingJobs, PendingJobs, JobStoreAssumption
  <2>5. pending' = pending /\ crew' = [crew EXCEPT !["acquire"] = @ - 1]
    BY <1>2 DEF RunAcquires
  <2>6. Accounted \in Int /\ Accounted' = Accounted - 1
    BY <1>1, <2>2, <2>5 DEF Accounted, CrewStages
  <2> QED
    BY <2>3, <2>4, <2>6, NotBehind
<1>3. CASE RunFindsNothing /\ pending >= 0
  <2>1. UNCHANGED <<status, pending, signal>> /\ PendingJobs = {} /\ crew["acquire"] > 0
    BY <1>3 DEF RunFindsNothing, NoJobAvailable, Crew, storeVars
  <2>2. CountPendingJobs' = 0
    BY <2>1, CountStays, FS_EmptySet DEF CountPendingJobs
  <2>3. crew'["acquire"] = crew["acquire"] - 1
    BY <1>1, <1>3 DEF RunFindsNothing, Crew, CrewStages
  <2> QED
    BY <1>1, <1>3, <2>1, <2>2, <2>3 DEF Behind, CrewStages
<1>4. ASSUME NEW copy \in running \cup writers, RunEnds(copy) \/ (copy.status # "pending" /\ Write(copy))
      PROVE  ~Behind'
  <2>1. /\ copy \in Job /\ copy.id \in JobIDs
        /\ status[copy.id] = "processing"
    BY JobFacts DEF IndInv, TypeOK, CopiesOwned
  <2>2. /\ UNCHANGED <<pending, signal>>
        /\ crew' = crew \/ crew' = [crew EXCEPT !["exit"] = @ + 1]
    BY <1>4 DEF RunEnds, RunCompletes, RunGivesBack, Write, UpdateJob, storeVars
  <2>3. Accounted \in Int /\ Accounted' = Accounted
    BY <1>1, <2>2 DEF Accounted, CrewStages
  <2>4. CountPendingJobs \in Nat /\ CountPendingJobs' = CountPendingJobs
    <3>1. CASE RunCompletes(copy)
      <4>1. MarkCompleted(copy).id = copy.id /\ MarkCompleted(copy).status = "completed"
        BY <2>1, MarkedJobs DEF Reasons
      <4>2. PICK j \in JobIDs : j = copy.id
        BY <2>1
      <4>3. PICK s : s = "completed"
        OBVIOUS
      <4>4. status' = [status EXCEPT ![j] = s]
        BY <3>1, <4>1, <4>2, <4>3 DEF RunCompletes, UpdateJob
      <4>5. status[j] # "pending" /\ s # "pending"
        BY <2>1, <4>2, <4>3
      <4> QED
        BY <1>1, <4>3, <4>4, <4>5, PendingCounts
    <3>2. CASE RunGivesBack(copy)
      BY <1>1, <3>2, CountStays DEF RunGivesBack, storeVars
    <3>3. CASE copy.status # "pending" /\ Write(copy)
      <4>1. status' = [status EXCEPT ![copy.id] = copy.status]
        BY <3>3 DEF Write, UpdateJob
      <4> QED
        BY <1>1, <2>1, <3>3, <4>1, PendingCounts
    <3> QED
      BY <1>4, <3>1, <3>2, <3>3 DEF RunEnds
  <2> QED
    BY <2>3, <2>4, NotBehind
<1> QED
  BY <1>2, <1>3, <1>4

\* The counter falls behind the store in these four ways and in no other, however
\* its readers and writers interleave (workerpool.go:60-125, worker.go:98).
THEOREM FallsBehindOnlyBy == Spec => BehindOnlyBy
<1> DEFINE Ways ==
        \/ \E j \in JobIDs : Create(j) /\ (signal \/ ~subscribed)
        \/ \E copy \in writers : copy.status = "pending" /\ Write(copy)
        \/ RunFindsNothing /\ pending < 0
        \/ CountCanFail /\ StartRun
<1>1. ASSUME IndInv, [Next]_vars, FallsBehind, ~Ways PROVE FALSE
  <2>1. ~Behind /\ Behind' /\ at'["loop"] # "off"
    BY <1>1 DEF FallsBehind, Behind
  <2>2. ~StartRun
    BY <1>1, <2>1, StartKeepsUp, PoolAssumption DEF PoolAssumption
  <2>3. at["loop"] # "off"
    BY <1>1, <2>1, <2>2, RunsAlready
  <2>4. \A j \in JobIDs : ~Create(j)
    BY <1>1, <2>1, CreateKeepsUp
  <2>5. pending \in Int
    BY <1>1 DEF IndInv, TypeOK
  <2>6. RunFindsNothing => pending >= 0
    BY <1>1, <2>5
  <2>7. \A copy \in writers : Write(copy) => copy.status # "pending"
    BY <1>1
  <2> HIDE DEF Ways
  <2> QED
    BY <1>1, <2>1, <2>2, <2>3, <2>4, <2>6, <2>7, AccountKept, WorkersKeepUp DEF Next
<1>2. IndInv /\ [Next]_vars => [FallsBehind => Ways]_vars
  BY <1>1
<1> QED
  BY <1>2, Invariance, PTL DEF Spec, BehindOnlyBy
=============================================================================
