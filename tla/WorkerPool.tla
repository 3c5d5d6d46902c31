----------------------------- MODULE WorkerPool -----------------------------
(***************************************************************************)
(* The worker pool (internal/service/processor/workerpool.go) on the       *)
(* memory job store: the loop that listens for new jobs, the poller, the   *)
(* workers they start, and the goroutines that a worker leaves behind to   *)
(* start the next one.  All of them meet in two places only: the counter   *)
(* `pending', read and changed by separate atomic instructions, and the    *)
(* channel `sem', whose capacity limits the workers.                       *)
(*                                                                         *)
(* Worker.Run is coarser here than in Worker.tla: a worker acquires a job, *)
(* and later either completes it in the store or leaves it to a goroutine  *)
(* that will write it back failed or pending.                              *)
(*                                                                         *)
(* Goroutines of the same kind are alike, so they are counted by where     *)
(* they are.  Steps that no other goroutine can tell apart are one step:   *)
(* wg.Add and wg.Done are seen by Stop alone and go with the step before   *)
(* or after them.                                                          *)
(***************************************************************************)
EXTENDS JobStore

CONSTANTS
    MaxWorkers,     \* NewWorkerPool's maxWorkers, the default already applied
    Backlog,        \* jobs that the store holds, pending, when the pool starts
    Shutdown,       \* whether the process is told to stop
    CountCanFail,   \* whether CountPendingJobs can return an error
    MaxRetries,     \* bound: attempts that end in a temporary error
    MaxFinishing    \* bound: workers that are past their token and not yet gone

ASSUME PoolAssumption ==
    /\ MaxWorkers \in Nat \ {0}
    /\ Backlog \subseteq JobIDs
    /\ Shutdown \in BOOLEAN
    /\ CountCanFail \in BOOLEAN
    /\ MaxRetries \in Nat
    /\ MaxFinishing \in Nat \ {0}

VARIABLES
    pending,        \* the counter
    sem,            \* tokens in the channel sem
    wg,             \* count of the wait group
    at,             \* where the loop of Run and pollingLoop are
    retries,        \* goroutines that call tryStartWorker, by where they are
    crew,           \* workers without a job, by where they are
    running,        \* the job copies of the workers that process one
    writers,        \* copies that goroutines left by Worker.Run have yet to write
    stop,           \* how far main has got with shutting down
    retried         \* attempts that ended in a temporary error

poolVars == <<pending, sem, wg, at, retries, crew, running, writers, stop, retried>>
vars == <<storeVars, poolVars>>

\* The two goroutines that live as long as the pool.
Threads == {"loop", "poller"}

\* tryStartWorker is about to: read the counter, send a token, count down.
Stages == {"load", "send", "down"}

\* A worker is about to: acquire a job, give its token back, look for more.
CrewStages == {"acquire", "exit", "check"}

\* The counter can fall for ever.  Below this value it does not matter how far
\* it fell: the notifications still to come cannot bring it back to zero.
PendingFloor == -(Cardinality(JobIDs) + 1)

TypeOK ==
    /\ JobStoreTypeOK
    /\ pending \in Int
    /\ sem \in Nat
    /\ wg \in Nat
    /\ at \in [Threads -> Stages \cup {"off", "select", "done"}]
    /\ retries \in [Stages -> Nat]
    /\ crew \in [CrewStages -> Nat]
    /\ running \in SUBSET Job
    /\ writers \in SUBSET Job
    /\ stop \in {"no", "waiting", "stopped", "exited"}
    /\ retried \in Nat

Init ==
    /\ status = [j \in JobIDs |-> IF j \in Backlog THEN "pending" ELSE "absent"]
    /\ locked = [j \in JobIDs |-> FALSE]
    /\ reason = [j \in JobIDs |-> NoReason]
    /\ tasks = {t \in TaskIDs : JobOf[t] \in Backlog}
    /\ variant = [t \in TaskIDs |-> 0]
    /\ subscribed = TRUE                \* NewWorkerPool
    /\ signal = FALSE
    /\ pending = 0
    /\ sem = 0
    /\ wg = 0
    /\ at = [p \in Threads |-> "off"]
    /\ retries = [s \in Stages |-> 0]
    /\ crew = [s \in CrewStages |-> 0]
    /\ running = {}
    /\ writers = {}
    /\ stop = "no"
    /\ retried = 0

-----------------------------------------------------------------------------
\* Everything ends with the process.
Alive == stop # "exited"

Idle(p) == at[p] = "select"

\* POST /api/v1/job; the server goes on accepting jobs while the pool stops.
Create(j) ==
    /\ Alive
    /\ CreateJob(j)
    /\ UNCHANGED poolVars

\* Run counts the jobs that are there, and starts the poller.
StartRun ==
    /\ Alive
    /\ at["loop"] = "off"
    /\ \/ pending' = CountPendingJobs
       \/ CountCanFail /\ pending' = pending
    /\ wg' = wg + 1
    /\ at' = [p \in Threads |-> "select"]
    /\ UNCHANGED <<storeVars, sem, retries, crew, running, writers, stop, retried>>

\* The loop receives a notification and counts it: between the two nothing of it
\* is seen but the counter, which others then find as before the step.
Notified ==
    /\ Alive
    /\ Idle("loop")
    /\ subscribed /\ signal
    /\ signal' = FALSE
    /\ pending' = pending + 1
    /\ at' = [at EXCEPT !["loop"] = "load"]
    /\ UNCHANGED <<jobVars, subscribed, sem, wg, retries, crew, running, writers, stop, retried>>

LoopStops ==
    /\ Alive
    /\ Idle("loop")
    /\ stop # "no"
    /\ UnsubscribeOnJob
    /\ at' = [at EXCEPT !["loop"] = "done"]
    /\ UNCHANGED <<pending, sem, wg, retries, crew, running, writers, stop, retried>>

\* The poller's ticker fires.
Tick ==
    /\ Alive
    /\ Idle("poller")
    /\ at' = [at EXCEPT !["poller"] = "load"]
    /\ UNCHANGED <<storeVars, pending, sem, wg, retries, crew, running, writers, stop, retried>>

\* Broken variant: pollingLoop does not defer wg.Done.
PollerStopsSilently ==
    /\ Alive
    /\ Idle("poller")
    /\ stop # "no"
    /\ at' = [at EXCEPT !["poller"] = "done"]
    /\ UNCHANGED <<storeVars, pending, sem, wg, retries, crew, running, writers, stop, retried>>

PollerStops ==
    /\ Alive
    /\ Idle("poller")
    /\ stop # "no"
    /\ at' = [at EXCEPT !["poller"] = "done"]
    /\ wg' = wg - 1
    /\ UNCHANGED <<storeVars, pending, sem, retries, crew, running, writers, stop, retried>>

-----------------------------------------------------------------------------
(* tryStartWorker: the counter is read, then the token is sent, then the    *)
(* counter goes down; other callers come between.                           *)

\* The caller moves from one stage to the next, or, to "select", returns; a
\* goroutine that called it from runWorker is gone when it returns.
Moves(caller, from, to) ==
    IF caller \in Threads
    THEN /\ at[caller] = from
         /\ at' = [at EXCEPT ![caller] = to]
         /\ UNCHANGED retries
    ELSE /\ retries[from] > 0
         /\ retries' = [s \in Stages |->
                          retries[s] - (IF s = from THEN 1 ELSE 0)
                                     + (IF s = to THEN 1 ELSE 0)]
         /\ UNCHANGED at

Callers == Threads \cup {"retry"}

LoadPending(caller) ==
    /\ Alive
    /\ Moves(caller, "load", IF pending = 0 THEN "select" ELSE "send")
    /\ UNCHANGED <<storeVars, pending, sem, wg, crew, running, writers, stop, retried>>

\* Broken variant: the channel has one place too many.
SendTokenOffByOne(caller) ==
    /\ Alive
    /\ Moves(caller, "send", IF sem <= MaxWorkers THEN "down" ELSE "select")
    /\ sem' = IF sem <= MaxWorkers THEN sem + 1 ELSE sem
    /\ UNCHANGED <<storeVars, pending, wg, crew, running, writers, stop, retried>>

\* A non-blocking send.
SendToken(caller) ==
    /\ Alive
    /\ Moves(caller, "send", IF sem < MaxWorkers THEN "down" ELSE "select")
    /\ sem' = IF sem < MaxWorkers THEN sem + 1 ELSE sem
    /\ UNCHANGED <<storeVars, pending, wg, crew, running, writers, stop, retried>>

\* Broken variant: the worker is started without wg.Add.
StartWorkerUncounted(caller) ==
    /\ Alive
    /\ Moves(caller, "down", "select")
    /\ pending' = IF pending > PendingFloor THEN pending - 1 ELSE pending
    /\ crew' = [crew EXCEPT !["acquire"] = @ + 1]
    /\ UNCHANGED <<storeVars, sem, wg, running, writers, stop, retried>>

StartWorker(caller) ==
    /\ Alive
    /\ Moves(caller, "down", "select")
    /\ pending' = IF pending > PendingFloor THEN pending - 1 ELSE pending
    /\ wg' = wg + 1
    /\ crew' = [crew EXCEPT !["acquire"] = @ + 1]
    /\ UNCHANGED <<storeVars, sem, running, writers, stop, retried>>

-----------------------------------------------------------------------------
(* runWorker, with Worker.Run in it.                                        *)

Crew(from, to) ==
    /\ crew[from] > 0
    /\ crew' = [crew EXCEPT ![from] = @ - 1, ![to] = @ + 1]

RunAcquires ==
    /\ Alive
    /\ crew["acquire"] > 0
    /\ crew' = [crew EXCEPT !["acquire"] = @ - 1]
    /\ \E j \in JobIDs :
         /\ AcquireJob(j)
         /\ running' = running \cup {Acquired(j)}
    /\ UNCHANGED <<pending, sem, wg, at, retries, writers, stop, retried>>

RunFindsNothing ==
    /\ Alive
    /\ NoJobAvailable
    /\ Crew("acquire", "exit")
    /\ UNCHANGED <<storeVars, pending, sem, wg, at, retries, running, writers, stop, retried>>

RunCompletes(copy) ==
    /\ Alive
    /\ copy \in running
    /\ UpdateJob(MarkCompleted(copy))
    /\ running' = running \ {copy}
    /\ crew' = [crew EXCEPT !["exit"] = @ + 1]
    /\ UNCHANGED <<pending, sem, wg, at, retries, writers, stop, retried>>

\* Broken variant: no goroutine is left to write the job back.
RunGivesBackForgetful(copy) ==
    /\ Alive
    /\ copy \in running
    /\ running' = running \ {copy}
    /\ crew' = [crew EXCEPT !["exit"] = @ + 1]
    /\ UNCHANGED <<storeVars, pending, sem, wg, at, retries, writers, stop, retried>>

\* An error, here one of either class: a goroutine, which the wait group does
\* not count, is left to write the job back.
RunGivesBack(copy) ==
    /\ Alive
    /\ copy \in running
    /\ \E e \in {"not found", "other"} :
         IF isRetryableError(e)
         THEN /\ retried < MaxRetries
              /\ retried' = retried + 1
              /\ writers' = writers \cup {MarkPending(copy)}
         ELSE /\ writers' = writers \cup {MarkFailed(copy, e)}
              /\ UNCHANGED retried
    /\ running' = running \ {copy}
    /\ crew' = [crew EXCEPT !["exit"] = @ + 1]
    /\ UNCHANGED <<storeVars, pending, sem, wg, at, retries, stop>>

Write(copy) ==
    /\ Alive
    /\ copy \in writers
    /\ UpdateJob(copy)
    /\ writers' = writers \ {copy}
    /\ UNCHANGED <<pending, sem, wg, at, retries, crew, running, stop, retried>>

\* Broken variant: the deferred function forgets the token.
WorkerExitsWithToken ==
    /\ Alive
    /\ crew["check"] < MaxFinishing
    /\ Crew("exit", "check")
    /\ wg' = wg - 1
    /\ UNCHANGED <<storeVars, pending, sem, at, retries, running, writers, stop, retried>>

\* The deferred function of runWorker gives the token back and calls wg.Done.
WorkerExits ==
    /\ Alive
    /\ crew["check"] < MaxFinishing
    /\ Crew("exit", "check")
    /\ sem' = sem - 1
    /\ wg' = wg - 1
    /\ UNCHANGED <<storeVars, pending, at, retries, running, writers, stop, retried>>

\* It then looks at the counter, and leaves a goroutine when there is more to do.
WorkerChecks ==
    /\ Alive
    /\ crew["check"] > 0
    /\ crew' = [crew EXCEPT !["check"] = @ - 1]
    /\ retries' = IF pending > 0 THEN [retries EXCEPT !["load"] = @ + 1] ELSE retries
    /\ UNCHANGED <<storeVars, pending, sem, wg, at, running, writers, stop, retried>>

-----------------------------------------------------------------------------
(* The goroutine of main that waits for a signal.                           *)

\* Stop closes stopCh ...
CloseStopCh ==
    /\ Shutdown
    /\ stop = "no"
    /\ stop' = "waiting"
    /\ UNCHANGED <<storeVars, pending, sem, wg, at, retries, crew, running, writers, retried>>

\* ... and waits for the wait group.
StopReturns ==
    /\ stop = "waiting"
    /\ wg = 0
    /\ stop' = "stopped"
    /\ UNCHANGED <<storeVars, pending, sem, wg, at, retries, crew, running, writers, retried>>

\* os.Exit.
Exit ==
    /\ stop = "stopped"
    /\ stop' = "exited"
    /\ UNCHANGED <<storeVars, pending, sem, wg, at, retries, crew, running, writers, retried>>

-----------------------------------------------------------------------------
TryStart(caller) == LoadPending(caller) \/ SendToken(caller) \/ StartWorker(caller)

RunEnds(copy) == RunCompletes(copy) \/ RunGivesBack(copy)

Next ==
    \/ \E j \in JobIDs : Create(j)
    \/ StartRun \/ Notified \/ LoopStops \/ Tick \/ PollerStops
    \/ \E caller \in Callers : TryStart(caller)
    \/ RunAcquires \/ RunFindsNothing
    \/ \E copy \in running : RunEnds(copy)
    \/ \E copy \in writers : Write(copy)
    \/ WorkerExits \/ WorkerChecks
    \/ CloseStopCh \/ StopReturns \/ Exit

Spec == Init /\ [][Next]_vars

\* Goroutines run, an attempt ends, the ticker ticks.  A select with two ready
\* channels chooses at random, so a branch that is ready again and again is
\* taken: strong fairness for each of the two that compete with another.
Fairness ==
    /\ WF_vars(StartRun)
    /\ SF_vars(Notified) /\ SF_vars(LoopStops)
    /\ SF_vars(Tick) /\ SF_vars(PollerStops)
    /\ \A caller \in Callers : WF_vars(TryStart(caller))
    /\ WF_vars(RunAcquires \/ RunFindsNothing)
    /\ WF_vars(\E copy \in running : RunEnds(copy))
    /\ WF_vars(\E copy \in writers : Write(copy))
    /\ WF_vars(WorkerExits) /\ WF_vars(WorkerChecks)
    /\ WF_vars(StopReturns)

FairSpec == Spec /\ Fairness

-----------------------------------------------------------------------------
Workers == crew["acquire"] + Cardinality(running) + crew["exit"]

\* The callers of tryStartWorker that have sent a token and started no worker.
Starting ==
    (IF at["loop"] = "down" THEN 1 ELSE 0) + (IF at["poller"] = "down" THEN 1 ELSE 0)
        + retries["down"]

\* Each token in the channel belongs to one worker, or to one that is about to
\* be started, and never more than MaxWorkers are out, however the three kinds
\* of callers interleave (workerpool.go:97-116, README.md:114).
TokensMatchWorkers ==
    /\ sem = Workers + Starting
    /\ Workers <= MaxWorkers

\* The wait group counts the poller and the workers, no more and no fewer, so
\* that Stop neither returns early because of a worker it knew of nor waits for
\* one that is gone (workerpool.go:74-75, 91-95, 104, 116, 135).
WaitGroupMatches ==
    wg = Workers + (IF at["poller"] \in {"off", "done"} THEN 0 ELSE 1)

\* A job that the store says is being processed is held by one worker, or by one
\* goroutine that is to write it back, and by nobody else.  When the process
\* exits these are the jobs it loses: the writers are not in the wait group, nor
\* are the loop and the goroutines that start a worker after Stop has returned
\* (main.go:57-66, workerpool.go:91-125, worker.go:90-118).
ProcessingIsHeld ==
    /\ \A j \in JobIDs :
         status[j] = "processing" <=> \E copy \in running \cup writers : copy.id = j
    /\ \A c, d \in running \cup writers : c.id = d.id => c = d

\* A job that is pending is picked up while the pool runs: the loop hears of new
\* jobs, and the poller is the fallback (workerpool.go:61, 133).
PendingIsTaken ==
    \A j \in JobIDs :
        status[j] = "pending" ~> (status[j] # "pending" \/ stop # "no")

\* Once Run has counted, the pool knows of fewer jobs than there are: the counter,
\* the signal in the channel and the workers about to acquire account for less
\* than is pending.
Behind ==
    /\ at["loop"] # "off"
    /\ pending + (IF signal THEN 1 ELSE 0) + crew["acquire"] < CountPendingJobs

\* The counter is all that can go wrong: as long as the pool is not behind, every
\* pending job is picked up, although each start reads, sends and counts in
\* separate steps (workerpool.go:97-125).
TakenUnlessBehind ==
    []~Behind => PendingIsTaken

\* Stop returns, though workers go on starting workers while it waits
\* (workerpool.go:91-95, 119-124).
StopEnds ==
    stop = "waiting" ~> stop \in {"stopped", "exited"}
=============================================================================
