------------------------------ MODULE JobStore ------------------------------
(***************************************************************************)
(* The job store as every other part of the program sees it: the memory    *)
(* store (internal/store/jobstore/memory.go), whose operations all run     *)
(* under one mutex and are therefore one step each.                        *)
(*                                                                         *)
(* The module holds the store's state and its operations as actions over   *)
(* all of that state; the modules that extend it decide who calls them.    *)
(* GetJob and CountPendingJobs, which change nothing, are the state itself *)
(* and the operator CountPendingJobs.                                      *)
(***************************************************************************)
EXTENDS Jobs, Integers, FiniteSets

CONSTANTS
    TaskIDs,      \* ids of all tasks, of all jobs
    JobOf,        \* JobOf[t] is the job that task t was added to
    CreatedAt     \* CreatedAt[j] is the clock NewJob read for job j

ASSUME JobStoreAssumption ==
    /\ IsFiniteSet(JobIDs)
    /\ JobOf \in [TaskIDs -> JobIDs]
    /\ CreatedAt \in [JobIDs -> Nat]

VARIABLES
    status,       \* status of each stored job, or "absent"
    locked,       \* whether the stored job's LockedAt is set
    reason,       \* reason of each stored job
    tasks,        \* ids of the stored tasks
    variant,      \* VariantID of each task: 0 for nil, n > 0 for a variant's id
    subscribed,   \* whether the worker pool's channel is subscribed
    signal        \* whether that channel, of capacity one, holds a signal

jobVars == <<status, locked, reason, tasks, variant>>
storeVars == <<status, locked, reason, tasks, variant, subscribed, signal>>

JobStoreTypeOK ==
    /\ status \in [JobIDs -> JobStatus \cup {"absent"}]
    /\ locked \in [JobIDs -> BOOLEAN]
    /\ reason \in [JobIDs -> Reasons \cup {NoReason}]
    /\ tasks \in SUBSET TaskIDs
    /\ variant \in [TaskIDs -> Nat]
    /\ subscribed \in BOOLEAN
    /\ signal \in BOOLEAN

JobStoreInit ==
    /\ status = [j \in JobIDs |-> "absent"]
    /\ locked = [j \in JobIDs |-> FALSE]
    /\ reason = [j \in JobIDs |-> NoReason]
    /\ tasks = {}
    /\ variant = [t \in TaskIDs |-> 0]
    /\ subscribed = FALSE
    /\ signal = FALSE

-----------------------------------------------------------------------------
Stored(j) == status[j] # "absent"

TasksOf(j) == {t \in tasks : JobOf[t] = j}

PendingJobs == {j \in JobIDs : status[j] = "pending"}

CountPendingJobs == Cardinality(PendingJobs)

\* What AcquireJob may return: sort.Slice is not stable and the pending jobs
\* come out of a map, so any one of the oldest.
OldestPending ==
    {j \in PendingJobs : \A k \in PendingJobs : CreatedAt[j] <= CreatedAt[k]}

\* The copy that AcquireJob returns, taken after it locked the stored job.
Acquired(j) == [id |-> j, status |-> "processing", locked |-> TRUE, reason |-> reason[j]]

-----------------------------------------------------------------------------
SubscribeOnJob ==
    /\ subscribed' = TRUE
    /\ signal' = FALSE                   \* a new, empty channel
    /\ UNCHANGED jobVars

UnsubscribeOnJob ==
    /\ subscribed' = FALSE
    /\ UNCHANGED <<jobVars, signal>>

\* Broken variant: a full channel loses what it holds.
notifySubscribersToggling ==
    signal' = (subscribed /\ ~signal)

\* A non-blocking send: a full channel already holds a signal.
notifySubscribers ==
    signal' = (subscribed \/ signal)

\* Stores the job with all its tasks, and notifies while it has the lock.
\* An id that is taken is an error and leaves the store as it was.
CreateJob(j) ==
    /\ ~Stored(j)
    /\ status' = [status EXCEPT ![j] = "pending"]
    /\ locked' = [locked EXCEPT ![j] = FALSE]
    /\ reason' = [reason EXCEPT ![j] = NoReason]
    /\ tasks' = tasks \cup {t \in TaskIDs : JobOf[t] = j}
    /\ variant' = [t \in TaskIDs |-> IF JobOf[t] = j THEN 0 ELSE variant[t]]
    /\ notifySubscribers
    /\ UNCHANGED subscribed

\* Broken variant: the job stays pending, as if two workers could read it
\* before either wrote it.
AcquireJobWithoutStatus(j) ==
    /\ j \in OldestPending
    /\ UNCHANGED storeVars

AcquireJob(j) ==
    /\ j \in OldestPending
    /\ status' = [status EXCEPT ![j] = "processing"]
    /\ locked' = [locked EXCEPT ![j] = TRUE]
    /\ UNCHANGED <<reason, tasks, variant, subscribed, signal>>

\* AcquireJob returned no job and no error.
NoJobAvailable == PendingJobs = {}

\* Broken variant: the sweep forgets to clear the lock.
ReleaseJobsKeepingLocks(expired) ==
    /\ expired \subseteq {j \in JobIDs : status[j] = "processing" /\ locked[j]}
    /\ status' = [j \in JobIDs |-> IF j \in expired THEN "pending" ELSE status[j]]
    /\ UNCHANGED <<locked, reason, tasks, variant, subscribed, signal>>

\* The jobs whose lease is over go back to pending, without a signal.
ReleaseJobs(expired) ==
    /\ expired \subseteq {j \in JobIDs : status[j] = "processing" /\ locked[j]}
    /\ status' = [j \in JobIDs |-> IF j \in expired THEN "pending" ELSE status[j]]
    /\ locked' = [j \in JobIDs |-> IF j \in expired THEN FALSE ELSE locked[j]]
    /\ UNCHANGED <<reason, tasks, variant, subscribed, signal>>

\* Writes a copy back over the stored job, whatever the stored job says now.
\* It is an error when the job is gone.
UpdateJob(job) ==
    /\ Stored(job.id)
    /\ status' = [status EXCEPT ![job.id] = job.status]
    /\ locked' = [locked EXCEPT ![job.id] = job.locked]
    /\ reason' = [reason EXCEPT ![job.id] = job.reason]
    /\ UNCHANGED <<tasks, variant, subscribed, signal>>

DeleteJob(j) ==
    /\ Stored(j)
    /\ status' = [status EXCEPT ![j] = "absent"]
    /\ locked' = [locked EXCEPT ![j] = FALSE]
    /\ reason' = [reason EXCEPT ![j] = NoReason]
    /\ tasks' = {t \in tasks : JobOf[t] # j}
    /\ variant' = [t \in TaskIDs |-> IF JobOf[t] = j THEN 0 ELSE variant[t]]
    /\ UNCHANGED <<subscribed, signal>>

\* Broken variant: writes the results before it has checked all tasks, and
\* gives up at one that is missing or not the first.
UpdateTasksPartly(ts, vs) ==
    /\ ts \subseteq tasks
    /\ variant' = [t \in TaskIDs |-> IF t \in ts /\ t = (CHOOSE u \in ts : TRUE)
                                     THEN vs[t] ELSE variant[t]]
    /\ UNCHANGED <<status, locked, reason, tasks, subscribed, signal>>

\* All of the tasks get their variant, or, when one is missing, none does.
UpdateTasks(ts, vs) ==
    /\ ts \subseteq tasks
    /\ variant' = [t \in TaskIDs |-> IF t \in ts THEN vs[t] ELSE variant[t]]
    /\ UNCHANGED <<status, locked, reason, tasks, subscribed, signal>>
=============================================================================
