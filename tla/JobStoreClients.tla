-------------------------- MODULE JobStoreClients --------------------------
(***************************************************************************)
(* The job store under any clients that follow the protocol its interface  *)
(* offers: acquire a job, work on the copy, store the tasks' results, write *)
(* the copy back.  Next to them run the two operations the server itself   *)
(* never calls but the store implements: ReleaseJobs, which takes jobs away *)
(* from clients that still hold a copy of them, and DeleteJob.             *)
(***************************************************************************)
EXTENDS JobStore

CONSTANTS
    Clients,       \* goroutines that acquire jobs
    MaxAcquires    \* bound: acquisitions in a behaviour

ASSUME ClientsAssumption == MaxAcquires \in Nat

VARIABLES
    copy,          \* the job each client holds a copy of, or NoCopy
    attempt,       \* number of the acquisition each client works on
    stored,        \* whether the client has stored its tasks' results
    acquires,      \* acquisitions so far; numbers the variants uploaded
    unused,        \* job ids that were never used: an id is never used twice
    swept,         \* jobs that were released while a client had a copy
    unheard        \* jobs created since the subscriber last emptied its channel

clientVars == <<copy, attempt, stored, acquires>>
vars == <<storeVars, clientVars, unused, swept, unheard>>

NoCopy == [id |-> "none"]

Holds(c) == copy[c] # NoCopy

TypeOK ==
    /\ JobStoreTypeOK
    /\ copy \in [Clients -> Job \cup {NoCopy}]
    /\ attempt \in [Clients -> 0 .. MaxAcquires]
    /\ stored \in [Clients -> BOOLEAN]
    /\ acquires \in 0 .. MaxAcquires
    /\ unused \subseteq JobIDs
    /\ swept \subseteq JobIDs
    /\ unheard \subseteq JobIDs

Init ==
    /\ JobStoreInit
    /\ copy = [c \in Clients |-> NoCopy]
    /\ attempt = [c \in Clients |-> 0]
    /\ stored = [c \in Clients |-> FALSE]
    /\ acquires = 0
    /\ unused = JobIDs
    /\ swept = {}
    /\ unheard = {}

-----------------------------------------------------------------------------
Create(j) ==
    /\ j \in unused
    /\ CreateJob(j)
    /\ unused' = unused \ {j}
    /\ unheard' = IF subscribed THEN unheard \cup {j} ELSE unheard
    /\ UNCHANGED <<clientVars, swept>>

Acquire(c) ==
    /\ ~Holds(c)
    /\ acquires < MaxAcquires
    /\ \E j \in JobIDs :
         /\ AcquireJob(j)
         /\ copy' = [copy EXCEPT ![c] = Acquired(j)]
    /\ acquires' = acquires + 1
    /\ attempt' = [attempt EXCEPT ![c] = acquires + 1]
    /\ stored' = [stored EXCEPT ![c] = FALSE]
    /\ UNCHANGED <<unused, swept, unheard>>

\* The client uploaded one variant per task; the variants of different
\* attempts differ.
StoreResults(c) ==
    /\ Holds(c)
    /\ ~stored[c]
    /\ LET own == {t \in TaskIDs : JobOf[t] = copy[c].id} IN
         UpdateTasks(own, [t \in own |-> attempt[c]])
    /\ stored' = [stored EXCEPT ![c] = TRUE]
    /\ UNCHANGED <<copy, attempt, acquires, unused, swept, unheard>>

WriteBack(c) ==
    /\ Holds(c)
    /\ \/ stored[c] /\ UpdateJob(MarkCompleted(copy[c]))
       \/ \E e \in Reasons : UpdateJob(MarkFailed(copy[c], e))
       \/ ~stored[c] /\ UpdateJob(MarkPending(copy[c]))
    /\ copy' = [copy EXCEPT ![c] = NoCopy]
    /\ UNCHANGED <<attempt, stored, acquires, unused, swept, unheard>>

\* Every operation on a job that was deleted is an error.
GiveUp(c) ==
    /\ Holds(c)
    /\ ~Stored(copy[c].id)
    /\ copy' = [copy EXCEPT ![c] = NoCopy]
    /\ UNCHANGED <<storeVars, attempt, stored, acquires, unused, swept, unheard>>

\* Nothing calls ReleaseJobs yet; it is an operation of the store, with jobs whose
\* lease is over.
Sweep ==
    \E expired \in SUBSET {j \in JobIDs : status[j] = "processing"} :
        /\ expired # {}
        /\ ReleaseJobs(expired)
        /\ swept' = swept \cup expired
        /\ UNCHANGED <<clientVars, unused, unheard>>

Delete(j) ==
    /\ DeleteJob(j)
    /\ UNCHANGED <<clientVars, unused, swept, unheard>>

Subscribe ==
    /\ ~subscribed
    /\ SubscribeOnJob
    /\ unheard' = {}
    /\ UNCHANGED <<clientVars, unused, swept>>

Unsubscribe ==
    /\ subscribed
    /\ UnsubscribeOnJob
    /\ unheard' = {}
    /\ UNCHANGED <<clientVars, unused, swept>>

Receive ==
    /\ subscribed
    /\ signal
    /\ signal' = FALSE
    /\ unheard' = {}
    /\ UNCHANGED <<jobVars, subscribed, clientVars, unused, swept>>

Next ==
    \/ \E j \in JobIDs : Create(j) \/ Delete(j)
    \/ \E c \in Clients : Acquire(c) \/ StoreResults(c) \/ WriteBack(c) \/ GiveUp(c)
    \/ Sweep
    \/ Subscribe \/ Unsubscribe \/ Receive

Spec == Init /\ [][Next]_vars

-----------------------------------------------------------------------------
(* What the store keeps under any such clients, sweeps and deletions.       *)

LockedIffProcessing ==
    \A j \in JobIDs : locked[j] <=> status[j] = "processing"

ReasonIffFailed ==
    \A j \in JobIDs : reason[j] # NoReason <=> status[j] = "failed"

TasksFollowJobs ==
    tasks = {t \in TaskIDs : Stored(JobOf[t])}

\* What the store has of a job agrees, though UpdateJob writes back a copy that
\* was made at an earlier time and neither MarkPending nor MarkCompleted clears a
\* reason: no order of writes, sweeps and deletions leaves a job locked that
\* nobody processes, a reason on a job that did not fail, or the tasks of a job
\* that a client brought back, or the reverse of one of these (memory.go:36-40,
\* 120-122, 167-169, 184-190, job.go:46-67).
RecordsAgree == LockedIffProcessing /\ ReasonIffFailed /\ TasksFollowJobs

\* The variants of one job come from one attempt, even when a sweep has two
\* clients work on it at once, and a job that any of them completed has all of
\* them (memory.go:211-232, worker.go:122-128).
ResultsOfOneAttempt ==
    /\ \A t, u \in TaskIDs : JobOf[t] = JobOf[u] => variant[t] = variant[u]
    /\ \A t \in TaskIDs : status[JobOf[t]] = "completed" => variant[t] # 0

\* No wakeup is lost, though several may become one: while a job was created
\* that the subscriber has not heard of, a signal waits (memory.go:247-255).
SignalKept ==
    subscribed /\ unheard # {} => signal

\* Until a sweep takes a job away, it is held by at most one client, and
\* processing while it is held (memory.go:98-136).
HeldOnce ==
    \A c \in Clients : Holds(c) /\ copy[c].id \notin swept =>
        /\ Stored(copy[c].id) => status[copy[c].id] = "processing"
        /\ \A d \in Clients \ {c} : Holds(d) => copy[d].id # copy[c].id

Leases == INSTANCE JobLeases WITH
    record <- [j \in JobIDs |-> [status |-> status[j], locked |-> locked[j], reason |-> reason[j]]],
    results <- {t \in TaskIDs : variant[t] # 0},
    held <- [c \in Clients |-> IF Holds(c) THEN {copy[c].id} ELSE {}],
    Holders <- Clients, Sweeps <- TRUE, Deletes <- TRUE

\* The memory store under such clients implements what every job store promises:
\* what a client learned earlier, and writes back later, changes nothing that its
\* lease does not allow (memory.go:98-232, store.go:12-24).
ImplementsLeases == Leases!LeasesSpec

\* A job that no sweep took away from its client stays completed or failed
\* until it is deleted: nobody has an older copy of it to write back.
FinishedIsFinal ==
    [][\A j \in JobIDs \ swept :
         status[j] \in Finished => status'[j] \in {status[j], "absent"}]_vars
=============================================================================
