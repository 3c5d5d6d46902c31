---------------------------- MODULE PostgresStore ----------------------------
(***************************************************************************)
(* The job store in PostgreSQL (internal/store/jobstore/postgres.go), as   *)
(* one or several server processes use it at once.  The memory store of    *)
(* JobStore.tla does each operation in one step; here an operation is a    *)
(* transaction of several statements, on a connection of the process's     *)
(* pool, and other operations come between.                                *)
(*                                                                         *)
(* The database itself is not part of the repository.  What is assumed of  *)
(* it: what a transaction writes is seen by others from its commit on; a   *)
(* row it wrote, or selected FOR UPDATE, is locked until it ends; SKIP     *)
(* LOCKED passes over locked rows; a NOTIFY reaches every session that     *)
(* listens at the commit.  A statement outside of a transaction is one     *)
(* step: it needs one connection, and gives it back.                       *)
(***************************************************************************)
EXTENDS Jobs, Integers, FiniteSets

CONSTANTS
    TaskIDs, JobOf, CreatedAt,     \* as in JobStore.tla
    Instances,     \* server processes
    Workers,       \* goroutines in Worker.Run, of all instances
    Handlers,      \* goroutines that serve requests, of all instances
    InstanceOf,    \* the process each goroutine runs in
    MaxConns,      \* limit of each process's connection pool
    Deletes,       \* whether somebody calls DeleteJob
    LeaseSweeps,   \* whether somebody calls ReleaseJobs
    MaxFaults      \* bound: errors of the database

Callers == Workers \cup Handlers

Nobody == "nobody"
NoJob == "no job"

\* A transaction that its function returned from without ending it.
Abandoned == "abandoned"

ASSUME PostgresAssumption ==
    /\ IsFiniteSet(JobIDs) /\ NoJob \notin JobIDs
    /\ IsFiniteSet(Callers) /\ Workers \cap Handlers = {}
    /\ Nobody \notin Workers /\ Abandoned \notin Workers
    /\ JobOf \in [TaskIDs -> JobIDs]
    /\ CreatedAt \in [JobIDs -> Nat]
    /\ InstanceOf \in [Callers -> Instances]
    /\ MaxConns \in Nat \ {0}
    /\ Deletes \in BOOLEAN
    /\ LeaseSweeps \in BOOLEAN
    /\ MaxFaults \in Nat

VARIABLES
    \* The database, as committed.
    status,        \* status of each job's row, or "absent"
    locked,        \* whether its locked_at is set
    reason,        \* its reason
    tasks,         \* tasks that have a row
    results,       \* tasks whose row has a variant_id
    \* The locks of open transactions.
    rowLock,       \* who has locked each job's row
    taskLock,      \* who has locked each task's row
    \* The server processes.
    free,          \* connections each pool can hand out
    leaked,        \* connections that are never given back to their pool
    listening,     \* instances whose listener has a connection
    mail,          \* jobs whose notification is on its way to each listener
    signal,        \* instances whose subscriber's channel is full
    at,            \* where each caller is
    target,        \* the job its call is about
    copy,          \* the copy of a job each worker holds
    answer,        \* what each handler last read of a job that it saw completed
    \* Bookkeeping.
    unused,        \* job ids that were never used
    unheard,       \* jobs each subscriber should yet hear of
    faults

db == <<status, locked, reason, tasks, results>>
locks == <<rowLock, taskLock>>
news == <<mail, signal, unheard>>
vars == <<db, locks, free, leaked, listening, news, at, target, copy, answer, unused, faults>>

NoCopy == [id |-> NoJob]

\* "completed": the job has been read and its tasks have not.
Answers == [read : {"nothing", "completed", "incomplete", "no tasks"}, of : JobIDs \cup {NoJob}]
NoAnswer == [read |-> "nothing", of |-> NoJob]

Places == {"idle", "working", "stored", "failing",             \* between calls
           "acquire", "lookup", "acquire commit",              \* AcquireJob
           "results", "results commit",                        \* UpdateTasks
           "create", "notify", "get"}                          \* CreateJob, GetJob

TypeOK ==
    /\ status \in [JobIDs -> JobStatus \cup {"absent"}]
    /\ locked \in [JobIDs -> BOOLEAN]
    /\ reason \in [JobIDs -> Reasons \cup {NoReason}]
    /\ tasks \subseteq TaskIDs
    /\ results \subseteq tasks
    /\ rowLock \in [JobIDs -> Workers \cup {Nobody}]
    /\ taskLock \in [TaskIDs -> Workers \cup {Nobody, Abandoned}]
    /\ free \in [Instances -> 0 .. MaxConns]
    /\ leaked \in [Instances -> 0 .. MaxConns]
    /\ listening \subseteq Instances
    /\ mail \in [Instances -> SUBSET JobIDs]
    /\ signal \subseteq Instances
    /\ at \in [Callers -> Places]
    /\ target \in [Callers -> JobIDs \cup {NoJob}]
    /\ copy \in [Workers -> Job \cup {NoCopy}]
    /\ answer \in [Handlers -> Answers]
    /\ unused \subseteq JobIDs
    /\ unheard \in [Instances -> SUBSET JobIDs]
    /\ faults \in 0 .. MaxFaults

Init ==
    /\ status = [j \in JobIDs |-> "absent"]
    /\ locked = [j \in JobIDs |-> FALSE]
    /\ reason = [j \in JobIDs |-> NoReason]
    /\ tasks = {}
    /\ results = {}
    /\ rowLock = [j \in JobIDs |-> Nobody]
    /\ taskLock = [t \in TaskIDs |-> Nobody]
    /\ free = [i \in Instances |-> MaxConns]
    /\ leaked = [i \in Instances |-> 0]
    /\ listening = {}
    /\ mail = [i \in Instances |-> {}]
    /\ signal = {}
    /\ at = [c \in Callers |-> "idle"]
    /\ target = [c \in Callers |-> NoJob]
    /\ copy = [w \in Workers |-> NoCopy]
    /\ answer = [h \in Handlers |-> NoAnswer]
    /\ unused = JobIDs
    /\ unheard = [i \in Instances |-> {}]
    /\ faults = 0

-----------------------------------------------------------------------------
Stored(j) == status[j] # "absent"

TasksOf(j) == {t \in TaskIDs : JobOf[t] = j}

Fault ==
    /\ faults < MaxFaults
    /\ faults' = faults + 1

\* A connection for a transaction, and back.
TakeConn(c) ==
    /\ free[InstanceOf[c]] > 0
    /\ free' = [free EXCEPT ![InstanceOf[c]] = @ - 1]

ReturnConn(c) == free' = [free EXCEPT ![InstanceOf[c]] = @ + 1]

\* A connection for one statement.
HasConn(c) == free[InstanceOf[c]] > 0

Go(c, place, j) ==
    /\ at' = [at EXCEPT ![c] = place]
    /\ target' = [target EXCEPT ![c] = j]

\* The jobs whose rows a commit makes pending anew, as OLD and NEW say.
Risen(newStatus) == {j \in JobIDs : newStatus[j] = "pending" /\ status[j] # "pending"}

\* Broken variant: the trigger only fires for new rows.
NotifyPendingInserted(newStatus) ==
    /\ mail' = [i \in Instances |->
         IF i \in listening
         THEN mail[i] \cup {j \in Risen(newStatus) : ~Stored(j)} ELSE mail[i]]
    /\ unheard' = [i \in Instances |->
         IF i \in listening THEN unheard[i] \cup Risen(newStatus) ELSE unheard[i]]
    /\ UNCHANGED signal

\* The trigger: a row that becomes pending is announced to all that listen.
NotifyPending(newStatus) ==
    /\ mail' = [i \in Instances |->
         IF i \in listening THEN mail[i] \cup Risen(newStatus) ELSE mail[i]]
    /\ unheard' = [i \in Instances |->
         IF i \in listening THEN unheard[i] \cup Risen(newStatus) ELSE unheard[i]]
    /\ UNCHANGED signal

-----------------------------------------------------------------------------
(* CreateJob.                                                              *)

CreateBegin(h) ==
    /\ at[h] = "idle"
    /\ TakeConn(h)
    /\ \E j \in unused :
         /\ Go(h, "create", j)
         /\ unused' = unused \ {j}
    /\ UNCHANGED <<db, locks, leaked, listening, news, copy, answer, faults>>

\* The inserts become visible together.
Insert(j) ==
    /\ status' = [status EXCEPT ![j] = "pending"]
    /\ tasks' = tasks \cup TasksOf(j)
    /\ NotifyPending(status')
    /\ UNCHANGED <<locked, reason, results>>

CreateCommit(h) ==
    /\ at[h] = "create"
    /\ Insert(target[h])
    /\ ReturnConn(h)
    /\ Go(h, "notify", target[h])
    /\ UNCHANGED <<locks, leaked, listening, copy, answer, unused, faults>>

\* A statement fails, and the deferred function rolls back; or the commit
\* does, and nobody knows whether it took place.
CreateFails(h) ==
    /\ at[h] = "create"
    /\ Fault
    /\ Insert(target[h]) \/ UNCHANGED <<db, news>>
    /\ ReturnConn(h)
    /\ Go(h, "idle", NoJob)
    /\ UNCHANGED <<locks, leaked, listening, copy, answer, unused>>

\* notifySubscribers, next to the trigger's notification.
CreateNotify(h) ==
    /\ at[h] = "notify"
    /\ signal' = signal \cup {InstanceOf[h]}
    /\ Go(h, "idle", NoJob)
    /\ UNCHANGED <<db, locks, free, leaked, listening, mail, unheard, copy, answer, unused, faults>>

-----------------------------------------------------------------------------
(* GetJob: two statements, in no transaction.                              *)

GetRow(h) ==
    /\ at[h] = "idle"
    /\ HasConn(h)
    /\ \E j \in JobIDs :
         /\ Stored(j)
         /\ answer' = [answer EXCEPT ![h] =
              IF status[j] = "completed" THEN [read |-> "completed", of |-> j] ELSE NoAnswer]
         /\ Go(h, "get", j)
    /\ UNCHANGED <<db, locks, free, leaked, listening, news, copy, unused, faults>>

\* What a completed job says with the tasks that were read for it: nothing to
\* remember if that is all of them, each with its variant.
WithTasks(j, listed) ==
    IF TasksOf(j) \subseteq listed \cap results THEN NoAnswer
    ELSE [read |-> IF listed = {} THEN "no tasks" ELSE "incomplete", of |-> j]

\* No row is no error: a job deleted since GetRow is returned without tasks.
GetTasks(h) ==
    /\ at[h] = "get"
    /\ HasConn(h)
    /\ answer' = [answer EXCEPT ![h] =
         IF @ = NoAnswer THEN @ ELSE WithTasks(target[h], TasksOf(target[h]) \cap tasks)]
    /\ Go(h, "idle", NoJob)
    /\ UNCHANGED <<db, locks, free, leaked, listening, news, copy, unused, faults>>

-----------------------------------------------------------------------------
(* AcquireJob.                                                             *)

AcquireBegin(w) ==
    /\ at[w] = "idle"
    /\ TakeConn(w)
    /\ Go(w, "acquire", NoJob)
    /\ UNCHANGED <<db, locks, leaked, listening, news, copy, answer, unused, faults>>

\* Broken variant: SELECT without FOR UPDATE SKIP LOCKED.
SelectableAlsoLocked == {j \in JobIDs : status[j] = "pending"}

Selectable == {j \in JobIDs : status[j] = "pending" /\ rowLock[j] = Nobody}

OldestSelectable ==
    {j \in Selectable : \A k \in Selectable : CreatedAt[j] <= CreatedAt[k]}

\* SELECT ... FOR UPDATE SKIP LOCKED LIMIT 1, and the UPDATE of the row.
AcquireSelect(w) ==
    /\ at[w] = "acquire"
    /\ \E j \in OldestSelectable :
         /\ rowLock' = [rowLock EXCEPT ![j] = w]
         /\ Go(w, "lookup", j)
    /\ UNCHANGED <<db, taskLock, free, leaked, listening, news, copy, answer, unused, faults>>

\* Broken variant: the early return does not roll back.
AcquireNothingOpen(w) ==
    /\ at[w] = "acquire"
    /\ Selectable = {}
    /\ Go(w, "idle", NoJob)
    /\ UNCHANGED <<db, locks, free, leaked, listening, news, copy, answer, unused, faults>>

\* No row: the transaction is rolled back, since err is set.
AcquireNothing(w) ==
    /\ at[w] = "acquire"
    /\ Selectable = {}
    /\ ReturnConn(w)
    /\ Go(w, "idle", NoJob)
    /\ UNCHANGED <<db, locks, leaked, listening, news, copy, answer, unused, faults>>

\* getTasks reads on a second connection of the pool.
AcquireLookup(w) ==
    /\ at[w] = "lookup"
    /\ HasConn(w)
    /\ Go(w, "acquire commit", target[w])
    /\ UNCHANGED <<db, locks, free, leaked, listening, news, copy, answer, unused, faults>>

\* What the transaction wrote.
Lock(j) ==
    /\ status' = [status EXCEPT ![j] = "processing"]
    /\ locked' = [locked EXCEPT ![j] = TRUE]
    /\ UNCHANGED <<reason, tasks, results, news>>

Unlock(w) == rowLock' = [j \in JobIDs |-> IF rowLock[j] = w THEN Nobody ELSE rowLock[j]]

\* The copy has no reason: AcquireJob does not select that column.
AcquireCommit(w) ==
    /\ at[w] = "acquire commit"
    /\ Lock(target[w])
    /\ Unlock(w)
    /\ ReturnConn(w)
    /\ copy' = [copy EXCEPT ![w] =
         [id |-> target[w], status |-> "processing", locked |-> TRUE, reason |-> NoReason]]
    /\ Go(w, "working", target[w])
    /\ UNCHANGED <<taskLock, leaked, listening, answer, unused, faults>>

\* Broken variant: an error does not roll back.
AcquireFailsOpen(w) ==
    /\ at[w] \in {"acquire", "lookup", "acquire commit"}
    /\ Fault
    /\ Go(w, "idle", NoJob)
    /\ UNCHANGED <<db, locks, free, leaked, listening, news, copy, answer, unused>>

\* An error in any statement rolls back; an error of the commit may hide that
\* it took place, and then the job is locked and nobody has it.
AcquireFails(w) ==
    /\ at[w] \in {"acquire", "lookup", "acquire commit"}
    /\ Fault
    /\ \/ at[w] = "acquire commit" /\ Lock(target[w])
       \/ UNCHANGED <<db, news>>
    /\ Unlock(w)
    /\ ReturnConn(w)
    /\ Go(w, "idle", NoJob)
    /\ UNCHANGED <<taskLock, leaked, listening, copy, answer, unused>>

-----------------------------------------------------------------------------
(* UpdateTasks, for all tasks of the worker's job.                         *)

\* Run does not come this far with a job that has no tasks.
ResultsBegin(w) ==
    /\ at[w] = "working"
    /\ TasksOf(target[w]) # {}
    /\ TakeConn(w)
    /\ Go(w, "results", target[w])
    /\ UNCHANGED <<db, locks, leaked, listening, news, copy, answer, unused, faults>>

LockedBy(w) == {t \in TaskIDs : taskLock[t] = w}

\* The locks that a transaction of the worker has on rows of tasks go.
PassLocks(w, who) == taskLock' = [t \in TaskIDs |-> IF taskLock[t] = w THEN who ELSE taskLock[t]]

\* One UPDATE of the loop, which waits for a row that somebody else has locked.
\* The order is that of a SELECT without ORDER BY: it may differ between attempts.
ResultsWrite(w) ==
    /\ at[w] = "results"
    /\ \E t \in TasksOf(target[w]) \cap tasks :
         /\ taskLock[t] = Nobody
         /\ taskLock' = [taskLock EXCEPT ![t] = w]
         /\ Go(w, IF TasksOf(target[w]) \subseteq LockedBy(w) \cup {t} THEN "results commit"
                  ELSE "results", target[w])
    /\ UNCHANGED <<db, rowLock, free, leaked, listening, news, copy, answer, unused, faults>>

Leak(w) == leaked' = [leaked EXCEPT ![InstanceOf[w]] = @ + 1]

\* A row is gone.  The function returns in the loop, where the err that the
\* deferred function looks at is not the one that was set, or none was: the
\* transaction stays open, with the rows it updated until then locked.
ResultsMissing(w) ==
    /\ at[w] = "results"
    /\ ~(TasksOf(target[w]) \subseteq tasks)
    /\ PassLocks(w, Abandoned)
    /\ Leak(w)
    /\ Go(w, "failing", target[w])
    /\ UNCHANGED <<db, rowLock, free, listening, news, copy, answer, unused, faults>>

\* A statement fails: its transaction is aborted and locks nothing any more,
\* but it is not rolled back either, for the same reason.
ResultsFails(w) ==
    /\ at[w] = "results"
    /\ Fault
    /\ PassLocks(w, Nobody)
    /\ Leak(w)
    /\ Go(w, "failing", target[w])
    /\ UNCHANGED <<db, rowLock, free, listening, news, copy, answer, unused>>

\* Two attempts at one job each have a row that the other is to update next: the
\* database ends the wait by failing a statement of one.
ResultsDeadlock(w) ==
    /\ at[w] = "results" /\ LockedBy(w) # {}
    /\ \E v \in Workers \ {w} :
         at[v] = "results" /\ target[v] = target[w] /\ LockedBy(v) # {}
    /\ PassLocks(w, Nobody)
    /\ Leak(w)
    /\ Go(w, "failing", target[w])
    /\ UNCHANGED <<db, rowLock, free, listening, news, copy, answer, unused, faults>>

StoreResults(w) ==
    /\ results' = results \cup TasksOf(target[w])
    /\ UNCHANGED <<status, locked, reason, tasks, news>>

ResultsCommit(w) ==
    /\ at[w] = "results commit"
    /\ StoreResults(w)
    /\ PassLocks(w, Nobody)
    /\ ReturnConn(w)
    /\ Go(w, "stored", target[w])
    /\ UNCHANGED <<rowLock, leaked, listening, copy, answer, unused, faults>>

\* Broken variant: the error of the commit is not returned.
ResultsCommitFailsUnnoticed(w) ==
    /\ at[w] = "results commit"
    /\ Fault
    /\ StoreResults(w) \/ UNCHANGED <<db, news>>
    /\ PassLocks(w, Nobody)
    /\ ReturnConn(w)
    /\ Go(w, "stored", target[w])
    /\ UNCHANGED <<rowLock, leaked, listening, copy, answer, unused>>

ResultsCommitFails(w) ==
    /\ at[w] = "results commit"
    /\ Fault
    /\ StoreResults(w) \/ UNCHANGED <<db, news>>
    /\ PassLocks(w, Nobody)
    /\ ReturnConn(w)
    /\ Go(w, "failing", target[w])
    /\ UNCHANGED <<rowLock, leaked, listening, copy, answer, unused>>

-----------------------------------------------------------------------------
(* UpdateJob, DeleteJob and ReleaseJobs: one statement each.               *)

\* What a worker that goes on as Worker.Run does may write: why it gives up, a
\* permanent error or the want of tasks, makes no difference here.
WriteBack(w) ==
    CASE at[w] = "stored" -> {MarkCompleted(copy[w])}
      [] at[w] = "failing" -> {MarkFailed(copy[w], "other")}
      [] at[w] = "working" -> {MarkPending(copy[w]), MarkFailed(copy[w], "not found")}
      [] OTHER -> {}

\* Broken variant: an upsert, which brings a deleted job back.
UpdateRowOrInsert(job) ==
    /\ status' = [status EXCEPT ![job.id] = job.status]
    /\ locked' = [locked EXCEPT ![job.id] = job.locked]
    /\ reason' = [reason EXCEPT ![job.id] = job.reason]
    /\ NotifyPending(status')
    /\ UNCHANGED <<tasks, results>>

\* The row, when there is one, gets the columns of the copy.
UpdateRow(job) ==
    /\ Stored(job.id)
    /\ status' = [status EXCEPT ![job.id] = job.status]
    /\ locked' = [locked EXCEPT ![job.id] = job.locked]
    /\ reason' = [reason EXCEPT ![job.id] = job.reason]
    /\ NotifyPending(status')
    /\ UNCHANGED <<tasks, results>>

Drop(w) ==
    /\ copy' = [copy EXCEPT ![w] = NoCopy]
    /\ Go(w, "idle", NoJob)

UpdateJob(w) ==
    /\ HasConn(w)
    /\ \E job \in WriteBack(w) : rowLock[job.id] = Nobody /\ UpdateRow(job)
    /\ Drop(w)
    /\ UNCHANGED <<locks, free, leaked, listening, answer, unused, faults>>

\* The error is returned, or logged; the worker does not try again.
UpdateJobFails(w) ==
    /\ HasConn(w)
    /\ \E job \in WriteBack(w) :
         \/ ~Stored(job.id) /\ UNCHANGED <<db, news, faults>>
         \/ /\ Fault
            /\ rowLock[job.id] = Nobody
            /\ UpdateRow(job) \/ UNCHANGED <<db, news>>
    /\ Drop(w)
    /\ UNCHANGED <<locks, free, leaked, listening, answer, unused>>

\* The rows of the tasks go with the row of the job.
DeleteJob(h) ==
    /\ Deletes
    /\ at[h] = "idle"
    /\ HasConn(h)
    /\ \E j \in JobIDs :
         /\ Stored(j)
         /\ rowLock[j] = Nobody
         /\ \A t \in TasksOf(j) : taskLock[t] = Nobody
         /\ status' = [status EXCEPT ![j] = "absent"]
         /\ locked' = [locked EXCEPT ![j] = FALSE]
         /\ reason' = [reason EXCEPT ![j] = NoReason]
         /\ tasks' = tasks \ TasksOf(j)
         /\ results' = results \ TasksOf(j)
    /\ UNCHANGED <<locks, free, leaked, listening, news, at, target, copy, answer, unused, faults>>

ReleaseJobs(h) ==
    /\ LeaseSweeps
    /\ at[h] = "idle"
    /\ HasConn(h)
    /\ \E expired \in SUBSET {j \in JobIDs : status[j] = "processing" /\ locked[j]} :
         /\ expired # {}
         /\ status' = [j \in JobIDs |-> IF j \in expired THEN "pending" ELSE status[j]]
         /\ locked' = [j \in JobIDs |-> IF j \in expired THEN FALSE ELSE locked[j]]
    /\ NotifyPending(status')
    /\ UNCHANGED <<reason, tasks, results, locks, free, leaked, listening, at, target, copy,
                   answer, unused, faults>>

-----------------------------------------------------------------------------
(* startListener, and the subscriber.                                      *)

Listen(i) ==
    /\ i \notin listening
    /\ free[i] > 0
    /\ free' = [free EXCEPT ![i] = @ - 1]
    /\ listening' = listening \cup {i}
    /\ UNCHANGED <<db, locks, leaked, news, at, target, copy, answer, unused, faults>>

\* What was on its way is lost; the listener connects again and looks for no
\* job that it missed.
ListenerBreaks(i) ==
    /\ i \in listening
    /\ Fault
    /\ listening' = listening \ {i}
    /\ free' = [free EXCEPT ![i] = @ + 1]
    /\ mail' = [mail EXCEPT ![i] = {}]
    /\ unheard' = [unheard EXCEPT ![i] = IF i \in signal THEN @ ELSE {}]
    /\ UNCHANGED <<db, locks, leaked, signal, at, target, copy, answer, unused>>

Deliver(i) ==
    /\ \E j \in mail[i] : mail' = [mail EXCEPT ![i] = @ \ {j}]
    /\ signal' = signal \cup {i}
    /\ UNCHANGED <<db, locks, free, leaked, listening, unheard, at, target, copy, answer, unused,
                   faults>>

\* The subscriber empties its channel, and now knows of what was delivered.
Receive(i) ==
    /\ i \in signal
    /\ signal' = signal \ {i}
    /\ unheard' = [unheard EXCEPT ![i] = @ \cap mail[i]]
    /\ UNCHANGED <<db, locks, free, leaked, listening, mail, at, target, copy, answer, unused,
                   faults>>

-----------------------------------------------------------------------------
Create(h) == CreateCommit(h) \/ CreateFails(h) \/ CreateNotify(h)

Acquire(w) ==
    \/ AcquireSelect(w) \/ AcquireNothing(w) \/ AcquireLookup(w) \/ AcquireCommit(w)
    \/ AcquireFails(w)

Results(w) ==
    \/ ResultsWrite(w) \/ ResultsMissing(w) \/ ResultsFails(w) \/ ResultsDeadlock(w)
    \/ ResultsCommit(w) \/ ResultsCommitFails(w)

WorkOn(w) == ResultsBegin(w) \/ UpdateJob(w) \/ UpdateJobFails(w)

Next ==
    \/ \E h \in Handlers : CreateBegin(h) \/ Create(h) \/ GetRow(h) \/ GetTasks(h)
    \/ \E h \in Handlers : DeleteJob(h) \/ ReleaseJobs(h)
    \/ \E w \in Workers : AcquireBegin(w) \/ Acquire(w) \/ WorkOn(w) \/ Results(w)
    \/ \E i \in Instances : Listen(i) \/ ListenerBreaks(i) \/ Deliver(i) \/ Receive(i)

Spec == Init /\ [][Next]_vars

\* A caller goes on when it can.  A pool serves those that wait for a connection
\* in turn, so one that comes free again and again is had in the end.
Fairness ==
    /\ \A h \in Handlers : SF_vars(Create(h) \/ GetTasks(h))
    /\ \A w \in Workers : SF_vars(Acquire(w) \/ Results(w) \/ WorkOn(w))

FairSpec == Spec /\ Fairness

-----------------------------------------------------------------------------
InCall(c) == at[c] \notin {"idle", "working", "stored", "failing"}

\* The connections that callers of an instance have for their transactions.
OpenTransactions(i) ==
    Cardinality({c \in Callers : InstanceOf[c] = i /\ InCall(c) /\ at[c] \notin {"notify", "get"}})

\* Every connection is free, or in one transaction that still runs, or with the
\* listener, or among those that UpdateTasks lost: no other error path and no
\* early return keeps one (postgres.go:49-53, 135-139, 152-156, 268-305, 348-375).
ConnectionsAccounted ==
    \A i \in Instances :
        free[i] + OpenTransactions(i) + leaked[i] + (IF i \in listening THEN 1 ELSE 0) = MaxConns

\* A row of jobs is locked only while the AcquireJob that selected it runs, so
\* that no pending job is hidden from SKIP LOCKED for ever (postgres.go:129-182).
LocksEnd ==
    \A j \in JobIDs : rowLock[j] # Nobody =>
        at[rowLock[j]] \in {"lookup", "acquire commit"} /\ target[rowLock[j]] = j

\* No two workers, of one process or of several, have a copy of the same job,
\* or are about to get it (postgres.go:141-181).
AcquiredByOne ==
    \A v, w \in Workers :
        /\ target[v] # NoJob /\ target[v] = target[w] => v = w
        /\ copy[w] # NoCopy => status[copy[w].id] \in {"processing", "absent"}

Lifecycle == INSTANCE JobLifecycle WITH
    phase <- status, result <- [t \in TaskIDs |-> IF t \in results THEN 1 ELSE 0]

\* The transactions, of all processes together, implement the same life of a job
\* as the memory store's single steps, deletions included, as long as no lease is
\* swept (postgres.go:129-182, 227-305; README.md:343-356).
ImplementsLifecycle == Lifecycle!LifecycleSpec

Leases == INSTANCE JobLeases WITH
    record <- [j \in JobIDs |-> [status |-> status[j], locked |-> locked[j], reason |-> reason[j]]],
    held <- [w \in Workers |-> IF copy[w] = NoCopy THEN {} ELSE {copy[w].id}],
    Holders <- Workers, Sweeps <- LeaseSweeps

\* Although each operation is a transaction of several statements, which fail or
\* lose their answers, between them the workers of all processes implement what
\* every job store promises, and what is swept or deleted meanwhile changes nothing
\* of it (postgres.go:129-375, store.go:12-24).
ImplementsLeases == Leases!LeasesSpec

\* Whoever waits for a connection waits for somebody who has one and needs no
\* other: AcquireJob, which holds one while it asks for a second, never does so in
\* every worker of an instance at once (postgres.go:130-174, 330-338).
ConnectionComesFree ==
    \A i \in Instances : free[i] = 0 =>
        \E c \in Callers : InstanceOf[c] = i /\ InCall(c) /\ at[c] \notin {"lookup", "notify", "get"}

\* Whoever reads that a job is completed also reads all its tasks with their
\* variants, although GetJob reads the job and the tasks at different times, with
\* sweeps and late attempts in between; unless the job is deleted in between: then
\* all tasks are missing, never some (postgres.go:86-127, 268-305, 386-455;
\* worker.go:122-128).
CompletedIsComplete ==
    \A h \in Handlers :
        /\ answer[h].read # "incomplete"
        /\ answer[h].read = "no tasks" => ~Stored(answer[h].of)

\* A job that becomes pending while an instance listens, new or given back, is
\* announced there, however signals and notifications are merged
\* (postgres.go:367-379, 524-535; migrations.go:76-103).
PendingIsAnnounced ==
    \A i \in Instances : \A j \in unheard[i] : j \in mail[i] \/ i \in signal

\* Run acquires one job and processes it: AcquireJob returns (worker.go:63-75).
AcquireReturns ==
    \A w \in Workers : at[w] = "acquire" ~> at[w] \in {"idle", "working"}
=============================================================================
