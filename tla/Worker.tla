------------------------------- MODULE Worker -------------------------------
(***************************************************************************)
(* Workers on one job store: Worker.Run (internal/service/processor/       *)
(* worker.go) with everything it starts: one goroutine per task, and the   *)
(* goroutines that write a failed or released job back, or send its        *)
(* notification, after Run has returned.                                   *)
(*                                                                         *)
(* Each worker stands for a goroutine that calls Run again and again; when *)
(* it may do so is the business of the worker pool (WorkerPool.tla).  A    *)
(* worker that calls Run while nothing is pending changes nothing.         *)
(*                                                                         *)
(* The store may be one that fails (a database): each of its operations    *)
(* can then return an error, having taken effect or not.                   *)
(***************************************************************************)
EXTENDS JobStore

CONSTANTS
    Workers,
    CallsThatFail, \* the calls of the job store that can fail: a subset of Calls
    CanCrash,      \* whether the process can die and restart on a durable store
    MaxFaults      \* bound: temporary errors, store failures and crashes

\* AcquireJob, UpdateTasks, and UpdateJob in Run and in its goroutines.
Calls == {"acquire", "results", "complete", "write"}

ASSUME WorkerAssumption ==
    /\ CallsThatFail \subseteq Calls
    /\ CanCrash \in BOOLEAN
    /\ MaxFaults \in Nat

VARIABLES
    pc,            \* where each worker is in Run
    job,           \* the copy of a job each worker holds
    task,          \* state of each worker's goroutine for each task
    made,          \* VariantID in the worker's copy of each task
    uploads,       \* how many variants were uploaded for each task
    writers,       \* copies that goroutines started by Run have yet to write
    outbox,        \* notifications that goroutines have yet to send
    sent,          \* notifications that Kafka accepted
    faults         \* faults so far

workerVars == <<pc, job, task, made>>
vars == <<storeVars, pc, job, task, made, uploads, writers, outbox, sent, faults>>

NoJob == [id |-> "none"]

Steps == {"idle", "original", "tasks", "results", "complete"}

Notifications == [id : JobIDs, status : {"completed", "failed"}]

TypeOK ==
    /\ JobStoreTypeOK
    /\ pc \in [Workers -> Steps]
    /\ job \in [Workers -> Job \cup {NoJob}]
    /\ task \in [Workers -> [TaskIDs -> {"none", "running", "done"} \cup ErrorKinds]]
    /\ made \in [Workers -> [TaskIDs -> Nat]]
    /\ uploads \in [TaskIDs -> Nat]
    /\ writers \in SUBSET Job
    /\ outbox \in SUBSET Notifications
    /\ sent \in SUBSET Notifications
    /\ faults \in Nat

Init ==
    /\ JobStoreInit
    /\ pc = [w \in Workers |-> "idle"]
    /\ job = [w \in Workers |-> NoJob]
    /\ task = [w \in Workers |-> [t \in TaskIDs |-> "none"]]
    /\ made = [w \in Workers |-> [t \in TaskIDs |-> 0]]
    /\ uploads = [t \in TaskIDs |-> 0]
    /\ writers = {}
    /\ outbox = {}
    /\ sent = {}
    /\ faults = 0

-----------------------------------------------------------------------------
\* The bound on faults; a permanent error needs no bound, it ends the job.
Fault ==
    /\ faults < MaxFaults
    /\ faults' = faults + 1

MayFail(e) ==
    IF isRetryableError(e) THEN Fault ELSE UNCHANGED faults

StoreFault(call) == call \in CallsThatFail /\ Fault

\* A call of the store that failed took effect, or it did not.
TookEffect(A) == A \/ UNCHANGED storeVars

\* Run returns; the goroutine forgets its copy.
Return(w) ==
    /\ pc' = [pc EXCEPT ![w] = "idle"]
    /\ job' = [job EXCEPT ![w] = NoJob]
    /\ task' = [task EXCEPT ![w] = [t \in TaskIDs |-> "none"]]
    /\ made' = [made EXCEPT ![w] = [t \in TaskIDs |-> 0]]

\* Broken variant: Run forgets the goroutine that releases the job.
GiveBackForgetful(w, e) ==
    writers' = writers \cup
        IF isRetryableError(e) THEN {} ELSE {MarkFailed(job[w], e)}

\* Broken variant: no error is worth a second attempt.
GiveBackAsFailed(w, e) ==
    writers' = writers \cup {MarkFailed(job[w], e)}

\* What Run does with an error before it returns it: a goroutine releases the
\* job, or marks it failed.  Marking is done on the copy, which nobody else
\* uses any more, and only the write to the store is a step of its own.
GiveBack(w, e) ==
    writers' = writers \cup
        {IF isRetryableError(e) THEN MarkPending(job[w]) ELSE MarkFailed(job[w], e)}

-----------------------------------------------------------------------------
\* POST /api/v1/job.
Create(j) ==
    /\ CreateJob(j)
    /\ UNCHANGED <<pc, job, task, made, uploads, writers, outbox, sent, faults>>

Acquire(w) ==
    /\ pc[w] = "idle"
    /\ \E j \in JobIDs :
         /\ AcquireJob(j)
         /\ job' = [job EXCEPT ![w] = Acquired(j)]
    /\ pc' = [pc EXCEPT ![w] = "original"]
    /\ UNCHANGED <<task, made, uploads, writers, outbox, sent, faults>>

\* The store locked a job, but the worker only hears of an error.
AcquireFails(w) ==
    /\ pc[w] = "idle"
    /\ StoreFault("acquire")
    /\ \E j \in JobIDs : AcquireJob(j)
    /\ UNCHANGED <<workerVars, uploads, writers, outbox, sent>>

\* createTempDir and downloadOriginal.
DownloadOriginal(w) ==
    /\ pc[w] = "original"
    /\ pc' = [pc EXCEPT ![w] = "tasks"]
    /\ task' = [task EXCEPT ![w] =
         [t \in TaskIDs |-> IF t \in TasksOf(job[w].id) THEN "running" ELSE "none"]]
    /\ UNCHANGED <<storeVars, job, made, uploads, writers, outbox, sent, faults>>

\* No temporary directory (a temporary error), or no original.
DownloadFails(w) ==
    /\ pc[w] = "original"
    /\ \E e \in ErrorKinds : MayFail(e) /\ GiveBack(w, e)
    /\ Return(w)
    /\ UNCHANGED <<storeVars, uploads, outbox, sent>>

\* Broken variant: the goroutine does not note the variant in its task.
ProcessTaskWithoutComplete(w, t) ==
    /\ pc[w] = "tasks"
    /\ task[w][t] = "running"
    /\ uploads' = [uploads EXCEPT ![t] = @ + 1]
    /\ task' = [task EXCEPT ![w][t] = "done"]
    /\ UNCHANGED <<storeVars, pc, job, made, writers, outbox, sent, faults>>

\* One task's goroutine: process the original, upload the variant, and
\* complete the copy of the task with the variant's id.
ProcessTask(w, t) ==
    /\ pc[w] = "tasks"
    /\ task[w][t] = "running"
    /\ uploads' = [uploads EXCEPT ![t] = @ + 1]
    /\ made' = [made EXCEPT ![w][t] = uploads[t] + 1]
    /\ task' = [task EXCEPT ![w][t] = "done"]
    /\ UNCHANGED <<storeVars, pc, job, writers, outbox, sent, faults>>

TaskFails(w, t) ==
    /\ pc[w] = "tasks"
    /\ task[w][t] = "running"
    /\ \E e \in ErrorKinds :
         /\ MayFail(e)
         /\ task' = [task EXCEPT ![w][t] = e]
    /\ UNCHANGED <<storeVars, pc, job, made, uploads, writers, outbox, sent>>

\* Broken variant: does not wait for the tasks that still run.
WaitedNotAtAll(w) == pc[w] = "tasks"

\* Broken variant: waits for as many results as there are tasks, although a
\* task that fails sends none.
WaitedForResults(w) ==
    /\ pc[w] = "tasks"
    /\ \A t \in TaskIDs : task[w][t] \in {"none", "done"}

\* The wait group of processTasks.
Waited(w) ==
    /\ pc[w] = "tasks"
    /\ \A t \in TaskIDs : task[w][t] # "running"

Failed(w) == {t \in TaskIDs : task[w][t] \in ErrorKinds}

Done(w) == {t \in TaskIDs : task[w][t] = "done"}

TasksSucceed(w) ==
    /\ Waited(w)
    /\ Failed(w) = {}
    /\ Done(w) # {}
    /\ pc' = [pc EXCEPT ![w] = "results"]
    /\ UNCHANGED <<storeVars, job, task, made, uploads, writers, outbox, sent, faults>>

\* The error that counts is the first one sent: the goroutines send in any
\* order.  The variants that were uploaded stay behind.
TasksFail(w) ==
    /\ Waited(w)
    /\ \E t \in Failed(w) : GiveBack(w, task[w][t])
    /\ Return(w)
    /\ UNCHANGED <<storeVars, uploads, outbox, sent, faults>>

NoTasks(w) ==
    /\ Waited(w)
    /\ Failed(w) = {}
    /\ Done(w) = {}
    /\ writers' = writers \cup {MarkFailed(job[w], "no tasks completed")}
    /\ Return(w)
    /\ UNCHANGED <<storeVars, uploads, outbox, sent, faults>>

StoreResults(w) ==
    /\ pc[w] = "results"
    /\ UpdateTasks(Done(w), made[w])
    /\ pc' = [pc EXCEPT ![w] = "complete"]
    /\ UNCHANGED <<job, task, made, uploads, writers, outbox, sent, faults>>

\* Whatever the error, the job is marked failed.
StoreResultsFails(w) ==
    /\ pc[w] = "results"
    /\ StoreFault("results")
    /\ TookEffect(UpdateTasks(Done(w), made[w]))
    /\ writers' = writers \cup {MarkFailed(job[w], "other")}
    /\ Return(w)
    /\ UNCHANGED <<uploads, outbox, sent>>

CompleteJob(w) ==
    /\ pc[w] = "complete"
    /\ UpdateJob(MarkCompleted(job[w]))
    /\ outbox' = outbox \cup {[id |-> job[w].id, status |-> "completed"]}
    /\ Return(w)
    /\ UNCHANGED <<uploads, writers, sent, faults>>

\* Broken variant: announces the job although it could not be stored.
CompleteFailsAnnounced(w) ==
    /\ pc[w] = "complete"
    /\ StoreFault("complete")
    /\ TookEffect(UpdateJob(MarkCompleted(job[w])))
    /\ outbox' = outbox \cup {[id |-> job[w].id, status |-> "completed"]}
    /\ Return(w)
    /\ UNCHANGED <<uploads, writers, sent>>

\* Run returns the error, and nobody tries again or gives the job back.
CompleteFails(w) ==
    /\ pc[w] = "complete"
    /\ StoreFault("complete")
    /\ TookEffect(UpdateJob(MarkCompleted(job[w])))
    /\ Return(w)
    /\ UNCHANGED <<uploads, writers, outbox, sent>>

-----------------------------------------------------------------------------
\* The goroutine of markJobFailed or releaseJob reaches the store.  Only a
\* failed job is announced.
Write(copy) ==
    /\ copy \in writers
    /\ UpdateJob(copy)
    /\ writers' = writers \ {copy}
    /\ outbox' = outbox \cup
         IF copy.status = "failed" THEN {[id |-> copy.id, status |-> "failed"]} ELSE {}
    /\ UNCHANGED <<workerVars, uploads, sent, faults>>

\* The error is logged.
WriteFails(copy) ==
    /\ copy \in writers
    /\ StoreFault("write")
    /\ TookEffect(UpdateJob(copy))
    /\ writers' = writers \ {copy}
    /\ UNCHANGED <<workerVars, uploads, outbox, sent>>

\* SendMessage returns: Kafka has the notification, or it is lost.
Send(note) ==
    /\ note \in outbox
    /\ outbox' = outbox \ {note}
    /\ \/ sent' = sent \cup {note}
       \/ UNCHANGED sent
    /\ UNCHANGED <<storeVars, workerVars, uploads, writers, faults>>

\* The process dies, and comes up again on what the store has.
Crash ==
    /\ CanCrash
    /\ Fault
    /\ pc' = [w \in Workers |-> "idle"]
    /\ job' = [w \in Workers |-> NoJob]
    /\ task' = [w \in Workers |-> [t \in TaskIDs |-> "none"]]
    /\ made' = [w \in Workers |-> [t \in TaskIDs |-> 0]]
    /\ writers' = {}
    /\ outbox' = {}
    /\ UNCHANGED <<storeVars, uploads, sent>>

-----------------------------------------------------------------------------
RunStep(w) ==
    \/ DownloadOriginal(w) \/ DownloadFails(w)
    \/ \E t \in TaskIDs : ProcessTask(w, t) \/ TaskFails(w, t)
    \/ TasksSucceed(w) \/ TasksFail(w) \/ NoTasks(w)
    \/ StoreResults(w) \/ StoreResultsFails(w)
    \/ CompleteJob(w) \/ CompleteFails(w)

WriterStep == \E copy \in writers : Write(copy) \/ WriteFails(copy)

Next ==
    \/ \E j \in JobIDs : Create(j)
    \/ \E w \in Workers : Acquire(w) \/ AcquireFails(w) \/ RunStep(w)
    \/ WriterStep
    \/ \E note \in outbox : Send(note)
    \/ Crash

Spec == Init /\ [][Next]_vars

\* Run, once it has a job, and the goroutines it starts go on until they are
\* done: nothing in them waits for another goroutine that may not come.
FairSpec ==
    /\ Spec
    /\ \A w \in Workers : WF_vars(RunStep(w))
    /\ WF_vars(WriterStep)

-----------------------------------------------------------------------------
Busy(w) == pc[w] # "idle"

Owned(j) ==
    \/ \E w \in Workers : Busy(w) /\ job[w].id = j
    \/ \E copy \in writers : copy.id = j

\* A job has at most one owner, a worker in Run or a goroutine that Run left
\* behind, and while it has one its stored status is processing: between the
\* return of Run and the write of its goroutine nobody else gets the job
\* (worker.go:88-130, 244-267; memory.go:98-136).
OwnedByOne ==
    /\ \A w \in Workers : Busy(w) => status[job[w].id] = "processing"
    /\ \A copy \in writers : status[copy.id] = "processing"
    /\ \A v, w \in Workers : Busy(v) /\ Busy(w) /\ job[v].id = job[w].id => v = w
    /\ \A w \in Workers, copy \in writers : Busy(w) => job[w].id # copy.id
    /\ \A c, d \in writers : c.id = d.id => c = d

\* A completed job has, for each of its tasks, the variant that was uploaded
\* last: the one of the attempt that completed it, and of no attempt that was
\* abandoned before or goes on beside it (worker.go:105-130, 221-223).
CompletedHasLastVariants ==
    \A t \in TaskIDs :
        status[JobOf[t]] = "completed" => variant[t] # 0 /\ variant[t] = uploads[t]

\* A notification, sent or about to be, says what the store says: it is started
\* after the write, and the write is the job's last (worker.go:133-135, 251-254).
NotificationsAgree ==
    \A note \in outbox \cup sent : status[note.id] = note.status

\* A job that the store says is being processed is being processed: a worker
\* has it, or a goroutine is about to write it back (worker.go:79-137).
ProcessingIsOwned ==
    \A j \in JobIDs : status[j] = "processing" => Owned(j)

\* A job fails for good only for an error that is not temporary
\* (worker.go:97-101, 109-113, 122-125, 269-288).
FailedForGood ==
    \A j \in JobIDs : reason[j] \in ErrorKinds => ~isRetryableError(reason[j])

\* No attempt lasts for ever: a job in processing leaves it (worker.go:64-138).
ProcessingEnds ==
    \A j \in JobIDs : status[j] = "processing" ~> status[j] # "processing"

Lifecycle == INSTANCE JobLifecycle WITH phase <- status, result <- variant, Deletes <- FALSE

\* The workers, with every failure of the store, implement the job life that
\* clients of the API rely on (README.md:343-356).
ImplementsLifecycle == Lifecycle!LifecycleSpec
=============================================================================
