---------------------------- MODULE WorkerProofs ----------------------------
(***************************************************************************)
(* Proofs about Worker.tla, for any finite set of jobs with any tasks, any *)
(* number of workers, whichever calls of the store fail, and with crashes. *)
(***************************************************************************)
EXTENDS Worker, JobStoreProofs

\* A worker in Run has a copy of a job, and the results of its tasks so far:
\* every task of the job has a goroutine; one that is done noted the variant it
\* uploaded, which is still the last one; and the results that Run has stored
\* are those.
RunOK(w) ==
    /\ Busy(w) => job[w] \in Job
    /\ \A t \in TaskIDs :
        /\ task[w][t] # "none" => Busy(w) /\ JobOf[t] = job[w].id
        /\ task[w][t] = "done" => made[w][t] = uploads[t] /\ uploads[t] # 0
        /\ pc[w] = "tasks" /\ JobOf[t] = job[w].id => task[w][t] # "none"
        /\ pc[w] \in {"results", "complete"} /\ JobOf[t] = job[w].id => task[w][t] = "done"
        /\ pc[w] = "complete" /\ JobOf[t] = job[w].id => variant[t] = made[w][t]

\* A stored job has all its tasks stored, and no other job has results.
TasksStored ==
    \A t \in TaskIDs : IF Stored(JobOf[t]) THEN t \in tasks ELSE variant[t] = 0

WritersEnd == \A copy \in writers : copy.status \in {"pending", "failed"}

\* The inductive invariant.  That a completed job has the last variants rests
\* on what a worker knows in each step of Run, and this survives the steps of
\* the others only because a job has one owner.
IndInv ==
    /\ TypeOK
    /\ OwnedByOne
    /\ \A w \in Workers : RunOK(w)
    /\ TasksStored
    /\ WritersEnd
    /\ CompletedHasLastVariants
    /\ NotificationsAgree

-----------------------------------------------------------------------------
\* A notification names a job that has ended.
LEMMA NotificationFacts ==
    /\ \A note \in Notifications : note.id \in JobIDs /\ note.status \in {"completed", "failed"}
    /\ \A j \in JobIDs, s \in {"completed", "failed"} :
         /\ [id |-> j, status |-> s] \in Notifications
         /\ [id |-> j, status |-> s].id = j /\ [id |-> j, status |-> s].status = s
  BY DEF Notifications

\* Notifications stay true while no job that ended changes.
LEMMA NotificationsStayTrue ==
    ASSUME TypeOK, NotificationsAgree,
           outbox' \subseteq outbox, sent' \subseteq outbox \cup sent,
           \A j \in JobIDs : status[j] \in Finished => status'[j] = status[j]
    PROVE  NotificationsAgree'
  BY NotificationFacts DEF TypeOK, NotificationsAgree, Finished

\* A new notification is true when its job has just ended that way.
LEMMA NotificationIsTrue ==
    ASSUME TypeOK, NotificationsAgree, NEW j \in JobIDs, NEW s \in {"completed", "failed"},
           status[j] = "processing", status' = [status EXCEPT ![j] = s],
           outbox' = outbox \cup {[id |-> j, status |-> s]}, sent' = sent
    PROVE  NotificationsAgree'
  BY NotificationFacts DEF TypeOK, JobStoreTypeOK, NotificationsAgree

\* The invariant holds before anything happens.
LEMMA InitInv == Init => IndInv
<1> SUFFICES ASSUME Init PROVE IndInv
  OBVIOUS
<1> USE DEF Init, JobStoreInit
<1>1. TypeOK
  BY DEF TypeOK, JobStoreTypeOK, Steps, Job
<1>2. OwnedByOne /\ WritersEnd /\ NotificationsAgree
  BY DEF OwnedByOne, Busy, WritersEnd, NotificationsAgree
<1>3. ASSUME NEW w \in Workers PROVE RunOK(w)
  BY DEF RunOK, Busy
<1>4. TasksStored /\ CompletedHasLastVariants
  BY JobStoreAssumption DEF JobStoreAssumption, TasksStored, Stored, CompletedHasLastVariants
<1> QED
  BY <1>1, <1>2, <1>3, <1>4 DEF IndInv

\* A new job is nobody's, and has no results.
LEMMA CreateInv ==
    ASSUME IndInv, NEW j \in JobIDs, Create(j)
    PROVE  IndInv'
<1>1. TypeOK'
  BY DEF IndInv, TypeOK, JobStoreTypeOK, Create, CreateJob, notifySubscribers, JobStatus
<1>2. OwnedByOne'
  BY DEF IndInv, TypeOK, JobStoreTypeOK, OwnedByOne, Busy, Create, CreateJob, Stored, notifySubscribers
<1>3. \A v \in Workers : RunOK(v)'
  BY DEF IndInv, OwnedByOne, RunOK, Busy, Create, CreateJob, Stored
<1>4. TasksStored'
  BY DEF IndInv, TasksStored, Stored, Create, CreateJob
<1>5. WritersEnd'
  BY DEF IndInv, WritersEnd, Create, CreateJob
<1>6. CompletedHasLastVariants'
  BY DEF IndInv, CompletedHasLastVariants, Create, CreateJob, Stored
<1>7. NotificationsAgree'
  BY NotificationsStayTrue
  DEF IndInv, Finished, Create, CreateJob, Stored
<1> QED
  BY <1>1, <1>2, <1>3, <1>4, <1>5, <1>6, <1>7 DEF IndInv

\* A job that is acquired was pending, so nobody had it.
LEMMA AcquireInv ==
    ASSUME IndInv, NEW w \in Workers, Acquire(w)
    PROVE  IndInv'
<1>1. PICK j \in JobIDs : AcquireJob(j) /\ job' = [job EXCEPT ![w] = Acquired(j)]
  BY DEF Acquire
<1>2. status[j] = "pending"
  BY <1>1 DEF AcquireJob, OldestPending, PendingJobs
<1>3. Acquired(j) \in Job /\ Acquired(j).id = j
  BY AcquiredJob DEF IndInv, TypeOK, JobStoreTypeOK
<1>4. TypeOK'
  BY <1>1, <1>3
  DEF IndInv, TypeOK, JobStoreTypeOK, Acquire, AcquireJob, JobStatus, Steps
<1>5. OwnedByOne'
  BY <1>1, <1>2, <1>3
  DEF IndInv, TypeOK, JobStoreTypeOK, OwnedByOne, Busy, Acquire, AcquireJob
<1>6. \A v \in Workers : RunOK(v)'
  BY <1>1, <1>2, <1>3
  DEF IndInv, TypeOK, JobStoreTypeOK, OwnedByOne, RunOK, Busy, Acquire, AcquireJob
<1>7. TasksStored'
  BY JobStoreAssumption, <1>1, <1>2, <1>3
  DEF IndInv, TypeOK, TasksStored, Stored, Acquire, AcquireJob
<1>8. WritersEnd'
  BY JobStoreAssumption, <1>1, <1>2
  DEF IndInv, WritersEnd, Acquire, AcquireJob
<1>9. CompletedHasLastVariants'
  BY DEF IndInv, CompletedHasLastVariants, Acquire, AcquireJob
<1>10. NotificationsAgree'
  BY <1>1, <1>2, NotificationsStayTrue
  DEF IndInv, Finished, Acquire, AcquireJob
<1> QED
  BY <1>4, <1>5, <1>6, <1>7, <1>8, <1>9, <1>10 DEF IndInv

\* This holds as well when nobody hears of it.
LEMMA AcquireFailsInv ==
    ASSUME IndInv, NEW w \in Workers, AcquireFails(w)
    PROVE  IndInv'
<1>1. PICK j \in JobIDs : AcquireJob(j)
  BY DEF AcquireFails
<1>2. status[j] = "pending"
  BY <1>1 DEF AcquireJob, OldestPending, PendingJobs
<1>3. TypeOK'
  BY DEF IndInv, TypeOK, JobStoreTypeOK, AcquireFails, AcquireJob, StoreFault, Fault, workerVars, JobStatus
<1>4. OwnedByOne'
  BY DEF IndInv, TypeOK, JobStoreTypeOK, OwnedByOne, Busy, AcquireFails, AcquireJob, StoreFault, Fault, workerVars
<1>5. \A v \in Workers : RunOK(v)'
  BY DEF IndInv, OwnedByOne, RunOK, Busy, AcquireFails, AcquireJob, workerVars
<1>6. TasksStored'
  BY <1>1, <1>2
  DEF IndInv, TasksStored, Stored, AcquireFails, AcquireJob, workerVars
<1>7. WritersEnd'
  BY <1>1, <1>2
  DEF IndInv, WritersEnd, AcquireFails, AcquireJob
<1>8. CompletedHasLastVariants'
  BY DEF IndInv, CompletedHasLastVariants, AcquireFails, AcquireJob
<1>9. NotificationsAgree'
  BY <1>1, <1>2, NotificationsStayTrue
  DEF IndInv, Finished, AcquireFails, AcquireJob
<1> QED
  BY <1>3, <1>4, <1>5, <1>6, <1>7, <1>8, <1>9 DEF IndInv

\* All tasks of the job get a goroutine, since all are stored.
LEMMA DownloadOriginalInv ==
    ASSUME IndInv, NEW w \in Workers, DownloadOriginal(w)
    PROVE  IndInv'
<1>1. job[w] \in Job /\ status[job[w].id] = "processing"
  BY DEF DownloadOriginal, IndInv, RunOK, OwnedByOne, Busy
<1>2. TypeOK'
  BY DEF IndInv, TypeOK, JobStoreTypeOK, DownloadOriginal, storeVars, Steps
<1>3. OwnedByOne'
  BY DEF IndInv, TypeOK, JobStoreTypeOK, OwnedByOne, Busy, DownloadOriginal, storeVars
<1>4. \A v \in Workers : RunOK(v)'
  <2>1. /\ pc' = [pc EXCEPT ![w] = "tasks"]
        /\ task' = [task EXCEPT ![w] =
             [t \in TaskIDs |-> IF t \in TasksOf(job[w].id) THEN "running" ELSE "none"]]
        /\ UNCHANGED <<job, made, uploads, variant>>
    BY DEF DownloadOriginal, storeVars
  <2>2. pc \in [Workers -> Steps] /\ DOMAIN task = Workers
    BY DEF IndInv, TypeOK
  <2>3. \A t \in TaskIDs : t \in TasksOf(job[w].id) <=> JobOf[t] = job[w].id
    BY <1>1 DEF TasksOf, IndInv, TasksStored, Stored
  <2>4. RunOK(w)'
    BY <1>1, <2>1, <2>2, <2>3 DEF RunOK, Busy
  <2>5. ASSUME NEW v \in Workers, v # w PROVE RunOK(v)'
    <3>1. pc'[v] = pc[v] /\ task'[v] = task[v]
      BY <2>1, <2>2, <2>5
    <3> QED
      BY <2>1, <3>1 DEF IndInv, RunOK, Busy
  <2> QED
    BY <2>4, <2>5
<1>5. TasksStored'
  BY DEF IndInv, TypeOK, TasksStored, Stored, DownloadOriginal, storeVars
<1>6. WritersEnd'
  BY DEF IndInv, WritersEnd, DownloadOriginal, storeVars
<1>7. CompletedHasLastVariants'
  BY DEF IndInv, CompletedHasLastVariants, DownloadOriginal, storeVars
<1>8. NotificationsAgree'
  BY NotificationsStayTrue
  DEF IndInv, DownloadOriginal, storeVars
<1> QED
  BY <1>2, <1>3, <1>4, <1>5, <1>6, <1>7, <1>8 DEF IndInv

\* An upload makes older variants of its task stale, but no other worker has one.
LEMMA ProcessTaskInv ==
    ASSUME IndInv, NEW w \in Workers, NEW t \in TaskIDs, ProcessTask(w, t)
    PROVE  IndInv'
<1>1. JobOf[t] = job[w].id /\ status[job[w].id] = "processing"
  BY DEF ProcessTask, IndInv, RunOK, OwnedByOne, Busy
<1>2. TypeOK'
  BY DEF IndInv, TypeOK, JobStoreTypeOK, ProcessTask, storeVars
<1>3. OwnedByOne'
  BY DEF IndInv, TypeOK, JobStoreTypeOK, OwnedByOne, Busy, ProcessTask, storeVars
<1>4. \A v \in Workers : RunOK(v)'
  BY DEF IndInv, TypeOK, OwnedByOne, RunOK, Busy, ProcessTask, storeVars
<1>5. TasksStored'
  BY DEF IndInv, TypeOK, TasksStored, Stored, ProcessTask, storeVars
<1>6. WritersEnd'
  BY DEF IndInv, WritersEnd, ProcessTask, storeVars
<1>7. CompletedHasLastVariants'
  BY <1>1
  DEF IndInv, CompletedHasLastVariants, ProcessTask, storeVars
<1>8. NotificationsAgree'
  BY <1>1, NotificationsStayTrue
  DEF IndInv, ProcessTask, storeVars
<1> QED
  BY <1>2, <1>3, <1>4, <1>5, <1>6, <1>7, <1>8 DEF IndInv

\* A task that fails leaves no variant behind.
LEMMA TaskFailsInv ==
    ASSUME IndInv, NEW w \in Workers, NEW t \in TaskIDs, TaskFails(w, t)
    PROVE  IndInv'
<1>1. PICK e \in ErrorKinds : MayFail(e) /\ task' = [task EXCEPT ![w][t] = e]
  BY DEF TaskFails
<1>2. e \notin {"none", "running", "done"}
  BY DEF ErrorKinds
<1>3. TypeOK'
  BY DEF IndInv, TypeOK, JobStoreTypeOK, TaskFails, storeVars, MayFail, Fault
<1>4. OwnedByOne'
  BY DEF IndInv, TypeOK, JobStoreTypeOK, OwnedByOne, Busy, TaskFails, storeVars
<1>5. \A v \in Workers : RunOK(v)'
  BY <1>1, <1>2
  DEF IndInv, OwnedByOne, RunOK, Busy, TaskFails, storeVars
<1>6. TasksStored'
  BY <1>1, <1>2
  DEF IndInv, TasksStored, Stored, TaskFails, storeVars
<1>7. WritersEnd'
  BY DEF IndInv, WritersEnd, TaskFails, storeVars
<1>8. CompletedHasLastVariants'
  BY DEF IndInv, CompletedHasLastVariants, TaskFails, storeVars
<1>9. NotificationsAgree'
  BY NotificationsStayTrue
  DEF IndInv, TaskFails, storeVars
<1> QED
  BY <1>3, <1>4, <1>5, <1>6, <1>7, <1>8, <1>9 DEF IndInv

\* When no task runs or failed, all are done.
LEMMA TasksSucceedInv ==
    ASSUME IndInv, NEW w \in Workers, TasksSucceed(w)
    PROVE  IndInv'
<1>1. TypeOK'
  BY DEF IndInv, TypeOK, JobStoreTypeOK, TasksSucceed, storeVars, Steps
<1>2. OwnedByOne'
  BY DEF IndInv, TypeOK, JobStoreTypeOK, OwnedByOne, Busy, TasksSucceed, Waited, storeVars
<1>3. \A v \in Workers : RunOK(v)'
  BY DEF IndInv, TypeOK, OwnedByOne, RunOK, Busy, TasksSucceed, Waited, storeVars, Failed
<1>4. TasksStored'
  BY DEF IndInv, TypeOK, TasksStored, Stored, TasksSucceed, Waited, storeVars
<1>5. WritersEnd'
  BY DEF IndInv, WritersEnd, TasksSucceed, storeVars
<1>6. CompletedHasLastVariants'
  BY DEF IndInv, CompletedHasLastVariants, TasksSucceed, storeVars
<1>7. NotificationsAgree'
  BY NotificationsStayTrue
  DEF IndInv, TasksSucceed, storeVars
<1> QED
  BY <1>1, <1>2, <1>3, <1>4, <1>5, <1>6, <1>7 DEF IndInv

\* Run stores the last variants of all tasks of its job.
LEMMA StoreResultsInv ==
    ASSUME IndInv, NEW w \in Workers, StoreResults(w)
    PROVE  IndInv'
<1>1. Busy(w) /\ status[job[w].id] = "processing"
  BY DEF StoreResults, IndInv, OwnedByOne, Busy
<1>2. \A t \in Done(w) : JobOf[t] = job[w].id
  BY DEF Done, IndInv, RunOK
<1>3. TypeOK'
  BY DEF IndInv, TypeOK, JobStoreTypeOK, StoreResults, UpdateTasks, Steps
<1>4. OwnedByOne'
  BY DEF IndInv, TypeOK, JobStoreTypeOK, OwnedByOne, Busy, StoreResults, UpdateTasks
<1>5. \A v \in Workers : RunOK(v)'
  BY DEF IndInv, OwnedByOne, RunOK, Busy, StoreResults, UpdateTasks, Done
<1>6. TasksStored'
  BY <1>1, <1>2
  DEF IndInv, TasksStored, Stored, StoreResults, UpdateTasks, Done
<1>7. WritersEnd'
  BY <1>1, <1>2
  DEF IndInv, WritersEnd, StoreResults, UpdateTasks
<1>8. CompletedHasLastVariants'
  BY <1>1, <1>2
  DEF IndInv, CompletedHasLastVariants, StoreResults, UpdateTasks
<1>9. NotificationsAgree'
  BY <1>1, <1>2, NotificationsStayTrue
  DEF IndInv, StoreResults, UpdateTasks
<1> QED
  BY <1>3, <1>4, <1>5, <1>6, <1>7, <1>8, <1>9 DEF IndInv

\* Run returns and leaves its job to a goroutine, which then is the owner; in
\* its last step it may have stored results of this job.
LEMMA LeaveToWriterInv ==
    ASSUME IndInv, NEW w \in Workers, Busy(w), NEW copy \in Job,
           copy.id = job[w].id, copy.status \in {"pending", "failed"},
           writers' = writers \cup {copy}, Return(w), faults' \in Nat,
           variant' \in [TaskIDs -> Nat],
           \A t \in TaskIDs : JobOf[t] # job[w].id => variant'[t] = variant[t],
           UNCHANGED <<status, locked, reason, tasks, subscribed, signal,
                       uploads, outbox, sent>>
    PROVE  IndInv'
<1>1. status[job[w].id] = "processing"
  BY DEF IndInv, OwnedByOne
<1>2. TypeOK'
  BY DEF IndInv, TypeOK, JobStoreTypeOK, Return, Steps
<1>3. OwnedByOne'
  BY DEF IndInv, TypeOK, JobStoreTypeOK, OwnedByOne, Busy, Return
<1>4. \A v \in Workers : RunOK(v)'
  BY DEF IndInv, TypeOK, JobStoreTypeOK, OwnedByOne, RunOK, Busy, Return
<1>5. TasksStored'
  BY <1>1
  DEF IndInv, TypeOK, JobStoreTypeOK, TasksStored, Stored, Return
<1>6. WritersEnd'
  BY <1>1
  DEF IndInv, WritersEnd
<1>7. CompletedHasLastVariants'
  BY <1>1
  DEF IndInv, CompletedHasLastVariants
<1>8. NotificationsAgree'
  BY <1>1, NotificationsStayTrue
  DEF IndInv
<1> QED
  BY <1>2, <1>3, <1>4, <1>5, <1>6, <1>7, <1>8 DEF IndInv

\* Run may also return and leave the job to nobody.
LEMMA ReturnInv ==
    ASSUME IndInv, NEW w \in Workers, Return(w), faults' \in Nat,
           UNCHANGED <<storeVars, uploads, writers, outbox, sent>>
    PROVE  IndInv'
<1>1. TypeOK'
  BY DEF IndInv, TypeOK, JobStoreTypeOK, Return, storeVars, Steps
<1>2. OwnedByOne'
  BY DEF IndInv, TypeOK, JobStoreTypeOK, OwnedByOne, Busy, Return, storeVars
<1>3. \A v \in Workers : RunOK(v)'
  BY DEF IndInv, TypeOK, OwnedByOne, RunOK, Busy, Return, storeVars
<1>4. TasksStored'
  BY DEF IndInv, TypeOK, TasksStored, Stored, Return, storeVars
<1>5. WritersEnd'
  BY DEF IndInv, WritersEnd, storeVars
<1>6. CompletedHasLastVariants'
  BY DEF IndInv, CompletedHasLastVariants, storeVars
<1>7. NotificationsAgree'
  BY NotificationsStayTrue
  DEF IndInv, storeVars
<1> QED
  BY <1>1, <1>2, <1>3, <1>4, <1>5, <1>6, <1>7 DEF IndInv

\* The owner completes the job: the results are those it has stored.
LEMMA CompleteInv ==
    ASSUME IndInv, NEW w \in Workers, pc[w] = "complete", Return(w),
           UpdateJob(MarkCompleted(job[w])), faults' \in Nat,
           \/ outbox' = outbox
           \/ outbox' = outbox \cup {[id |-> job[w].id, status |-> "completed"]},
           UNCHANGED <<uploads, writers, sent>>
    PROVE  IndInv'
<1> DEFINE done == MarkCompleted(job[w])
<1>1. job[w] \in Job /\ status[job[w].id] = "processing"
  BY DEF IndInv, RunOK, OwnedByOne, Busy
<1>2. done \in Job /\ done.id = job[w].id /\ done.status = "completed"
  BY <1>1, MarkedJobs DEF Reasons
<1>3. UpdateJob(done)
  OBVIOUS
<1> HIDE DEF done
<1>4. TypeOK'
  <2>1. outbox' \in SUBSET Notifications
    BY <1>1, JobFacts DEF IndInv, TypeOK, Notifications
  <2>2. JobStoreTypeOK'
    BY <1>1, <1>2, <1>3, JobFacts DEF IndInv, TypeOK, JobStoreTypeOK, UpdateJob
  <2> QED
    BY <2>1, <2>2 DEF IndInv, TypeOK, Return, Steps
<1>5. OwnedByOne'
  BY <1>2, <1>3
  DEF IndInv, TypeOK, OwnedByOne, Busy, Return, UpdateJob
<1>6. \A v \in Workers : RunOK(v)'
  BY <1>2, <1>3
  DEF IndInv, TypeOK, OwnedByOne, RunOK, Busy, Return, UpdateJob
<1>7. TasksStored'
  BY <1>2, <1>3
  DEF IndInv, TypeOK, TasksStored, Stored, Return, UpdateJob
<1>8. WritersEnd'
  BY <1>2, <1>3
  DEF IndInv, WritersEnd, UpdateJob
<1>9. CompletedHasLastVariants'
  BY <1>2, <1>3
  DEF IndInv, CompletedHasLastVariants, UpdateJob, RunOK
<1>10. NotificationsAgree'
  <2>1. job[w].id \in JobIDs /\ status' = [status EXCEPT ![job[w].id] = "completed"]
    BY <1>1, <1>2, <1>3, JobFacts DEF UpdateJob
  <2>2. CASE outbox' = outbox
    BY <1>1, <2>1, <2>2, NotificationsStayTrue DEF IndInv, TypeOK, JobStoreTypeOK, Finished
  <2>3. CASE outbox' = outbox \cup {[id |-> job[w].id, status |-> "completed"]}
    BY <1>1, <2>1, <2>3, NotificationIsTrue DEF IndInv
  <2> QED
    BY <2>2, <2>3
<1> QED
  BY <1>4, <1>5, <1>6, <1>7, <1>8, <1>9, <1>10 DEF IndInv

\* A goroutine ends the job it owns, or makes it pending.
LEMMA WriteInv ==
    ASSUME IndInv, NEW copy \in writers, UpdateJob(copy), faults' \in Nat,
           writers' = writers \ {copy},
           \/ outbox' = outbox
           \/ /\ copy.status = "failed"
              /\ outbox' = outbox \cup {[id |-> copy.id, status |-> "failed"]},
           UNCHANGED <<workerVars, uploads, sent>>
    PROVE  IndInv'
<1>1. copy \in Job /\ status[copy.id] = "processing" /\ copy.status \in {"pending", "failed"}
  BY DEF IndInv, OwnedByOne, TypeOK, WritersEnd
<1>2. TypeOK'
  <2>1. outbox' \in SUBSET Notifications
    BY <1>1, JobFacts DEF IndInv, TypeOK, Notifications
  <2>2. JobStoreTypeOK'
    BY <1>1, JobFacts DEF IndInv, TypeOK, JobStoreTypeOK, UpdateJob
  <2> QED
    BY <2>1, <2>2 DEF IndInv, TypeOK, workerVars
<1>3. OwnedByOne'
  BY DEF IndInv, OwnedByOne, Busy, UpdateJob, workerVars
<1>4. \A v \in Workers : RunOK(v)'
  BY DEF IndInv, OwnedByOne, RunOK, Busy, UpdateJob, workerVars
<1>5. TasksStored'
  BY <1>1
  DEF IndInv, TasksStored, Stored, UpdateJob, workerVars
<1>6. WritersEnd'
  BY <1>1
  DEF IndInv, WritersEnd, UpdateJob
<1>7. CompletedHasLastVariants'
  BY <1>1
  DEF IndInv, CompletedHasLastVariants, UpdateJob
<1>8. NotificationsAgree'
  <2>1. copy.id \in JobIDs /\ status' = [status EXCEPT ![copy.id] = copy.status]
    BY <1>1, JobFacts DEF UpdateJob
  <2>2. CASE outbox' = outbox
    BY <1>1, <2>1, <2>2, NotificationsStayTrue DEF IndInv, TypeOK, JobStoreTypeOK, Finished
  <2>3. CASE /\ copy.status = "failed"
             /\ outbox' = outbox \cup {[id |-> copy.id, status |-> "failed"]}
    BY <1>1, <2>1, <2>3, NotificationIsTrue DEF IndInv
  <2> QED
    BY <2>2, <2>3
<1> QED
  BY <1>2, <1>3, <1>4, <1>5, <1>6, <1>7, <1>8 DEF IndInv

\* Its write may also be lost.
LEMMA ForgetWriterInv ==
    ASSUME IndInv, NEW copy \in writers, faults' \in Nat, writers' = writers \ {copy},
           UNCHANGED <<storeVars, workerVars, uploads, outbox, sent>>
    PROVE  IndInv'
<1>1. TypeOK'
  BY DEF IndInv, TypeOK, JobStoreTypeOK, storeVars, workerVars
<1>2. OwnedByOne'
  BY DEF IndInv, TypeOK, JobStoreTypeOK, OwnedByOne, Busy, storeVars, workerVars
<1>3. \A v \in Workers : RunOK(v)'
  BY DEF IndInv, OwnedByOne, RunOK, Busy, storeVars, workerVars
<1>4. TasksStored'
  BY DEF IndInv, TasksStored, Stored, storeVars, workerVars
<1>5. WritersEnd'
  BY DEF IndInv, WritersEnd, storeVars
<1>6. CompletedHasLastVariants'
  BY DEF IndInv, CompletedHasLastVariants, storeVars
<1>7. NotificationsAgree'
  BY NotificationsStayTrue
  DEF IndInv, storeVars
<1> QED
  BY <1>1, <1>2, <1>3, <1>4, <1>5, <1>6, <1>7 DEF IndInv

\* A notification that is sent is one that was about to be sent.
LEMMA SendInv ==
    ASSUME IndInv, NEW note \in outbox, Send(note)
    PROVE  IndInv'
<1>1. TypeOK'
  BY DEF IndInv, TypeOK, JobStoreTypeOK, Send, storeVars, workerVars
<1>2. OwnedByOne'
  BY DEF IndInv, TypeOK, JobStoreTypeOK, OwnedByOne, Busy, Send, storeVars, workerVars
<1>3. \A v \in Workers : RunOK(v)'
  BY DEF IndInv, OwnedByOne, RunOK, Busy, Send, storeVars, workerVars
<1>4. TasksStored'
  BY DEF IndInv, TasksStored, Stored, Send, storeVars, workerVars
<1>5. WritersEnd'
  BY DEF IndInv, WritersEnd, Send, storeVars
<1>6. CompletedHasLastVariants'
  BY DEF IndInv, CompletedHasLastVariants, Send, storeVars
<1>7. NotificationsAgree'
  BY NotificationsStayTrue
  DEF IndInv, Send, storeVars
<1> QED
  BY <1>1, <1>2, <1>3, <1>4, <1>5, <1>6, <1>7 DEF IndInv

\* A restart finds the store as it was, and nobody owns anything.
LEMMA CrashInv ==
    ASSUME IndInv, Crash
    PROVE  IndInv'
<1>1. TypeOK'
  BY DEF IndInv, TypeOK, JobStoreTypeOK, Crash, Fault, storeVars, Steps
<1>2. OwnedByOne'
  BY DEF IndInv, TypeOK, JobStoreTypeOK, OwnedByOne, Busy, Crash, Fault, storeVars
<1>3. \A v \in Workers : RunOK(v)'
  BY DEF OwnedByOne, RunOK, Busy, Crash
<1>4. TasksStored'
  BY DEF IndInv, TasksStored, Stored, Crash, storeVars
<1>5. WritersEnd'
  BY DEF IndInv, WritersEnd, Crash, storeVars
<1>6. CompletedHasLastVariants'
  BY DEF IndInv, CompletedHasLastVariants, Crash, storeVars
<1>7. NotificationsAgree'
  BY NotificationsStayTrue
  DEF IndInv, Crash, storeVars
<1> QED
  BY <1>1, <1>2, <1>3, <1>4, <1>5, <1>6, <1>7 DEF IndInv

-----------------------------------------------------------------------------
\* Every step keeps the invariant.
LEMMA StepInv == IndInv /\ [Next]_vars => IndInv'
<1> SUFFICES ASSUME IndInv, [Next]_vars PROVE IndInv'
  OBVIOUS
<1>1. ASSUME NEW j \in JobIDs, Create(j) PROVE IndInv'
  BY <1>1, CreateInv
<1>2. ASSUME NEW w \in Workers, Acquire(w) PROVE IndInv'
  BY <1>2, AcquireInv
<1>3. ASSUME NEW w \in Workers, AcquireFails(w) PROVE IndInv'
  BY <1>3, AcquireFailsInv
<1>4. ASSUME NEW w \in Workers, RunStep(w) PROVE IndInv'
  <2>1. CASE DownloadOriginal(w)
    BY <2>1, DownloadOriginalInv
  <2>2. CASE DownloadFails(w)
    <3>1. PICK e \in ErrorKinds : MayFail(e) /\ GiveBack(w, e)
      BY <2>2 DEF DownloadFails
    <3> DEFINE copy == IF isRetryableError(e) THEN MarkPending(job[w]) ELSE MarkFailed(job[w], e)
    <3>2. Busy(w) /\ job[w] \in Job
      BY <2>2 DEF DownloadFails, IndInv, RunOK, Busy
    <3>3. copy \in Job /\ copy.id = job[w].id /\ copy.status \in {"pending", "failed"}
      BY <3>2, MarkedJobs DEF Reasons
    <3>4. writers' = writers \cup {copy}
      BY <3>1 DEF GiveBack
    <3>5. faults' \in Nat
      BY <3>1 DEF MayFail, Fault, IndInv, TypeOK
    <3> HIDE DEF copy
    <3> QED
      BY <2>2, <3>2, <3>3, <3>4, <3>5, LeaveToWriterInv
      DEF DownloadFails, storeVars, IndInv, TypeOK, JobStoreTypeOK
  <2>3. ASSUME NEW t \in TaskIDs, ProcessTask(w, t) PROVE IndInv'
    BY <2>3, ProcessTaskInv
  <2>4. ASSUME NEW t \in TaskIDs, TaskFails(w, t) PROVE IndInv'
    BY <2>4, TaskFailsInv
  <2>5. CASE TasksSucceed(w)
    BY <2>5, TasksSucceedInv
  <2>6. CASE TasksFail(w)
    <3>1. PICK t \in Failed(w) : GiveBack(w, task[w][t])
      BY <2>6 DEF TasksFail
    <3> DEFINE e == task[w][t]
    <3> DEFINE copy == IF isRetryableError(e) THEN MarkPending(job[w]) ELSE MarkFailed(job[w], e)
    <3>2. Busy(w) /\ job[w] \in Job /\ e \in ErrorKinds
      BY <2>6 DEF TasksFail, Waited, Failed, IndInv, RunOK, Busy
    <3>3. copy \in Job /\ copy.id = job[w].id /\ copy.status \in {"pending", "failed"}
      BY <3>2, MarkedJobs DEF Reasons
    <3>4. writers' = writers \cup {copy}
      BY <3>1 DEF GiveBack
    <3> HIDE DEF copy
    <3> QED
      BY <2>6, <3>2, <3>3, <3>4, LeaveToWriterInv
      DEF TasksFail, storeVars, IndInv, TypeOK, JobStoreTypeOK
  <2>7. CASE NoTasks(w)
    <3> DEFINE copy == MarkFailed(job[w], "no tasks completed")
    <3>1. Busy(w) /\ job[w] \in Job
      BY <2>7 DEF NoTasks, Waited, IndInv, RunOK, Busy
    <3>2. copy \in Job /\ copy.id = job[w].id /\ copy.status \in {"pending", "failed"}
      <4>1. "no tasks completed" \in Reasons
        BY DEF Reasons
      <4> QED
        BY <3>1, <4>1, MarkedJobs
    <3>3. writers' = writers \cup {copy}
      BY <2>7 DEF NoTasks
    <3> HIDE DEF copy
    <3> QED
      BY <2>7, <3>1, <3>2, <3>3, LeaveToWriterInv
      DEF NoTasks, storeVars, IndInv, TypeOK, JobStoreTypeOK
  <2>8. CASE StoreResults(w)
    BY <2>8, StoreResultsInv
  <2>9. CASE StoreResultsFails(w)
    <3> DEFINE copy == MarkFailed(job[w], "other")
    <3>1. Busy(w) /\ job[w] \in Job
      BY <2>9 DEF StoreResultsFails, IndInv, RunOK, Busy
    <3>2. copy \in Job /\ copy.id = job[w].id /\ copy.status \in {"pending", "failed"}
      <4>1. "other" \in Reasons
        BY DEF Reasons, ErrorKinds
      <4> QED
        BY <3>1, <4>1, MarkedJobs
    <3>3. writers' = writers \cup {copy} /\ faults' \in Nat
      BY <2>9 DEF StoreResultsFails, StoreFault, Fault, IndInv, TypeOK
    <3>4. \A t \in Done(w) : JobOf[t] = job[w].id
      BY DEF Done, IndInv, RunOK
    <3>5. /\ variant' \in [TaskIDs -> Nat]
          /\ \A t \in TaskIDs : JobOf[t] # job[w].id => variant'[t] = variant[t]
          /\ UNCHANGED <<status, locked, reason, tasks, subscribed, signal>>
      BY <2>9, <3>4
      DEF StoreResultsFails, TookEffect, UpdateTasks, storeVars, IndInv, TypeOK, JobStoreTypeOK
    <3> HIDE DEF copy
    <3> QED
      BY <2>9, <3>1, <3>2, <3>3, <3>5, LeaveToWriterInv DEF StoreResultsFails
  <2>10. CASE CompleteJob(w)
    BY <2>10, CompleteInv DEF CompleteJob, IndInv, TypeOK
  <2>11. CASE CompleteFails(w)
    <3>1. faults' \in Nat
      BY <2>11 DEF CompleteFails, StoreFault, Fault, IndInv, TypeOK
    <3>2. CASE UpdateJob(MarkCompleted(job[w]))
      BY <2>11, <3>1, <3>2, CompleteInv DEF CompleteFails
    <3>3. CASE UNCHANGED storeVars
      BY <2>11, <3>1, <3>3, ReturnInv DEF CompleteFails
    <3> QED
      BY <2>11, <3>2, <3>3 DEF CompleteFails, TookEffect
  <2> QED
    BY <1>4, <2>1, <2>2, <2>3, <2>4, <2>5, <2>6, <2>7, <2>8, <2>9, <2>10, <2>11 DEF RunStep
<1>5. ASSUME NEW copy \in writers, Write(copy) PROVE IndInv'
  <2>1. \/ outbox' = outbox
        \/ /\ copy.status = "failed"
           /\ outbox' = outbox \cup {[id |-> copy.id, status |-> "failed"]}
    BY <1>5 DEF Write
  <2>2. faults' \in Nat
    BY <1>5 DEF Write, IndInv, TypeOK
  <2> QED
    BY <1>5, <2>1, <2>2, WriteInv DEF Write, workerVars
<1>6. ASSUME NEW copy \in writers, WriteFails(copy) PROVE IndInv'
  <2>1. faults' \in Nat
    BY <1>6 DEF WriteFails, StoreFault, Fault, IndInv, TypeOK
  <2>2. CASE UpdateJob(copy)
    BY <1>6, <2>1, <2>2, WriteInv DEF WriteFails, workerVars
  <2>3. CASE UNCHANGED storeVars
    BY <1>6, <2>1, <2>3, ForgetWriterInv DEF WriteFails
  <2> QED
    BY <1>6, <2>2, <2>3 DEF WriteFails, TookEffect
<1>7. ASSUME NEW note \in outbox, Send(note) PROVE IndInv'
  BY <1>7, SendInv
<1>8. CASE Crash
  BY <1>8, CrashInv
<1>9. CASE UNCHANGED vars
  BY <1>9 DEF vars, storeVars, IndInv, TypeOK, JobStoreTypeOK, OwnedByOne, RunOK, Busy,
      TasksStored, Stored, WritersEnd, CompletedHasLastVariants, NotificationsAgree
<1> QED
  BY <1>1, <1>2, <1>3, <1>4, <1>5, <1>6, <1>7, <1>8, <1>9 DEF Next, WriterStep

-----------------------------------------------------------------------------
\* The invariant holds in every state of every behaviour.
THEOREM Invariance == Spec => []IndInv
  BY InitInv, StepInv, PTL DEF Spec

\* Every variable keeps its type.
THEOREM TypeCorrect == Spec => []TypeOK
  BY Invariance, PTL DEF IndInv

\* Nobody gets a job that another worker, or a goroutine it left behind, still
\* has to finish, whatever calls of the store fail.
THEOREM Ownership == Spec => []OwnedByOne
  BY Invariance, PTL DEF IndInv

\* A client that sees a completed job can read the variants of all its tasks,
\* and they are those of the attempt that completed it.
THEOREM CompletedResults == Spec => []CompletedHasLastVariants
  BY Invariance, PTL DEF IndInv

\* No notification is ever contradicted by the store.
THEOREM TrueNotifications == Spec => []NotificationsAgree
  BY Invariance, PTL DEF IndInv

-----------------------------------------------------------------------------
\* A reason that is the message of an error is that of a permanent one.
Lasting(why) == why \in ErrorKinds => ~isRetryableError(why)

\* Copies take the reason of the stored job along, and bring one back.
LastingReasons ==
    /\ \A j \in JobIDs : Lasting(reason[j])
    /\ \A w \in Workers : Busy(w) => Lasting(job[w].reason)
    /\ \A copy \in writers : Lasting(copy.reason)

\* Marking a copy changes its reason only to the one given (job.go:46-67).
LEMMA MarkedReasons ==
    ASSUME NEW copy \in Job, NEW e \in Reasons
    PROVE  /\ MarkPending(copy).reason = copy.reason
           /\ MarkCompleted(copy).reason = copy.reason
           /\ MarkFailed(copy, e).reason = e
  BY DEF Job, MarkPending, MarkCompleted, MarkFailed

\* What a copy that is written back says becomes the stored job's reason.
LEMMA WrittenReasons ==
    ASSUME IndInv, LastingReasons, NEW copy \in Job, Lasting(copy.reason), UpdateJob(copy)
    PROVE  \A j \in JobIDs : Lasting(reason'[j])
  BY DEF IndInv, TypeOK, JobStoreTypeOK, LastingReasons, UpdateJob

\* A worker that returns forgets its copy, and what it gave back is lasting.
LEMMA ReturnedReasons ==
    ASSUME IndInv, LastingReasons, NEW w \in Workers, Return(w),
           \A j \in JobIDs : Lasting(reason'[j]),
           \A copy \in writers' : copy \in writers \/ Lasting(copy.reason)
    PROVE  LastingReasons'
  BY DEF IndInv, TypeOK, LastingReasons, Return, Busy

\* No step brings in a temporary error's message, unless UpdateTasks fails.
LEMMA ReasonsStep ==
    ASSUME "results" \notin CallsThatFail, IndInv, LastingReasons, [Next]_vars
    PROVE  LastingReasons'
<1>1. ASSUME NEW j \in JobIDs, Create(j) PROVE LastingReasons'
  BY <1>1 DEF IndInv, TypeOK, JobStoreTypeOK, LastingReasons, Lasting, NoReason, ErrorKinds,
              Create, CreateJob, Busy
<1>2. ASSUME NEW w \in Workers, Acquire(w) PROVE LastingReasons'
  <2>1. PICK j \in JobIDs : AcquireJob(j) /\ job' = [job EXCEPT ![w] = Acquired(j)]
    BY <1>2 DEF Acquire
  <2>2. Acquired(j).reason = reason[j]
    BY DEF Acquired
  <2> QED
    BY <1>2, <2>1, <2>2 DEF IndInv, TypeOK, LastingReasons, Acquire, AcquireJob, Busy
<1>3. ASSUME NEW w \in Workers, AcquireFails(w) PROVE LastingReasons'
  BY <1>3 DEF LastingReasons, AcquireFails, AcquireJob, workerVars, Busy
<1>4. ASSUME NEW w \in Workers, RunStep(w) PROVE LastingReasons'
  <2>1. Busy(w) /\ job[w] \in Job /\ Lasting(job[w].reason)
    BY <1>4 DEF RunStep, DownloadOriginal, DownloadFails, ProcessTask, TaskFails, TasksSucceed,
                TasksFail, NoTasks, StoreResults, StoreResultsFails, CompleteJob,
                CompleteFails, Waited, Busy, IndInv, RunOK, LastingReasons
  <2>2. ASSUME NEW e \in ErrorKinds, GiveBack(w, e), Return(w), UNCHANGED storeVars
        PROVE  LastingReasons'
    <3>1. Lasting(MarkPending(job[w]).reason) /\ MarkFailed(job[w], e).reason = e
      BY <2>1, MarkedReasons DEF Reasons
    <3>2. \A copy \in writers' : copy \in writers \/ Lasting(copy.reason)
      BY <2>2, <3>1 DEF GiveBack, Lasting
    <3> QED
      BY <2>2, <3>2, ReturnedReasons DEF storeVars, LastingReasons
  <2>3. CASE DownloadOriginal(w) \/ TasksSucceed(w) \/ StoreResults(w)
    BY <2>3 DEF DownloadOriginal, TasksSucceed, StoreResults, UpdateTasks, Waited, storeVars,
                LastingReasons, IndInv, TypeOK, Busy
  <2>4. CASE DownloadFails(w)
    BY <2>2, <2>4 DEF DownloadFails
  <2>5. CASE \E t \in TaskIDs : ProcessTask(w, t) \/ TaskFails(w, t)
    BY <2>5 DEF ProcessTask, TaskFails, storeVars, LastingReasons, Busy
  <2>6. CASE TasksFail(w)
    BY <2>2, <2>6 DEF TasksFail, Failed
  <2>7. CASE NoTasks(w)
    <3>1. Lasting(MarkFailed(job[w], "no tasks completed").reason)
      BY <2>1, MarkedReasons DEF Reasons, Lasting, ErrorKinds
    <3> QED
      BY <2>7, <3>1, ReturnedReasons DEF NoTasks, storeVars, LastingReasons
  <2>8. CASE StoreResultsFails(w)
    BY <2>8 DEF StoreResultsFails, StoreFault
  <2>9. CASE CompleteJob(w) \/ CompleteFails(w)
    <3> DEFINE done == MarkCompleted(job[w])
    <3>1. done \in Job /\ Lasting(done.reason)
      BY <2>1, MarkedJobs, MarkedReasons DEF Reasons
    <3>2. UpdateJob(done) \/ UNCHANGED storeVars
      BY <2>9 DEF CompleteJob, CompleteFails, TookEffect
    <3>3. Return(w) /\ writers' = writers
      BY <2>9 DEF CompleteJob, CompleteFails
    <3> HIDE DEF done
    <3>4. \A j \in JobIDs : Lasting(reason'[j])
      BY <3>1, <3>2, WrittenReasons DEF storeVars, LastingReasons
    <3> QED
      BY <3>3, <3>4, ReturnedReasons
  <2> QED
    BY <1>4, <2>3, <2>4, <2>5, <2>6, <2>7, <2>8, <2>9 DEF RunStep
<1>5. ASSUME NEW copy \in writers, Write(copy) \/ WriteFails(copy) PROVE LastingReasons'
  <2>1. copy \in Job /\ Lasting(copy.reason)
    BY DEF IndInv, TypeOK, LastingReasons
  <2>2. UpdateJob(copy) \/ UNCHANGED storeVars
    BY <1>5 DEF Write, WriteFails, TookEffect
  <2>3. \A j \in JobIDs : Lasting(reason'[j])
    BY <2>1, <2>2, WrittenReasons DEF storeVars, LastingReasons
  <2> QED
    BY <1>5, <2>3 DEF Write, WriteFails, workerVars, LastingReasons, Busy
<1>6. CASE \/ \E note \in outbox : Send(note)
           \/ Crash
           \/ UNCHANGED vars
  BY <1>6 DEF Send, Crash, vars, storeVars, workerVars, LastingReasons, Busy
<1> QED
  BY <1>1, <1>2, <1>3, <1>4, <1>5, <1>6 DEF Next, WriterStep

\* No job fails for good because of an error that would have gone away, as
\* long as UpdateTasks does not fail (worker.go:122-125), whatever else does.
THEOREM LastingFailures ==
    ASSUME "results" \notin CallsThatFail
    PROVE  Spec => []FailedForGood
<1>1. Init => LastingReasons
  BY DEF Init, JobStoreInit, LastingReasons, Lasting, NoReason, ErrorKinds, Busy
<1>2. IndInv /\ LastingReasons /\ [Next]_vars => LastingReasons'
  BY ReasonsStep
<1>3. LastingReasons => FailedForGood
  BY DEF LastingReasons, Lasting, FailedForGood
<1> QED
  BY <1>1, <1>2, <1>3, Invariance, PTL DEF Spec

-----------------------------------------------------------------------------
\* The calls whose failure leaves a job in processing with no owner.
CallsThatStrand == {"acquire", "complete", "write"}

\* Owners come and go one at a time: what a step has to do for the others is
\* to leave their jobs alone.
LEMMA OwnersStay ==
    ASSUME IndInv, ProcessingIsOwned, NEW k,
           \A j \in JobIDs : j # k => status'[j] = status[j],
           \A v \in Workers : Busy(v) /\ job[v].id # k => Busy(v)' /\ job'[v] = job[v],
           \A copy \in writers : copy.id # k => copy \in writers',
           k \in JobIDs => (status'[k] = "processing" => Owned(k)')
    PROVE  ProcessingIsOwned'
<1> SUFFICES ASSUME NEW j \in JobIDs, status'[j] = "processing"
             PROVE  Owned(j)'
  BY DEF ProcessingIsOwned
<1>1. CASE j = k
  BY <1>1
<1>2. CASE j # k
  <2>1. Owned(j)
    BY <1>2 DEF ProcessingIsOwned
  <2> QED
    BY <1>2, <2>1 DEF Owned
<1> QED
  BY <1>1, <1>2

\* Every step that takes an owner away gives the job another one, or ends its
\* processing.
LEMMA OwnedStep ==
    ASSUME CallsThatFail \cap CallsThatStrand = {}, ~CanCrash,
           IndInv, ProcessingIsOwned, [Next]_vars
    PROVE  ProcessingIsOwned'
<1>0. \A call \in CallsThatStrand : ~StoreFault(call)
  BY DEF StoreFault
<1>1. ASSUME NEW j \in JobIDs, Create(j) PROVE ProcessingIsOwned'
  BY <1>1 DEF IndInv, TypeOK, JobStoreTypeOK, ProcessingIsOwned, Owned, Create, CreateJob, Busy
<1>2. ASSUME NEW w \in Workers, Acquire(w) PROVE ProcessingIsOwned'
  <2>1. PICK j \in JobIDs : AcquireJob(j) /\ job' = [job EXCEPT ![w] = Acquired(j)]
    BY <1>2 DEF Acquire
  <2>2. /\ pc[w] = "idle" /\ pc' = [pc EXCEPT ![w] = "original"] /\ writers' = writers
        /\ status' = [status EXCEPT ![j] = "processing"]
        /\ Acquired(j).id = j
    BY <1>2, <2>1 DEF Acquire, AcquireJob, Acquired
  <2>3. Owned(j)'
    BY <2>1, <2>2 DEF Owned, Busy, IndInv, TypeOK
  <2> QED
    BY <2>1, <2>2, <2>3, OwnersStay DEF Busy, IndInv, TypeOK, JobStoreTypeOK
<1>3. ASSUME NEW w \in Workers, AcquireFails(w) PROVE ProcessingIsOwned'
  BY <1>0, <1>3 DEF AcquireFails, CallsThatStrand
<1>4. ASSUME NEW w \in Workers, RunStep(w) PROVE ProcessingIsOwned'
  <2>1. Busy(w) /\ job[w] \in Job
    BY <1>4 DEF RunStep, DownloadOriginal, DownloadFails, ProcessTask, TaskFails, TasksSucceed,
                TasksFail, NoTasks, StoreResults, StoreResultsFails, CompleteJob,
                CompleteFails, Waited, Busy, IndInv, RunOK
  <2>2. ASSUME NEW copy, copy.id = job[w].id, writers' = writers \cup {copy}, Return(w),
               status' = status
        PROVE  ProcessingIsOwned'
    <3>1. PICK k : k = job[w].id
      OBVIOUS
    <3>2. Owned(k)'
      BY <2>2, <3>1 DEF Owned
    <3> QED
      BY <2>2, <3>1, <3>2, OwnersStay DEF Return, Busy, IndInv, TypeOK
  <2>3. CASE DownloadOriginal(w) \/ TasksSucceed(w) \/ StoreResults(w)
    BY <2>3 DEF DownloadOriginal, TasksSucceed, StoreResults, UpdateTasks, Waited, storeVars,
                ProcessingIsOwned, Owned, IndInv, TypeOK, Busy
  <2>4. ASSUME NEW e \in ErrorKinds, GiveBack(w, e), Return(w), UNCHANGED storeVars
        PROVE  ProcessingIsOwned'
    BY <2>1, <2>2, <2>4, MarkedJobs DEF GiveBack, Reasons, storeVars
  <2>5. CASE DownloadFails(w)
    BY <2>4, <2>5 DEF DownloadFails
  <2>6. CASE \E t \in TaskIDs : ProcessTask(w, t) \/ TaskFails(w, t)
    BY <2>6 DEF ProcessTask, TaskFails, storeVars, ProcessingIsOwned, Owned, Busy
  <2>7. CASE TasksFail(w)
    BY <2>4, <2>7 DEF TasksFail, Failed
  <2>8. CASE NoTasks(w) \/ StoreResultsFails(w)
    <3>1. PICK e \in Reasons : writers' = writers \cup {MarkFailed(job[w], e)}
      BY <2>8 DEF NoTasks, StoreResultsFails, Reasons, ErrorKinds
    <3>2. Return(w) /\ status' = status
      BY <2>8 DEF NoTasks, StoreResultsFails, TookEffect, UpdateTasks, storeVars
    <3> QED
      BY <2>1, <2>2, <3>1, <3>2, MarkedJobs
  <2>9. CASE CompleteJob(w) \/ CompleteFails(w)
    <3> DEFINE done == MarkCompleted(job[w])
    <3>1. done.id = job[w].id /\ done.status = "completed"
      BY <2>1, MarkedJobs DEF Reasons
    <3>2. UpdateJob(done) /\ Return(w) /\ writers' = writers
      BY <1>0, <2>9 DEF CompleteJob, CompleteFails, CallsThatStrand
    <3> HIDE DEF done
    <3>3. status' = [status EXCEPT ![job[w].id] = "completed"]
      BY <3>1, <3>2 DEF UpdateJob
    <3> QED
      BY <3>2, <3>3, OwnersStay DEF Return, Busy, IndInv, TypeOK, JobStoreTypeOK
  <2> QED
    BY <1>4, <2>3, <2>5, <2>6, <2>7, <2>8, <2>9 DEF RunStep
<1>5. ASSUME NEW copy \in writers, Write(copy) \/ WriteFails(copy) PROVE ProcessingIsOwned'
  <2>1. copy \in Job /\ copy.status \in {"pending", "failed"}
    BY DEF IndInv, TypeOK, WritersEnd
  <2>2. Write(copy)
    BY <1>0, <1>5 DEF WriteFails, CallsThatStrand
  <2>3. /\ status' = [status EXCEPT ![copy.id] = copy.status]
        /\ writers' = writers \ {copy}
        /\ pc' = pc /\ job' = job
    BY <2>2 DEF Write, UpdateJob, workerVars
  <2>4. \A other \in writers : other.id # copy.id => other \in writers'
    BY <2>3
  <2> QED
    BY <2>1, <2>3, <2>4, OwnersStay DEF Busy, IndInv, TypeOK, JobStoreTypeOK
<1>6. CASE \/ \E note \in outbox : Send(note)
           \/ Crash
           \/ UNCHANGED vars
  BY <1>6 DEF Send, Crash, vars, storeVars, workerVars, ProcessingIsOwned, Owned, Busy
<1> QED
  BY <1>1, <1>2, <1>3, <1>4, <1>5, <1>6 DEF Next, WriterStep

\* No job is left in processing by everybody, unless a call by which it is
\* acquired or written back fails, or the process dies (worker.go:79-137).
THEOREM NoJobStranded ==
    ASSUME CallsThatFail \cap CallsThatStrand = {}, ~CanCrash
    PROVE  Spec => []ProcessingIsOwned
<1>1. Init => ProcessingIsOwned
  BY DEF Init, JobStoreInit, ProcessingIsOwned
<1>2. IndInv /\ ProcessingIsOwned /\ [Next]_vars => ProcessingIsOwned'
  BY OwnedStep
<1> QED
  BY <1>1, <1>2, Invariance, PTL DEF Spec

-----------------------------------------------------------------------------
\* A write back by the owner of a job ends the job's processing.
LEMMA WriteRefines ==
    ASSUME IndInv, NEW copy \in Job, UpdateJob(copy),
           status[copy.id] = "processing",
           copy.status \in {"pending", "completed", "failed"},
           copy.status = "completed" =>
               \A t \in TaskIDs : JobOf[t] = copy.id => variant[t] # 0
    PROVE  Lifecycle!LifecycleNext
<1>1. copy.id \in JobIDs
  BY JobFacts
<1>2. status' = [status EXCEPT ![copy.id] = copy.status] /\ variant' = variant
  BY DEF UpdateJob
<1>3. CASE copy.status = "pending"
  BY <1>1, <1>2, <1>3 DEF Lifecycle!LifecycleNext, Lifecycle!Release, Lifecycle!Move
<1>4. CASE copy.status = "failed"
  BY <1>1, <1>2, <1>4 DEF Lifecycle!LifecycleNext, Lifecycle!Fail, Lifecycle!Move
<1>5. CASE copy.status = "completed"
  BY <1>1, <1>2, <1>5
  DEF Lifecycle!LifecycleNext, Lifecycle!Complete, Lifecycle!HasResults, Lifecycle!Move
<1> QED
  BY <1>3, <1>4, <1>5

\* So does the end of Run, and every task of a completed job has a result.
LEMMA CompleteRefines ==
    ASSUME IndInv, NEW w \in Workers, pc[w] = "complete", UpdateJob(MarkCompleted(job[w]))
    PROVE  Lifecycle!LifecycleNext
<1> DEFINE done == MarkCompleted(job[w])
<1>1. job[w] \in Job /\ status[job[w].id] = "processing"
  BY DEF IndInv, RunOK, OwnedByOne, Busy
<1>2. done \in Job /\ done.id = job[w].id /\ done.status = "completed"
  BY <1>1, MarkedJobs DEF Reasons
<1>3. \A t \in TaskIDs : JobOf[t] = job[w].id => variant[t] # 0
  BY DEF IndInv, RunOK
<1>4. UpdateJob(done)
  OBVIOUS
<1> HIDE DEF done
<1> QED
  BY <1>1, <1>2, <1>3, <1>4, WriteRefines

\* Run stores the results of all tasks of the job it has, in one step.
LEMMA ResultsRefine ==
    ASSUME IndInv, NEW w \in Workers, pc[w] = "results", UpdateTasks(Done(w), made[w])
    PROVE  Lifecycle!LifecycleNext
<1>1. job[w] \in Job /\ status[job[w].id] = "processing"
  BY DEF IndInv, RunOK, OwnedByOne, Busy
<1>2. \A t \in TaskIDs :
        /\ t \in Done(w) <=> JobOf[t] = job[w].id
        /\ t \in Done(w) => made[w][t] # 0 /\ made[w][t] \in Nat
  BY DEF IndInv, RunOK, Done, TypeOK
<1>3. /\ variant' = [t \in TaskIDs |-> IF t \in Done(w) THEN made[w][t] ELSE variant[t]]
      /\ status' = status
  BY DEF UpdateTasks
<1>4. Lifecycle!Record(job[w].id)
  BY <1>1, <1>2, <1>3 DEF Lifecycle!Record, IndInv, TypeOK, JobStoreTypeOK
<1> QED
  BY <1>1, <1>4, JobFacts DEF Lifecycle!LifecycleNext

\* Locking a pending job starts its processing.
LEMMA AcquireRefines ==
    ASSUME NEW j \in JobIDs, AcquireJob(j)
    PROVE  Lifecycle!LifecycleNext
<1>1. status[j] = "pending" /\ status' = [status EXCEPT ![j] = "processing"] /\ variant' = variant
  BY DEF AcquireJob, OldestPending, PendingJobs
<1> QED
  BY <1>1 DEF Lifecycle!LifecycleNext, Lifecycle!Move

\* Storing a new job makes it pending, and changes no result: it had none.
LEMMA CreateRefines ==
    ASSUME IndInv, NEW j \in JobIDs, CreateJob(j)
    PROVE  Lifecycle!LifecycleNext
<1>1. status[j] = "absent" /\ status' = [status EXCEPT ![j] = "pending"]
  BY DEF CreateJob, Stored
<1>2. \A t \in TaskIDs : JobOf[t] = j => variant[t] = 0
  BY <1>1 DEF IndInv, TasksStored, Stored
<1>3. variant' = variant
  BY <1>2 DEF CreateJob, IndInv, TypeOK, JobStoreTypeOK
<1> QED
  BY <1>1, <1>3 DEF Lifecycle!LifecycleNext, Lifecycle!Move

\* The workers implement the job life: each step is a step of JobLifecycle, or
\* changes neither a status nor a result.
THEOREM Refinement == Spec => ImplementsLifecycle
<1>1. Init => Lifecycle!LifecycleInit
  BY DEF Init, JobStoreInit, Lifecycle!LifecycleInit
<1>2. IndInv /\ [Next]_vars => [Lifecycle!LifecycleNext]_(Lifecycle!lifecycleVars)
  <2> SUFFICES ASSUME IndInv, [Next]_vars
               PROVE  Lifecycle!LifecycleNext \/ UNCHANGED <<status, variant>>
    BY DEF Lifecycle!lifecycleVars
  <2>1. ASSUME NEW j \in JobIDs, Create(j) PROVE Lifecycle!LifecycleNext
    BY <2>1, CreateRefines DEF Create
  <2>2. ASSUME NEW w \in Workers, Acquire(w) \/ AcquireFails(w) PROVE Lifecycle!LifecycleNext
    BY <2>2, AcquireRefines DEF Acquire, AcquireFails
  <2>3. ASSUME NEW w \in Workers, RunStep(w)
        PROVE  Lifecycle!LifecycleNext \/ UNCHANGED <<status, variant>>
    <3>1. CASE \/ DownloadOriginal(w) \/ DownloadFails(w)
               \/ \E t \in TaskIDs : ProcessTask(w, t) \/ TaskFails(w, t)
               \/ TasksSucceed(w) \/ TasksFail(w) \/ NoTasks(w)
      BY <3>1 DEF DownloadOriginal, DownloadFails, ProcessTask, TaskFails, TasksSucceed,
                  TasksFail, NoTasks, storeVars
    <3>2. CASE StoreResults(w) \/ StoreResultsFails(w)
      BY <3>2, ResultsRefine DEF StoreResults, StoreResultsFails, TookEffect, storeVars
    <3>3. CASE CompleteJob(w) \/ CompleteFails(w)
      BY <3>3, CompleteRefines DEF CompleteJob, CompleteFails, TookEffect, storeVars
    <3> QED
      BY <2>3, <3>1, <3>2, <3>3 DEF RunStep
  <2>4. ASSUME NEW copy \in writers, Write(copy) \/ WriteFails(copy)
        PROVE  Lifecycle!LifecycleNext \/ UNCHANGED <<status, variant>>
    <3>1. /\ copy \in Job
          /\ status[copy.id] = "processing"
          /\ copy.status \in {"pending", "failed"}
      BY DEF IndInv, TypeOK, OwnedByOne, WritersEnd
    <3>2. UpdateJob(copy) \/ UNCHANGED storeVars
      BY <2>4 DEF Write, WriteFails, TookEffect
    <3> QED
      BY <3>1, <3>2, WriteRefines DEF storeVars
  <2>5. CASE \/ \E note \in outbox : Send(note)
             \/ Crash
             \/ UNCHANGED vars
    BY <2>5 DEF Send, Crash, vars, storeVars
  <2> QED
    BY <2>1, <2>2, <2>3, <2>4, <2>5 DEF Next, WriterStep
<1> QED
  BY <1>1, <1>2, Invariance, PTL DEF Spec, ImplementsLifecycle, Lifecycle!LifecycleSpec
=============================================================================
