----------------------- MODULE JobStoreClientsProofs -----------------------
(***************************************************************************)
(* Proofs about JobStoreClients.tla, for any jobs, tasks and clients: what *)
(* the memory store keeps under clients whose jobs are taken away from     *)
(* them, or deleted, while they work.                                      *)
(***************************************************************************)
EXTENDS JobStoreClients, JobStoreProofs

\* A client's copy is as AcquireJob returned it, of a job whose id is used.
CopiesAsAcquired ==
    \A c \in Clients : Holds(c) =>
        /\ copy[c] \in Job
        /\ copy[c].status = "processing"
        /\ copy[c].reason = NoReason
        /\ copy[c].id \notin unused
        /\ attempt[c] >= 1

\* The tasks have variants once a client has stored its results.
ResultsStored ==
    \A c \in Clients : Holds(c) /\ stored[c] /\ Stored(copy[c].id) =>
        \A t \in TaskIDs : JobOf[t] = copy[c].id => variant[t] # 0

UnusedAbsent == \A j \in unused : ~Stored(j)

IndInv ==
    /\ TypeOK
    /\ UnusedAbsent
    /\ CopiesAsAcquired
    /\ RecordsAgree
    /\ ResultsStored
    /\ ResultsOfOneAttempt
    /\ SignalKept
    /\ HeldOnce

-----------------------------------------------------------------------------
\* A job is not the absence of one.
LEMMA CopyOfJob ==
    ASSUME NEW job \in Job PROVE job # NoCopy
<1>1. DOMAIN job = {"id", "status", "locked", "reason"}
  BY DEF Job
<1>2. DOMAIN NoCopy = {"id"}
  BY DEF NoCopy
<1> QED
  BY <1>1, <1>2

\* An empty store, and clients without jobs.
LEMMA InitInv == Init => IndInv
<1> SUFFICES ASSUME Init PROVE IndInv
  OBVIOUS
<1>1. \A c \in Clients : ~Holds(c)
  BY DEF Init, Holds
<1>2. TypeOK
  <2>1. JobStoreTypeOK
    BY DEF Init, JobStoreInit, JobStoreTypeOK, JobStatus
  <2> QED
    BY <2>1, ClientsAssumption DEF Init, TypeOK, ClientsAssumption
<1>3. RecordsAgree /\ ResultsOfOneAttempt /\ SignalKept /\ UnusedAbsent
  BY JobStoreAssumption
  DEF UnusedAbsent, Init, JobStoreInit, RecordsAgree, LockedIffProcessing, ReasonIffFailed, TasksFollowJobs,
      ResultsOfOneAttempt, SignalKept, Stored, JobStoreAssumption
<1> QED
  BY <1>1, <1>2, <1>3 DEF IndInv, CopiesAsAcquired, ResultsStored, HeldOnce

-----------------------------------------------------------------------------
\* A new job has an id that nobody has a copy of.
LEMMA CreateInv ==
    ASSUME IndInv, NEW j \in JobIDs, Create(j)
    PROVE  IndInv'
<1>1. /\ j \in unused /\ unused' = unused \ {j}
      /\ status' = [status EXCEPT ![j] = "pending"]
      /\ locked' = [locked EXCEPT ![j] = FALSE]
      /\ reason' = [reason EXCEPT ![j] = NoReason]
      /\ tasks' = tasks \cup {t \in TaskIDs : JobOf[t] = j}
      /\ variant' = [t \in TaskIDs |-> IF JobOf[t] = j THEN 0 ELSE variant[t]]
      /\ signal' = (subscribed \/ signal) /\ subscribed' = subscribed
      /\ unheard' = (IF subscribed THEN unheard \cup {j} ELSE unheard)
      /\ UNCHANGED <<copy, attempt, stored, acquires, swept>>
  BY DEF Create, CreateJob, notifySubscribers, clientVars
<1>2. \A c \in Clients : Holds(c) => copy[c].id # j /\ copy[c].id \in JobIDs
  BY <1>1, JobFacts DEF IndInv, CopiesAsAcquired
<1>3. JobStoreTypeOK'
  <2>1. /\ status' \in [JobIDs -> JobStatus \cup {"absent"}]
        /\ locked' \in [JobIDs -> BOOLEAN]
        /\ reason' \in [JobIDs -> Reasons \cup {NoReason}]
    BY <1>1 DEF IndInv, TypeOK, JobStoreTypeOK, JobStatus
  <2>2. tasks' \in SUBSET TaskIDs /\ variant' \in [TaskIDs -> Nat]
    BY <1>1 DEF IndInv, TypeOK, JobStoreTypeOK
  <2>3. signal' \in BOOLEAN
    BY <1>1, ZenonT(30) DEF IndInv, TypeOK, JobStoreTypeOK
  <2> QED
    BY <1>1, <2>1, <2>2, <2>3 DEF IndInv, TypeOK, JobStoreTypeOK
<1>4. TypeOK'
  BY <1>1, <1>3 DEF IndInv, TypeOK
<1>5. RecordsAgree'
  BY <1>1, JobStoreAssumption
  DEF IndInv, TypeOK, JobStoreTypeOK, RecordsAgree, LockedIffProcessing, ReasonIffFailed,
      TasksFollowJobs, Stored, JobStoreAssumption
<1>6. CopiesAsAcquired'
  BY <1>1 DEF IndInv, CopiesAsAcquired, Holds
<1>10. UnusedAbsent'
  BY <1>1 DEF IndInv, TypeOK, JobStoreTypeOK, UnusedAbsent, Stored
<1>7. ResultsStored' /\ HeldOnce'
  BY <1>1, <1>2 DEF IndInv, TypeOK, JobStoreTypeOK, ResultsStored, HeldOnce, Holds, Stored
<1>8. ResultsOfOneAttempt'
  BY <1>1, JobStoreAssumption
  DEF IndInv, TypeOK, JobStoreTypeOK, ResultsOfOneAttempt, JobStoreAssumption
<1>9. SignalKept'
  BY <1>1, ZenonT(30) DEF IndInv, SignalKept
<1> QED
  BY <1>4, <1>5, <1>6, <1>7, <1>8, <1>9, <1>10 DEF IndInv

\* A job that is pending is held by nobody, or was swept.
LEMMA AcquireInv ==
    ASSUME IndInv, NEW c \in Clients, Acquire(c)
    PROVE  IndInv'
<1>1. PICK j \in JobIDs : AcquireJob(j) /\ copy' = [copy EXCEPT ![c] = Acquired(j)]
  BY DEF Acquire
<1>2. /\ status[j] = "pending"
      /\ status' = [status EXCEPT ![j] = "processing"]
      /\ locked' = [locked EXCEPT ![j] = TRUE]
      /\ ~Holds(c) /\ acquires < MaxAcquires /\ acquires' = acquires + 1
      /\ attempt' = [attempt EXCEPT ![c] = acquires + 1]
      /\ stored' = [stored EXCEPT ![c] = FALSE]
      /\ UNCHANGED <<reason, tasks, variant, subscribed, signal, unused, swept, unheard>>
  BY <1>1, AcquiresPending DEF Acquire, AcquireJob
<1>3. /\ Acquired(j) \in Job
      /\ Acquired(j).id = j
      /\ Acquired(j).status = "processing"
      /\ Acquired(j).reason = NoReason
      /\ Acquired(j) # NoCopy
  <2>1. reason[j] = NoReason
    BY <1>2 DEF IndInv, RecordsAgree, ReasonIffFailed
  <2> QED
    BY <2>1, AcquiredJob, CopyOfJob DEF Acquired
<1> DEFINE job == Acquired(j)
<1> HIDE DEF job
<1>4. /\ copy' = [copy EXCEPT ![c] = job]
      /\ job \in Job /\ job.id = j /\ job.status = "processing" /\ job.reason = NoReason
      /\ job # NoCopy
  BY <1>1, <1>3 DEF job
<1>5. TypeOK'
  <2>1. JobStoreTypeOK'
    BY <1>2 DEF IndInv, TypeOK, JobStoreTypeOK, JobStatus
  <2>2. acquires + 1 \in 0 .. MaxAcquires
    BY <1>2, ClientsAssumption DEF IndInv, TypeOK, ClientsAssumption
  <2> QED
    BY <1>2, <1>4, <2>1, <2>2 DEF IndInv, TypeOK
<1>6. RecordsAgree'
  BY <1>2, JobStoreAssumption
  DEF IndInv, TypeOK, JobStoreTypeOK, RecordsAgree, LockedIffProcessing, ReasonIffFailed,
      TasksFollowJobs, Stored, JobStoreAssumption
<1>7. \A d \in Clients \ {c} : /\ copy'[d] = copy[d] /\ stored'[d] = stored[d]
                               /\ attempt'[d] = attempt[d]
      /\ copy'[c] = job /\ stored'[c] = FALSE /\ attempt'[c] = acquires + 1
  BY <1>2, <1>4 DEF IndInv, TypeOK
<1>8. CopiesAsAcquired'
  <2>1. j \notin unused
    BY <1>2 DEF IndInv, UnusedAbsent, Stored
  <2> QED
    BY <1>2, <1>4, <1>7, <2>1 DEF IndInv, TypeOK, CopiesAsAcquired, Holds
<1>9. UnusedAbsent'
  BY <1>2 DEF IndInv, TypeOK, JobStoreTypeOK, UnusedAbsent, Stored
<1>10. ResultsStored'
  BY <1>2, <1>4, <1>7 DEF IndInv, TypeOK, JobStoreTypeOK, ResultsStored, Holds, Stored
<1>11. ResultsOfOneAttempt' /\ SignalKept'
  BY <1>2, JobStoreAssumption
  DEF IndInv, TypeOK, JobStoreTypeOK, ResultsOfOneAttempt, SignalKept, JobStoreAssumption
<1>12. HeldOnce'
  <2>1. \A d \in Clients : Holds(d) /\ copy[d].id \notin swept => copy[d].id # j
    BY <1>2 DEF IndInv, HeldOnce, Stored
  <2>2. \A d \in Clients : Holds(d) => copy[d].id \in JobIDs
    BY JobFacts DEF IndInv, CopiesAsAcquired
  <2> SUFFICES ASSUME NEW d \in Clients, Holds(d)', copy'[d].id \notin swept
               PROVE  /\ Stored(copy[d].id)' => status'[copy'[d].id] = "processing"
                      /\ \A k \in Clients \ {d} : Holds(k)' => copy'[k].id # copy'[d].id
    BY <1>2 DEF HeldOnce
  <2>3. CASE d = c
    <3>1. \A k \in Clients \ {c} : Holds(k)' => copy'[k].id # j
      BY <1>2, <1>4, <1>7, <2>1, <2>3 DEF Holds
    <3> QED
      BY <1>2, <1>4, <1>7, <2>3, <3>1 DEF IndInv, TypeOK, JobStoreTypeOK
  <2>4. CASE d # c
    <3>1. Holds(d) /\ copy'[d] = copy[d] /\ copy[d].id # j /\ copy[d].id \in JobIDs
      BY <1>2, <1>7, <2>1, <2>2, <2>4 DEF Holds
    <3>2. \A k \in Clients \ {d} : Holds(k)' => copy'[k].id # copy'[d].id
      BY <1>2, <1>4, <1>7, <3>1 DEF IndInv, HeldOnce, Holds
    <3> QED
      BY <1>2, <3>1, <3>2 DEF IndInv, TypeOK, JobStoreTypeOK, HeldOnce, Stored
  <2> QED
    BY <2>3, <2>4
<1> QED
  BY <1>5, <1>6, <1>8, <1>9, <1>10, <1>11, <1>12 DEF IndInv

\* All tasks of a job get the variants of one attempt.
LEMMA StoreResultsInv ==
    ASSUME IndInv, NEW c \in Clients, StoreResults(c)
    PROVE  IndInv'
<1> DEFINE j == copy[c].id
<1>1. /\ Holds(c)
      /\ variant' = [t \in TaskIDs |-> IF JobOf[t] = j THEN attempt[c] ELSE variant[t]]
      /\ stored' = [stored EXCEPT ![c] = TRUE]
      /\ UNCHANGED <<status, locked, reason, tasks, subscribed, signal>>
      /\ UNCHANGED <<copy, attempt, acquires, unused, swept, unheard>>
  BY DEF StoreResults, UpdateTasks
<1>2. attempt[c] \in Nat /\ attempt[c] # 0
  BY <1>1, ClientsAssumption DEF IndInv, TypeOK, CopiesAsAcquired, ClientsAssumption
<1>3. TypeOK'
  <2>1. variant' \in [TaskIDs -> Nat]
    BY <1>1, <1>2 DEF IndInv, TypeOK, JobStoreTypeOK
  <2> QED
    BY <1>1, <2>1 DEF IndInv, TypeOK, JobStoreTypeOK
<1>4. CopiesAsAcquired' /\ UnusedAbsent' /\ RecordsAgree' /\ SignalKept' /\ HeldOnce'
  BY <1>1 DEF IndInv, CopiesAsAcquired, UnusedAbsent, RecordsAgree, LockedIffProcessing,
              ReasonIffFailed, TasksFollowJobs, SignalKept, HeldOnce, Holds, Stored
<1>5. ResultsStored'
  BY <1>1, <1>2 DEF IndInv, TypeOK, ResultsStored, Holds, Stored
<1>6. ResultsOfOneAttempt'
  BY <1>1, <1>2 DEF IndInv, ResultsOfOneAttempt
<1> QED
  BY <1>3, <1>4, <1>5, <1>6 DEF IndInv

\* A client that lets go of its job, having written it or not.
LEMMA LetGo ==
    ASSUME IndInv, NEW c \in Clients, Holds(c), copy' = [copy EXCEPT ![c] = NoCopy],
           UNCHANGED <<attempt, stored, unused>>
    PROVE  /\ \A d \in Clients : Holds(d)' => d # c /\ Holds(d) /\ copy'[d] = copy[d]
           /\ CopiesAsAcquired'
           /\ copy' \in [Clients -> Job \cup {NoCopy}]
<1>1. \A d \in Clients : Holds(d)' => d # c /\ Holds(d) /\ copy'[d] = copy[d]
  BY DEF Holds, IndInv, TypeOK
<1> QED
  BY <1>1 DEF IndInv, TypeOK, CopiesAsAcquired

\* What a client writes back is a copy of the job it holds, unlocked, with a
\* reason just when it failed (job.go:46-67).
LEMMA WrittenJob ==
    ASSUME IndInv, NEW c \in Clients, WriteBack(c)
    PROVE  /\ Holds(c) /\ copy[c] \in Job /\ copy[c].id \in JobIDs
           /\ \E job \in Job :
                /\ UpdateJob(job) /\ job.id = copy[c].id /\ job.locked = FALSE
                /\ job.status # "processing"
                /\ job.status = "failed" <=> job.reason # NoReason
                /\ job.status = "completed" => stored[c]
<1>1. /\ Holds(c) /\ copy[c] \in Job /\ copy[c].id \in JobIDs
      /\ copy[c].reason = NoReason
  BY JobFacts DEF WriteBack, IndInv, CopiesAsAcquired
<1> DEFINE Outcome(job) ==
              /\ job.id = copy[c].id /\ job.locked = FALSE
              /\ job.status # "processing"
              /\ job.status = "failed" <=> job.reason # NoReason
              /\ job.status = "completed" => stored[c]
<1>2. CASE stored[c] /\ UpdateJob(MarkCompleted(copy[c]))
  <2>1. MarkCompleted(copy[c]) \in Job
    BY <1>1, MarkedJobs DEF Reasons
  <2>2. Outcome(MarkCompleted(copy[c]))
    BY <1>1, <1>2 DEF MarkCompleted, Job
  <2> QED
    BY <1>1, <1>2, <2>1, <2>2
<1>3. ASSUME NEW e \in Reasons, UpdateJob(MarkFailed(copy[c], e))
      PROVE  \E job \in Job : UpdateJob(job) /\ Outcome(job)
  <2>1. MarkFailed(copy[c], e) \in Job
    BY <1>1, MarkedJobs
  <2>2. e # NoReason
    BY DEF Reasons, ErrorKinds, NoReason
  <2>3. Outcome(MarkFailed(copy[c], e))
    BY <1>1, <2>2 DEF MarkFailed, Job
  <2> QED
    BY <1>3, <2>1, <2>3
<1>4. CASE ~stored[c] /\ UpdateJob(MarkPending(copy[c]))
  <2>1. MarkPending(copy[c]) \in Job
    BY <1>1, MarkedJobs DEF Reasons
  <2>2. Outcome(MarkPending(copy[c]))
    BY <1>1, <1>4 DEF MarkPending, Job
  <2> QED
    BY <1>1, <1>4, <2>1, <2>2
<1>5. \E job \in Job : UpdateJob(job) /\ Outcome(job)
  BY <1>2, <1>3, <1>4 DEF WriteBack
<1> QED
  BY <1>1, <1>5

\* The copy that is written back is pending, completed or failed, and says why
\* only if it failed; when nobody took the job away, nobody else has it.
LEMMA WriteBackInv ==
    ASSUME IndInv, NEW c \in Clients, WriteBack(c)
    PROVE  IndInv'
<1> DEFINE j == copy[c].id
<1>1. Holds(c) /\ copy[c] \in Job /\ j \in JobIDs
  BY WrittenJob
<1>2. PICK job \in Job :
        /\ UpdateJob(job) /\ job.id = j /\ job.locked = FALSE
        /\ job.status # "processing"
        /\ job.status = "failed" <=> job.reason # NoReason
        /\ job.status = "completed" => stored[c]
  BY WrittenJob
<1>3. /\ Stored(j)
      /\ status' = [status EXCEPT ![j] = job.status]
      /\ locked' = [locked EXCEPT ![j] = FALSE]
      /\ reason' = [reason EXCEPT ![j] = job.reason]
      /\ copy' = [copy EXCEPT ![c] = NoCopy]
      /\ UNCHANGED <<tasks, variant, subscribed, signal>>
      /\ UNCHANGED <<attempt, stored, acquires, unused, swept, unheard>>
  BY <1>2 DEF UpdateJob, WriteBack
<1>4. job.status \in JobStatus /\ job.reason \in Reasons \cup {NoReason}
  BY JobFacts
<1> HIDE DEF j
<1>5. /\ \A d \in Clients : Holds(d)' => d # c /\ Holds(d) /\ copy'[d] = copy[d]
      /\ CopiesAsAcquired'
      /\ copy' \in [Clients -> Job \cup {NoCopy}]
  BY <1>1, <1>3, LetGo
<1>6. TypeOK'
  <2>1. JobStoreTypeOK'
    BY <1>3, <1>4 DEF IndInv, TypeOK, JobStoreTypeOK
  <2> QED
    BY <1>3, <1>5, <2>1 DEF IndInv, TypeOK
<1>7. RecordsAgree' /\ UnusedAbsent'
  <2>1. \A k \in JobIDs : Stored(k)' <=> Stored(k)
    BY <1>1, <1>3, <1>4 DEF IndInv, TypeOK, JobStoreTypeOK, Stored, JobStatus
  <2>2. TasksFollowJobs' /\ UnusedAbsent'
    BY <1>3, <2>1, JobStoreAssumption
    DEF IndInv, TypeOK, RecordsAgree, TasksFollowJobs, UnusedAbsent, JobStoreAssumption
  <2>3. LockedIffProcessing' /\ ReasonIffFailed'
    BY <1>2, <1>3 DEF IndInv, TypeOK, JobStoreTypeOK, RecordsAgree, LockedIffProcessing,
                      ReasonIffFailed
  <2> QED
    BY <2>2, <2>3 DEF RecordsAgree
<1>8. ResultsStored'
  BY <1>1, <1>3, <1>5 DEF IndInv, TypeOK, JobStoreTypeOK, ResultsStored, Stored
<1>9. ResultsOfOneAttempt'
  BY <1>1, <1>2, <1>3, JobStoreAssumption
  DEF IndInv, TypeOK, JobStoreTypeOK, ResultsStored, ResultsOfOneAttempt, j, JobStoreAssumption
<1>10. HeldOnce'
  <2>1. ASSUME NEW d \in Clients, Holds(d)', copy'[d].id \notin swept
        PROVE  /\ Stored(copy[d].id)' => status'[copy'[d].id] = "processing"
               /\ \A k \in Clients \ {d} : Holds(k)' => copy'[k].id # copy'[d].id
    <3>1. /\ Holds(d) /\ copy'[d] = copy[d] /\ copy[d].id # j /\ copy[d].id \in JobIDs
      BY <1>1, <1>5, <2>1, JobFacts DEF IndInv, HeldOnce, CopiesAsAcquired, j
    <3> QED
      BY <1>3, <1>5, <2>1, <3>1 DEF IndInv, TypeOK, JobStoreTypeOK, HeldOnce, Stored
  <2> QED
    BY <1>3, <2>1 DEF HeldOnce
<1>11. SignalKept'
  BY <1>3 DEF IndInv, SignalKept
<1> QED
  BY <1>5, <1>6, <1>7, <1>8, <1>9, <1>10, <1>11 DEF IndInv

\* A client that gives up forgets its copy, and changes nothing in the store.
LEMMA GiveUpInv ==
    ASSUME IndInv, NEW c \in Clients, GiveUp(c)
    PROVE  IndInv'
<1>1. /\ Holds(c) /\ copy' = [copy EXCEPT ![c] = NoCopy]
      /\ UNCHANGED <<status, locked, reason, tasks, variant, subscribed, signal>>
      /\ UNCHANGED <<attempt, stored, acquires, unused, swept, unheard>>
  BY DEF GiveUp, storeVars
<1>2. /\ \A d \in Clients : Holds(d)' => d # c /\ Holds(d) /\ copy'[d] = copy[d]
      /\ CopiesAsAcquired'
      /\ copy' \in [Clients -> Job \cup {NoCopy}]
  BY <1>1, LetGo
<1>3. TypeOK'
  BY <1>1, <1>2 DEF IndInv, TypeOK, JobStoreTypeOK
<1>4. UnusedAbsent' /\ RecordsAgree' /\ ResultsOfOneAttempt' /\ SignalKept'
  BY <1>1 DEF IndInv, UnusedAbsent, RecordsAgree, LockedIffProcessing, ReasonIffFailed,
              TasksFollowJobs, ResultsOfOneAttempt, SignalKept, Stored
<1>5. ResultsStored' /\ HeldOnce'
  BY <1>1, <1>2 DEF IndInv, ResultsStored, HeldOnce, Stored
<1> QED
  BY <1>2, <1>3, <1>4, <1>5 DEF IndInv

\* A sweep takes jobs away from clients: it is then that two hold the same one.
LEMMA SweepInv ==
    ASSUME IndInv, Sweep
    PROVE  IndInv'
<1>1. PICK expired \in SUBSET {j \in JobIDs : status[j] = "processing"} :
        /\ ReleaseJobs(expired)
        /\ swept' = swept \cup expired
        /\ UNCHANGED <<clientVars, unused, unheard>>
  BY DEF Sweep
<1>2. /\ status' = [j \in JobIDs |-> IF j \in expired THEN "pending" ELSE status[j]]
      /\ locked' = [j \in JobIDs |-> IF j \in expired THEN FALSE ELSE locked[j]]
      /\ UNCHANGED <<reason, tasks, variant, subscribed, signal>>
      /\ UNCHANGED <<copy, attempt, stored, acquires, unused, unheard>>
  BY <1>1 DEF ReleaseJobs, clientVars
<1>3. /\ expired \subseteq JobIDs /\ \A j \in expired : status[j] = "processing"
  BY <1>1
<1>4. TypeOK'
  <2>1. JobStoreTypeOK'
    BY <1>2 DEF IndInv, TypeOK, JobStoreTypeOK, JobStatus
  <2> QED
    BY <1>1, <1>2, <1>3, <2>1 DEF IndInv, TypeOK
<1>5. \A j \in JobIDs : Stored(j)' <=> Stored(j)
  BY <1>2, <1>3 DEF IndInv, TypeOK, JobStoreTypeOK, Stored
<1>6. RecordsAgree' /\ UnusedAbsent'
  <2>1. TasksFollowJobs' /\ UnusedAbsent'
    BY <1>2, <1>5, JobStoreAssumption
    DEF IndInv, TypeOK, RecordsAgree, TasksFollowJobs, UnusedAbsent, JobStoreAssumption
  <2>2. LockedIffProcessing' /\ ReasonIffFailed'
    BY <1>2, <1>3 DEF IndInv, TypeOK, JobStoreTypeOK, RecordsAgree, LockedIffProcessing,
                      ReasonIffFailed
  <2> QED
    BY <2>1, <2>2 DEF RecordsAgree
<1>7. CopiesAsAcquired' /\ SignalKept'
  BY <1>2 DEF IndInv, CopiesAsAcquired, SignalKept, Holds
<1>8. ResultsOfOneAttempt'
  BY <1>2, <1>3, JobStoreAssumption DEF IndInv, ResultsOfOneAttempt, JobStoreAssumption
<1>9. \A c \in Clients : Holds(c) => copy[c].id \in JobIDs
  BY JobFacts DEF IndInv, CopiesAsAcquired
<1>10. ResultsStored'
  BY <1>2, <1>5, <1>9 DEF IndInv, ResultsStored, Holds
<1>11. HeldOnce'
  <2> SUFFICES ASSUME NEW c \in Clients, Holds(c), copy[c].id \notin swept'
               PROVE  /\ Stored(copy[c].id)' => status'[copy[c].id] = "processing"
                      /\ \A d \in Clients \ {c} : Holds(d) => copy[d].id # copy[c].id
    BY <1>2 DEF HeldOnce, Holds
  <2>1. copy[c].id \in JobIDs /\ copy[c].id \notin expired /\ copy[c].id \notin swept
    BY <1>1, <1>9
  <2> QED
    BY <1>2, <1>5, <2>1 DEF IndInv, HeldOnce
<1> QED
  BY <1>4, <1>6, <1>7, <1>8, <1>10, <1>11 DEF IndInv

\* Nothing is left of a deleted job but the copies of it.
LEMMA DeleteInv ==
    ASSUME IndInv, NEW j \in JobIDs, Delete(j)
    PROVE  IndInv'
<1>1. /\ status' = [status EXCEPT ![j] = "absent"]
      /\ locked' = [locked EXCEPT ![j] = FALSE]
      /\ reason' = [reason EXCEPT ![j] = NoReason]
      /\ tasks' = {t \in tasks : JobOf[t] # j}
      /\ variant' = [t \in TaskIDs |-> IF JobOf[t] = j THEN 0 ELSE variant[t]]
      /\ UNCHANGED <<subscribed, signal>>
      /\ UNCHANGED <<copy, attempt, stored, acquires, unused, swept, unheard>>
  BY DEF Delete, DeleteJob, clientVars
<1>2. TypeOK'
  BY <1>1 DEF IndInv, TypeOK, JobStoreTypeOK
<1>3. RecordsAgree' /\ UnusedAbsent'
  BY <1>1, JobStoreAssumption
  DEF IndInv, TypeOK, JobStoreTypeOK, RecordsAgree, LockedIffProcessing, ReasonIffFailed,
      TasksFollowJobs, UnusedAbsent, Stored, JobStoreAssumption
<1>4. \A c \in Clients : Holds(c) => copy[c].id \in JobIDs
  BY JobFacts DEF IndInv, CopiesAsAcquired
<1>5. CopiesAsAcquired' /\ SignalKept'
  BY <1>1 DEF IndInv, CopiesAsAcquired, SignalKept, Holds
<1>6. ResultsStored' /\ HeldOnce'
  BY <1>1, <1>4 DEF IndInv, TypeOK, JobStoreTypeOK, ResultsStored, HeldOnce, Holds, Stored
<1>7. ResultsOfOneAttempt'
  BY <1>1, JobStoreAssumption
  DEF IndInv, TypeOK, JobStoreTypeOK, ResultsOfOneAttempt, JobStoreAssumption
<1> QED
  BY <1>2, <1>3, <1>5, <1>6, <1>7 DEF IndInv

\* The subscriber's own operations.
LEMMA SubscriberInv ==
    ASSUME IndInv, Subscribe \/ Unsubscribe \/ Receive
    PROVE  IndInv'
<1>1. /\ UNCHANGED <<status, locked, reason, tasks, variant, copy, attempt, stored, acquires>>
      /\ UNCHANGED <<unused, swept>>
      /\ unheard' = {} /\ subscribed' \in BOOLEAN /\ signal' \in BOOLEAN
  BY DEF Subscribe, SubscribeOnJob, Unsubscribe, UnsubscribeOnJob, Receive, jobVars, clientVars,
         IndInv, TypeOK, JobStoreTypeOK
<1> QED
  BY <1>1
  DEF IndInv, TypeOK, JobStoreTypeOK, CopiesAsAcquired, UnusedAbsent, RecordsAgree,
      LockedIffProcessing, ReasonIffFailed, TasksFollowJobs, ResultsStored, ResultsOfOneAttempt,
      SignalKept, HeldOnce, Holds, Stored

\* Every step keeps the invariant.
LEMMA StepInv == IndInv /\ [Next]_vars => IndInv'
<1> SUFFICES ASSUME IndInv, [Next]_vars PROVE IndInv'
  OBVIOUS
<1>1. ASSUME NEW j \in JobIDs, Create(j) \/ Delete(j) PROVE IndInv'
  BY <1>1, CreateInv, DeleteInv
<1>2. ASSUME NEW c \in Clients, Acquire(c) \/ StoreResults(c) \/ WriteBack(c) \/ GiveUp(c)
      PROVE  IndInv'
  BY <1>2, AcquireInv, StoreResultsInv, WriteBackInv, GiveUpInv
<1>3. CASE Sweep
  BY <1>3, SweepInv
<1>4. CASE Subscribe \/ Unsubscribe \/ Receive
  BY <1>4, SubscriberInv
<1>5. CASE UNCHANGED vars
  BY <1>5
  DEF vars, storeVars, clientVars, IndInv, TypeOK, JobStoreTypeOK, CopiesAsAcquired, UnusedAbsent,
      RecordsAgree, LockedIffProcessing, ReasonIffFailed, TasksFollowJobs, ResultsStored,
      ResultsOfOneAttempt, SignalKept, HeldOnce, Holds, Stored
<1> QED
  BY <1>1, <1>2, <1>3, <1>4, <1>5 DEF Next

-----------------------------------------------------------------------------
\* The invariant holds in every state of every behaviour.
THEOREM Invariance == Spec => []IndInv
  BY InitInv, StepInv, PTL DEF Spec

\* Every variable keeps its type.
THEOREM TypeCorrect == Spec => []TypeOK
  BY Invariance, PTL DEF IndInv

\* Lock, reason and tasks of a job agree with its status under any order of
\* acquisitions, writes, sweeps and deletions (memory.go:36-40, 120-122, 167-190).
THEOREM Agreement == Spec => []RecordsAgree
  BY Invariance, PTL DEF IndInv

\* The variants of a job come from one attempt, and a completed job has them all,
\* though a sweep has let several clients work on it (memory.go:211-232).
THEOREM OneAttempt == Spec => []ResultsOfOneAttempt
  BY Invariance, PTL DEF IndInv

\* No wakeup is lost (memory.go:247-255).
THEOREM SignalsKept == Spec => []SignalKept
  BY Invariance, PTL DEF IndInv

\* A job that no sweep took away has at most one holder (memory.go:98-136).
THEOREM HeldByOne == Spec => []HeldOnce
  BY Invariance, PTL DEF IndInv

\* A job that no sweep took away stays completed or failed until it is deleted:
\* only its holder could write it, and while it has one it is processing.
THEOREM Finality == Spec => FinishedIsFinal
<1>1. IndInv /\ [Next]_vars =>
        [\A j \in JobIDs \ swept :
           status[j] \in Finished => status'[j] \in {status[j], "absent"}]_vars
  <2> SUFFICES ASSUME IndInv, Next, NEW j \in JobIDs \ swept, status[j] \in Finished
               PROVE  status'[j] \in {status[j], "absent"}
    OBVIOUS
  <2>1. status \in [JobIDs -> JobStatus \cup {"absent"}]
    BY DEF IndInv, TypeOK, JobStoreTypeOK
  <2>2. ASSUME NEW k \in JobIDs, Create(k) \/ Delete(k)
        PROVE  status'[j] \in {status[j], "absent"}
    BY <2>1, <2>2 DEF Create, CreateJob, Delete, DeleteJob, Stored, Finished
  <2>3. ASSUME NEW c \in Clients, Acquire(c)
        PROVE  status'[j] \in {status[j], "absent"}
    <3>1. PICK k \in JobIDs : AcquireJob(k)
      BY <2>3 DEF Acquire
    <3> QED
      BY <2>1, <3>1, AcquiresPending DEF AcquireJob, Finished
  <2>4. ASSUME NEW c \in Clients, WriteBack(c)
        PROVE  status'[j] \in {status[j], "absent"}
    <3>1. Holds(c) /\ copy[c].id \in JobIDs
      BY <2>4, WrittenJob
    <3>2. PICK job \in Job : UpdateJob(job) /\ job.id = copy[c].id
      BY <2>4, WrittenJob
    <3>3. Stored(copy[c].id) /\ status' = [status EXCEPT ![copy[c].id] = job.status]
      BY <3>2 DEF UpdateJob
    <3>4. copy[c].id # j
      BY <3>1, <3>3 DEF IndInv, HeldOnce, Finished
    <3> QED
      BY <2>1, <3>1, <3>3, <3>4
  <2>5. CASE Sweep
    BY <2>1, <2>5 DEF Sweep, ReleaseJobs, Finished
  <2>6. ASSUME NEW c \in Clients, StoreResults(c) \/ GiveUp(c)
        PROVE  status'[j] \in {status[j], "absent"}
    BY <2>6 DEF StoreResults, UpdateTasks, GiveUp, storeVars
  <2>7. CASE Subscribe \/ Unsubscribe \/ Receive
    BY <2>7 DEF Subscribe, SubscribeOnJob, Unsubscribe, UnsubscribeOnJob, Receive, jobVars
  <2> QED
    BY <2>2, <2>3, <2>4, <2>5, <2>6, <2>7 DEF Next
<1> QED
  BY <1>1, Invariance, PTL DEF Spec, FinishedIsFinal
-----------------------------------------------------------------------------
(* The refinement: what the store says of each job, which tasks have a      *)
(* variant and who has a copy, against the specification of any job store.  *)

RecordOf == [j \in JobIDs |-> [status |-> status[j], locked |-> locked[j], reason |-> reason[j]]]

ResultsOf == {t \in TaskIDs : variant[t] # 0}

HeldOf == [c \in Clients |-> IF Holds(c) THEN {copy[c].id} ELSE {}]

\* A job that is gone left no variants.
VariantsStored == \A t \in TaskIDs : variant[t] # 0 => Stored(JobOf[t])

\* The abstract rows, in the terms of this module.
LEMMA Rows ==
    /\ Leases!Absent = Leases!Row("absent", FALSE, NoReason)
    /\ Leases!Pending = Leases!Row("pending", FALSE, NoReason)
    /\ Leases!Processing = Leases!Row("processing", TRUE, NoReason)
    /\ Leases!Completed = Leases!Row("completed", FALSE, NoReason)
    /\ \A why : Leases!Failed(why) = Leases!Row("failed", FALSE, why)
    /\ Leases!Reasons = Reasons
  BY DEF Leases!Absent, Leases!Pending, Leases!Processing, Leases!Completed, Leases!Failed,
         Leases!NoReason, NoReason, Leases!Reasons, Reasons, Leases!ErrorKinds, ErrorKinds

\* What is stored of a job is what its status says.
LEMMA RecordFacts ==
    ASSUME IndInv, NEW j \in JobIDs
    PROVE  /\ RecordOf[j] = Leases!Absent <=> ~Stored(j)
           /\ status[j] = "pending" => RecordOf[j] = Leases!Pending
           /\ status[j] = "processing" => RecordOf[j] = Leases!Processing
<1>1. status[j] \in JobStatus \cup {"absent"} /\ locked[j] \in BOOLEAN
  BY DEF IndInv, TypeOK, JobStoreTypeOK
<1>2. /\ locked[j] <=> status[j] = "processing"
      /\ reason[j] # NoReason <=> status[j] = "failed"
  BY DEF IndInv, RecordsAgree, LockedIffProcessing, ReasonIffFailed
<1>3. RecordOf[j] = [status |-> status[j], locked |-> locked[j], reason |-> reason[j]]
  BY DEF RecordOf
<1>4. CASE ~Stored(j)
  BY <1>1, <1>2, <1>3, <1>4, Rows DEF Stored, Leases!Row
<1>5. CASE Stored(j)
  <2>1. RecordOf[j] # Leases!Absent
    BY <1>3, <1>5, Rows DEF Stored, Leases!Row
  <2>2. status[j] = "pending" => RecordOf[j] = Leases!Pending
    BY <1>1, <1>2, <1>3, Rows DEF Leases!Row
  <2>3. status[j] = "processing" => RecordOf[j] = Leases!Processing
    BY <1>1, <1>2, <1>3, Rows DEF Leases!Row
  <2> QED
    BY <1>5, <2>1, <2>2, <2>3
<1> QED
  BY <1>4, <1>5 DEF Stored

\* An operation that writes one job's columns writes its record.
LEMMA RecordWritten ==
    ASSUME IndInv, NEW j \in JobIDs, NEW s, NEW l, NEW r,
           status' = [status EXCEPT ![j] = s],
           locked' = [locked EXCEPT ![j] = l],
           reason' = [reason EXCEPT ![j] = r]
    PROVE  Leases!Become(j, Leases!Row(s, l, r))
<1>1. /\ status' = [k \in JobIDs |-> IF k = j THEN s ELSE status[k]]
      /\ locked' = [k \in JobIDs |-> IF k = j THEN l ELSE locked[k]]
      /\ reason' = [k \in JobIDs |-> IF k = j THEN r ELSE reason[k]]
  BY DEF IndInv, TypeOK, JobStoreTypeOK
<1>2. RecordOf' = [RecordOf EXCEPT ![j] = Leases!Row(s, l, r)]
  BY <1>1 DEF RecordOf, Leases!Row
<1> QED
  BY <1>2 DEF RecordOf, Leases!Become

\* What leaves the variants, or the copies, alone leaves what they are mapped to.
LEMMA HeldAndResultsStay ==
    /\ variant' = variant => ResultsOf' = ResultsOf
    /\ copy' = copy => HeldOf' = HeldOf
  BY DEF ResultsOf, HeldOf, Holds

\* A client that lets go of its copy.
LEMMA HeldForgotten ==
    ASSUME IndInv, NEW c \in Clients, copy' = [copy EXCEPT ![c] = NoCopy]
    PROVE  Leases!Forget(c)
<1>1. \A d \in Clients : copy'[d] = IF d = c THEN NoCopy ELSE copy[d]
  BY DEF IndInv, TypeOK
<1>2. HeldOf' = [HeldOf EXCEPT ![c] = {}]
  BY <1>1 DEF HeldOf, Holds
<1> QED
  BY <1>2 DEF HeldOf, Leases!Forget

\* Creation and deletion.
LEMMA CreateDeleteRefine ==
    ASSUME IndInv, VariantsStored, NEW j \in JobIDs, Create(j) \/ Delete(j)
    PROVE  VariantsStored' /\ (Leases!Create(j) \/ Leases!Delete(j))
<1>1. /\ copy' = copy
      /\ variant' = [t \in TaskIDs |-> IF JobOf[t] = j THEN 0 ELSE variant[t]]
  BY DEF Create, CreateJob, Delete, DeleteJob, clientVars
<1>2. \A k \in JobIDs : k # j => (Stored(k)' <=> Stored(k))
  BY DEF IndInv, TypeOK, JobStoreTypeOK, Create, CreateJob, Delete, DeleteJob, Stored
<1>3. VariantsStored'
  BY <1>1, <1>2, JobStoreAssumption DEF VariantsStored, JobStoreAssumption
<1>4. HeldOf' = HeldOf
  BY <1>1, HeldAndResultsStay
<1>5. CASE Create(j)
  <2>1. /\ ~Stored(j)
        /\ status' = [status EXCEPT ![j] = "pending"]
        /\ locked' = [locked EXCEPT ![j] = FALSE]
        /\ reason' = [reason EXCEPT ![j] = NoReason]
    BY <1>5 DEF Create, CreateJob
  <2>2. Leases!Become(j, Leases!Pending)
    BY <2>1, RecordWritten, Rows
  <2>3. ResultsOf' = ResultsOf
    BY <1>1, <2>1 DEF ResultsOf, VariantsStored
  <2>4. RecordOf[j] = Leases!Absent
    BY <2>1, RecordFacts
  <2> QED
    BY <1>3, <1>4, <2>2, <2>3, <2>4 DEF RecordOf, ResultsOf, HeldOf, Leases!Create
<1>6. CASE Delete(j)
  <2>1. /\ Stored(j)
        /\ status' = [status EXCEPT ![j] = "absent"]
        /\ locked' = [locked EXCEPT ![j] = FALSE]
        /\ reason' = [reason EXCEPT ![j] = NoReason]
    BY <1>6 DEF Delete, DeleteJob
  <2>2. Leases!Become(j, Leases!Absent)
    BY <2>1, RecordWritten, Rows
  <2>3. ResultsOf' = ResultsOf \ Leases!Own(j)
    BY <1>1 DEF ResultsOf, Leases!Own
  <2>4. RecordOf[j] # Leases!Absent
    BY <2>1, RecordFacts
  <2> QED
    BY <1>3, <1>4, <2>2, <2>3, <2>4 DEF RecordOf, ResultsOf, HeldOf, Leases!Delete
<1> QED
  BY <1>5, <1>6

\* A job is handed out while it is pending, to a client without one.
LEMMA AcquireRefines ==
    ASSUME IndInv, NEW c \in Clients, Acquire(c)
    PROVE  \E j \in JobIDs : Leases!Acquire(c, j)
<1>1. PICK j \in JobIDs : AcquireJob(j) /\ copy' = [copy EXCEPT ![c] = Acquired(j)]
  BY DEF Acquire
<1>2. /\ status[j] = "pending" /\ ~Holds(c)
      /\ status' = [status EXCEPT ![j] = "processing"]
      /\ locked' = [locked EXCEPT ![j] = TRUE]
      /\ reason' = reason /\ variant' = variant
  BY <1>1, AcquiresPending DEF Acquire, AcquireJob
<1>3. reason[j] = NoReason /\ reason' = [reason EXCEPT ![j] = NoReason]
  BY <1>2 DEF IndInv, TypeOK, JobStoreTypeOK, RecordsAgree, ReasonIffFailed
<1>4. Leases!Become(j, Leases!Processing)
  BY <1>2, <1>3, RecordWritten, Rows
<1>5. Acquired(j).id = j /\ Acquired(j) # NoCopy
  BY <1>3, AcquiredJob, CopyOfJob
<1>6. HeldOf' = [HeldOf EXCEPT ![c] = {j}]
  <2>1. \A d \in Clients : copy'[d] = IF d = c THEN Acquired(j) ELSE copy[d]
    BY <1>1 DEF IndInv, TypeOK
  <2> QED
    BY <1>5, <2>1 DEF HeldOf, Holds
<1>7. HeldOf[c] = {}
  BY <1>2 DEF HeldOf
<1>8. ResultsOf' = ResultsOf
  BY <1>2, HeldAndResultsStay
<1>9. RecordOf[j] = Leases!Pending
  BY <1>2, RecordFacts
<1> QED
  BY <1>4, <1>6, <1>7, <1>8, <1>9 DEF RecordOf, ResultsOf, HeldOf, Leases!Acquire

\* Results go to a job that is there, since its tasks are; one without tasks has none.
LEMMA StoreResultsRefines ==
    ASSUME IndInv, VariantsStored, NEW c \in Clients, StoreResults(c)
    PROVE  /\ VariantsStored'
           /\ \/ \E j \in JobIDs : Leases!StoreResults(c, j)
              \/ UNCHANGED <<RecordOf, ResultsOf, HeldOf>>
<1> PICK j : j = copy[c].id
  OBVIOUS
<1>1. /\ Holds(c) /\ copy[c] \in Job /\ attempt[c] >= 1 /\ attempt[c] \in Nat
      /\ j \in JobIDs
  BY JobFacts, ClientsAssumption
  DEF StoreResults, IndInv, CopiesAsAcquired, TypeOK, ClientsAssumption
<1>2. /\ {t \in TaskIDs : JobOf[t] = j} \subseteq tasks
      /\ variant' = [t \in TaskIDs |-> IF JobOf[t] = j THEN attempt[c] ELSE variant[t]]
      /\ UNCHANGED <<status, locked, reason, copy>>
  BY DEF StoreResults, UpdateTasks
<1>3. RecordOf' = RecordOf /\ HeldOf' = HeldOf
  BY <1>2, HeldAndResultsStay DEF RecordOf
<1>4. \A t \in TaskIDs : JobOf[t] = j => Stored(j)
  BY <1>2 DEF IndInv, RecordsAgree, TasksFollowJobs
<1>5. VariantsStored'
  BY <1>2, <1>4 DEF VariantsStored, Stored
<1>6. ResultsOf' = ResultsOf \cup Leases!Own(j)
  BY <1>1, <1>2 DEF ResultsOf, Leases!Own
<1>7. CASE Leases!Own(j) = {}
  BY <1>3, <1>5, <1>6, <1>7
<1>8. CASE Leases!Own(j) # {}
  <2>1. RecordOf[j] # Leases!Absent
    BY <1>1, <1>4, <1>8, RecordFacts DEF Leases!Own
  <2>2. j \in HeldOf[c]
    BY <1>1 DEF HeldOf
  <2> QED
    BY <1>1, <1>3, <1>5, <1>6, <2>1, <2>2 DEF RecordOf, ResultsOf, HeldOf, Leases!StoreResults
<1> QED
  BY <1>7, <1>8

\* What is written back is what the client may make of its job.
LEMMA WriteBackRefines ==
    ASSUME IndInv, NEW c \in Clients, WriteBack(c)
    PROVE  \E j \in JobIDs : Leases!WriteBack(c, j)
<1> PICK j : j = copy[c].id
  OBVIOUS
<1>1. Holds(c) /\ j \in JobIDs
  BY WrittenJob
<1>2. PICK job \in Job :
        /\ UpdateJob(job) /\ job.id = j /\ job.locked = FALSE
        /\ job.status # "processing"
        /\ job.status = "failed" <=> job.reason # NoReason
        /\ job.status = "completed" => stored[c]
  BY WrittenJob
<1>3. /\ Stored(j)
      /\ status' = [status EXCEPT ![j] = job.status]
      /\ locked' = [locked EXCEPT ![j] = FALSE]
      /\ reason' = [reason EXCEPT ![j] = job.reason]
      /\ copy' = [copy EXCEPT ![c] = NoCopy]
      /\ variant' = variant
  BY <1>2 DEF UpdateJob, WriteBack
<1>4. Leases!Become(j, Leases!Row(job.status, FALSE, job.reason))
  BY <1>1, <1>3, RecordWritten
<1>5. \/ job.status = "completed" /\ job.reason = NoReason
      \/ job.status = "pending" /\ job.reason = NoReason
      \/ job.status = "failed" /\ job.reason \in Reasons
  BY <1>2, JobFacts DEF JobStatus
<1>6. job.status = "completed" => Leases!Own(j) \subseteq ResultsOf
  BY <1>1, <1>2, <1>3 DEF IndInv, ResultsStored, Leases!Own, ResultsOf
<1>7. \/ Leases!Own(j) \subseteq ResultsOf /\ Leases!Become(j, Leases!Completed)
      \/ \E why \in Leases!Reasons : Leases!Become(j, Leases!Failed(why))
      \/ Leases!Become(j, Leases!Pending)
  BY <1>4, <1>5, <1>6, Rows
<1>8. j \in HeldOf[c]
  BY <1>1 DEF HeldOf
<1>9. Leases!Forget(c)
  BY <1>3, HeldForgotten
<1>10. ResultsOf' = ResultsOf
  BY <1>3, HeldAndResultsStay
<1>11. RecordOf[j] # Leases!Absent
  BY <1>1, <1>3, RecordFacts
<1> QED
  BY <1>1, <1>7, <1>8, <1>9, <1>10, <1>11 DEF RecordOf, ResultsOf, HeldOf, Leases!WriteBack

\* A sweep makes jobs pending that are processing, and nothing else.
LEMMA SweepRefines ==
    ASSUME IndInv, Sweep
    PROVE  \E expired \in SUBSET JobIDs : Leases!Sweep(expired)
<1>1. PICK expired \in SUBSET {j \in JobIDs : status[j] = "processing"} :
        ReleaseJobs(expired) /\ UNCHANGED clientVars
  BY DEF Sweep
<1>2. /\ status' = [j \in JobIDs |-> IF j \in expired THEN "pending" ELSE status[j]]
      /\ locked' = [j \in JobIDs |-> IF j \in expired THEN FALSE ELSE locked[j]]
      /\ UNCHANGED <<reason, variant, copy>>
  BY <1>1 DEF ReleaseJobs, clientVars
<1>3. \A j \in expired : RecordOf[j] = Leases!Processing /\ reason[j] = NoReason
  BY <1>1, RecordFacts DEF IndInv, RecordsAgree, ReasonIffFailed
<1>4. RecordOf' = [j \in JobIDs |-> IF j \in expired THEN Leases!Pending ELSE RecordOf[j]]
  BY <1>2, <1>3, Rows DEF RecordOf, Leases!Row
<1>5. ResultsOf' = ResultsOf /\ HeldOf' = HeldOf
  BY <1>2, HeldAndResultsStay
<1> QED
  BY <1>1, <1>3, <1>4, <1>5 DEF RecordOf, ResultsOf, HeldOf, Leases!Sweep

\* Each step of the clients is one of the abstract specification, or changes nothing
\* that this one speaks of.
LEMMA StepRefines ==
    ASSUME IndInv, VariantsStored, [Next]_vars
    PROVE  VariantsStored' /\ (Leases!LeasesNext \/ UNCHANGED <<RecordOf, ResultsOf, HeldOf>>)
<1>1. ASSUME NEW j \in JobIDs, Create(j) \/ Delete(j)
      PROVE  VariantsStored' /\ Leases!LeasesNext
  BY <1>1, CreateDeleteRefine DEF Leases!LeasesNext
<1>2. ASSUME UNCHANGED variant, \A j \in JobIDs : Stored(j)' <=> Stored(j)
      PROVE  VariantsStored'
  BY <1>2, JobStoreAssumption DEF VariantsStored, JobStoreAssumption
<1>3. ASSUME NEW c \in Clients, Acquire(c)
      PROVE  VariantsStored' /\ Leases!LeasesNext
  <2>1. PICK j \in JobIDs : AcquireJob(j)
    BY <1>3 DEF Acquire
  <2>2. UNCHANGED variant /\ \A k \in JobIDs : Stored(k)' <=> Stored(k)
    BY <2>1, AcquiresPending DEF AcquireJob, Stored, IndInv, TypeOK, JobStoreTypeOK
  <2> QED
    BY <1>2, <1>3, <2>2, AcquireRefines DEF Leases!LeasesNext
<1>4. ASSUME NEW c \in Clients, StoreResults(c)
      PROVE  VariantsStored' /\ (Leases!LeasesNext \/ UNCHANGED <<RecordOf, ResultsOf, HeldOf>>)
  BY <1>4, StoreResultsRefines DEF Leases!LeasesNext
<1>5. ASSUME NEW c \in Clients, WriteBack(c)
      PROVE  VariantsStored' /\ Leases!LeasesNext
  <2>1. PICK job \in Job : UpdateJob(job)
    BY <1>5, WrittenJob
  <2>2. UNCHANGED variant /\ \A k \in JobIDs : Stored(k)' <=> Stored(k)
    BY <2>1, JobFacts DEF UpdateJob, Stored, IndInv, TypeOK, JobStoreTypeOK, JobStatus
  <2> QED
    BY <1>2, <1>5, <2>2, WriteBackRefines DEF Leases!LeasesNext
<1>6. ASSUME NEW c \in Clients, GiveUp(c)
      PROVE  VariantsStored' /\ Leases!LeasesNext
  <2>1. UNCHANGED <<status, locked, reason, variant>> /\ copy' = [copy EXCEPT ![c] = NoCopy]
    BY <1>6 DEF GiveUp, storeVars
  <2>2. RecordOf' = RecordOf /\ ResultsOf' = ResultsOf /\ VariantsStored'
    BY <1>2, <2>1, HeldAndResultsStay DEF RecordOf, Stored
  <2>3. Leases!Drop(c)
    BY <2>1, <2>2, HeldForgotten DEF RecordOf, ResultsOf, Leases!Drop
  <2> QED
    BY <2>2, <2>3 DEF Leases!LeasesNext
<1>7. CASE Sweep
  <2>1. UNCHANGED variant /\ \A k \in JobIDs : Stored(k)' <=> Stored(k)
    BY <1>7 DEF Sweep, ReleaseJobs, Stored, IndInv, TypeOK, JobStoreTypeOK
  <2> QED
    BY <1>2, <1>7, <2>1, SweepRefines DEF Leases!LeasesNext
<1>8. CASE Subscribe \/ Unsubscribe \/ Receive \/ UNCHANGED vars
  <2>1. UNCHANGED <<status, locked, reason, variant, copy>>
    BY <1>8 DEF Subscribe, SubscribeOnJob, Unsubscribe, UnsubscribeOnJob, Receive, jobVars,
                clientVars, vars, storeVars
  <2> QED
    BY <1>2, <2>1, HeldAndResultsStay DEF RecordOf, Stored
<1> QED
  BY <1>1, <1>3, <1>4, <1>5, <1>6, <1>7, <1>8 DEF Next

\* The memory store, under clients whose jobs are swept and deleted while they work,
\* is a job store as JobLeases.tla describes it (memory.go:98-232, store.go:12-24).
THEOREM LeasesRefinement == Spec => ImplementsLeases
<1>1. Init => Leases!LeasesInit /\ VariantsStored
  BY Rows DEF Init, JobStoreInit, VariantsStored, Holds, Leases!LeasesInit, Leases!Row
<1>2. UNCHANGED <<RecordOf, ResultsOf, HeldOf>> \/ Leases!LeasesNext
        => [Leases!LeasesNext]_(Leases!leaseVars)
  BY DEF RecordOf, ResultsOf, HeldOf, Leases!leaseVars
<1>3. IndInv /\ VariantsStored /\ [Next]_vars
        => VariantsStored' /\ [Leases!LeasesNext]_(Leases!leaseVars)
  BY <1>2, StepRefines
<1> QED
  BY <1>1, <1>3, Invariance, PTL DEF Spec, ImplementsLeases, Leases!LeasesSpec
=============================================================================
