--------------------------- MODULE JobStoreProofs ---------------------------
(***************************************************************************)
(* Facts about the values the job store hands out and takes back, used by  *)
(* the proofs about its clients.                                           *)
(***************************************************************************)
EXTENDS JobStore, TLAPS

\* A job value has the types of its fields.
LEMMA JobFacts ==
    ASSUME NEW copy \in Job
    PROVE  /\ copy.id \in JobIDs
           /\ copy.status \in JobStatus
           /\ copy.locked \in BOOLEAN
           /\ copy.reason \in Reasons \cup {NoReason}
  BY DEF Job

\* Marking a copy of a job leaves it a copy of the same job, and only sets what
\* it says (job.go:46-67).
LEMMA MarkedJobs ==
    ASSUME NEW copy \in Job, NEW e \in Reasons
    PROVE  /\ MarkPending(copy) \in Job
           /\ MarkCompleted(copy) \in Job
           /\ MarkFailed(copy, e) \in Job
           /\ MarkPending(copy).id = copy.id /\ MarkPending(copy).status = "pending"
           /\ MarkCompleted(copy).id = copy.id /\ MarkCompleted(copy).status = "completed"
           /\ MarkFailed(copy, e).id = copy.id /\ MarkFailed(copy, e).status = "failed"
  BY DEF Job, JobStatus, MarkPending, MarkCompleted, MarkFailed

\* The copy that AcquireJob returns is a job in processing (memory.go:118-135).
LEMMA AcquiredJob ==
    ASSUME NEW j \in JobIDs, reason[j] \in Reasons \cup {NoReason}
    PROVE  /\ Acquired(j) \in Job
           /\ Acquired(j).id = j
           /\ Acquired(j).status = "processing"
  BY DEF Acquired, Job, JobStatus

\* AcquireJob takes a job that is pending.
LEMMA AcquiresPending ==
    ASSUME NEW j, AcquireJob(j)
    PROVE  j \in JobIDs /\ status[j] = "pending"
  BY DEF AcquireJob, OldestPending, PendingJobs
=============================================================================
