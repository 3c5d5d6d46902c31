------------------------------ MODULE JobLeases ------------------------------
(***************************************************************************)
(* What a job store promises to those who work on its jobs, whichever      *)
(* store it is: each operation of the interface (store.go) takes effect    *)
(* at once or not at all, even when its caller does not learn which; a job *)
(* is handed out only while it is pending, and written only by somebody    *)
(* it was handed out to; what is stored of it agrees with its status.      *)
(* Sweeps and deletions may take a job away from its holders, who do not   *)
(* notice; until such a time a job has at most one.                        *)
(*                                                                         *)
(* The memory store under any clients, and the store in PostgreSQL under   *)
(* the workers of all processes, are both shown to implement this.         *)
(***************************************************************************)
EXTENDS Jobs

CONSTANTS TaskIDs, JobOf,
    Holders,      \* who jobs are handed out to
    Sweeps,       \* whether somebody calls ReleaseJobs
    Deletes       \* whether somebody calls DeleteJob

VARIABLES
    record,       \* what is stored of each job
    results,      \* tasks that have a variant
    held          \* the job that each holder has a copy of, as a set

leaseVars == <<record, results, held>>

Row(status, locked, reason) == [status |-> status, locked |-> locked, reason |-> reason]

Absent == Row("absent", FALSE, NoReason)
Pending == Row("pending", FALSE, NoReason)
Processing == Row("processing", TRUE, NoReason)
Completed == Row("completed", FALSE, NoReason)
Failed(why) == Row("failed", FALSE, why)

LeasesInit ==
    /\ record = [j \in JobIDs |-> Absent]
    /\ results = {}
    /\ held = [h \in Holders |-> {}]

Own(j) == {t \in TaskIDs : JobOf[t] = j}

Become(j, row) == record' = [record EXCEPT ![j] = row]

Forget(h) == held' = [held EXCEPT ![h] = {}]

Create(j) ==
    /\ record[j] = Absent
    /\ Become(j, Pending)
    /\ UNCHANGED <<results, held>>

\* The job is locked; the holder gets it, unless the answer is lost.
Acquire(h, j) ==
    /\ record[j] = Pending
    /\ held[h] = {}
    /\ Become(j, Processing)
    /\ held' = [held EXCEPT ![h] = {j}] \/ UNCHANGED held
    /\ UNCHANGED results

StoreResults(h, j) ==
    /\ j \in held[h]
    /\ record[j] # Absent
    /\ results' = results \cup Own(j)
    /\ UNCHANGED <<record, held>>

WriteBack(h, j) ==
    /\ j \in held[h]
    /\ record[j] # Absent
    /\ \/ Own(j) \subseteq results /\ Become(j, Completed)
       \/ \E why \in Reasons : Become(j, Failed(why))
       \/ Become(j, Pending)
    /\ Forget(h)
    /\ UNCHANGED results

\* The job is gone, or the holder gave up.
Drop(h) ==
    /\ Forget(h)
    /\ UNCHANGED <<record, results>>

Sweep(expired) ==
    /\ Sweeps
    /\ \A j \in expired : record[j] = Processing
    /\ record' = [j \in JobIDs |-> IF j \in expired THEN Pending ELSE record[j]]
    /\ UNCHANGED <<results, held>>

Delete(j) ==
    /\ Deletes
    /\ record[j] # Absent
    /\ Become(j, Absent)
    /\ results' = results \ Own(j)
    /\ UNCHANGED held

LeasesNext ==
    \/ \E j \in JobIDs : Create(j) \/ Delete(j)
    \/ \E h \in Holders, j \in JobIDs : Acquire(h, j) \/ StoreResults(h, j) \/ WriteBack(h, j)
    \/ \E h \in Holders : Drop(h)
    \/ \E expired \in SUBSET JobIDs : Sweep(expired)

LeasesSpec == LeasesInit /\ [][LeasesNext]_leaseVars
=============================================================================
