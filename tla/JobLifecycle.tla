---------------------------- MODULE JobLifecycle ----------------------------
(***************************************************************************)
(* What the job machinery promises to somebody who created a job and polls *)
(* it with GET /api/v1/job/{id}: the job is pending, then processing, and  *)
(* then completed or failed for good; before it is completed all its tasks *)
(* have a result, recorded at once, and from then on no result changes.    *)
(* Going back from processing to pending is allowed: an attempt may be     *)
(* abandoned and the job tried again.  Where jobs are deleted, a job and   *)
(* its results go together, at any time.                                   *)
(*                                                                         *)
(* The specifications of the workers and of the store in PostgreSQL are    *)
(* shown to implement this one.                                            *)
(***************************************************************************)
EXTENDS Naturals

CONSTANTS JobIDs, TaskIDs, JobOf,
    Deletes       \* whether somebody calls DeleteJob

VARIABLES
    phase,      \* "absent", or the status of each job
    result      \* the variant made for each task, 0 when there is none

lifecycleVars == <<phase, result>>

LifecycleInit ==
    /\ phase = [j \in JobIDs |-> "absent"]
    /\ result = [t \in TaskIDs |-> 0]

Move(j, from, to) ==
    /\ phase[j] = from
    /\ phase' = [phase EXCEPT ![j] = to]
    /\ UNCHANGED result

HasResults(j) == \A t \in TaskIDs : JobOf[t] = j => result[t] # 0

Record(j) ==
    /\ phase[j] = "processing"
    /\ result' \in [TaskIDs -> Nat]
    /\ \A t \in TaskIDs : IF JobOf[t] = j THEN result'[t] # 0
                                          ELSE result'[t] = result[t]
    /\ UNCHANGED phase

Complete(j) == HasResults(j) /\ Move(j, "processing", "completed")

Fail(j) == Move(j, "processing", "failed")

Release(j) == Move(j, "processing", "pending")

Delete(j) ==
    /\ Deletes
    /\ phase[j] # "absent"
    /\ phase' = [phase EXCEPT ![j] = "absent"]
    /\ result' = [t \in TaskIDs |-> IF JobOf[t] = j THEN 0 ELSE result[t]]

LifecycleNext ==
    \E j \in JobIDs :
        \/ Move(j, "absent", "pending")
        \/ Move(j, "pending", "processing")
        \/ Record(j)
        \/ Complete(j) \/ Fail(j) \/ Release(j) \/ Delete(j)

LifecycleSpec == LifecycleInit /\ [][LifecycleNext]_lifecycleVars
=============================================================================
