---------------------------- MODULE MCWorkerPool ----------------------------
(* The pool does not look at tasks, so the jobs have none.                  *)
EXTENDS WorkerPool, TLC

OneJob == {"j1"}
TwoJobs == {"j1", "j2"}
NoTaskIDs == {}
NoJobOf == <<>>
MCCreatedAt == [j \in JobIDs |-> 1]
=============================================================================
