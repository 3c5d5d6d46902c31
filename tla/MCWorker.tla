------------------------------ MODULE MCWorker ------------------------------
(***************************************************************************)
(* Two workers, and two jobs made at the same clock reading.  One job has  *)
(* two tasks; the other has one, or, in the smaller instance, none, which  *)
(* is what POST /api/v1/job makes of a request without options.            *)
(***************************************************************************)
EXTENDS Worker

MCJobs == {"j1", "j2"}
MCTasks == {"t1", "t2", "t3"}
MCJobOf == [t \in MCTasks |-> IF t = "t3" THEN "j2" ELSE "j1"]
MCCreatedAt == [j \in MCJobs |-> 1]

SmallTasks == {"t1", "t2"}
SmallJobOf == [t \in SmallTasks |-> "j1"]
=============================================================================
