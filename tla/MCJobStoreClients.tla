------------------------- MODULE MCJobStoreClients -------------------------
(* Two jobs made at the same clock reading, two tasks in one of them.       *)
EXTENDS JobStoreClients, TLC

MCJobs == {"j1", "j2"}
MCTasks == {"t1", "t2", "t3"}
MCJobOf == [t \in MCTasks |-> IF t = "t3" THEN "j2" ELSE "j1"]
MCCreatedAt == [j \in MCJobs |-> 1]
=============================================================================
