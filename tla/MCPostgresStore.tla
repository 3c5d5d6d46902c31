-------------------------- MODULE MCPostgresStore --------------------------
(***************************************************************************)
(* Two workers and one handler, all in one process, or one worker in a     *)
(* process of its own; or one job with two handlers, of which one deletes  *)
(* it while the other reads it.  Two jobs made at the same clock reading,  *)
(* and two tasks: both of one job, or one of each.                         *)
(***************************************************************************)
EXTENDS PostgresStore, TLC

MCJobs == {"j1", "j2"}
MCCreatedAt == [j \in MCJobs |-> 1]

TwoTasks == {"t1", "t2"}
OfOneJob == [t \in TwoTasks |-> "j1"]
OfEachJob == [t \in TwoTasks |-> IF t = "t1" THEN "j1" ELSE "j2"]

MCWorkers == {"w1", "w2"}
MCHandlers == {"h1"}

OneInstance == {"A"}
InOneInstance == [c \in {"w1", "w2", "h1"} |-> "A"]
AllInOneInstance == [c \in Callers |-> "A"]

\* Nothing orders workers or handlers, when all run in one instance.
Interchangeable == Permutations(Workers) \cup Permutations(Handlers)

TwoInstances == {"A", "B"}
InTwoInstances == [c \in {"w1", "w2", "h1"} |-> IF c = "w2" THEN "B" ELSE "A"]
=============================================================================
