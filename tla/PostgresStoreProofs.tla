------------------------- MODULE PostgresStoreProofs -------------------------
(***************************************************************************)
(* Proofs about PostgresStore.tla, for any jobs, tasks, processes, callers *)
(* and faults.  The invariant is in layers: where each caller is and what  *)
(* it is about; the connections; the locks of rows; the data; what GetJob  *)
(* returned; and what the subscribers were told.  For a store without      *)
(* sweeps another layer says that a job has one owner: the refinement of   *)
(* JobLifecycle rests on it, and so does, with the connections, that one   *)
(* comes free.  The refinement of JobLeases rests on the data alone.       *)
(***************************************************************************)
EXTENDS PostgresStore, TLAPS, FiniteSetTheorems

HandlerStep(h) ==
    \/ CreateBegin(h) \/ Create(h) \/ GetRow(h) \/ GetTasks(h) \/ DeleteJob(h) \/ ReleaseJobs(h)

WorkerStep(w) == AcquireBegin(w) \/ Acquire(w) \/ WorkOn(w) \/ Results(w)

ListenerStep(i) == Listen(i) \/ ListenerBreaks(i) \/ Deliver(i) \/ Receive(i)

\* Nothing that a caller does moves another one.
Elsewhere == {"idle", "acquire"}

CallersOK ==
    /\ at \in [Callers -> Places]
    /\ target \in [Callers -> JobIDs \cup {NoJob}]
    /\ \A h \in Handlers : at[h] \in {"idle", "create", "notify", "get"}
    /\ \A w \in Workers : at[w] \notin {"create", "notify", "get"}
    /\ \A c \in Callers : target[c] = NoJob <=> at[c] \in Elsewhere
    /\ listening \subseteq Instances
    /\ faults \in 0 .. MaxFaults

\* Faults stay within their bound.
LEMMA FaultCounted == CallersOK /\ Fault => faults' \in 0 .. MaxFaults
  BY PostgresAssumption DEF CallersOK, Fault

\* A caller is either a handler or a worker, and in one process.
LEMMA CallersDiffer == \A c \in Callers : /\ c \in Handlers <=> c \notin Workers
                                          /\ InstanceOf[c] \in Instances
  BY PostgresAssumption DEF Callers

\* A step of a handler takes it from one of its places to another.
LEMMA HandlerMoves ==
    ASSUME CallersOK, unused \subseteq JobIDs, NEW h \in Handlers, HandlerStep(h)
    PROVE  /\ listening' = listening /\ faults' \in 0 .. MaxFaults
           /\ \E place \in {"idle", "create", "notify", "get"}, j \in JobIDs \cup {NoJob} :
                /\ Go(h, place, j)
                /\ j = NoJob <=> place = "idle"
<1> USE PostgresAssumption
<1>1. h \in Callers /\ (at[h] \in {"create", "notify", "get"} => target[h] \in JobIDs)
  BY DEF CallersOK, Callers, Elsewhere
<1>2. CASE CreateBegin(h)
  BY <1>2 DEF CreateBegin, CallersOK
<1>3. CASE CreateCommit(h)
  BY <1>1, <1>3 DEF CreateCommit, CallersOK
<1>4. CASE CreateFails(h)
  BY <1>4, FaultCounted DEF CreateFails
<1>5. CASE CreateNotify(h)
  BY <1>5 DEF CreateNotify, CallersOK
<1>6. CASE GetRow(h)
  BY <1>6 DEF GetRow, CallersOK
<1>7. CASE GetTasks(h)
  BY <1>7 DEF GetTasks, CallersOK
<1>8. CASE DeleteJob(h) \/ ReleaseJobs(h)
  <2>1. at[h] = "idle" /\ at' = at /\ target' = target /\ listening' = listening /\ faults' = faults
    BY <1>8 DEF DeleteJob, ReleaseJobs
  <2>2. target[h] = NoJob
    BY <1>1, <2>1 DEF CallersOK, Elsewhere
  <2>3. Go(h, "idle", NoJob)
    BY <1>1, <2>1, <2>2 DEF Go, CallersOK
  <2> QED
    BY <2>1, <2>3 DEF CallersOK
<1> QED
  BY <1>2, <1>3, <1>4, <1>5, <1>6, <1>7, <1>8 DEF HandlerStep, Create

\* A step of a worker takes it to a place, with a job exactly where it says so.
LEMMA WorkerMoves ==
    ASSUME CallersOK, NEW w \in Workers, WorkerStep(w)
    PROVE  /\ listening' = listening /\ faults' \in 0 .. MaxFaults
           /\ \E place \in Places \ {"create", "notify", "get"}, j \in JobIDs \cup {NoJob} :
                /\ Go(w, place, j)
                /\ j = NoJob <=> place \in Elsewhere
<1> USE PostgresAssumption DEF Elsewhere, Places
<1>1. w \in Callers /\ (at[w] \notin {"idle", "acquire"} => target[w] \in JobIDs)
  BY DEF CallersOK, Callers
<1>2. CASE AcquireBegin(w)
  BY <1>2 DEF AcquireBegin, CallersOK
<1>3. CASE AcquireSelect(w)
  BY <1>3 DEF AcquireSelect, OldestSelectable, Selectable, CallersOK
<1>4. CASE AcquireNothing(w)
  BY <1>4 DEF AcquireNothing, CallersOK
<1>5. CASE AcquireLookup(w)
  BY <1>1, <1>5 DEF AcquireLookup, CallersOK
<1>6. CASE AcquireCommit(w)
  BY <1>1, <1>6 DEF AcquireCommit, CallersOK
<1>7. CASE AcquireFails(w)
  BY <1>7, FaultCounted DEF AcquireFails
<1>8. CASE ResultsBegin(w) \/ ResultsWrite(w) \/ ResultsMissing(w) \/ ResultsCommit(w)
  <2>1. PICK place \in {"results", "results commit", "failing", "stored"} : Go(w, place, target[w])
    BY <1>8 DEF ResultsBegin, ResultsWrite, ResultsMissing, ResultsCommit
  <2>2. target[w] \in JobIDs /\ listening' = listening /\ faults' = faults
    BY <1>1, <1>8 DEF ResultsBegin, ResultsWrite, ResultsMissing, ResultsCommit
  <2> QED
    BY <2>1, <2>2 DEF CallersOK
<1>9. CASE ResultsFails(w) \/ ResultsDeadlock(w) \/ ResultsCommitFails(w)
  <2>1. Go(w, "failing", target[w]) /\ target[w] \in JobIDs
    BY <1>1, <1>9 DEF ResultsFails, ResultsDeadlock, ResultsCommitFails
  <2>2. listening' = listening /\ faults' \in 0 .. MaxFaults
    BY <1>9, FaultCounted DEF ResultsFails, ResultsDeadlock, ResultsCommitFails, CallersOK
  <2>3. /\ "failing" \in Places \ {"create", "notify", "get"} /\ "failing" \notin Elsewhere
        /\ target[w] # NoJob
    BY <2>1
  <2> HIDE DEF Places, Elsewhere
  <2> QED
    BY <2>1, <2>2, <2>3
<1>10. CASE UpdateJob(w) \/ UpdateJobFails(w)
  BY <1>10, FaultCounted DEF UpdateJob, UpdateJobFails, Drop, CallersOK
<1> QED
  BY <1>2, <1>3, <1>4, <1>5, <1>6, <1>7, <1>8, <1>9, <1>10
  DEF WorkerStep, Acquire, Results, WorkOn

\* A listener moves no caller.
LEMMA ListenerMoves ==
    ASSUME CallersOK, NEW i \in Instances, ListenerStep(i)
    PROVE  /\ at' = at /\ target' = target
           /\ listening' \subseteq Instances /\ faults' \in 0 .. MaxFaults
  BY FaultCounted DEF ListenerStep, Listen, ListenerBreaks, Deliver, Receive, CallersOK

\* Every step is one of a handler, of a worker or of a listener.
LEMMA NextIs ==
    Next <=> \/ \E h \in Handlers : HandlerStep(h)
             \/ \E w \in Workers : WorkerStep(w)
             \/ \E i \in Instances : ListenerStep(i)
  BY DEF Next, HandlerStep, WorkerStep, ListenerStep

\* So callers keep to their places.
LEMMA CallersInductive ==
    ASSUME CallersOK, unused \subseteq JobIDs, Next
    PROVE  CallersOK'
<1>1. CASE \E h \in Handlers : HandlerStep(h)
  <2> PICK h \in Handlers : HandlerStep(h)
    BY <1>1
  <2>1. PICK place \in {"idle", "create", "notify", "get"}, j \in JobIDs \cup {NoJob} :
          Go(h, place, j) /\ (j = NoJob <=> place = "idle")
    BY HandlerMoves
  <2>2. listening' = listening /\ faults' \in 0 .. MaxFaults
    BY HandlerMoves
  <2> QED
    BY <2>1, <2>2, CallersDiffer DEF CallersOK, Go, Callers, Elsewhere, Places
<1>2. CASE \E w \in Workers : WorkerStep(w)
  <2> PICK w \in Workers : WorkerStep(w)
    BY <1>2
  <2>1. PICK place \in Places \ {"create", "notify", "get"}, j \in JobIDs \cup {NoJob} :
          Go(w, place, j) /\ (j = NoJob <=> place \in Elsewhere)
    BY WorkerMoves
  <2>2. listening' = listening /\ faults' \in 0 .. MaxFaults
    BY WorkerMoves
  <2> QED
    BY <2>1, <2>2, CallersDiffer DEF CallersOK, Go, Callers
<1>3. CASE \E i \in Instances : ListenerStep(i)
  BY <1>3, ListenerMoves DEF CallersOK
<1> QED
  BY <1>1, <1>2, <1>3, NextIs

-----------------------------------------------------------------------------
(* Connections.                                                            *)

Open(c) == InCall(c) /\ at[c] \notin {"notify", "get"}

OpenOf(i) == {c \in Callers : InstanceOf[c] = i /\ Open(c)}

Listener(i) == IF i \in listening THEN 1 ELSE 0

ConnsOK ==
    /\ free \in [Instances -> Nat]
    /\ leaked \in [Instances -> Nat]
    /\ ConnectionsAccounted

\* The callers with an open transaction are as many as there are transactions.
LEMMA OpenCounted ==
    \A i \in Instances :
        /\ IsFiniteSet(OpenOf(i)) /\ Cardinality(OpenOf(i)) \in Nat
        /\ Cardinality(OpenOf(i)) = OpenTransactions(i)
<1> SUFFICES ASSUME NEW i \in Instances
             PROVE  /\ IsFiniteSet(OpenOf(i)) /\ Cardinality(OpenOf(i)) \in Nat
                    /\ Cardinality(OpenOf(i)) = OpenTransactions(i)
  OBVIOUS
<1>1. IsFiniteSet(OpenOf(i))
  BY PostgresAssumption, FS_Subset DEF OpenOf
<1>2. OpenOf(i) = {c \in Callers : InstanceOf[c] = i /\ InCall(c) /\ at[c] \notin {"notify", "get"}}
  BY DEF OpenOf, Open
<1> QED
  BY <1>1, <1>2, FS_CardinalityType DEF OpenTransactions

\* What a step of one caller does to the number of transactions.
LEMMA OpenChanges ==
    ASSUME CallersOK, CallersOK', NEW c \in Callers, NEW place, NEW j, Go(c, place, j),
           NEW i \in Instances
    PROVE  OpenTransactions(i)' =
               CASE i = InstanceOf[c] /\ ~Open(c) /\ Open(c)' -> OpenTransactions(i) + 1
                 [] i = InstanceOf[c] /\ Open(c) /\ ~Open(c)' -> OpenTransactions(i) - 1
                 [] OTHER -> OpenTransactions(i)
<1>1. \A d \in Callers : d # c => (Open(d)' <=> Open(d))
  BY DEF Go, CallersOK, Open, InCall
<1>2. /\ IsFiniteSet(OpenOf(i)) /\ Cardinality(OpenOf(i)) \in Nat
      /\ Cardinality(OpenOf(i)) = OpenTransactions(i)
      /\ Cardinality(OpenOf(i)') = OpenTransactions(i)'
  <2>1. OpenOf(i)' = {d \in Callers : InstanceOf[d] = i /\ InCall(d)' /\ at'[d] \notin {"notify", "get"}}
    BY DEF OpenOf, Open
  <2> QED
    BY <2>1, OpenCounted DEF OpenTransactions, InCall
<1>3. CASE i = InstanceOf[c] /\ ~Open(c) /\ Open(c)'
  <2>1. OpenOf(i)' = OpenOf(i) \cup {c} /\ c \notin OpenOf(i)
    BY <1>1, <1>3 DEF OpenOf
  <2> QED
    BY <1>2, <1>3, <2>1, FS_AddElement
<1>4. CASE i = InstanceOf[c] /\ Open(c) /\ ~Open(c)'
  <2>1. OpenOf(i)' = OpenOf(i) \ {c} /\ c \in OpenOf(i)
    BY <1>1, <1>4 DEF OpenOf
  <2> QED
    BY <1>2, <1>4, <2>1, FS_RemoveElement
<1>5. CASE i # InstanceOf[c] \/ (Open(c) <=> Open(c)')
  <2>1. OpenOf(i)' = OpenOf(i)
    BY <1>1, <1>5 DEF OpenOf
  <2> QED
    BY <1>2, <1>5, <2>1
<1> QED
  BY <1>3, <1>4, <1>5

\* What a step of one caller does to the connections of its process.
Takes(c) == TakeConn(c) /\ ~Open(c) /\ Open(c)' /\ leaked' = leaked
Returns(c) == ReturnConn(c) /\ Open(c) /\ ~Open(c)' /\ leaked' = leaked
Leaks(c) == Leak(c) /\ Open(c) /\ ~Open(c)' /\ free' = free
Keeps(c) == (Open(c) <=> Open(c)') /\ free' = free /\ leaked' = leaked

\* Whatever a caller does with its connection, no connection is unaccounted for.
LEMMA CallerConns ==
    ASSUME CallersOK, CallersOK', ConnsOK, NEW c \in Callers, NEW place, NEW j, Go(c, place, j),
           Takes(c) \/ Returns(c) \/ Leaks(c) \/ Keeps(c), listening' = listening
    PROVE  ConnsOK'
<1> DEFINE k == InstanceOf[c]
<1>1. k \in Instances
  BY CallersDiffer
<1>2. \A i \in Instances :
        /\ OpenTransactions(i) \in Nat /\ Listener(i) \in {0, 1} /\ Listener(i)' = Listener(i)
        /\ free[i] + OpenTransactions(i) + leaked[i] + Listener(i) = MaxConns
        /\ free[i] \in Nat /\ leaked[i] \in Nat
  BY OpenCounted DEF ConnsOK, ConnectionsAccounted, Listener
<1>3. \A i \in Instances : OpenTransactions(i)' =
        CASE i = k /\ ~Open(c) /\ Open(c)' -> OpenTransactions(i) + 1
          [] i = k /\ Open(c) /\ ~Open(c)' -> OpenTransactions(i) - 1
          [] OTHER -> OpenTransactions(i)
  BY OpenChanges
<1>4. SUFFICES /\ free' \in [Instances -> Nat]
               /\ leaked' \in [Instances -> Nat]
               /\ \A i \in Instances :
                    free'[i] + OpenTransactions(i)' + leaked'[i] + Listener(i)' = MaxConns
  BY DEF ConnsOK, ConnectionsAccounted, Listener
<1>5. CASE Takes(c)
  <2>1. /\ free' = [free EXCEPT ![k] = @ - 1] /\ free[k] > 0 /\ leaked' = leaked
        /\ ~Open(c) /\ Open(c)'
    BY <1>5 DEF Takes, TakeConn
  <2> HIDE DEF k
  <2>2. free' \in [Instances -> Nat]
    BY <1>1, <2>1 DEF ConnsOK
  <2>3. \A i \in Instances : OpenTransactions(i)' = OpenTransactions(i) + (IF i = k THEN 1 ELSE 0)
    BY <1>2, <1>3, <2>1
  <2> QED
    BY <1>1, <1>2, <2>1, <2>2, <2>3 DEF ConnsOK
<1>6. CASE Returns(c)
  <2>1. /\ free' = [free EXCEPT ![k] = @ + 1] /\ leaked' = leaked
        /\ Open(c) /\ ~Open(c)'
    BY <1>6 DEF Returns, ReturnConn
  <2> HIDE DEF k
  <2>2. free' \in [Instances -> Nat]
    BY <1>1, <2>1 DEF ConnsOK
  <2>3. \A i \in Instances : OpenTransactions(i)' = OpenTransactions(i) - (IF i = k THEN 1 ELSE 0)
    BY <1>2, <1>3, <2>1
  <2> QED
    BY <1>1, <1>2, <2>1, <2>2, <2>3 DEF ConnsOK
<1>7. CASE Leaks(c)
  <2>1. /\ leaked' = [leaked EXCEPT ![k] = @ + 1] /\ free' = free
        /\ Open(c) /\ ~Open(c)'
    BY <1>7 DEF Leaks, Leak
  <2> HIDE DEF k
  <2>2. leaked' \in [Instances -> Nat]
    BY <1>1, <2>1 DEF ConnsOK
  <2>3. \A i \in Instances : OpenTransactions(i)' = OpenTransactions(i) - (IF i = k THEN 1 ELSE 0)
    BY <1>2, <1>3, <2>1
  <2> QED
    BY <1>1, <1>2, <2>1, <2>2, <2>3 DEF ConnsOK
<1>8. CASE Keeps(c)
  <2>1. \A i \in Instances : OpenTransactions(i)' = OpenTransactions(i)
    BY <1>2, <1>3, <1>8 DEF Keeps
  <2> QED
    BY <1>2, <1>8, <2>1 DEF Keeps, ConnsOK
<1> QED
  BY <1>5, <1>6, <1>7, <1>8

\* So the connections stay accounted for.
LEMMA ConnsInductive ==
    ASSUME CallersOK, CallersOK', ConnsOK, Next
    PROVE  ConnsOK'
<1> USE DEF Open, InCall, CallersOK
<1>1. ASSUME NEW h \in Handlers, HandlerStep(h) PROVE ConnsOK'
  <2>1. h \in Callers
    BY DEF Callers
  <2>2. \E place, j : Go(h, place, j) /\ listening' = listening
    <3>1. CASE DeleteJob(h) \/ ReleaseJobs(h)
      <4>1. Go(h, at[h], target[h]) /\ listening' = listening
        BY <2>1, <3>1 DEF DeleteJob, ReleaseJobs, Go
      <4> QED
        BY <4>1
    <3> QED
      BY <1>1, <3>1 DEF HandlerStep, Create, CreateBegin, CreateCommit, CreateFails, CreateNotify,
                        GetRow, GetTasks
  <2>3. Takes(h) \/ Returns(h) \/ Keeps(h)
    <3>1. CASE CreateBegin(h)
      BY <2>1, <3>1 DEF CreateBegin, Takes, Go
    <3>2. CASE CreateCommit(h) \/ CreateFails(h)
      BY <2>1, <3>2 DEF CreateCommit, CreateFails, Returns, Go
    <3>3. CASE CreateNotify(h) \/ GetRow(h) \/ GetTasks(h)
      BY <2>1, <3>3 DEF CreateNotify, GetRow, GetTasks, Keeps, Go
    <3>4. CASE DeleteJob(h) \/ ReleaseJobs(h)
      BY <2>1, <3>4 DEF DeleteJob, ReleaseJobs, Keeps
    <3> QED
      BY <1>1, <3>1, <3>2, <3>3, <3>4 DEF HandlerStep, Create
  <2> QED
    BY <2>1, <2>2, <2>3, CallerConns
<1>2. ASSUME NEW w \in Workers, WorkerStep(w) PROVE ConnsOK'
  <2>1. w \in Callers
    BY DEF Callers
  <2>2. \E place, j : Go(w, place, j) /\ listening' = listening
    <3> QED
      BY <1>2, WorkerMoves
  <2>3. Takes(w) \/ Returns(w) \/ Leaks(w) \/ Keeps(w)
    <3>1. CASE AcquireBegin(w) \/ ResultsBegin(w)
      BY <2>1, <3>1 DEF AcquireBegin, ResultsBegin, Takes, Go
    <3>2. CASE AcquireNothing(w) \/ AcquireCommit(w) \/ AcquireFails(w)
      BY <2>1, <3>2 DEF AcquireNothing, AcquireCommit, AcquireFails, Returns, Go
    <3>3. CASE ResultsCommit(w) \/ ResultsCommitFails(w)
      BY <2>1, <3>3 DEF ResultsCommit, ResultsCommitFails, Returns, Go
    <3>4. CASE ResultsMissing(w) \/ ResultsFails(w) \/ ResultsDeadlock(w)
      BY <2>1, <3>4 DEF ResultsMissing, ResultsFails, ResultsDeadlock, Leaks, Go
    <3>5. CASE AcquireSelect(w) \/ AcquireLookup(w) \/ ResultsWrite(w)
      BY <2>1, <3>5 DEF AcquireSelect, AcquireLookup, ResultsWrite, Keeps, Go
    <3>6. CASE UpdateJob(w) \/ UpdateJobFails(w)
      <4>1. at[w] \in {"stored", "failing", "working"}
        BY <3>6 DEF UpdateJob, UpdateJobFails, WriteBack
      <4> QED
        BY <2>1, <3>6, <4>1 DEF UpdateJob, UpdateJobFails, Drop, Keeps, Go
    <3> QED
      BY <1>2, <3>1, <3>2, <3>3, <3>4, <3>5, <3>6 DEF WorkerStep, Acquire, Results, WorkOn
  <2> QED
    BY <2>1, <2>2, <2>3, CallerConns
<1>3. ASSUME NEW i \in Instances, ListenerStep(i) PROVE ConnsOK'
  <2>1. leaked' = leaked /\ \A k \in Instances : OpenTransactions(k)' = OpenTransactions(k)
    BY <1>3 DEF ListenerStep, Listen, ListenerBreaks, Deliver, Receive, OpenTransactions
  <2>2. \A k \in Instances :
          /\ OpenTransactions(k) \in Nat /\ free[k] \in Nat /\ leaked[k] \in Nat
          /\ free[k] + OpenTransactions(k) + leaked[k] + Listener(k) = MaxConns
    BY OpenCounted DEF ConnsOK, ConnectionsAccounted, Listener
  <2>3. /\ free' \in [Instances -> Nat]
        /\ \A k \in Instances : free'[k] + Listener(k)' = free[k] + Listener(k)
    <3>1. CASE Listen(i)
      BY <3>1 DEF Listen, Listener, ConnsOK
    <3>2. CASE ListenerBreaks(i)
      BY <3>2 DEF ListenerBreaks, Listener, ConnsOK
    <3>3. CASE Deliver(i) \/ Receive(i)
      BY <3>3 DEF Deliver, Receive, Listener, ConnsOK
    <3> QED
      BY <1>3, <3>1, <3>2, <3>3 DEF ListenerStep
  <2>4. \A k \in Instances : Listener(k) \in {0, 1} /\ Listener(k)' \in {0, 1} /\ free'[k] \in Nat
    BY <2>3 DEF Listener
  <2>5. \A k \in Instances :
          free'[k] + OpenTransactions(k)' + leaked'[k] + Listener(k)' = MaxConns
    <3> SUFFICES ASSUME NEW k \in Instances
                 PROVE  free'[k] + OpenTransactions(k)' + leaked'[k] + Listener(k)' = MaxConns
      OBVIOUS
    <3> DEFINE before == free[k] + Listener(k)
               after == free'[k] + Listener(k)'
    <3>1. before = after /\ before \in Nat
      BY <2>2, <2>3, <2>4
    <3>2. /\ OpenTransactions(k)' = OpenTransactions(k) /\ leaked'[k] = leaked[k]
          /\ before + OpenTransactions(k) + leaked[k] = MaxConns
      BY <2>1, <2>2, <2>4
    <3>3. after + OpenTransactions(k)' + leaked'[k] = MaxConns
      BY <3>1, <3>2
    <3> QED
      BY <2>1, <2>2, <2>4, <3>3
  <2> QED
    BY <2>1, <2>3, <2>5 DEF ConnsOK, ConnectionsAccounted, Listener
<1> QED
  BY <1>1, <1>2, <1>3, NextIs

-----------------------------------------------------------------------------
(* Rows of jobs, and their locks.                                          *)

Locking == {"lookup", "acquire commit"}

\* Who has locked a row is acquiring it; an id that is new, or being created, is
\* nobody else's.
RowsOK ==
    /\ status \in [JobIDs -> JobStatus \cup {"absent"}]
    /\ rowLock \in [JobIDs -> Workers \cup {Nobody}]
    /\ unused \subseteq JobIDs
    /\ LocksEnd
    /\ \A w \in Workers : at[w] \in Locking =>
         rowLock[target[w]] = w /\ status[target[w]] = "pending"
    /\ \A h \in Handlers : at[h] = "create" =>
         /\ status[target[h]] = "absent" /\ target[h] \notin unused
         /\ \A c \in Callers : target[c] = target[h] => c = h
    /\ \A j \in unused : status[j] = "absent" /\ \A c \in Callers : target[c] # j

\* The copy of a job goes with the worker that has acquired it.
Holding == {"working", "results", "results commit", "stored", "failing"}

CopyOf(j) == [id |-> j, status |-> "processing", locked |-> TRUE, reason |-> NoReason]

CopiesOK ==
    /\ copy \in [Workers -> Job \cup {NoCopy}]
    /\ \A w \in Workers :
         copy[w] = IF at[w] \in Holding THEN CopyOf(target[w]) ELSE NoCopy

\* What a worker may write, and when.
LEMMA WriteBackOf ==
    ASSUME CallersOK, CopiesOK, NEW w \in Workers, NEW row \in WriteBack(w)
    PROVE  /\ at[w] \in {"stored", "failing", "working"}
           /\ row.id = target[w] /\ target[w] \in JobIDs
           /\ row.status \in {"pending", "completed", "failed"}
           /\ row.status = "completed" => at[w] = "stored"
           /\ row.locked = FALSE
           /\ row.reason \in Reasons \cup {NoReason}
           /\ row.reason # NoReason <=> row.status = "failed"
<1>1. at[w] \in {"stored", "failing", "working"}
  BY DEF WriteBack
<1>2. copy[w] = CopyOf(target[w])
  BY <1>1 DEF CopiesOK, Holding
<1>3. w \in Callers /\ target[w] \in JobIDs
  BY <1>1 DEF CallersOK, Callers, Elsewhere
<1>4. row \in {MarkCompleted(copy[w]), MarkFailed(copy[w], "other"),
                MarkPending(copy[w]), MarkFailed(copy[w], "not found")}
  BY <1>1 DEF WriteBack
<1>5. row = MarkCompleted(copy[w]) => at[w] = "stored"
  BY <1>1, <1>2 DEF WriteBack, MarkCompleted, MarkFailed, MarkPending, CopyOf
<1>6. copy[w] \in Job
  BY <1>2, <1>3 DEF CopyOf, Job, JobStatus
<1>7. /\ row.id = copy[w].id /\ row.locked = FALSE
      /\ row.status \in {"pending", "completed", "failed"}
      /\ row.status = "completed" => row = MarkCompleted(copy[w])
      /\ row.status = "failed" => row.reason \in {"other", "not found"}
      /\ row.status # "failed" => row.reason = copy[w].reason
  <2>1. CASE row = MarkCompleted(copy[w])
    BY <1>6, <2>1 DEF MarkCompleted, Job
  <2>2. CASE row = MarkPending(copy[w])
    BY <1>6, <2>2 DEF MarkPending, Job
  <2>3. CASE row = MarkFailed(copy[w], "other")
    BY <1>6, <2>3 DEF MarkFailed, Job
  <2>4. CASE row = MarkFailed(copy[w], "not found")
    BY <1>6, <2>4 DEF MarkFailed, Job
  <2> QED
    BY <1>4, <2>1, <2>2, <2>3, <2>4
<1>8. copy[w].id = target[w] /\ copy[w].reason = NoReason
  BY <1>2 DEF CopyOf
<1> QED
  BY <1>1, <1>3, <1>5, <1>7, <1>8 DEF Reasons, ErrorKinds, NoReason

\* UpdateJob, whatever it returns: the row of the worker's job changes, or none.
LEMMA UpdateEffect ==
    ASSUME CallersOK, CopiesOK, RowsOK, NEW w \in Workers, UpdateJob(w) \/ UpdateJobFails(w)
    PROVE  /\ at[w] \in {"stored", "failing", "working"}
           /\ Go(w, "idle", NoJob) /\ copy' = [copy EXCEPT ![w] = NoCopy]
           /\ UNCHANGED <<tasks, results, rowLock, taskLock, answer, unused>>
           /\ \/ UNCHANGED <<status, locked, reason>>
              \/ /\ Stored(target[w]) /\ rowLock[target[w]] = Nobody /\ target[w] \in JobIDs
                 /\ \E s \in {"pending", "completed", "failed"}, r \in Reasons \cup {NoReason} :
                      /\ status' = [status EXCEPT ![target[w]] = s]
                      /\ locked' = [locked EXCEPT ![target[w]] = FALSE]
                      /\ reason' = [reason EXCEPT ![target[w]] = r]
                      /\ s = "completed" => at[w] = "stored"
                      /\ r # NoReason <=> s = "failed"
<1>1. PICK row \in WriteBack(w) :
        \/ UNCHANGED db
        \/ rowLock[row.id] = Nobody /\ UpdateRow(row)
  BY DEF UpdateJob, UpdateJobFails
<1>2. /\ at[w] \in {"stored", "failing", "working"}
      /\ row.id = target[w] /\ target[w] \in JobIDs
      /\ row.status \in {"pending", "completed", "failed"}
      /\ row.status = "completed" => at[w] = "stored"
      /\ row.locked = FALSE
      /\ row.reason \in Reasons \cup {NoReason}
      /\ row.reason # NoReason <=> row.status = "failed"
  BY WriteBackOf
<1>3. /\ Go(w, "idle", NoJob) /\ copy' = [copy EXCEPT ![w] = NoCopy]
      /\ UNCHANGED <<rowLock, taskLock, answer, unused>>
  BY DEF UpdateJob, UpdateJobFails, Drop, locks
<1>4. UNCHANGED <<tasks, results>>
  BY <1>1 DEF UpdateRow, db
<1>5. CASE UNCHANGED db
  BY <1>2, <1>3, <1>4, <1>5 DEF db
<1>6. CASE rowLock[row.id] = Nobody /\ UpdateRow(row)
  <2>1. /\ Stored(target[w])
        /\ status' = [status EXCEPT ![target[w]] = row.status]
        /\ locked' = [locked EXCEPT ![target[w]] = FALSE]
        /\ reason' = [reason EXCEPT ![target[w]] = row.reason]
    BY <1>2, <1>6 DEF UpdateRow
  <2> QED
    BY <1>2, <1>3, <1>4, <1>6, <2>1
<1> QED
  BY <1>1, <1>5, <1>6

\* Copies go with the workers that hold a job.
LEMMA CopiesInductive ==
    ASSUME CallersOK, CallersOK', RowsOK, CopiesOK, Next
    PROVE  CopiesOK'
<1> USE DEF CopiesOK, Holding
<1>1. ASSUME UNCHANGED copy,
             \A w \in Workers : /\ at'[w] \in Holding <=> at[w] \in Holding
                                /\ at[w] \in Holding => target'[w] = target[w]
      PROVE  CopiesOK'
  BY <1>1
<1>2. CASE \E h \in Handlers : HandlerStep(h)
  <2> PICK h \in Handlers : HandlerStep(h)
    BY <1>2
  <2>1. PICK place, j : Go(h, place, j)
    BY HandlerMoves DEF RowsOK
  <2>2. \A w \in Workers : at'[w] = at[w] /\ target'[w] = target[w]
    <3>1. \A w \in Workers : w # h /\ w \in Callers
      BY PostgresAssumption DEF Callers
    <3> QED
      BY <2>1, <3>1 DEF CallersOK, Go
  <2>3. UNCHANGED copy
    BY DEF HandlerStep, CreateBegin, Create, CreateCommit, CreateFails, CreateNotify, GetRow,
           GetTasks, DeleteJob, ReleaseJobs
  <2> QED
    BY <1>1, <2>2, <2>3
<1>3. CASE \E i \in Instances : ListenerStep(i)
  BY <1>1, <1>3 DEF ListenerStep, Listen, ListenerBreaks, Deliver, Receive
<1>4. CASE \E w \in Workers : WorkerStep(w)
  <2> PICK w \in Workers : WorkerStep(w)
    BY <1>4
  <2>0. w \in Callers
    BY DEF Callers
  <2>1. ASSUME NEW place, NEW j, Go(w, place, j)
        PROVE  /\ at'[w] = place /\ target'[w] = j
               /\ \A v \in Workers \ {w} : at'[v] = at[v] /\ target'[v] = target[v]
    BY <2>0, <2>1 DEF Go, CallersOK, Callers
  <2>2. CASE AcquireBegin(w) \/ AcquireSelect(w) \/ AcquireNothing(w) \/ AcquireLookup(w) \/ AcquireFails(w)
    <3>1. copy' = copy /\ at[w] \notin Holding
      BY <2>2 DEF AcquireBegin, AcquireSelect, AcquireNothing, AcquireLookup, AcquireFails
    <3>2. PICK place \in {"idle", "acquire", "lookup", "acquire commit"} :
            \E j : Go(w, place, j)
      BY <2>2 DEF AcquireBegin, AcquireSelect, AcquireNothing, AcquireLookup, AcquireFails
    <3> QED
      BY <1>1, <2>1, <3>1, <3>2
  <2>3. CASE AcquireCommit(w)
    <3>1. /\ copy' = [copy EXCEPT ![w] = CopyOf(target[w])] /\ Go(w, "working", target[w])
          /\ at[w] = "acquire commit"
      BY <2>3 DEF AcquireCommit, CopyOf
    <3>2. CopyOf(target[w]) \in Job
      BY <2>0, <3>1 DEF CopyOf, Job, CallersOK, Elsewhere, JobStatus
    <3> QED
      BY <2>1, <3>1, <3>2
  <2>4. CASE Results(w) \/ ResultsBegin(w)
    <3>1. copy' = copy /\ at[w] \in Holding
      BY <2>4 DEF Results, ResultsBegin, ResultsWrite, ResultsMissing,
                  ResultsFails, ResultsDeadlock,
                  ResultsCommit, ResultsCommitFails
    <3>2. PICK place \in Holding : Go(w, place, target[w])
      BY <2>4 DEF Results, ResultsBegin, ResultsWrite, ResultsMissing,
                  ResultsFails, ResultsDeadlock,
                  ResultsCommit, ResultsCommitFails
    <3> QED
      BY <1>1, <2>1, <3>1, <3>2
  <2>5. CASE UpdateJob(w) \/ UpdateJobFails(w)
    <3>1. Go(w, "idle", NoJob) /\ copy' = [copy EXCEPT ![w] = NoCopy]
      BY <2>5, UpdateEffect
    <3> QED
      BY <2>1, <3>1
  <2> QED
    BY <2>2, <2>3, <2>4, <2>5 DEF WorkerStep, Acquire, WorkOn
<1> QED
  BY <1>2, <1>3, <1>4, NextIs

-----------------------------------------------------------------------------
(* What each step does to rows and locks.                                  *)

\* A caller that moves leaves the others where they are.
LEMMA MovesAlone ==
    ASSUME CallersOK, NEW c \in Callers, NEW place, NEW j, Go(c, place, j)
    PROVE  /\ at'[c] = place /\ target'[c] = j
           /\ \A d \in Callers : d # c => at'[d] = at[d] /\ target'[d] = target[d]
  BY DEF CallersOK, Go

\* Whoever locks a row is about a job.
LEMMA LockersHaveTargets ==
    ASSUME CallersOK, NEW w \in Workers, at[w] \in Locking
    PROVE  target[w] \in JobIDs
<1>1. w \in Callers /\ at[w] \notin Elsewhere
  BY DEF Callers, Locking, Elsewhere
<1> QED
  BY <1>1 DEF CallersOK

\* A locked row belongs to a worker that is about its job.
LEMMA LockHeld ==
    ASSUME RowsOK, NEW j \in JobIDs, rowLock[j] # Nobody
    PROVE  rowLock[j] \in Workers /\ at[rowLock[j]] \in Locking /\ target[rowLock[j]] = j
<1>1. rowLock[j] \in Workers
  BY DEF RowsOK
<1>2. LocksEnd
  BY DEF RowsOK
<1> QED
  BY <1>1, <1>2 DEF LocksEnd, Locking

\* Handlers change no row that a worker has locked; a new id is theirs alone.
LEMMA HandlerRows ==
    ASSUME CallersOK, RowsOK, NEW h \in Handlers, HandlerStep(h)
    PROVE  RowsOK'
<1> USE PostgresAssumption DEF RowsOK
<1>0. h \in Callers /\ h \notin Workers /\ Workers \subseteq Callers /\ Handlers \subseteq Callers
  BY DEF Callers
<1>1. rowLock' = rowLock
  BY DEF HandlerStep, CreateBegin, Create, CreateCommit, CreateFails, CreateNotify, GetRow,
         GetTasks, DeleteJob, ReleaseJobs, locks
<1>2. /\ \A w \in Workers : at'[w] = at[w] /\ target'[w] = target[w]
      /\ LocksEnd'
  <2>1. PICK place, goal : Go(h, place, goal)
    BY HandlerMoves
  <2>2. \A w \in Workers : at'[w] = at[w] /\ target'[w] = target[w]
    BY <1>0, <2>1, MovesAlone
  <2>3. ASSUME NEW j \in JobIDs, rowLock'[j] # Nobody
        PROVE  at'[rowLock'[j]] \in Locking /\ target'[rowLock'[j]] = j
    <3>1. rowLock[j] \in Workers /\ at[rowLock[j]] \in Locking /\ target[rowLock[j]] = j
      BY <1>1, <2>3, LockHeld
    <3> QED
      BY <1>1, <2>2, <3>1
  <2> QED
    BY <2>2, <2>3 DEF LocksEnd, Locking
<1>3. CASE CreateBegin(h)
  <2>1. PICK j \in unused : Go(h, "create", j) /\ unused' = unused \ {j}
    BY <1>3 DEF CreateBegin
  <2>2. status' = status
    BY <1>3 DEF CreateBegin, db
  <2>3. /\ at'[h] = "create" /\ target'[h] = j
        /\ \A d \in Callers : d # h => at'[d] = at[d] /\ target'[d] = target[d]
    BY <1>0, <2>1, MovesAlone
  <2> QED
    BY <1>0, <1>1, <1>2, <2>1, <2>2, <2>3
<1>4. CASE CreateCommit(h) \/ CreateFails(h)
  <2> DEFINE k == target[h]
  <2>1. at[h] = "create" /\ k \in JobIDs /\ unused' = unused
    BY <1>0, <1>4 DEF CreateCommit, CreateFails, CallersOK, Elsewhere
  <2>2. status' \in {status, [status EXCEPT ![k] = "pending"]}
    BY <1>4 DEF CreateCommit, CreateFails, Insert, db
  <2>3. PICK place \in {"notify", "idle"}, j \in {k, NoJob} : Go(h, place, j)
    BY <1>4 DEF CreateCommit, CreateFails
  <2>4. /\ at'[h] = place /\ target'[h] = j
        /\ \A d \in Callers : d # h => at'[d] = at[d] /\ target'[d] = target[d] /\ target[d] # k
    BY <1>0, <2>1, <2>3, MovesAlone
  <2> HIDE DEF k
  <2>5. status' \in [JobIDs -> JobStatus \cup {"absent"}] /\ \A i \in JobIDs \ {k} : status'[i] = status[i]
    BY <2>1, <2>2 DEF JobStatus
  <2>6. /\ k \notin unused /\ status[k] = "absent"
    BY <2>1 DEF k
  <2>7. \A w \in Workers : at'[w] \in Locking =>
          rowLock'[target'[w]] = w /\ status'[target'[w]] = "pending"
    <3> SUFFICES ASSUME NEW w \in Workers, at'[w] \in Locking
                 PROVE  rowLock'[target'[w]] = w /\ status'[target'[w]] = "pending"
      OBVIOUS
    <3>1. at[w] \in Locking /\ target'[w] = target[w] /\ target[w] \in JobIDs
      BY <1>2, LockersHaveTargets
    <3>2. target[w] # k
      BY <1>0, <2>4
    <3> QED
      BY <1>1, <2>5, <3>1, <3>2
  <2>8. \A g \in Handlers : at'[g] = "create" =>
          /\ status'[target'[g]] = "absent" /\ target'[g] \notin unused'
          /\ \A c \in Callers : target'[c] = target'[g] => c = g
    <3> SUFFICES ASSUME NEW g \in Handlers, at'[g] = "create"
                 PROVE  /\ status'[target'[g]] = "absent" /\ target'[g] \notin unused'
                        /\ \A c \in Callers : target'[c] = target'[g] => c = g
      OBVIOUS
    <3>1. g # h /\ at[g] = "create" /\ target'[g] = target[g] /\ target[g] \in JobIDs \ {k}
      BY <1>0, <2>4 DEF CallersOK, Elsewhere
    <3> QED
      BY <1>0, <2>1, <2>4, <2>5, <3>1
  <2>9. \A i \in unused' : status'[i] = "absent" /\ \A c \in Callers : target'[c] # i
    BY <1>0, <2>1, <2>4, <2>5, <2>6
  <2> QED
    BY <1>1, <1>2, <2>1, <2>5, <2>7, <2>8, <2>9
<1>5. CASE CreateNotify(h) \/ GetRow(h) \/ GetTasks(h)
  <2>1. PICK place \in {"idle", "get"}, j \in JobIDs \cup {NoJob} :
          Go(h, place, j) /\ (j = NoJob \/ Stored(j))
    BY <1>5 DEF CreateNotify, GetRow, GetTasks
  <2>2. status' = status /\ unused' = unused
    BY <1>5 DEF CreateNotify, GetRow, GetTasks, db
  <2>3. /\ at'[h] = place /\ target'[h] = j
        /\ \A d \in Callers : d # h => at'[d] = at[d] /\ target'[d] = target[d]
    BY <1>0, <2>1, MovesAlone
  <2>4. \A g \in Handlers : at'[g] = "create" =>
          /\ g # h /\ at[g] = "create" /\ target'[g] = target[g] /\ target[g] # j
          /\ target[g] \in JobIDs
    BY <1>0, <2>1, <2>3 DEF Stored, CallersOK, Elsewhere
  <2> QED
    BY <1>0, <1>1, <1>2, <2>1, <2>2, <2>3, <2>4 DEF Stored
<1>6. CASE DeleteJob(h) \/ ReleaseJobs(h)
  <2>1. at' = at /\ target' = target /\ unused' = unused
    BY <1>6 DEF DeleteJob, ReleaseJobs
  <2>2. /\ status' \in [JobIDs -> JobStatus \cup {"absent"}]
        /\ \A j \in JobIDs :
             \/ status'[j] = status[j]
             \/ status'[j] = "absent" /\ rowLock[j] = Nobody
             \/ status[j] = "processing" /\ status'[j] = "pending"
    <3>1. CASE DeleteJob(h)
      <4>1. PICK j \in JobIDs : rowLock[j] = Nobody /\ status' = [status EXCEPT ![j] = "absent"]
        BY <3>1 DEF DeleteJob
      <4> QED
        BY <4>1
    <3>2. CASE ReleaseJobs(h)
      <4>1. PICK expired \in SUBSET {j \in JobIDs : status[j] = "processing" /\ locked[j]} :
              /\ expired # {}
              /\ status' = [j \in JobIDs |-> IF j \in expired THEN "pending" ELSE status[j]]
              /\ locked' = [j \in JobIDs |-> IF j \in expired THEN FALSE ELSE locked[j]]
        BY <3>2, Zenon DEF ReleaseJobs
      <4> QED
        BY <4>1 DEF JobStatus
    <3> QED
      BY <1>6, <3>1, <3>2
  <2>3. \A w \in Workers : at[w] \in Locking => target[w] \in JobIDs
    BY LockersHaveTargets
  <2>4. \A g \in Handlers : at[g] = "create" => target[g] \in JobIDs
    BY <1>0 DEF CallersOK, Elsewhere
  <2>5. \A w \in Workers : at[w] \in Locking =>
          rowLock[target[w]] = w /\ status'[target[w]] = "pending"
    BY <2>2, <2>3
  <2>6. \A g \in Handlers : at[g] = "create" => status'[target[g]] = "absent"
    BY <2>2, <2>4
  <2>7. \A j \in unused : status'[j] = "absent"
    BY <2>2
  <2> QED
    BY <1>1, <1>2, <2>1, <2>2, <2>5, <2>6, <2>7
<1> QED
  BY <1>3, <1>4, <1>5, <1>6 DEF HandlerStep, Create

\* What a step of worker W, that goes on to PLACE with job J, may do to row I.
LockMoves(w, place, j, i) ==
    \/ rowLock'[i] = rowLock[i] /\ rowLock[i] # w
    \/ rowLock'[i] = w /\ rowLock[i] \in {Nobody, w} /\ i = j /\ place \in Locking
    \/ rowLock'[i] = Nobody /\ rowLock[i] = w

RowMoves(w, place, j, i) ==
    \/ status'[i] = status[i]
    \/ /\ rowLock[i] \in {Nobody, w} /\ status[i] # "absent"
       /\ ~(place \in Locking /\ i = j)

\* A worker may change the row of its own job, and lock one that nobody has locked.
LEMMA RowsMove ==
    ASSUME CallersOK, RowsOK, NEW w \in Workers, NEW place, NEW j, Go(w, place, j),
           j # NoJob => status[j] # "absent" \/ j = target[w],
           status' \in [JobIDs -> JobStatus \cup {"absent"}],
           rowLock' \in [JobIDs -> Workers \cup {Nobody}],
           \A i \in JobIDs : LockMoves(w, place, j, i),
           \A i \in JobIDs : RowMoves(w, place, j, i),
           place \in Locking => j \in JobIDs /\ rowLock'[j] = w /\ status[j] = "pending",
           unused' = unused
    PROVE  RowsOK'
<1> USE DEF RowsOK, LockMoves, RowMoves
<1>0. w \in Callers /\ w # Nobody /\ w \notin Handlers /\ Workers \subseteq Callers
  BY PostgresAssumption DEF Callers
<1>1. /\ at'[w] = place /\ target'[w] = j
      /\ \A d \in Callers : d # w => at'[d] = at[d] /\ target'[d] = target[d]
  BY <1>0, MovesAlone
<1>2. LocksEnd'
  <2> SUFFICES ASSUME NEW i \in JobIDs, rowLock'[i] # Nobody
               PROVE  at'[rowLock'[i]] \in Locking /\ target'[rowLock'[i]] = i
    BY DEF LocksEnd, Locking
  <2>1. CASE rowLock'[i] = w
    BY <1>1, <2>1
  <2>2. CASE rowLock'[i] = rowLock[i] /\ rowLock[i] # w
    <3>1. rowLock[i] \in Workers /\ at[rowLock[i]] \in Locking /\ target[rowLock[i]] = i
      BY <1>0, <2>2, LockHeld
    <3> QED
      BY <1>0, <1>1, <2>2, <3>1
  <2> QED
    BY <2>1, <2>2
<1>3. \A v \in Workers : at'[v] \in Locking =>
        rowLock'[target'[v]] = v /\ status'[target'[v]] = "pending"
  <2> SUFFICES ASSUME NEW v \in Workers, at'[v] \in Locking
               PROVE  rowLock'[target'[v]] = v /\ status'[target'[v]] = "pending"
    OBVIOUS
  <2>1. CASE v = w
    BY <1>1, <2>1
  <2>2. CASE v # w
    <3>1. at[v] \in Locking /\ target'[v] = target[v] /\ target[v] \in JobIDs
      BY <1>0, <1>1, <2>2, LockersHaveTargets
    <3>2. rowLock[target[v]] = v /\ status[target[v]] = "pending" /\ v # Nobody
      BY <3>1, PostgresAssumption
    <3> QED
      BY <2>2, <3>1, <3>2
  <2> QED
    BY <2>1, <2>2
<1>4. \A g \in Handlers : at'[g] = "create" =>
        /\ status'[target'[g]] = "absent" /\ target'[g] \notin unused'
        /\ \A c \in Callers : target'[c] = target'[g] => c = g
  <2> SUFFICES ASSUME NEW g \in Handlers, at'[g] = "create"
               PROVE  /\ status'[target'[g]] = "absent" /\ target'[g] \notin unused'
                      /\ \A c \in Callers : target'[c] = target'[g] => c = g
    OBVIOUS
  <2>1. /\ g \in Callers /\ g # w /\ at[g] = "create" /\ target'[g] = target[g]
        /\ target[g] \in JobIDs /\ target[g] # NoJob
    BY <1>0, <1>1, PostgresAssumption DEF CallersOK, Callers, Elsewhere
  <2>2. /\ status[target[g]] = "absent" /\ target[g] \notin unused
        /\ \A c \in Callers : target[c] = target[g] => c = g
    BY <2>1
  <2>3. j # target[g]
    BY <1>0, <2>1, <2>2
  <2>4. status'[target[g]] = "absent"
    BY <2>1, <2>2
  <2> QED
    BY <1>1, <2>1, <2>2, <2>3, <2>4
<1>5. \A i \in unused' : status'[i] = "absent" /\ \A c \in Callers : target'[c] # i
  <2> SUFFICES ASSUME NEW i \in unused
               PROVE  status'[i] = "absent" /\ \A c \in Callers : target'[c] # i
    OBVIOUS
  <2>1. i \in JobIDs /\ status[i] = "absent" /\ (\A c \in Callers : target[c] # i) /\ i # NoJob
    BY PostgresAssumption
  <2>2. j # i
    BY <1>0, <2>1
  <2> QED
    BY <1>1, <2>1, <2>2
<1> QED
  BY <1>2, <1>3, <1>4, <1>5

\* Workers do no more than that.
LEMMA WorkerRows ==
    ASSUME CallersOK, CopiesOK, RowsOK, NEW w \in Workers, WorkerStep(w)
    PROVE  RowsOK'
<1> USE DEF RowsOK
<1>0. w \in Callers /\ w # Nobody /\ w \notin Handlers /\ Workers \subseteq Callers
  BY PostgresAssumption DEF Callers
<1>1. unused' = unused
  BY UpdateEffect
  DEF WorkerStep, AcquireBegin, Acquire, AcquireSelect, AcquireNothing, AcquireLookup, AcquireCommit,
      AcquireFails, WorkOn, ResultsBegin, Results, ResultsWrite, ResultsMissing,
      ResultsFails, ResultsDeadlock,
      ResultsCommit, ResultsCommitFails
<1>2. /\ at[w] \notin Locking => \A i \in JobIDs : rowLock[i] # w
      /\ \A i \in JobIDs : rowLock[i] = w => target[w] = i
  BY <1>0 DEF LocksEnd, Locking
<1>3. at[w] \notin Elsewhere => target[w] \in JobIDs /\ target[w] # NoJob
  BY <1>0, PostgresAssumption DEF CallersOK
<1>4. at[w] \in Locking => rowLock[target[w]] = w /\ status[target[w]] = "pending"
  OBVIOUS
<1>5. ASSUME NEW place, place \notin Locking, NEW j \in {target[w], NoJob}, Go(w, place, j),
             at[w] \notin Locking, rowLock' = rowLock, status' = status
      PROVE  RowsOK'
  <2>1. \A i \in JobIDs : LockMoves(w, place, j, i) /\ RowMoves(w, place, j, i)
    BY <1>2, <1>5 DEF LockMoves, RowMoves
  <2> QED
    BY <1>1, <1>5, <2>1, RowsMove
<1>6. CASE AcquireBegin(w) \/ AcquireNothing(w)
  <2>1. PICK place \in Elsewhere : Go(w, place, NoJob)
    BY <1>6 DEF AcquireBegin, AcquireNothing, Elsewhere
  <2>2. at[w] \in Elsewhere /\ rowLock' = rowLock /\ status' = status
    BY <1>6 DEF AcquireBegin, AcquireNothing, Elsewhere, db, locks
  <2> QED
    BY <1>5, <2>1, <2>2 DEF Elsewhere, Locking
<1>7. CASE AcquireSelect(w)
  <2>1. PICK j \in Selectable : rowLock' = [rowLock EXCEPT ![j] = w] /\ Go(w, "lookup", j)
    BY <1>7 DEF AcquireSelect, OldestSelectable
  <2>2. j \in JobIDs /\ status[j] = "pending" /\ rowLock[j] = Nobody
    BY DEF Selectable
  <2>3. status' = status /\ at[w] = "acquire"
    BY <1>7 DEF AcquireSelect, db
  <2>4. \A i \in JobIDs : LockMoves(w, "lookup", j, i)
    BY <1>2, <2>1, <2>2, <2>3 DEF LockMoves, Locking
  <2>5. \A i \in JobIDs : RowMoves(w, "lookup", j, i)
    BY <2>3 DEF RowMoves
  <2>6. /\ rowLock' \in [JobIDs -> Workers \cup {Nobody}]
        /\ rowLock'[j] = w
    BY <2>1, <2>2
  <2> QED
    BY <1>1, <2>1, <2>2, <2>3, <2>4, <2>5, <2>6, RowsMove
<1>8. CASE AcquireLookup(w)
  <2> DEFINE j == target[w]
  <2>1. /\ Go(w, "acquire commit", j) /\ at[w] \in Locking /\ at[w] \notin Elsewhere
        /\ rowLock' = rowLock /\ status' = status
    BY <1>8 DEF AcquireLookup, db, locks, Locking, Elsewhere
  <2>2. j \in JobIDs /\ rowLock[j] = w /\ status[j] = "pending"
    BY <1>3, <1>4, <2>1
  <2>3. \A i \in JobIDs : LockMoves(w, "acquire commit", j, i) /\ RowMoves(w, "acquire commit", j, i)
    BY <1>2, <2>1 DEF LockMoves, RowMoves, Locking
  <2>5. /\ status' \in [JobIDs -> JobStatus \cup {"absent"}]
        /\ rowLock' \in [JobIDs -> Workers \cup {Nobody}]
    BY <2>1
  <2>4. "acquire commit" \in Locking /\ j = target[w]
    BY DEF Locking
  <2> HIDE DEF j, RowsOK
  <2> QED
    BY <1>1, <2>1, <2>2, <2>3, <2>4, <2>5, RowsMove
<1>9. CASE AcquireCommit(w) \/ AcquireFails(w)
  <2>1. PICK place \in {"working", "idle"}, j \in {target[w], NoJob} : Go(w, place, j)
    BY <1>9 DEF AcquireCommit, AcquireFails
  <2>2. rowLock' = [i \in JobIDs |-> IF rowLock[i] = w THEN Nobody ELSE rowLock[i]]
    BY <1>9 DEF AcquireCommit, AcquireFails, Unlock
  <2>3. \/ status' = status
        \/ at[w] = "acquire commit" /\ status' = [status EXCEPT ![target[w]] = "processing"]
    BY <1>9 DEF AcquireCommit, AcquireFails, Lock, db
  <2>4. /\ status' \in [JobIDs -> JobStatus \cup {"absent"}]
        /\ \A i \in JobIDs : status'[i] = status[i] \/ (rowLock[i] = w /\ status[i] = "pending")
    BY <1>3, <1>4, <2>3 DEF Elsewhere, Locking, JobStatus
  <2>5. \A i \in JobIDs : LockMoves(w, place, j, i)
    BY <2>2 DEF LockMoves
  <2>6. \A i \in JobIDs : RowMoves(w, place, j, i)
    BY <2>1, <2>4 DEF RowMoves, Locking
  <2>7. rowLock' \in [JobIDs -> Workers \cup {Nobody}] /\ place \notin Locking
    BY <2>1, <2>2 DEF Locking
  <2> QED
    BY <1>1, <2>1, <2>4, <2>5, <2>6, <2>7, RowsMove
<1>10. CASE ResultsBegin(w) \/ Results(w)
  <2>1. PICK place \in Holding : Go(w, place, target[w])
    BY <1>10 DEF ResultsBegin, Results, ResultsWrite, ResultsMissing, ResultsFails, ResultsDeadlock,
                 ResultsCommit, ResultsCommitFails, Holding
  <2>2. /\ at[w] \in Holding /\ rowLock' = rowLock
    BY <1>10 DEF ResultsBegin, Results, ResultsWrite, ResultsMissing, ResultsFails, ResultsDeadlock,
                 ResultsCommit, ResultsCommitFails, locks, Holding
  <2>3. status' = status
    BY <1>10 DEF ResultsBegin, Results, ResultsWrite, ResultsMissing, ResultsFails, ResultsDeadlock,
                 ResultsCommit, ResultsCommitFails, StoreResults, db
  <2>4. at[w] \notin Locking /\ place \notin Locking
    BY <2>1, <2>2 DEF Holding, Locking
  <2> QED
    BY <1>5, <2>1, <2>2, <2>3, <2>4
<1>11. CASE UpdateJob(w) \/ UpdateJobFails(w)
  <2>1. Go(w, "idle", NoJob) /\ rowLock' = rowLock /\ at[w] \in {"stored", "failing", "working"}
    BY <1>11, UpdateEffect
  <2>2. \/ status' = status
        \/ /\ Stored(target[w]) /\ rowLock[target[w]] = Nobody /\ target[w] \in JobIDs
           /\ \E s \in {"pending", "completed", "failed"} : status' = [status EXCEPT ![target[w]] = s]
    BY <1>11, UpdateEffect
  <2>3. /\ status' \in [JobIDs -> JobStatus \cup {"absent"}]
        /\ \A i \in JobIDs : status'[i] = status[i] \/ (rowLock[i] = Nobody /\ status[i] # "absent")
    BY <2>2 DEF Stored, JobStatus
  <2>4. \A i \in JobIDs : LockMoves(w, "idle", NoJob, i)
    BY <1>2, <2>1 DEF LockMoves, Locking
  <2>5. \A i \in JobIDs : RowMoves(w, "idle", NoJob, i)
    BY <2>3 DEF RowMoves, Locking
  <2>6. "idle" \notin Locking
    BY DEF Locking
  <2> QED
    BY <1>1, <2>1, <2>3, <2>4, <2>5, <2>6, RowsMove
<1> QED
  BY <1>6, <1>7, <1>8, <1>9, <1>10, <1>11 DEF WorkerStep, Acquire, WorkOn

\* Listeners touch no row.
LEMMA ListenerRows ==
    ASSUME CallersOK, RowsOK, NEW i \in Instances, ListenerStep(i)
    PROVE  RowsOK'
<1>1. UNCHANGED <<status, rowLock, unused, at, target>>
  BY DEF ListenerStep, Listen, ListenerBreaks, Deliver, Receive, db, locks
<1>2. LocksEnd'
  BY <1>1 DEF RowsOK, LocksEnd
<1> QED
  BY <1>1, <1>2 DEF RowsOK

\* So rows are locked exactly by those who say so.
LEMMA RowsInductive ==
    ASSUME CallersOK, CopiesOK, RowsOK, Next
    PROVE  RowsOK'
  BY HandlerRows, WorkerRows, ListenerRows, NextIs
-----------------------------------------------------------------------------
(* Tasks, their variants and what is read of them.                         *)

DataTypes ==
    /\ locked \in [JobIDs -> BOOLEAN]
    /\ reason \in [JobIDs -> Reasons \cup {NoReason}]
    /\ tasks \subseteq TaskIDs
    /\ results \subseteq tasks
    /\ taskLock \in [TaskIDs -> Workers \cup {Nobody, Abandoned}]
    /\ answer \in [Handlers -> Answers]

\* Only rows that exist are locked.
LocksOnRows == \A t \in TaskIDs : taskLock[t] # Nobody => t \in tasks

TasksGoWithJobs == \A t \in TaskIDs : t \in tasks <=> status[JobOf[t]] # "absent"

CompletedHaveVariants == \A t \in tasks : status[JobOf[t]] = "completed" => t \in results

\* The locks of a transaction that wrote variants keep the tasks until its commit,
WritersHoldLocks ==
    \A w \in Workers : \A t \in TaskIDs :
        at[w] = "results commit" /\ JobOf[t] = target[w] => t \in tasks /\ taskLock[t] = w

\* after which the variants are there,
WrittenIsThere ==
    \A w \in Workers : \A t \in tasks :
        at[w] = "stored" /\ JobOf[t] = target[w] => t \in results

\* as they are for whoever read that the job is completed.
ReadIsThere ==
    \A h \in Handlers : \A t \in tasks :
        at[h] = "get" /\ answer[h] # NoAnswer /\ JobOf[t] = target[h] => t \in results

DataOK ==
    /\ DataTypes /\ LocksOnRows /\ TasksGoWithJobs /\ CompletedHaveVariants
    /\ WritersHoldLocks /\ WrittenIsThere /\ ReadIsThere

\* Each task is one of a job.
LEMMA TasksHaveJobs == \A t \in TaskIDs : JobOf[t] \in JobIDs
  BY PostgresAssumption

\* Variants stay where they are, as long as their task does.
ResultsStay == \A t \in tasks' : t \in tasks /\ (t \in results => t \in results')

LocksStay ==
    \A w \in Workers : \A t \in tasks : taskLock[t] = w => t \in tasks' /\ taskLock'[t] = w

\* What keeps the last three parts, when no caller enters the place each is about.
LEMMA PartsStay ==
    /\ WritersHoldLocks /\ LocksStay
       /\ (\A w \in Workers : at'[w] = "results commit" =>
             at[w] = "results commit" /\ target'[w] = target[w])
       => WritersHoldLocks'
    /\ WrittenIsThere /\ ResultsStay
       /\ (\A w \in Workers : at'[w] = "stored" => at[w] = "stored" /\ target'[w] = target[w])
       => WrittenIsThere'
    /\ ReadIsThere /\ ResultsStay
       /\ (\A h \in Handlers : at'[h] = "get" /\ answer'[h] # NoAnswer =>
             at[h] = "get" /\ answer[h] # NoAnswer /\ target'[h] = target[h])
       => ReadIsThere'
<1>1. ASSUME WritersHoldLocks, LocksStay,
             \A w \in Workers : at'[w] = "results commit" =>
               at[w] = "results commit" /\ target'[w] = target[w]
      PROVE  WritersHoldLocks'
  BY <1>1 DEF WritersHoldLocks, LocksStay
<1>2. ASSUME WrittenIsThere, ResultsStay,
             \A w \in Workers : at'[w] = "stored" => at[w] = "stored" /\ target'[w] = target[w]
      PROVE  WrittenIsThere'
  BY <1>2 DEF WrittenIsThere, ResultsStay
<1>3. ASSUME ReadIsThere, ResultsStay,
             \A h \in Handlers : at'[h] = "get" /\ answer'[h] # NoAnswer =>
               at[h] = "get" /\ answer[h] # NoAnswer /\ target'[h] = target[h]
      PROVE  ReadIsThere'
  BY <1>3 DEF ReadIsThere, ResultsStay
<1> QED
  BY <1>1, <1>2, <1>3

\* Creations and deletions keep rows of jobs and tasks together.
LEMMA HandlerData ==
    ASSUME CallersOK, RowsOK, DataOK, NEW h \in Handlers, HandlerStep(h)
    PROVE  DataOK'
<1>0. h \in Callers /\ h \notin Workers /\ Workers \subseteq Callers /\ Handlers \subseteq Callers
  BY PostgresAssumption DEF Callers
<1>1. taskLock' = taskLock
  BY DEF HandlerStep, CreateBegin, Create, CreateCommit, CreateFails, CreateNotify, GetRow,
         GetTasks, DeleteJob, ReleaseJobs, locks
<1>2. \A w \in Workers : at'[w] = at[w] /\ target'[w] = target[w]
  <2>1. PICK place, j : Go(h, place, j)
    BY HandlerMoves DEF RowsOK
  <2>2. \A w \in Workers : w \in Callers /\ w # h
    BY <1>0
  <2> QED
    BY <1>0, <2>1, <2>2, MovesAlone
<1>3. ASSUME NEW place, NEW j, Go(h, place, j)
      PROVE  /\ at'[h] = place /\ target'[h] = j
             /\ \A g \in Handlers : g # h => at'[g] = at[g] /\ target'[g] = target[g]
  <2>1. \A g \in Handlers : g \in Callers
    BY <1>0
  <2> QED
    BY <1>0, <1>3, <2>1, MovesAlone
<1>4. ASSUME UNCHANGED db, answer' \in [Handlers -> Answers], ReadIsThere'
      PROVE  DataOK'
  <2>1. ResultsStay /\ LocksStay /\ DataTypes'
    BY <1>1, <1>4 DEF db, DataOK, DataTypes, ResultsStay, LocksStay
  <2>2. LocksOnRows' /\ TasksGoWithJobs' /\ CompletedHaveVariants'
    BY <1>1, <1>4 DEF db, DataOK, LocksOnRows, TasksGoWithJobs, CompletedHaveVariants
  <2>3. WritersHoldLocks' /\ WrittenIsThere'
    BY <1>2, <2>1, PartsStay DEF DataOK
  <2> QED
    BY <1>4, <2>1, <2>2, <2>3 DEF DataOK
<1>5. ASSUME UNCHANGED <<db, answer>>, NEW place, NEW j, Go(h, place, j), place # "get"
      PROVE  DataOK'
  <2>1. ResultsStay
    BY <1>5 DEF db, ResultsStay
  <2>2. ReadIsThere'
    BY <1>3, <1>5, <2>1, PartsStay DEF DataOK
  <2> QED
    BY <1>4, <1>5, <2>2 DEF DataOK, DataTypes
<1>6. CASE CreateBegin(h) \/ CreateNotify(h)
  <2>1. UNCHANGED <<db, answer>>
    BY <1>6 DEF CreateBegin, CreateNotify
  <2>2. PICK place \in {"create", "idle"} :
          \E j : Go(h, place, j)
    BY <1>6 DEF CreateBegin, CreateNotify
  <2> QED
    BY <1>5, <2>1, <2>2
<1>7. CASE CreateCommit(h) \/ CreateFails(h)
  <2> DEFINE k == target[h]
  <2>1. at[h] = "create" /\ k \in JobIDs
    BY <1>0, <1>7 DEF CreateCommit, CreateFails, CallersOK, Elsewhere
  <2>2. /\ status[k] = "absent" /\ \A c \in Callers : target[c] = k => c = h
    BY <2>1 DEF RowsOK
  <2>3. PICK place \in {"notify", "idle"} :
          \E j : Go(h, place, j)
    BY <1>7 DEF CreateCommit, CreateFails
  <2>4. answer' = answer
    BY <1>7 DEF CreateCommit, CreateFails
  <2> HIDE DEF k
  <2>5. CASE UNCHANGED db
    BY <1>5, <2>3, <2>4, <2>5
  <2>6. CASE Insert(k)
    <3>1. /\ status' = [status EXCEPT ![k] = "pending"]
          /\ \A t \in TaskIDs : t \in tasks' <=> t \in tasks \/ JobOf[t] = k
          /\ tasks \subseteq TaskIDs /\ tasks' \subseteq TaskIDs
          /\ locked' = locked /\ reason' = reason /\ results' = results
      BY <2>6 DEF Insert, TasksOf, DataOK, DataTypes
    <3>2. \A i \in JobIDs : status'[i] = IF i = k THEN "pending" ELSE status[i]
      BY <2>1, <3>1 DEF RowsOK
    <3>3. DataTypes'
      BY <1>1, <2>4, <3>1 DEF DataOK, DataTypes
    <3>4. LocksOnRows' /\ TasksGoWithJobs'
      BY <1>1, <3>1, <3>2, TasksHaveJobs DEF DataOK, LocksOnRows, TasksGoWithJobs
    <3>5. CompletedHaveVariants'
      BY <3>1, <3>2, TasksHaveJobs DEF DataOK, CompletedHaveVariants
    <3>6. WritersHoldLocks'
      <4>1. LocksStay
        BY <1>1, <3>1 DEF LocksStay
      <4> QED
        BY <1>2, <4>1, PartsStay DEF DataOK
    <3>7. WrittenIsThere'
      <4>1. \A w \in Workers : target'[w] # k /\ at'[w] = at[w] /\ target'[w] = target[w]
        BY <1>0, <1>2, <2>2
      <4> QED
        BY <3>1, <4>1 DEF DataOK, WrittenIsThere
    <3>8. ReadIsThere'
      <4>1. \A g \in Handlers : at'[g] = "get" =>
              target'[g] # k /\ at[g] = "get" /\ target'[g] = target[g]
        BY <1>0, <1>3, <2>2, <2>3
      <4> QED
        BY <2>4, <3>1, <4>1 DEF DataOK, ReadIsThere
    <3> QED
      BY <3>3, <3>4, <3>5, <3>6, <3>7, <3>8 DEF DataOK
  <2> QED
    BY <1>7, <2>5, <2>6 DEF CreateCommit, CreateFails, k
<1>8. CASE GetRow(h)
  <2>1. PICK j \in JobIDs :
          /\ answer' = [answer EXCEPT ![h] =
               IF status[j] = "completed" THEN [read |-> "completed", of |-> j] ELSE NoAnswer]
          /\ Go(h, "get", j)
    BY <1>8 DEF GetRow
  <2>2. UNCHANGED db
    BY <1>8 DEF GetRow
  <2>3. answer' \in [Handlers -> Answers]
    BY <2>1 DEF DataOK, DataTypes, Answers, NoAnswer
  <2>4. ReadIsThere'
    <3>1. /\ answer'[h] # NoAnswer => status[j] = "completed"
          /\ \A g \in Handlers : g # h => answer'[g] = answer[g]
      BY <2>1 DEF DataOK, DataTypes
    <3>2. /\ at'[h] = "get" /\ target'[h] = j
          /\ \A g \in Handlers : g # h => at'[g] = at[g] /\ target'[g] = target[g]
      BY <1>3, <2>1
    <3>3. \A t \in tasks : status[JobOf[t]] = "completed" => t \in results
      BY DEF DataOK, CompletedHaveVariants
    <3> QED
      BY <2>2, <3>1, <3>2, <3>3 DEF DataOK, ReadIsThere, db
  <2> QED
    BY <1>4, <2>2, <2>3, <2>4
<1>9. CASE GetTasks(h)
  <2>1. UNCHANGED db /\ Go(h, "idle", NoJob) /\ at[h] = "get"
    BY <1>9 DEF GetTasks
  <2>2. target[h] \in JobIDs
    BY <1>0, <2>1 DEF CallersOK, Elsewhere
  <2>3. PICK new \in Answers : answer' = [answer EXCEPT ![h] = new]
    <3>1. answer[h] \in Answers
      BY DEF DataOK, DataTypes
    <3>2. WithTasks(target[h], TasksOf(target[h]) \cap tasks) \in Answers
      BY <2>2 DEF WithTasks, Answers, NoAnswer
    <3> QED
      BY <1>9, <3>1, <3>2 DEF GetTasks
  <2>4. /\ answer' \in [Handlers -> Answers]
        /\ \A g \in Handlers : g # h => answer'[g] = answer[g]
    BY <2>3 DEF DataOK, DataTypes
  <2>5. ResultsStay
    BY <2>1 DEF db, ResultsStay
  <2>6. ReadIsThere'
    BY <1>3, <2>1, <2>4, <2>5, PartsStay DEF DataOK
  <2> QED
    BY <1>4, <2>1, <2>4, <2>6
<1>10. CASE DeleteJob(h)
  <2>1. PICK j \in JobIDs :
          /\ \A t \in TasksOf(j) : taskLock[t] = Nobody
          /\ status' = [status EXCEPT ![j] = "absent"]
          /\ locked' = [locked EXCEPT ![j] = FALSE]
          /\ reason' = [reason EXCEPT ![j] = NoReason]
          /\ tasks' = tasks \ TasksOf(j)
          /\ results' = results \ TasksOf(j)
    BY <1>10 DEF DeleteJob
  <2>2. at' = at /\ target' = target /\ answer' = answer
    BY <1>10 DEF DeleteJob
  <2>3. \A i \in JobIDs : status'[i] = IF i = j THEN "absent" ELSE status[i]
    BY <2>1 DEF RowsOK
  <2>4. /\ \A t \in TaskIDs : t \in TasksOf(j) <=> JobOf[t] = j
        /\ tasks \subseteq TaskIDs
    BY DEF TasksOf, DataOK, DataTypes
  <2>5. DataTypes'
    BY <1>1, <2>1, <2>2 DEF DataOK, DataTypes
  <2>6. LocksOnRows' /\ TasksGoWithJobs'
    BY <1>1, <2>1, <2>3, <2>4, TasksHaveJobs DEF DataOK, LocksOnRows, TasksGoWithJobs
  <2>7. CompletedHaveVariants'
    BY <2>1, <2>3, <2>4, TasksHaveJobs DEF DataOK, CompletedHaveVariants
  <2>8. LocksStay
    <3>1. \A w \in Workers : w # Nobody
      BY PostgresAssumption
    <3> QED
      BY <1>1, <2>1, <3>1 DEF LocksStay
  <2>9. ResultsStay
    BY <2>1 DEF ResultsStay
  <2> QED
    BY <2>2, <2>5, <2>6, <2>7, <2>8, <2>9, PartsStay DEF DataOK
<1>11. CASE ReleaseJobs(h)
  <2>1. PICK expired \in SUBSET {j \in JobIDs : status[j] = "processing" /\ locked[j]} :
          /\ expired # {}
          /\ status' = [j \in JobIDs |-> IF j \in expired THEN "pending" ELSE status[j]]
          /\ locked' = [j \in JobIDs |-> IF j \in expired THEN FALSE ELSE locked[j]]
    BY <1>11, Zenon DEF ReleaseJobs
  <2>2. UNCHANGED <<reason, tasks, results, at, target, answer>>
    BY <1>11 DEF ReleaseJobs
  <2>3. \A i \in expired : status[i] = "processing"
    OBVIOUS
  <2> HIDE DEF RowsOK
  <2>4. \A i \in JobIDs : status'[i] # status[i] => status[i] = "processing" /\ status'[i] = "pending"
    <3> SUFFICES ASSUME NEW i \in JobIDs
                 PROVE  status'[i] # status[i] => status[i] = "processing" /\ status'[i] = "pending"
      OBVIOUS
    <3>1. status'[i] = IF i \in expired THEN "pending" ELSE status[i]
      BY <2>1
    <3> QED
      BY <2>3, <3>1
  <2>5. DataTypes'
    BY <1>1, <2>1, <2>2 DEF DataOK, DataTypes
  <2>6. LocksOnRows' /\ TasksGoWithJobs' /\ CompletedHaveVariants'
    BY <1>1, <2>2, <2>4, TasksHaveJobs
    DEF DataOK, DataTypes, LocksOnRows, TasksGoWithJobs, CompletedHaveVariants
  <2>7. LocksStay /\ ResultsStay
    BY <1>1, <2>2 DEF LocksStay, ResultsStay
  <2> QED
    BY <2>2, <2>5, <2>6, <2>7, PartsStay DEF DataOK
<1> QED
  BY <1>6, <1>7, <1>8, <1>9, <1>10, <1>11 DEF HandlerStep, Create

\* Workers write variants before they complete a job, under locks of its tasks.
LEMMA WorkerData ==
    ASSUME CallersOK, CopiesOK, RowsOK, DataOK, NEW w \in Workers, WorkerStep(w)
    PROVE  DataOK'
<1>0. /\ w \in Callers /\ w # Nobody /\ Workers \subseteq Callers /\ Handlers \subseteq Callers
      /\ \A h \in Handlers : h # w
      /\ \A v \in Workers : v # Nobody /\ v # Abandoned
  BY PostgresAssumption DEF Callers
<1>1. answer' = answer
  BY UpdateEffect
  DEF WorkerStep, AcquireBegin, Acquire, AcquireSelect, AcquireNothing, AcquireLookup, AcquireCommit,
      AcquireFails, WorkOn, ResultsBegin, Results, ResultsWrite, ResultsMissing,
      ResultsFails, ResultsDeadlock,
      ResultsCommit, ResultsCommitFails
<1>2. \A h \in Handlers : at'[h] = at[h] /\ target'[h] = target[h]
  <2>1. PICK place, j : Go(w, place, j)
    BY WorkerMoves
  <2> QED
    BY <1>0, <2>1, MovesAlone
<1>3. ASSUME NEW place, NEW j, Go(w, place, j)
      PROVE  /\ at'[w] = place /\ target'[w] = j
             /\ \A v \in Workers : v # w => at'[v] = at[v] /\ target'[v] = target[v]
  <2>1. \A v \in Workers : v \in Callers
    BY <1>0
  <2> QED
    BY <1>0, <1>3, <2>1, MovesAlone
<1>4. ASSUME DataTypes', LocksOnRows', TasksGoWithJobs', CompletedHaveVariants',
             ResultsStay, LocksStay,
             NEW place, NEW j, Go(w, place, j), place \notin {"results commit", "stored"}
      PROVE  DataOK'
  <2>1. \A v \in Workers : at'[v] \in {"results commit", "stored"} =>
          at[v] = at'[v] /\ target'[v] = target[v]
    BY <1>3, <1>4
  <2>2. WritersHoldLocks'
    BY <1>4, <2>1, PartsStay DEF DataOK
  <2>3. WrittenIsThere'
    BY <1>4, <2>1, PartsStay DEF DataOK
  <2>4. ReadIsThere'
    BY <1>1, <1>2, <1>4, PartsStay DEF DataOK
  <2> QED
    BY <1>4, <2>2, <2>3, <2>4 DEF DataOK
<1>5. ASSUME UNCHANGED db
      PROVE  /\ TasksGoWithJobs' /\ CompletedHaveVariants' /\ ResultsStay
             /\ taskLock' \in [TaskIDs -> Workers \cup {Nobody, Abandoned}] => DataTypes'
  <2>1. TasksGoWithJobs' /\ CompletedHaveVariants'
    BY <1>5 DEF db, DataOK, TasksGoWithJobs, CompletedHaveVariants
  <2> QED
    BY <1>1, <1>5, <2>1 DEF db, DataOK, DataTypes, ResultsStay
<1>6. CASE \/ AcquireBegin(w) \/ AcquireSelect(w) \/ AcquireNothing(w) \/ AcquireLookup(w)
           \/ ResultsBegin(w)
  <2>1. UNCHANGED db /\ UNCHANGED taskLock
    BY <1>6 DEF AcquireBegin, AcquireSelect, AcquireNothing, AcquireLookup, ResultsBegin, locks
  <2>2. PICK place \in {"idle", "acquire", "lookup", "acquire commit", "results"} :
          \E j : Go(w, place, j)
    BY <1>6 DEF AcquireBegin, AcquireSelect, AcquireNothing, AcquireLookup, ResultsBegin
  <2>3. LocksStay /\ LocksOnRows'
    BY <2>1 DEF db, LocksStay, DataOK, LocksOnRows
  <2>4. DataTypes'
    BY <1>5, <2>1 DEF DataOK, DataTypes
  <2> QED
    BY <1>4, <1>5, <2>1, <2>2, <2>3, <2>4
<1>7. CASE AcquireCommit(w) \/ AcquireFails(w)
  <2>1. /\ UNCHANGED <<reason, tasks, results, taskLock>>
        /\ \/ UNCHANGED db
           \/ at[w] = "acquire commit" /\ Lock(target[w])
    BY <1>7 DEF AcquireCommit, AcquireFails, Lock, db
  <2>2. PICK place \in {"idle", "working"} :
          \E j : Go(w, place, j)
    BY <1>7 DEF AcquireCommit, AcquireFails
  <2>3. LocksStay /\ ResultsStay /\ LocksOnRows'
    BY <2>1 DEF LocksStay, ResultsStay, DataOK, LocksOnRows
  <2>4. DataTypes' /\ TasksGoWithJobs' /\ CompletedHaveVariants'
    <3>1. CASE UNCHANGED db
      BY <1>5, <2>1, <3>1 DEF DataOK, DataTypes
    <3>2. CASE at[w] = "acquire commit" /\ Lock(target[w])
      <4>1. target[w] \in JobIDs /\ status[target[w]] = "pending"
        BY <3>2, LockersHaveTargets DEF Locking, RowsOK
      <4>2. /\ locked' = [locked EXCEPT ![target[w]] = TRUE]
            /\ status' = [status EXCEPT ![target[w]] = "processing"]
        BY <3>2 DEF Lock
      <4>3. \A i \in JobIDs : status'[i] # status[i] => status[i] = "pending" /\ status'[i] = "processing"
        <5> SUFFICES ASSUME NEW i \in JobIDs
                     PROVE  status'[i] # status[i] => status[i] = "pending" /\ status'[i] = "processing"
          OBVIOUS
        <5>1. status'[i] = IF i = target[w] THEN "processing" ELSE status[i]
          BY <4>2 DEF RowsOK
        <5> QED
          BY <4>1, <5>1
      <4>4. DataTypes'
        BY <1>1, <2>1, <4>1, <4>2 DEF DataOK, DataTypes
      <4>5. tasks \subseteq TaskIDs /\ tasks' = tasks /\ results' = results
        BY <2>1 DEF DataOK, DataTypes
      <4>6. TasksGoWithJobs'
        BY <4>3, <4>5, TasksHaveJobs DEF DataOK, TasksGoWithJobs
      <4>7. CompletedHaveVariants'
        BY <4>3, <4>5, TasksHaveJobs DEF DataOK, CompletedHaveVariants
      <4> QED
        BY <4>4, <4>6, <4>7
    <3> QED
      BY <2>1, <3>1, <3>2
  <2> QED
    BY <1>4, <2>2, <2>3, <2>4
<1>8. ASSUME NEW who \in {Nobody, Abandoned}, PassLocks(w, who), tasks' = tasks,
             NEW place, place # "results commit", Go(w, place, target[w])
      PROVE  /\ taskLock' \in [TaskIDs -> Workers \cup {Nobody, Abandoned}]
             /\ LocksOnRows' /\ WritersHoldLocks'
  <2>1. taskLock \in [TaskIDs -> Workers \cup {Nobody, Abandoned}]
    BY DEF DataOK, DataTypes
  <2>2. taskLock' = [t \in TaskIDs |-> IF taskLock[t] = w THEN who ELSE taskLock[t]]
    BY <1>8 DEF PassLocks
  <2>3. taskLock' \in [TaskIDs -> Workers \cup {Nobody, Abandoned}]
    BY <2>1, <2>2
  <2>4. \A t \in TaskIDs : taskLock'[t] # Nobody => taskLock[t] # Nobody
    BY <1>0, <2>2
  <2>5. LocksOnRows'
    BY <1>8, <2>4 DEF DataOK, LocksOnRows
  <2>6. WritersHoldLocks'
    <3> SUFFICES ASSUME NEW v \in Workers, NEW t \in TaskIDs,
                        at'[v] = "results commit", JobOf[t] = target'[v]
                 PROVE  t \in tasks /\ taskLock'[t] = v
      BY <1>8 DEF WritersHoldLocks
    <3>1. v # w /\ at[v] = "results commit" /\ JobOf[t] = target[v]
      BY <1>3, <1>8
    <3>2. t \in tasks /\ taskLock[t] = v
      BY <3>1 DEF DataOK, WritersHoldLocks
    <3> QED
      BY <2>2, <3>1, <3>2
  <2> QED
    BY <2>3, <2>5, <2>6
<1>9. CASE ResultsWrite(w)
  <2>1. PICK t \in TasksOf(target[w]) \cap tasks, place \in {"results", "results commit"} :
          /\ taskLock[t] = Nobody
          /\ taskLock' = [taskLock EXCEPT ![t] = w]
          /\ Go(w, place, target[w])
          /\ place = "results commit" => TasksOf(target[w]) \subseteq LockedBy(w) \cup {t}
    BY <1>9 DEF ResultsWrite
  <2>2. UNCHANGED db /\ t \in TaskIDs
    BY <1>9 DEF ResultsWrite, TasksOf
  <2>3. taskLock \in [TaskIDs -> Workers \cup {Nobody, Abandoned}]
    BY DEF DataOK, DataTypes
  <2>4. /\ taskLock' \in [TaskIDs -> Workers \cup {Nobody, Abandoned}]
        /\ \A u \in TaskIDs : taskLock'[u] = IF u = t THEN w ELSE taskLock[u]
    BY <2>1, <2>2, <2>3
  <2>5. /\ at'[w] = place /\ target'[w] = target[w]
        /\ \A v \in Workers : v # w => at'[v] = at[v] /\ target'[v] = target[v]
    BY <1>3, <2>1
  <2>6. LocksOnRows'
    BY <2>1, <2>2, <2>4 DEF db, DataOK, LocksOnRows
  <2>7. tasks' = tasks
    BY <2>2 DEF db
  <2>8. WritersHoldLocks'
    <3> SUFFICES ASSUME NEW v \in Workers, NEW u \in TaskIDs,
                        at'[v] = "results commit", JobOf[u] = target'[v]
                 PROVE  u \in tasks /\ taskLock'[u] = v
      BY <2>7 DEF WritersHoldLocks
    <3>1. CASE v = w
      <4>1. u \in LockedBy(w) \cup {t}
        BY <2>1, <2>5, <3>1 DEF TasksOf
      <4>2. CASE u = t
        BY <2>1, <2>4, <3>1, <4>2
      <4>3. CASE u # t
        <5>1. taskLock[u] = w
          BY <4>1, <4>3 DEF LockedBy
        <5> QED
          BY <1>0, <2>4, <3>1, <4>3, <5>1 DEF DataOK, LocksOnRows
      <4> QED
        BY <4>2, <4>3
    <3>2. CASE v # w
      <4>1. u \in tasks /\ taskLock[u] = v
        BY <2>5, <3>2 DEF DataOK, WritersHoldLocks
      <4> QED
        BY <1>0, <2>1, <2>4, <4>1
    <3> QED
      BY <3>1, <3>2
  <2>9. WrittenIsThere' /\ ReadIsThere'
    BY <1>1, <1>2, <1>5, <2>2, <2>5, PartsStay DEF DataOK
  <2> QED
    BY <1>5, <2>2, <2>4, <2>6, <2>8, <2>9 DEF DataOK
<1>10. CASE ResultsMissing(w) \/ ResultsFails(w) \/ ResultsDeadlock(w)
  <2>1. PICK who \in {Nobody, Abandoned} : PassLocks(w, who)
    BY <1>10 DEF ResultsMissing, ResultsFails, ResultsDeadlock
  <2>2. UNCHANGED db /\ Go(w, "failing", target[w])
    BY <1>10 DEF ResultsMissing, ResultsFails, ResultsDeadlock
  <2>3. /\ taskLock' \in [TaskIDs -> Workers \cup {Nobody, Abandoned}]
        /\ LocksOnRows' /\ WritersHoldLocks'
    BY <1>8, <2>1, <2>2 DEF db
  <2>4. WrittenIsThere' /\ ReadIsThere'
    BY <1>1, <1>2, <1>3, <1>5, <2>2, PartsStay DEF DataOK
  <2> QED
    BY <1>5, <2>2, <2>3, <2>4 DEF DataOK
<1>11. CASE ResultsCommit(w) \/ ResultsCommitFails(w)
  <2> DEFINE ts == TasksOf(target[w])
  <2>1. \A t \in TaskIDs : JobOf[t] = target[w] <=> t \in ts
    BY DEF TasksOf
  <2>2. ts \in SUBSET TaskIDs
    BY DEF TasksOf
  <2>3. /\ at[w] = "results commit"
        /\ PassLocks(w, Nobody)
    BY <1>11 DEF ResultsCommit, ResultsCommitFails
  <2>4. /\ UNCHANGED <<status, locked, reason, tasks>>
        /\ results' \in {results, results \cup ts}
        /\ ResultsCommit(w) => results' = results \cup ts
    BY <1>11 DEF ResultsCommit, ResultsCommitFails, StoreResults, db
  <2>5. PICK place \in {"stored", "failing"} :
          Go(w, place, target[w]) /\ (place = "stored" => ResultsCommit(w))
    BY <1>11 DEF ResultsCommit, ResultsCommitFails
  <2> HIDE DEF ts
  <2>6. \A t \in ts : t \in tasks
    BY <2>1, <2>2, <2>3 DEF DataOK, WritersHoldLocks
  <2>7. /\ at'[w] = place /\ target'[w] = target[w]
        /\ \A v \in Workers : v # w => at'[v] = at[v] /\ target'[v] = target[v]
    BY <1>3, <2>5
  <2>8. /\ taskLock' \in [TaskIDs -> Workers \cup {Nobody, Abandoned}]
        /\ LocksOnRows' /\ WritersHoldLocks'
    BY <1>8, <2>3, <2>4, <2>5
  <2>10. ResultsStay
    BY <2>4 DEF ResultsStay
  <2>11. WrittenIsThere'
    <3> SUFFICES ASSUME NEW v \in Workers, NEW t \in tasks,
                        at'[v] = "stored", JobOf[t] = target'[v]
                 PROVE  t \in results'
      BY <2>4 DEF WrittenIsThere
    <3>1. CASE v = w
      <4>1. t \in TaskIDs /\ results' = results \cup ts
        BY <2>4, <2>5, <2>7, <3>1 DEF DataOK, DataTypes
      <4> QED
        BY <2>1, <2>7, <3>1, <4>1
    <3>2. CASE v # w
      <4>1. t \in results
        BY <2>7, <3>2 DEF DataOK, WrittenIsThere
      <4> QED
        BY <2>4, <4>1
    <3> QED
      BY <3>1, <3>2
  <2>12. ReadIsThere'
    BY <1>1, <1>2, <2>10, PartsStay DEF DataOK
  <2>13. DataTypes'
    BY <1>1, <2>2, <2>4, <2>6, <2>8 DEF DataOK, DataTypes
  <2>14. TasksGoWithJobs' /\ CompletedHaveVariants'
    BY <2>4 DEF DataOK, TasksGoWithJobs, CompletedHaveVariants
  <2> QED
    BY <2>8, <2>11, <2>12, <2>13, <2>14 DEF DataOK
<1>12. CASE UpdateJob(w) \/ UpdateJobFails(w)
  <2>1. /\ Go(w, "idle", NoJob) /\ UNCHANGED <<tasks, results, taskLock>>
        /\ at[w] \in {"stored", "failing", "working"}
    BY <1>12, UpdateEffect
  <2>2. LocksStay /\ ResultsStay /\ LocksOnRows'
    BY <2>1 DEF LocksStay, ResultsStay, DataOK, LocksOnRows
  <2>3. CASE UNCHANGED <<status, locked, reason>>
    <3>1. UNCHANGED db
      BY <2>1, <2>3 DEF db
    <3>2. DataTypes'
      BY <1>5, <2>1, <3>1 DEF DataOK, DataTypes
    <3> QED
      BY <1>4, <1>5, <2>1, <2>2, <3>1, <3>2
  <2>4. CASE /\ Stored(target[w]) /\ target[w] \in JobIDs
             /\ \E s \in {"pending", "completed", "failed"}, r \in Reasons \cup {NoReason} :
                  /\ status' = [status EXCEPT ![target[w]] = s]
                  /\ locked' = [locked EXCEPT ![target[w]] = FALSE]
                  /\ reason' = [reason EXCEPT ![target[w]] = r]
                  /\ s = "completed" => at[w] = "stored"
    <3>1. PICK s \in {"pending", "completed", "failed"}, r \in Reasons \cup {NoReason} :
            /\ status' = [status EXCEPT ![target[w]] = s]
            /\ locked' = [locked EXCEPT ![target[w]] = FALSE]
            /\ reason' = [reason EXCEPT ![target[w]] = r]
            /\ s = "completed" => at[w] = "stored"
      BY <2>4
    <3>2. \A i \in JobIDs : status'[i] = IF i = target[w] THEN s ELSE status[i]
      BY <3>1 DEF RowsOK
    <3>3. DataTypes'
      BY <1>1, <2>1, <2>4, <3>1 DEF DataOK, DataTypes
    <3>4. CompletedHaveVariants'
      <4> SUFFICES ASSUME NEW t \in tasks, status'[JobOf[t]] = "completed"
                   PROVE  t \in results
        BY <2>1 DEF CompletedHaveVariants
      <4>1. JobOf[t] \in JobIDs
        BY TasksHaveJobs DEF DataOK, DataTypes
      <4>2. CASE JobOf[t] = target[w]
        <5>1. at[w] = "stored"
          BY <3>1, <3>2, <4>1, <4>2
        <5> QED
          BY <4>2, <5>1 DEF DataOK, WrittenIsThere
      <4>3. CASE JobOf[t] # target[w]
        BY <3>2, <4>1, <4>3 DEF DataOK, CompletedHaveVariants
      <4> QED
        BY <4>2, <4>3
    <3>5. TasksGoWithJobs'
      BY <2>1, <2>4, <3>2, TasksHaveJobs DEF Stored, DataOK, TasksGoWithJobs
    <3> QED
      BY <1>4, <2>1, <2>2, <3>3, <3>4, <3>5
  <2> QED
    BY <1>12, <2>3, <2>4, UpdateEffect
<1> QED
  BY <1>6, <1>7, <1>9, <1>10, <1>11, <1>12 DEF WorkerStep, Acquire, WorkOn, Results

\* So a completed job has its variants as long as it exists.
LEMMA DataInductive ==
    ASSUME CallersOK, CopiesOK, RowsOK, DataOK, Next
    PROVE  DataOK'
<1>1. ASSUME NEW i \in Instances, ListenerStep(i) PROVE DataOK'
  <2>1. UNCHANGED <<status, locked, reason, tasks, results, taskLock, at, target, answer>>
    BY <1>1 DEF ListenerStep, Listen, ListenerBreaks, Deliver, Receive, locks, db
  <2>2. DataTypes' /\ LocksOnRows' /\ TasksGoWithJobs' /\ CompletedHaveVariants'
    BY <2>1 DEF DataOK, DataTypes, LocksOnRows, TasksGoWithJobs, CompletedHaveVariants
  <2>3. LocksStay /\ ResultsStay
    BY <2>1 DEF LocksStay, ResultsStay
  <2> QED
    BY <2>1, <2>2, <2>3, PartsStay DEF DataOK
<1> QED
  BY <1>1, HandlerData, WorkerData, NextIs

-----------------------------------------------------------------------------
(* What GetJob returns.                                                    *)

\* No job will ever be stored under this id again.
Gone(j) == /\ ~Stored(j) /\ j \notin unused
           /\ \A h \in Handlers : at[h] = "create" => target[h] # j

AnswersOK ==
    /\ \A h \in Handlers : answer[h].read # "incomplete"
    /\ \A h \in Handlers : at[h] = "get" =>
         answer[h] \in {NoAnswer, [read |-> "completed", of |-> target[h]]}
    /\ \A h \in Handlers : answer[h].read = "no tasks" =>
         answer[h].of \in JobIDs /\ Gone(answer[h].of)

\* Only a creation makes a row, and only of an id that was never used.
LEMMA GoneStays ==
    ASSUME CallersOK, CopiesOK, RowsOK, Next, NEW j \in JobIDs, Gone(j)
    PROVE  Gone(j)'
<1> USE DEF Gone, Stored
<1>1. ASSUME NEW h \in Handlers, HandlerStep(h) PROVE Gone(j)'
  <2>0. h \in Callers /\ Handlers \subseteq Callers
    BY DEF Callers
  <2>1. PICK place \in {"idle", "create", "notify", "get"}, k \in JobIDs \cup {NoJob} :
          Go(h, place, k)
    BY <1>1, HandlerMoves DEF RowsOK
  <2>2. /\ at'[h] = place /\ target'[h] = k
        /\ \A g \in Handlers : g # h => at'[g] = at[g] /\ target'[g] = target[g]
    BY <2>0, <2>1, MovesAlone
  <2>3. /\ at'[h] = "create" => target'[h] # j
        /\ unused' \subseteq unused
    <3>1. CASE CreateBegin(h)
      <4>1. PICK i \in unused : Go(h, "create", i) /\ unused' = unused \ {i}
        BY <3>1 DEF CreateBegin
      <4>2. target'[h] = i
        BY <2>0, <4>1, MovesAlone
      <4> QED
        BY <4>1, <4>2
    <3>2. CASE Create(h) \/ GetRow(h) \/ GetTasks(h)
      <4>1. unused' = unused /\ \E p \in {"idle", "notify", "get"} : \E i : Go(h, p, i)
        BY <3>2 DEF Create, CreateCommit, CreateFails, CreateNotify, GetRow, GetTasks
      <4>2. at'[h] # "create"
        BY <2>0, <4>1, MovesAlone
      <4> QED
        BY <4>1, <4>2
    <3>3. CASE DeleteJob(h) \/ ReleaseJobs(h)
      BY <3>3 DEF DeleteJob, ReleaseJobs
    <3> QED
      BY <1>1, <3>1, <3>2, <3>3 DEF HandlerStep
  <2>4. status'[j] = "absent"
    <3>1. CASE CreateCommit(h) \/ CreateFails(h)
      <4>1. at[h] = "create"
        BY <3>1 DEF CreateCommit, CreateFails
      <4>2. status' = status \/ status' = [status EXCEPT ![target[h]] = "pending"]
        BY <3>1 DEF CreateCommit, CreateFails, Insert, db
      <4> QED
        BY <4>1, <4>2 DEF RowsOK
    <3>2. CASE DeleteJob(h)
      BY <3>2 DEF DeleteJob, RowsOK
    <3>3. CASE ReleaseJobs(h)
      <4>1. PICK expired \in SUBSET {i \in JobIDs : status[i] = "processing" /\ locked[i]} :
              status' = [i \in JobIDs |-> IF i \in expired THEN "pending" ELSE status[i]]
        BY <3>3, Zenon DEF ReleaseJobs
      <4>2. j \notin expired
        OBVIOUS
      <4> QED
        BY <4>1, <4>2
    <3>4. CASE CreateBegin(h) \/ CreateNotify(h) \/ GetRow(h) \/ GetTasks(h)
      BY <3>4 DEF CreateBegin, CreateNotify, GetRow, GetTasks, db
    <3> QED
      BY <1>1, <3>1, <3>2, <3>3, <3>4 DEF HandlerStep, Create
  <2> QED
    BY <2>2, <2>3, <2>4
<1>2. ASSUME NEW w \in Workers, WorkerStep(w) PROVE Gone(j)'
  <2>1. \A h \in Handlers : at'[h] = at[h] /\ target'[h] = target[h]
    <3>1. w \in Callers /\ \A h \in Handlers : h \in Callers /\ h # w
      BY PostgresAssumption DEF Callers
    <3>2. PICK place, k : Go(w, place, k)
      BY <1>2, WorkerMoves
    <3> QED
      BY <3>1, <3>2, MovesAlone
  <2>2. unused' = unused
    BY <1>2, UpdateEffect
    DEF WorkerStep, AcquireBegin, Acquire, AcquireSelect, AcquireNothing, AcquireLookup,
        AcquireCommit, AcquireFails, WorkOn, ResultsBegin, Results, ResultsWrite, ResultsMissing,
        ResultsFails, ResultsDeadlock, ResultsCommit, ResultsCommitFails
  <2>3. status'[j] = "absent"
    <3>1. CASE AcquireCommit(w) \/ AcquireFails(w)
      <4>1. \/ status' = status
            \/ at[w] = "acquire commit" /\ status' = [status EXCEPT ![target[w]] = "processing"]
        BY <3>1 DEF AcquireCommit, AcquireFails, Lock, db
      <4>2. at[w] = "acquire commit" => status[target[w]] = "pending"
        BY DEF RowsOK, Locking
      <4> QED
        BY <4>1, <4>2 DEF RowsOK
    <3>2. CASE UpdateJob(w) \/ UpdateJobFails(w)
      <4>1. status' = status \/ (Stored(target[w]) /\ \E x : status' = [status EXCEPT ![target[w]] = x])
        BY <3>2, UpdateEffect
      <4> QED
        BY <4>1 DEF RowsOK
    <3>3. CASE ResultsCommit(w) \/ ResultsCommitFails(w)
      BY <3>3 DEF ResultsCommit, ResultsCommitFails, StoreResults, db
    <3>4. CASE \/ AcquireBegin(w) \/ AcquireSelect(w) \/ AcquireNothing(w) \/ AcquireLookup(w)
               \/ ResultsBegin(w) \/ ResultsWrite(w) \/ ResultsMissing(w) \/ ResultsFails(w)
               \/ ResultsDeadlock(w)
      BY <3>4 DEF AcquireBegin, AcquireSelect, AcquireNothing, AcquireLookup, ResultsBegin,
                  ResultsWrite, ResultsMissing, ResultsFails, ResultsDeadlock, db
    <3> QED
      BY <1>2, <3>1, <3>2, <3>3, <3>4 DEF WorkerStep, Acquire, WorkOn, Results
  <2> QED
    BY <2>1, <2>2, <2>3
<1>3. ASSUME NEW i \in Instances, ListenerStep(i) PROVE Gone(j)'
  BY <1>3 DEF ListenerStep, Listen, ListenerBreaks, Deliver, Receive, db
<1> QED
  BY <1>1, <1>2, <1>3, NextIs

\* So no answer shows some tasks of a completed job, and one without any is about
\* a job that is gone.
LEMMA AnswersInductive ==
    ASSUME CallersOK, CopiesOK, RowsOK, DataOK, AnswersOK, Next
    PROVE  AnswersOK'
<1>1. \A j \in JobIDs : Gone(j) => Gone(j)'
  BY GoneStays
<1>2. ASSUME answer' = answer,
             \A h \in Handlers : at'[h] = "get" => at[h] = "get" /\ target'[h] = target[h]
      PROVE  AnswersOK'
  <2>1. ASSUME NEW h \in Handlers, answer'[h].read = "no tasks"
        PROVE  (answer[h].of \in JobIDs /\ Gone(answer[h].of))'
    <3> PICK j : j = answer[h].of
      OBVIOUS
    <3>1. j \in JobIDs /\ Gone(j)
      BY <1>2, <2>1 DEF AnswersOK
    <3>2. Gone(j)'
      BY <1>1, <3>1
    <3> QED
      BY <1>2, <3>1, <3>2 DEF Gone, Stored
  <2> QED
    BY <1>2, <2>1 DEF AnswersOK
<1>3. ASSUME NEW h \in Handlers, HandlerStep(h) PROVE AnswersOK'
  <2>0. h \in Callers /\ Handlers \subseteq Callers
    BY DEF Callers
  <2>1. ASSUME NEW place, NEW k, Go(h, place, k)
        PROVE  /\ at'[h] = place /\ target'[h] = k
               /\ \A g \in Handlers : g # h => at'[g] = at[g] /\ target'[g] = target[g]
    BY <2>0, <2>1, MovesAlone
  <2>2. ASSUME NEW place, NEW k, Go(h, place, k), NEW new, answer' = [answer EXCEPT ![h] = new],
               new.read # "incomplete",
               place = "get" => new \in {NoAnswer, [read |-> "completed", of |-> k]},
               new.read = "no tasks" => \E j \in JobIDs : new.of = j /\ Gone(j)'
        PROVE  AnswersOK'
    <3>1. answer'[h] = new /\ \A g \in Handlers : g # h => answer'[g] = answer[g]
      BY <2>2 DEF DataOK, DataTypes
    <3>2. /\ at'[h] = place /\ target'[h] = k
          /\ \A g \in Handlers : g # h => at'[g] = at[g] /\ target'[g] = target[g]
      BY <2>1, <2>2
    <3>3. \A g \in Handlers : answer'[g].read # "incomplete"
      BY <2>2, <3>1 DEF AnswersOK
    <3>4. \A g \in Handlers : at'[g] = "get" =>
            answer'[g] \in {NoAnswer, [read |-> "completed", of |-> target'[g]]}
      BY <2>2, <3>1, <3>2 DEF AnswersOK
    <3>5. ASSUME NEW g \in Handlers, answer'[g].read = "no tasks"
          PROVE  (answer[g].of \in JobIDs /\ Gone(answer[g].of))'
      <4> PICK j : j = answer'[g].of
        OBVIOUS
      <4>1. j \in JobIDs /\ Gone(j)'
        <5>1. CASE g = h
          BY <2>2, <3>1, <3>5, <5>1
        <5>2. CASE g # h
          BY <1>1, <3>1, <3>5, <5>2 DEF AnswersOK
        <5> QED
          BY <5>1, <5>2
      <4> QED
        BY <4>1 DEF Gone, Stored
    <3> QED
      BY <3>3, <3>4, <3>5 DEF AnswersOK
  <2>3. CASE GetRow(h)
    <3>1. PICK j \in JobIDs :
            /\ answer' = [answer EXCEPT ![h] =
                 IF status[j] = "completed" THEN [read |-> "completed", of |-> j] ELSE NoAnswer]
            /\ Go(h, "get", j)
      BY <2>3 DEF GetRow
    <3>2. PICK new \in {NoAnswer, [read |-> "completed", of |-> j]} :
            answer' = [answer EXCEPT ![h] = new]
      BY <3>1
    <3>3. new.read # "incomplete" /\ new.read # "no tasks"
      <4>1. CASE new = NoAnswer
        BY <4>1 DEF NoAnswer
      <4>2. CASE new = [read |-> "completed", of |-> j]
        BY <4>2
      <4> QED
        BY <3>2, <4>1, <4>2
    <3> QED
      BY <2>2, <3>1, <3>2, <3>3
  <2>4. CASE GetTasks(h)
    <3> PICK j : j = target[h]
      OBVIOUS
    <3>1. at[h] = "get" /\ j \in JobIDs /\ Go(h, "idle", NoJob)
      BY <2>0, <2>4 DEF GetTasks, CallersOK, Elsewhere
    <3>4. ASSUME answer' = [answer EXCEPT ![h] = NoAnswer] PROVE AnswersOK'
      <4> PICK new : new = NoAnswer
        OBVIOUS
      <4>1. answer' = [answer EXCEPT ![h] = new]
        BY <3>4
      <4>2. new.read # "incomplete" /\ new.read # "no tasks"
        BY DEF NoAnswer
      <4> QED
        BY <2>2, <3>1, <4>1, <4>2
    <3>2. CASE answer[h] = NoAnswer
      <4>1. answer' = [answer EXCEPT ![h] = NoAnswer]
        BY <2>4, <3>2 DEF GetTasks
      <4> QED
        BY <3>4, <4>1
    <3>3. CASE answer[h] # NoAnswer
      <4>1. answer' = [answer EXCEPT ![h] = WithTasks(j, TasksOf(j) \cap tasks)]
        BY <2>4, <3>3 DEF GetTasks
      <4>2. \A t \in TasksOf(j) \cap tasks : t \in results
        BY <3>1, <3>3 DEF DataOK, ReadIsThere, TasksOf
      <4>3. CASE Stored(j)
        <5>1. TasksOf(j) \subseteq tasks
          BY <4>3 DEF TasksOf, Stored, DataOK, TasksGoWithJobs
        <5>2. WithTasks(j, TasksOf(j) \cap tasks) = NoAnswer
          BY <4>2, <5>1 DEF WithTasks
        <5> QED
          BY <3>4, <4>1, <5>2
      <4>4. CASE ~Stored(j)
        <5>1. TasksOf(j) \cap tasks = {}
          BY <3>1, <4>4 DEF TasksOf, Stored, DataOK, TasksGoWithJobs
        <5>2. WithTasks(j, TasksOf(j) \cap tasks) \in {NoAnswer, [read |-> "no tasks", of |-> j]}
          BY <5>1 DEF WithTasks
        <5>3. Gone(j)
          BY <2>0, <3>1, <4>4 DEF Gone, RowsOK
        <5>4. Gone(j)'
          BY <3>1, <5>3, GoneStays
        <5>5. ASSUME WithTasks(j, TasksOf(j) \cap tasks) = [read |-> "no tasks", of |-> j]
              PROVE  AnswersOK'
          <6> PICK new : new = [read |-> "no tasks", of |-> j]
            OBVIOUS
          <6>1. answer' = [answer EXCEPT ![h] = new]
            BY <4>1, <5>5
          <6>2. new.read # "incomplete" /\ new.of = j
            OBVIOUS
          <6>3. j \in JobIDs /\ Gone(j)' /\ "idle" # "get"
            BY <3>1, <5>4
          <6>4. new.read = "no tasks" => \E i \in JobIDs : new.of = i /\ Gone(i)'
            BY <6>2, <6>3
          <6>5. Go(h, "idle", NoJob)
            BY <3>1
          <6> QED
            BY <2>2, <6>1, <6>2, <6>3, <6>4, <6>5
        <5> QED
          BY <3>4, <4>1, <5>2, <5>5
      <4> QED
        BY <4>3, <4>4
    <3> QED
      BY <3>2, <3>3
  <2>5. CASE CreateBegin(h) \/ Create(h)
    <3>1. PICK place \in {"create", "notify", "idle"} : \E k : Go(h, place, k)
      BY <2>5 DEF CreateBegin, Create, CreateCommit, CreateFails, CreateNotify
    <3>2. answer' = answer
      BY <2>5 DEF CreateBegin, Create, CreateCommit, CreateFails, CreateNotify
    <3> QED
      BY <1>2, <2>1, <3>1, <3>2
  <2>6. CASE DeleteJob(h) \/ ReleaseJobs(h)
    BY <1>2, <2>6 DEF DeleteJob, ReleaseJobs
  <2> QED
    BY <1>3, <2>3, <2>4, <2>5, <2>6 DEF HandlerStep
<1>4. ASSUME NEW w \in Workers, WorkerStep(w) PROVE AnswersOK'
  <2>1. \A h \in Handlers : at'[h] = at[h] /\ target'[h] = target[h]
    <3>1. w \in Callers /\ \A h \in Handlers : h \in Callers /\ h # w
      BY PostgresAssumption DEF Callers
    <3>2. PICK place, k : Go(w, place, k)
      BY <1>4, WorkerMoves
    <3> QED
      BY <3>1, <3>2, MovesAlone
  <2>2. answer' = answer
    BY <1>4, UpdateEffect
    DEF WorkerStep, AcquireBegin, Acquire, AcquireSelect, AcquireNothing, AcquireLookup,
        AcquireCommit, AcquireFails, WorkOn, ResultsBegin, Results, ResultsWrite, ResultsMissing,
        ResultsFails, ResultsDeadlock, ResultsCommit, ResultsCommitFails
  <2> QED
    BY <1>2, <2>1, <2>2
<1>5. ASSUME NEW i \in Instances, ListenerStep(i) PROVE AnswersOK'
  BY <1>2, <1>5 DEF ListenerStep, Listen, ListenerBreaks, Deliver, Receive
<1> QED
  BY <1>3, <1>4, <1>5, NextIs

-----------------------------------------------------------------------------
(* What subscribers are told.                                              *)

NewsOK ==
    /\ mail \in [Instances -> SUBSET JobIDs]
    /\ signal \subseteq Instances
    /\ unheard \in [Instances -> SUBSET JobIDs]
    /\ PendingIsAnnounced

\* A commit that notifies sends its mail to every listener.
LEMMA NotifyNews ==
    ASSUME NewsOK, NEW newStatus, NotifyPending(newStatus)
    PROVE  NewsOK'
<1>1. Risen(newStatus) \subseteq JobIDs
  BY DEF Risen
<1>2. \A i \in Instances :
        \/ mail'[i] = mail[i] /\ unheard'[i] = unheard[i]
        \/ /\ mail'[i] = mail[i] \cup Risen(newStatus)
           /\ unheard'[i] = unheard[i] \cup Risen(newStatus)
  BY DEF NotifyPending
<1>3. mail' \in [Instances -> SUBSET JobIDs] /\ unheard' \in [Instances -> SUBSET JobIDs]
  BY <1>1 DEF NotifyPending, NewsOK
<1>4. PendingIsAnnounced'
  BY <1>2 DEF NotifyPending, NewsOK, PendingIsAnnounced
<1> QED
  BY <1>3, <1>4 DEF NotifyPending, NewsOK

\* So no pending job is forgotten where somebody listens.
LEMMA NewsInductive ==
    ASSUME CallersOK, CopiesOK, NewsOK, Next
    PROVE  NewsOK'
<1>1. ASSUME UNCHANGED news PROVE NewsOK'
  BY <1>1 DEF news, NewsOK, PendingIsAnnounced
<1>2. ASSUME NEW h \in Handlers, HandlerStep(h) PROVE NewsOK'
  <2>1. CASE CreateNotify(h)
    <3>1. mail' = mail /\ unheard' = unheard /\ signal' = signal \cup {InstanceOf[h]}
      BY <2>1 DEF CreateNotify
    <3>2. InstanceOf[h] \in Instances
      BY CallersDiffer DEF Callers
    <3> QED
      BY <3>1, <3>2 DEF NewsOK, PendingIsAnnounced
  <2>2. CASE CreateBegin(h) \/ GetRow(h) \/ GetTasks(h) \/ DeleteJob(h)
    <3>1. UNCHANGED news
      BY <2>2 DEF CreateBegin, GetRow, GetTasks, DeleteJob
    <3> QED
      BY <1>1, <3>1
  <2>3. CASE CreateCommit(h) \/ CreateFails(h) \/ ReleaseJobs(h)
    <3>1. UNCHANGED news \/ NotifyPending(status')
      BY <2>3 DEF CreateCommit, CreateFails, Insert, ReleaseJobs
    <3> QED
      BY <1>1, <3>1, NotifyNews
  <2> QED
    BY <1>2, <2>1, <2>2, <2>3 DEF HandlerStep, Create
<1>3. ASSUME NEW w \in Workers, WorkerStep(w) PROVE NewsOK'
  <2>1. UNCHANGED news \/ NotifyPending(status')
    <3>1. CASE UpdateJob(w) \/ UpdateJobFails(w)
      BY <3>1 DEF UpdateJob, UpdateJobFails, UpdateRow
    <3>2. CASE AcquireBegin(w) \/ Acquire(w)
      BY <3>2 DEF AcquireBegin, Acquire, AcquireSelect, AcquireNothing, AcquireLookup,
                  AcquireCommit, AcquireFails, Lock
    <3>3. CASE ResultsBegin(w) \/ Results(w)
      BY <3>3 DEF ResultsBegin, Results, ResultsWrite, ResultsMissing,
                  ResultsFails, ResultsDeadlock,
                  ResultsCommit, ResultsCommitFails, StoreResults
    <3> QED
      BY <1>3, <3>1, <3>2, <3>3 DEF WorkerStep, WorkOn
  <2> QED
    BY <1>1, <2>1, NotifyNews
<1>4. ASSUME NEW i \in Instances, ListenerStep(i) PROVE NewsOK'
  <2> USE DEF NewsOK, PendingIsAnnounced
  <2>1. CASE Listen(i)
    BY <1>1, <2>1 DEF Listen
  <2>2. CASE ListenerBreaks(i)
    BY <2>2 DEF ListenerBreaks
  <2>3. CASE Deliver(i)
    BY <2>3 DEF Deliver
  <2>4. CASE Receive(i)
    BY <2>4 DEF Receive
  <2> QED
    BY <1>4, <2>1, <2>2, <2>3, <2>4 DEF ListenerStep
<1> QED
  BY <1>2, <1>3, <1>4, NextIs

-----------------------------------------------------------------------------
(* The invariant.                                                          *)

IInv == CallersOK /\ ConnsOK /\ CopiesOK /\ RowsOK /\ DataOK /\ AnswersOK /\ NewsOK

\* All layers hold before anything happens.
LEMMA InitIInv == Init => IInv
<1> SUFFICES ASSUME Init PROVE IInv
  OBVIOUS
<1> USE PostgresAssumption DEF Init
<1>1. CallersOK
  BY DEF CallersOK, Places, Elsewhere, Callers
<1>2. ConnsOK
  <2>1. \A i \in Instances : OpenOf(i) = {}
    BY DEF OpenOf, Open, InCall
  <2>2. \A i \in Instances : OpenTransactions(i) = 0
    BY <2>1, OpenCounted, FS_EmptySet
  <2> QED
    BY <2>2 DEF ConnsOK, ConnectionsAccounted
<1>3. CopiesOK
  BY DEF CopiesOK, Holding, Callers
<1>4. RowsOK
  BY DEF RowsOK, LocksEnd, Callers, Locking
<1>5. DataOK
  BY DEF DataOK, DataTypes, LocksOnRows, TasksGoWithJobs, CompletedHaveVariants, WritersHoldLocks,
         WrittenIsThere, ReadIsThere, Callers, Answers, NoAnswer
<1>6. AnswersOK
  BY DEF AnswersOK, NoAnswer, Callers
<1>7. NewsOK
  BY DEF NewsOK, PendingIsAnnounced
<1> QED
  BY <1>1, <1>2, <1>3, <1>4, <1>5, <1>6, <1>7 DEF IInv

\* Every step keeps all layers.
LEMMA NextIInv ==
    ASSUME IInv, [Next]_vars
    PROVE  IInv'
<1>1. CASE Next
  <2>1. CallersOK'
    BY <1>1, CallersInductive DEF IInv, RowsOK
  <2> QED
    BY <1>1, <2>1, ConnsInductive, CopiesInductive, RowsInductive, DataInductive,
       AnswersInductive, NewsInductive
    DEF IInv
<1>2. CASE UNCHANGED vars
  <2> USE <1>2 DEF vars, db, locks, news, IInv
  <2>1. CallersOK'
    BY DEF CallersOK
  <2>2. ConnsOK'
    BY DEF ConnsOK, ConnectionsAccounted, OpenTransactions, InCall
  <2>3. CopiesOK'
    BY DEF CopiesOK
  <2>4. RowsOK'
    <3>1. LocksEnd'
      BY DEF RowsOK, LocksEnd
    <3> QED
      BY <3>1 DEF RowsOK
  <2>5. DataOK'
    BY DEF DataOK, DataTypes, LocksOnRows, TasksGoWithJobs, CompletedHaveVariants,
           WritersHoldLocks, WrittenIsThere, ReadIsThere
  <2>6. AnswersOK'
    BY DEF AnswersOK, Gone, Stored
  <2>7. NewsOK'
    BY DEF NewsOK, PendingIsAnnounced
  <2> QED
    BY <2>1, <2>2, <2>3, <2>4, <2>5, <2>6, <2>7
<1> QED
  BY <1>1, <1>2

\* The layers hold in every state of every behaviour.
LEMMA Invariance == Spec => []IInv
  BY InitIInv, NextIInv, PTL DEF Spec

\* Every state is one of those TypeOK describes: no pool hands out, or loses, more
\* connections than it has (postgres.go:49-53, 268-305, 348-375).
THEOREM TypeCorrect == Spec => []TypeOK
<1>1. IInv => TypeOK
  <2> SUFFICES ASSUME IInv PROVE TypeOK
    OBVIOUS
  <2>1. \A i \in Instances : free[i] \in 0 .. MaxConns /\ leaked[i] \in 0 .. MaxConns
    BY OpenCounted, PostgresAssumption DEF IInv, ConnsOK, ConnectionsAccounted
  <2>2. free \in [Instances -> 0 .. MaxConns] /\ leaked \in [Instances -> 0 .. MaxConns]
    BY <2>1 DEF IInv, ConnsOK
  <2> QED
    BY <2>2 DEF TypeOK, IInv, CallersOK, CopiesOK, RowsOK, DataOK, DataTypes, NewsOK
<1> QED
  BY <1>1, Invariance, PTL

\* No error path and no early return of a transaction keeps a connection, but the
\* two of UpdateTasks that the bookkeeping names (postgres.go:49-375).
THEOREM ConnectionsNotLost == Spec => []ConnectionsAccounted
<1>1. IInv => ConnectionsAccounted
  BY DEF IInv, ConnsOK
<1> QED
  BY <1>1, Invariance, PTL

\* A locked row of jobs belongs to an AcquireJob that still runs
\* (postgres.go:129-182).
THEOREM RowLocksEnd == Spec => []LocksEnd
<1>1. IInv => LocksEnd
  BY DEF IInv, RowsOK
<1> QED
  BY <1>1, Invariance, PTL

\* The two statements of GetJob show a completed job with the variants of all its
\* tasks, or, when it was deleted in between, without any task; a job of which that
\* was said is never stored again (postgres.go:86-127, 268-305, 386-455).
THEOREM CompletedReadComplete == Spec => []CompletedIsComplete
<1>1. IInv => CompletedIsComplete
  BY DEF IInv, AnswersOK, Gone, CompletedIsComplete
<1> QED
  BY <1>1, Invariance, PTL

\* No job that became pending while an instance listened is forgotten there
\* (postgres.go:367-379, 524-535; migrations.go:76-103).
THEOREM AnnouncementsKept == Spec => []PendingIsAnnounced
<1>1. IInv => PendingIsAnnounced
  BY DEF IInv, NewsOK
<1> QED
  BY <1>1, Invariance, PTL
-----------------------------------------------------------------------------
(* One owner for each job, when no lease sweep takes jobs away.            *)

\* A worker that is about a job is acquiring it, or has it.
OwnerOK ==
    /\ \A v, w \in Workers : target[v] # NoJob /\ target[v] = target[w] => v = w
    /\ \A w \in Workers : at[w] \in Holding => status[target[w]] \in {"processing", "absent"}

\* A worker that is about a job is acquiring it or holds it.
LEMMA BusyWorkers ==
    ASSUME CallersOK, NEW w \in Workers, target[w] # NoJob
    PROVE  at[w] \in Locking \cup Holding /\ target[w] \in JobIDs
<1>1. w \in Callers /\ at[w] \in Places /\ at[w] \notin {"create", "notify", "get"}
  BY DEF CallersOK, Callers
<1>2. at[w] \notin Elsewhere
  BY <1>1 DEF CallersOK
<1> QED
  BY <1>1, <1>2 DEF Places, Elsewhere, Locking, Holding, CallersOK

\* A worker that holds a job is about it.
LEMMA HoldersHaveTargets ==
    ASSUME CallersOK, NEW w \in Workers, at[w] \in Holding
    PROVE  target[w] \in JobIDs /\ target[w] # NoJob
<1>1. w \in Callers /\ at[w] \notin Elsewhere
  BY DEF Callers, Holding, Elsewhere
<1> QED
  BY <1>1, PostgresAssumption DEF CallersOK

\* A step that starts nothing new with a job keeps the owners.
LEMMA OwnersStay ==
    ASSUME CallersOK, OwnerOK,
           \A w \in Workers : target'[w] \in {target[w], NoJob},
           \A w \in Workers : at'[w] \in Holding =>
             target'[w] = target[w] /\ status'[target[w]] \in {"processing", "absent"}
    PROVE  OwnerOK'
  BY DEF OwnerOK

\* Without sweeps no handler gives a worker's job to another one.
LEMMA HandlerOwners ==
    ASSUME CallersOK, RowsOK, OwnerOK, ~LeaseSweeps, NEW h \in Handlers, HandlerStep(h)
    PROVE  OwnerOK'
<1>1. \A w \in Workers : at'[w] = at[w] /\ target'[w] = target[w]
  <2>1. PICK place, j : Go(h, place, j)
    BY HandlerMoves DEF RowsOK
  <2>2. h \in Callers /\ \A w \in Workers : w \in Callers /\ w # h
    BY PostgresAssumption DEF Callers
  <2> QED
    BY <2>1, <2>2, MovesAlone
<1>2. ~ReleaseJobs(h)
  BY DEF ReleaseJobs
<1>3. SUFFICES \A w \in Workers : at[w] \in Holding =>
                 status'[target[w]] \in {"processing", "absent"}
  BY <1>1, OwnersStay
<1>4. \A w \in Workers : at[w] \in Holding =>
        target[w] \in JobIDs /\ status[target[w]] \in {"processing", "absent"}
  BY HoldersHaveTargets DEF OwnerOK
<1>5. CASE CreateCommit(h) \/ CreateFails(h)
  <2>1. /\ at[h] = "create"
        /\ UNCHANGED status \/ status' = [status EXCEPT ![target[h]] = "pending"]
    BY <1>5 DEF CreateCommit, CreateFails, Insert, db
  <2>2. \A w \in Workers : w \in Callers /\ w # h
    BY PostgresAssumption DEF Callers
  <2>3. \A w \in Workers : target[w] # target[h]
    BY <2>1, <2>2 DEF RowsOK
  <2>4. \A w \in Workers : target[w] \in JobIDs => status'[target[w]] = status[target[w]]
    BY <2>1, <2>3 DEF RowsOK
  <2> QED
    BY <1>4, <2>4
<1>6. CASE DeleteJob(h)
  <2>1. PICK j \in JobIDs : status' = [status EXCEPT ![j] = "absent"]
    BY <1>6 DEF DeleteJob
  <2>2. \A i \in JobIDs : status'[i] = status[i] \/ status'[i] = "absent"
    BY <2>1 DEF RowsOK
  <2> QED
    BY <1>4, <2>2
<1>7. CASE CreateBegin(h) \/ CreateNotify(h) \/ GetRow(h) \/ GetTasks(h)
  <2>1. status' = status
    BY <1>7 DEF CreateBegin, CreateNotify, GetRow, GetTasks, db
  <2> QED
    BY <1>4, <2>1
<1> QED
  BY <1>2, <1>5, <1>6, <1>7 DEF HandlerStep, Create

\* A worker selects no row that is locked or in processing.
LEMMA WorkerOwners ==
    ASSUME CallersOK, CopiesOK, RowsOK, OwnerOK, NEW w \in Workers, WorkerStep(w)
    PROVE  OwnerOK'
<1>1. /\ w \in Callers
      /\ \A v \in Workers : v \in Callers /\ v # Nobody
  BY PostgresAssumption DEF Callers
<1>2. ASSUME NEW place, NEW j, Go(w, place, j)
      PROVE  /\ at'[w] = place /\ target'[w] = j
             /\ \A v \in Workers : v # w => at'[v] = at[v] /\ target'[v] = target[v]
  BY <1>1, <1>2, MovesAlone
<1>3. \A v \in Workers : at[v] \in Holding =>
        /\ target[v] \in JobIDs /\ target[v] # NoJob
        /\ status[target[v]] \in {"processing", "absent"}
  BY HoldersHaveTargets DEF OwnerOK
<1>4. ASSUME NEW place, NEW j \in {target[w], NoJob}, Go(w, place, j),
             place \in Holding =>
               j = target[w] /\ status'[target[w]] \in {"processing", "absent"},
             \A i \in JobIDs : i # target[w] => status'[i] = status[i]
      PROVE  OwnerOK'
  <2>1. \A v \in Workers : target'[v] \in {target[v], NoJob}
    BY <1>2, <1>4
  <2>2. ASSUME NEW v \in Workers, at'[v] \in Holding
        PROVE  target'[v] = target[v] /\ status'[target[v]] \in {"processing", "absent"}
    <3>1. CASE v = w
      BY <1>2, <1>4, <2>2, <3>1
    <3>2. CASE v # w
      <4>1. at[v] \in Holding /\ target'[v] = target[v]
        BY <1>2, <1>4, <2>2, <3>2
      <4>2. target[v] # target[w]
        BY <1>3, <3>2, <4>1 DEF OwnerOK
      <4> QED
        BY <1>3, <1>4, <4>1, <4>2
    <3> QED
      BY <3>1, <3>2
  <2> QED
    BY <2>1, <2>2, OwnersStay
<1>5. CASE AcquireSelect(w)
  <2>1. PICK j \in Selectable : Go(w, "lookup", j)
    BY <1>5 DEF AcquireSelect, OldestSelectable
  <2>2. j \in JobIDs /\ status[j] = "pending" /\ rowLock[j] = Nobody
    BY DEF Selectable
  <2>3. status' = status
    BY <1>5 DEF AcquireSelect, db
  <2>4. ASSUME NEW v \in Workers, target[v] = j PROVE FALSE
    <3>1. at[v] \in Locking \cup Holding
      BY <2>2, <2>4, BusyWorkers, PostgresAssumption
    <3>2. CASE at[v] \in Locking
      BY <1>1, <2>2, <2>4, <3>2 DEF RowsOK
    <3>3. CASE at[v] \in Holding
      BY <1>3, <2>2, <2>4, <3>3
    <3> QED
      BY <3>1, <3>2, <3>3
  <2>5. /\ at'[w] = "lookup" /\ target'[w] = j
        /\ \A v \in Workers : v # w => at'[v] = at[v] /\ target'[v] = target[v]
    BY <1>2, <2>1
  <2>6. \A u, v \in Workers : target'[u] # NoJob /\ target'[u] = target'[v] => u = v
    BY <2>4, <2>5 DEF OwnerOK
  <2>7. \A v \in Workers : at'[v] \in Holding => status'[target'[v]] \in {"processing", "absent"}
    BY <1>3, <2>3, <2>5 DEF Holding
  <2> QED
    BY <2>6, <2>7 DEF OwnerOK
<1>6. CASE AcquireBegin(w) \/ AcquireNothing(w) \/ AcquireLookup(w)
  <2>1. PICK place \in {"idle", "acquire", "acquire commit"}, j \in {target[w], NoJob} :
          Go(w, place, j)
    BY <1>6 DEF AcquireBegin, AcquireNothing, AcquireLookup
  <2>2. status' = status
    BY <1>6 DEF AcquireBegin, AcquireNothing, AcquireLookup, db
  <2>3. place \notin Holding
    BY <2>1 DEF Holding
  <2> QED
    BY <1>4, <2>1, <2>2, <2>3
<1>7. CASE AcquireCommit(w) \/ AcquireFails(w)
  <2>1. \/ Go(w, "idle", NoJob)
        \/ Go(w, "working", target[w]) /\ status' = [status EXCEPT ![target[w]] = "processing"]
           /\ at[w] = "acquire commit"
    BY <1>7 DEF AcquireCommit, AcquireFails, Lock
  <2>2. \/ status' = status
        \/ status' = [status EXCEPT ![target[w]] = "processing"]
    BY <1>7 DEF AcquireCommit, AcquireFails, Lock, db
  <2>3. \A i \in JobIDs : i # target[w] => status'[i] = status[i]
    BY <2>2 DEF RowsOK
  <2>4. CASE Go(w, "idle", NoJob)
    <3>1. "idle" \notin Holding
      BY DEF Holding
    <3> QED
      BY <1>4, <2>3, <2>4, <3>1
  <2>5. CASE Go(w, "working", target[w]) /\ at[w] = "acquire commit"
             /\ status' = [status EXCEPT ![target[w]] = "processing"]
    <3>1. target[w] \in JobIDs
      BY <2>5, LockersHaveTargets DEF Locking
    <3>2. status'[target[w]] = "processing"
      BY <2>5, <3>1 DEF RowsOK
    <3> QED
      BY <1>4, <2>3, <2>5, <3>2
  <2> QED
    BY <2>1, <2>4, <2>5
<1>8. CASE ResultsBegin(w) \/ Results(w)
  <2>1. PICK place \in Holding : Go(w, place, target[w])
    BY <1>8 DEF ResultsBegin, Results, ResultsWrite, ResultsMissing, ResultsFails, ResultsDeadlock,
                ResultsCommit, ResultsCommitFails, Holding
  <2>2. at[w] \in Holding
    BY <1>8 DEF ResultsBegin, Results, ResultsWrite, ResultsMissing, ResultsFails, ResultsDeadlock,
                ResultsCommit, ResultsCommitFails, Holding
  <2>3. status' = status
    BY <1>8 DEF ResultsBegin, Results, ResultsWrite, ResultsMissing, ResultsFails, ResultsDeadlock,
                ResultsCommit, ResultsCommitFails, StoreResults, db
  <2> QED
    BY <1>3, <1>4, <2>1, <2>2, <2>3
<1>9. CASE UpdateJob(w) \/ UpdateJobFails(w)
  <2>1. Go(w, "idle", NoJob)
    BY <1>9, UpdateEffect
  <2>2. \/ status' = status
        \/ \E s : status' = [status EXCEPT ![target[w]] = s]
    BY <1>9, UpdateEffect
  <2>3. \A i \in JobIDs : i # target[w] => status'[i] = status[i]
    BY <2>2 DEF RowsOK
  <2>4. "idle" \notin Holding
    BY DEF Holding
  <2> QED
    BY <1>4, <2>1, <2>3, <2>4
<1> QED
  BY <1>5, <1>6, <1>7, <1>8, <1>9 DEF WorkerStep, Acquire, WorkOn

\* So without sweeps a job has one owner in all states.
LEMMA OwnersInvariance ==
    ASSUME ~LeaseSweeps
    PROVE  Spec => []OwnerOK
<1>1. Init => OwnerOK
  BY DEF Init, OwnerOK, Holding, Callers
<1>2. ASSUME IInv, OwnerOK, [Next]_vars PROVE OwnerOK'
  <2>1. ASSUME NEW i \in Instances, ListenerStep(i) PROVE OwnerOK'
    <3>1. UNCHANGED <<at, target, status>>
      BY <2>1 DEF ListenerStep, Listen, ListenerBreaks, Deliver, Receive, db
    <3> QED
      BY <1>2, <3>1 DEF OwnerOK
  <2>2. CASE UNCHANGED vars
    BY <1>2, <2>2 DEF vars, db, OwnerOK
  <2> QED
    BY <1>2, <2>1, <2>2, HandlerOwners, WorkerOwners, NextIs DEF IInv
<1> QED
  BY <1>1, <1>2, Invariance, PTL DEF Spec

\* As long as nobody sweeps leases, no two workers, of any processes, are about the
\* same job, whatever fails and whatever is deleted (postgres.go:129-182).
THEOREM OneOwner ==
    ASSUME ~LeaseSweeps
    PROVE  Spec => []AcquiredByOne
<1>1. IInv /\ OwnerOK => AcquiredByOne
  <2> SUFFICES ASSUME IInv, OwnerOK PROVE AcquiredByOne
    OBVIOUS
  <2>1. \A w \in Workers : copy[w] # NoCopy => at[w] \in Holding /\ copy[w] = CopyOf(target[w])
    BY DEF IInv, CopiesOK
  <2>2. ASSUME NEW w \in Workers, copy[w] # NoCopy
        PROVE  status[copy[w].id] \in {"processing", "absent"}
    <3>1. at[w] \in Holding /\ copy[w] = CopyOf(target[w])
      BY <2>1, <2>2
    <3>2. copy[w].id = target[w]
      BY <3>1 DEF CopyOf
    <3> QED
      BY <3>1, <3>2 DEF OwnerOK
  <2> QED
    BY <2>2 DEF AcquiredByOne, OwnerOK
<1> QED
  BY <1>1, Invariance, OwnersInvariance, PTL

-----------------------------------------------------------------------------
(* The life of a job.                                                      *)

ResultOf == [t \in TaskIDs |-> IF t \in results THEN 1 ELSE 0]

\* A row that changes its status is a move of the abstract life.
LEMMA RowMovesOn ==
    ASSUME RowsOK, NEW j \in JobIDs, NEW from, NEW to, status[j] = from,
           status' = [status EXCEPT ![j] = to], results' = results
    PROVE  Lifecycle!Move(j, from, to)
  BY DEF Lifecycle!Move

\* Commits of handlers are creations and deletions of the abstract life.
LEMMA HandlerLives ==
    ASSUME CallersOK, RowsOK, DataOK, ~LeaseSweeps, NEW h \in Handlers, HandlerStep(h)
    PROVE  Lifecycle!LifecycleNext \/ UNCHANGED <<status, results>>
<1>1. CASE CreateCommit(h) \/ CreateFails(h)
  <2>1. at[h] = "create" /\ (UNCHANGED <<status, results>> \/ Insert(target[h]))
    BY <1>1 DEF CreateCommit, CreateFails, db
  <2>2. CASE Insert(target[h])
    <3>1. h \in Callers /\ at[h] \notin Elsewhere
      BY <2>1 DEF Callers, Elsewhere
    <3>2. target[h] \in JobIDs /\ status[target[h]] = "absent"
      BY <2>1, <3>1 DEF CallersOK, RowsOK
    <3>3. status' = [status EXCEPT ![target[h]] = "pending"] /\ results' = results
      BY <2>2 DEF Insert
    <3>4. Lifecycle!Move(target[h], "absent", "pending")
      BY <3>2, <3>3, RowMovesOn
    <3> QED
      BY <3>2, <3>4 DEF Lifecycle!LifecycleNext
  <2> QED
    BY <2>1, <2>2
<1>2. CASE CreateBegin(h) \/ CreateNotify(h) \/ GetRow(h) \/ GetTasks(h)
  BY <1>2 DEF CreateBegin, CreateNotify, GetRow, GetTasks, db
<1>3. CASE DeleteJob(h)
  <2>1. PICK j \in JobIDs :
          /\ Stored(j)
          /\ status' = [status EXCEPT ![j] = "absent"]
          /\ results' = results \ TasksOf(j)
    BY <1>3 DEF DeleteJob
  <2>2. ResultOf' = [t \in TaskIDs |-> IF JobOf[t] = j THEN 0 ELSE ResultOf[t]]
    BY <2>1 DEF ResultOf, TasksOf
  <2>3. Lifecycle!Delete(j)
    BY <1>3, <2>1, <2>2 DEF DeleteJob, Stored, ResultOf, Lifecycle!Delete
  <2> QED
    BY <2>1, <2>3 DEF Lifecycle!LifecycleNext
<1>4. ~ReleaseJobs(h)
  BY DEF ReleaseJobs
<1> QED
  BY <1>1, <1>2, <1>3, <1>4 DEF HandlerStep, Create

\* Commits of workers are the other steps of the abstract life.
LEMMA WorkerLives ==
    ASSUME CallersOK, CopiesOK, RowsOK, DataOK, OwnerOK, NEW w \in Workers, WorkerStep(w)
    PROVE  Lifecycle!LifecycleNext \/ UNCHANGED <<status, results>>
<1>1. CASE AcquireCommit(w) \/ AcquireFails(w)
  <2>1. \/ UNCHANGED <<status, results>>
        \/ /\ at[w] = "acquire commit" /\ results' = results
           /\ status' = [status EXCEPT ![target[w]] = "processing"]
    BY <1>1 DEF AcquireCommit, AcquireFails, Lock, db
  <2>2. CASE /\ at[w] = "acquire commit" /\ results' = results
             /\ status' = [status EXCEPT ![target[w]] = "processing"]
    <3>1. target[w] \in JobIDs /\ status[target[w]] = "pending"
      BY <2>2, LockersHaveTargets DEF Locking, RowsOK
    <3>2. Lifecycle!Move(target[w], "pending", "processing")
      BY <2>2, <3>1, RowMovesOn
    <3> QED
      BY <3>1, <3>2 DEF Lifecycle!LifecycleNext
  <2> QED
    BY <2>1, <2>2
<1>2. CASE ResultsCommit(w) \/ ResultsCommitFails(w)
  <2> PICK j : j = target[w]
    OBVIOUS
  <2>1. /\ at[w] = "results commit" /\ status' = status
        /\ results' = results \/ results' = results \cup TasksOf(j)
    BY <1>2 DEF ResultsCommit, ResultsCommitFails, StoreResults, db
  <2>2. CASE results' # results
    <3>1. results' = results \cup TasksOf(j) /\ results \subseteq TaskIDs
      BY <2>1, <2>2 DEF DataOK, DataTypes
    <3>2. PICK t \in TaskIDs : JobOf[t] = j
      BY <2>2, <3>1 DEF TasksOf
    <3>3. j \in JobIDs
      BY <3>2, TasksHaveJobs
    <3>4. status[j] # "absent"
      <4>1. t \in tasks
        BY <2>1, <3>2 DEF DataOK, WritersHoldLocks
      <4> QED
        BY <3>2, <4>1 DEF DataOK, TasksGoWithJobs
    <3>5. status[j] = "processing"
      <4>1. at[w] \in Holding
        BY <2>1 DEF Holding
      <4> QED
        BY <3>4, <4>1 DEF OwnerOK
    <3>6. /\ ResultOf' \in [TaskIDs -> Nat]
          /\ \A s \in TaskIDs : IF JobOf[s] = j THEN ResultOf'[s] # 0
                                               ELSE ResultOf'[s] = ResultOf[s]
      BY <3>1 DEF ResultOf, TasksOf
    <3>7. Lifecycle!Record(j)
      BY <2>1, <3>5, <3>6 DEF Lifecycle!Record, ResultOf
    <3> QED
      BY <3>3, <3>7 DEF Lifecycle!LifecycleNext
  <2> QED
    BY <2>1, <2>2
<1>3. CASE UpdateJob(w) \/ UpdateJobFails(w)
  <2> DEFINE j == target[w]
  <2>1. /\ at[w] \in {"stored", "failing", "working"} /\ results' = results
        /\ \/ status' = status
           \/ /\ Stored(j) /\ j \in JobIDs
              /\ \E s \in {"pending", "completed", "failed"} :
                   /\ status' = [status EXCEPT ![j] = s]
                   /\ s = "completed" => at[w] = "stored"
    BY <1>3, UpdateEffect
  <2>2. CASE status' # status
    <3>1. PICK s \in {"pending", "completed", "failed"} :
            /\ status' = [status EXCEPT ![j] = s]
            /\ s = "completed" => at[w] = "stored"
      BY <2>1, <2>2
    <3>2. j \in JobIDs /\ status[j] = "processing"
      <4>1. at[w] \in Holding
        BY <2>1 DEF Holding
      <4> QED
        BY <2>1, <2>2, <4>1 DEF Stored, OwnerOK
    <3>3. Lifecycle!Move(j, "processing", s)
      BY <2>1, <3>1, <3>2, RowMovesOn
    <3>4. CASE s = "completed"
      <4>1. \A t \in TaskIDs : JobOf[t] = j => t \in results
        BY <3>1, <3>2, <3>4 DEF DataOK, TasksGoWithJobs, WrittenIsThere
      <4>2. Lifecycle!HasResults(j)
        BY <4>1 DEF Lifecycle!HasResults
      <4> QED
        BY <3>2, <3>3, <3>4, <4>2 DEF Lifecycle!Complete, Lifecycle!LifecycleNext
    <3>5. CASE s \in {"pending", "failed"}
      BY <3>2, <3>3, <3>5 DEF Lifecycle!Fail, Lifecycle!Release, Lifecycle!LifecycleNext
    <3> QED
      BY <3>4, <3>5
  <2> QED
    BY <2>1, <2>2
<1>4. CASE \/ AcquireBegin(w) \/ AcquireSelect(w) \/ AcquireNothing(w) \/ AcquireLookup(w)
           \/ ResultsBegin(w) \/ ResultsWrite(w) \/ ResultsMissing(w) \/ ResultsFails(w)
           \/ ResultsDeadlock(w)
  BY <1>4 DEF AcquireBegin, AcquireSelect, AcquireNothing, AcquireLookup, ResultsBegin,
              ResultsWrite, ResultsMissing, ResultsFails, ResultsDeadlock, db
<1> QED
  BY <1>1, <1>2, <1>3, <1>4 DEF WorkerStep, Acquire, WorkOn, Results

\* The transactions of any number of processes, with lost commits, broken
\* connections and deletions, implement the life of a job, as long as no lease is
\* swept (postgres.go:129-182, 227-305; README.md:343-356).
THEOREM Refinement ==
    ASSUME ~LeaseSweeps
    PROVE  Spec => ImplementsLifecycle
<1>1. Init => Lifecycle!LifecycleInit
  BY DEF Init, Lifecycle!LifecycleInit
<1>2. ASSUME IInv, OwnerOK, [Next]_vars
      PROVE  [Lifecycle!LifecycleNext]_(Lifecycle!lifecycleVars)
  <2> SUFFICES ASSUME UNCHANGED <<status, results>> \/ Lifecycle!LifecycleNext
               PROVE  [Lifecycle!LifecycleNext]_(Lifecycle!lifecycleVars)
    <3>1. ASSUME NEW i \in Instances, ListenerStep(i) PROVE UNCHANGED <<status, results>>
      BY <3>1 DEF ListenerStep, Listen, ListenerBreaks, Deliver, Receive, db
    <3>2. CASE UNCHANGED vars
      BY <3>2 DEF vars, db
    <3> QED
      BY <1>2, <3>1, <3>2, HandlerLives, WorkerLives, NextIs DEF IInv
  <2> QED
    BY DEF Lifecycle!lifecycleVars
<1> QED
  BY <1>1, <1>2, Invariance, OwnersInvariance, PTL
  DEF Spec, ImplementsLifecycle, Lifecycle!LifecycleSpec

-----------------------------------------------------------------------------
(* The job store that all processes implement together.                    *)

RecordOf == [j \in JobIDs |-> [status |-> status[j], locked |-> locked[j], reason |-> reason[j]]]

HeldOf == [w \in Workers |-> IF copy[w] = NoCopy THEN {} ELSE {copy[w].id}]

\* The columns of a row agree: it is locked while it is processing, and has a reason
\* once it failed.
ColumnsAgree ==
    \A j \in JobIDs :
        /\ locked[j] <=> status[j] = "processing"
        /\ reason[j] # NoReason <=> status[j] = "failed"

\* The abstract rows, in the terms of this module.
LEMMA Rows ==
    /\ Leases!Absent = Leases!Row("absent", FALSE, NoReason)
    /\ Leases!Pending = Leases!Row("pending", FALSE, NoReason)
    /\ Leases!Processing = Leases!Row("processing", TRUE, NoReason)
    /\ Leases!Completed = Leases!Row("completed", FALSE, NoReason)
    /\ \A why : Leases!Failed(why) = Leases!Row("failed", FALSE, why)
    /\ Leases!Reasons = Reasons
    /\ \A j : Leases!Own(j) = TasksOf(j)
  BY DEF Leases!Absent, Leases!Pending, Leases!Processing, Leases!Completed, Leases!Failed,
         Leases!NoReason, NoReason, Leases!Reasons, Reasons, Leases!ErrorKinds, ErrorKinds,
         Leases!Own, TasksOf

\* What is stored of a job is what its status says.
LEMMA RecordFacts ==
    ASSUME RowsOK, DataOK, ColumnsAgree, NEW j \in JobIDs
    PROVE  /\ RecordOf[j] = Leases!Absent <=> ~Stored(j)
           /\ status[j] = "pending" => RecordOf[j] = Leases!Pending
           /\ status[j] = "processing" => RecordOf[j] = Leases!Processing
<1>1. status[j] \in JobStatus \cup {"absent"} /\ locked[j] \in BOOLEAN
  BY DEF RowsOK, DataOK, DataTypes
<1>2. /\ locked[j] <=> status[j] = "processing"
      /\ reason[j] # NoReason <=> status[j] = "failed"
  BY DEF ColumnsAgree
<1>3. RecordOf[j] = [status |-> status[j], locked |-> locked[j], reason |-> reason[j]]
  BY DEF RecordOf
<1>4. RecordOf[j] = Leases!Absent <=> ~Stored(j)
  <2>1. CASE ~Stored(j)
    <3>1. locked[j] = FALSE /\ reason[j] = NoReason
      BY <1>1, <1>2, <2>1 DEF Stored
    <3> QED
      BY <1>3, <2>1, <3>1, Rows DEF Stored, Leases!Row
  <2>2. CASE Stored(j)
    BY <1>3, <2>2, Rows DEF Stored, Leases!Row
  <2> QED
    BY <2>1, <2>2
<1>5. status[j] = "pending" => RecordOf[j] = Leases!Pending
  BY <1>1, <1>2, <1>3, Rows DEF Leases!Row
<1>6. status[j] = "processing" => RecordOf[j] = Leases!Processing
  BY <1>1, <1>2, <1>3, Rows DEF Leases!Row
<1> QED
  BY <1>4, <1>5, <1>6

\* A statement that writes one row.
LEMMA RecordWritten ==
    ASSUME RowsOK, DataOK, ColumnsAgree, NEW j \in JobIDs,
           NEW s, NEW l \in BOOLEAN, NEW r,
           status' = [status EXCEPT ![j] = s],
           locked' = [locked EXCEPT ![j] = l],
           reason' = [reason EXCEPT ![j] = r]
    PROVE  /\ Leases!Become(j, Leases!Row(s, l, r))
           /\ (l <=> s = "processing") /\ (r # NoReason <=> s = "failed") => ColumnsAgree'
<1>1. /\ status' = [k \in JobIDs |-> IF k = j THEN s ELSE status[k]]
      /\ locked' = [k \in JobIDs |-> IF k = j THEN l ELSE locked[k]]
      /\ reason' = [k \in JobIDs |-> IF k = j THEN r ELSE reason[k]]
  BY DEF RowsOK, DataOK, DataTypes
<1>2. RecordOf' = [RecordOf EXCEPT ![j] = Leases!Row(s, l, r)]
  BY <1>1 DEF RecordOf, Leases!Row
<1>3. Leases!Become(j, Leases!Row(s, l, r))
  BY <1>2 DEF RecordOf, Leases!Become
<1>4. (l <=> s = "processing") /\ (r # NoReason <=> s = "failed") => ColumnsAgree'
  BY <1>1 DEF ColumnsAgree
<1> QED
  BY <1>3, <1>4

\* What changes no row and no copy.
LEMMA NothingStored ==
    ASSUME UNCHANGED <<status, locked, reason>>
    PROVE  RecordOf' = RecordOf /\ (ColumnsAgree => ColumnsAgree')
  BY DEF RecordOf, ColumnsAgree

\* Who holds what depends on the copies alone.
LEMMA NothingHeld ==
    ASSUME UNCHANGED copy
    PROVE  HeldOf' = HeldOf
  BY DEF HeldOf

\* Who holds what, by where the worker is.
LEMMA HeldIs ==
    ASSUME CallersOK, CopiesOK, NEW w \in Workers
    PROVE  HeldOf[w] = IF at[w] \in Holding THEN {target[w]} ELSE {}
<1>1. CASE at[w] \in Holding
  <2>1. copy[w] = CopyOf(target[w])
    BY <1>1 DEF CopiesOK
  <2>2. target[w] # NoJob
    BY <1>1, HoldersHaveTargets
  <2>3. copy[w].id = target[w] /\ copy[w] # NoCopy
    BY <2>1, <2>2 DEF CopyOf, NoCopy
  <2> QED
    BY <1>1, <2>3 DEF HeldOf
<1>2. CASE at[w] \notin Holding
  BY <1>2 DEF HeldOf, CopiesOK
<1> QED
  BY <1>1, <1>2

\* A worker that drops its copy holds nothing.
LEMMA HeldForgotten ==
    ASSUME CopiesOK, NEW w \in Workers, copy' = [copy EXCEPT ![w] = NoCopy]
    PROVE  Leases!Forget(w)
<1>1. \A v \in Workers : copy'[v] = IF v = w THEN NoCopy ELSE copy[v]
  BY DEF CopiesOK
<1>2. HeldOf' = [HeldOf EXCEPT ![w] = {}]
  BY <1>1 DEF HeldOf
<1> QED
  BY <1>2 DEF HeldOf, Leases!Forget

\* The steps of handlers: creation, deletion, sweeps, and what changes nothing.
LEMMA HandlerLeases ==
    ASSUME CallersOK, CopiesOK, RowsOK, DataOK, ColumnsAgree, NEW h \in Handlers, HandlerStep(h)
    PROVE  /\ ColumnsAgree'
           /\ Leases!LeasesNext \/ UNCHANGED <<RecordOf, results, HeldOf>>
<1>1. copy' = copy
  BY DEF HandlerStep, Create, CreateBegin, CreateCommit, CreateFails, CreateNotify, GetRow,
         GetTasks, DeleteJob, ReleaseJobs
<1>2. HeldOf' = HeldOf
  BY <1>1, NothingHeld
<1>3. ASSUME UNCHANGED db
      PROVE  ColumnsAgree' /\ UNCHANGED <<RecordOf, results, HeldOf>>
  BY <1>2, <1>3, NothingStored DEF db
<1>4. CASE CreateCommit(h) \/ CreateFails(h)
  <2>1. at[h] = "create" /\ (UNCHANGED db \/ Insert(target[h]))
    BY <1>4 DEF CreateCommit, CreateFails
  <2>2. CASE Insert(target[h])
    <3> PICK j : j = target[h]
      OBVIOUS
    <3>1. h \in Callers /\ at[h] \notin Elsewhere
      BY <2>1 DEF Callers, Elsewhere
    <3>2. j \in JobIDs /\ status[j] = "absent"
      BY <2>1, <3>1 DEF CallersOK, RowsOK
    <3>3. locked[j] = FALSE /\ reason[j] = NoReason
      BY <3>2 DEF ColumnsAgree, DataOK, DataTypes
    <3>4. /\ status' = [status EXCEPT ![j] = "pending"]
          /\ locked' = [locked EXCEPT ![j] = FALSE]
          /\ reason' = [reason EXCEPT ![j] = NoReason]
          /\ results' = results
      BY <2>2, <3>3 DEF Insert, DataOK, DataTypes
    <3>5. Leases!Become(j, Leases!Pending) /\ ColumnsAgree'
      BY <3>2, <3>4, RecordWritten, Rows
    <3>6. RecordOf[j] = Leases!Absent
      BY <3>2, RecordFacts DEF Stored
    <3>7. Leases!Create(j)
      BY <1>2, <3>4, <3>5, <3>6 DEF RecordOf, HeldOf, Leases!Create
    <3> QED
      BY <3>2, <3>5, <3>7 DEF Leases!LeasesNext
  <2> QED
    BY <1>3, <2>1, <2>2
<1>5. CASE DeleteJob(h)
  <2>1. PICK j \in JobIDs :
          /\ Stored(j)
          /\ status' = [status EXCEPT ![j] = "absent"]
          /\ locked' = [locked EXCEPT ![j] = FALSE]
          /\ reason' = [reason EXCEPT ![j] = NoReason]
          /\ results' = results \ TasksOf(j)
    BY <1>5 DEF DeleteJob
  <2>2. Leases!Become(j, Leases!Absent) /\ ColumnsAgree'
    BY <2>1, RecordWritten, Rows
  <2>3. RecordOf[j] # Leases!Absent
    BY <2>1, RecordFacts
  <2>4. Deletes /\ results' = results \ Leases!Own(j)
    BY <1>5, <2>1, Rows DEF DeleteJob
  <2>5. Leases!Delete(j)
    BY <1>2, <2>2, <2>3, <2>4 DEF RecordOf, HeldOf, Leases!Delete
  <2> QED
    BY <2>2, <2>5 DEF Leases!LeasesNext
<1>6. CASE ReleaseJobs(h)
  <2>1. PICK expired \in SUBSET {j \in JobIDs : status[j] = "processing" /\ locked[j]} :
          /\ status' = [j \in JobIDs |-> IF j \in expired THEN "pending" ELSE status[j]]
          /\ locked' = [j \in JobIDs |-> IF j \in expired THEN FALSE ELSE locked[j]]
    BY <1>6 DEF ReleaseJobs
  <2>2. LeaseSweeps /\ reason' = reason /\ results' = results
    BY <1>6 DEF ReleaseJobs
  <2>3. \A j \in expired : RecordOf[j] = Leases!Processing /\ reason[j] = NoReason
    BY <2>1, RecordFacts DEF ColumnsAgree
  <2>4. RecordOf' = [j \in JobIDs |-> IF j \in expired THEN Leases!Pending ELSE RecordOf[j]]
    BY <2>1, <2>2, <2>3, Rows DEF RecordOf, Leases!Row
  <2>5. ColumnsAgree'
    BY <2>1, <2>2, <2>3 DEF ColumnsAgree
  <2>6. Leases!Sweep(expired) /\ expired \in SUBSET JobIDs
    BY <1>2, <2>1, <2>2, <2>3, <2>4 DEF RecordOf, HeldOf, Leases!Sweep
  <2> QED
    BY <2>5, <2>6 DEF Leases!LeasesNext
<1>7. CASE CreateBegin(h) \/ CreateNotify(h) \/ GetRow(h) \/ GetTasks(h)
  BY <1>3, <1>7 DEF CreateBegin, CreateNotify, GetRow, GetTasks
<1> QED
  BY <1>4, <1>5, <1>6, <1>7 DEF HandlerStep, Create

\* The answers that workers get, or lose.
LEMMA AcquireLeases ==
    ASSUME CallersOK, CopiesOK, RowsOK, DataOK, ColumnsAgree, NEW w \in Workers,
           AcquireCommit(w) \/ AcquireFails(w)
    PROVE  /\ ColumnsAgree'
           /\ Leases!LeasesNext \/ UNCHANGED <<RecordOf, results, HeldOf>>
<1> PICK j : j = target[w]
  OBVIOUS
<1>1. \/ UNCHANGED <<db, copy>>
      \/ /\ at[w] = "acquire commit" /\ Lock(j)
         /\ \/ UNCHANGED copy
            \/ copy' = [copy EXCEPT ![w] = CopyOf(j)]
  BY DEF AcquireCommit, AcquireFails, CopyOf
<1>2. CASE UNCHANGED <<db, copy>>
  BY <1>2, NothingStored, NothingHeld DEF db
<1>3. CASE at[w] = "acquire commit" /\ Lock(j)
  <2>1. j \in JobIDs /\ j # NoJob /\ status[j] = "pending"
    <3>1. at[w] \in Locking
      BY <1>3 DEF Locking
    <3>2. j \in JobIDs
      BY <3>1, LockersHaveTargets
    <3> QED
      BY <3>1, <3>2, PostgresAssumption DEF RowsOK
  <2>2. reason[j] = NoReason
    BY <2>1 DEF ColumnsAgree
  <2>3. /\ status' = [status EXCEPT ![j] = "processing"]
        /\ locked' = [locked EXCEPT ![j] = TRUE]
        /\ reason' = [reason EXCEPT ![j] = NoReason]
        /\ results' = results
    BY <1>3, <2>2 DEF Lock, DataOK, DataTypes
  <2>4. Leases!Become(j, Leases!Processing) /\ ColumnsAgree'
    BY <2>1, <2>3, RecordWritten, Rows
  <2>5. RecordOf[j] = Leases!Pending
    BY <2>1, RecordFacts
  <2>6. HeldOf[w] = {}
    BY <1>3, HeldIs DEF Holding
  <2>7. HeldOf' = [HeldOf EXCEPT ![w] = {j}] \/ UNCHANGED HeldOf
    <3>1. CASE UNCHANGED copy
      BY <3>1, NothingHeld
    <3>2. CASE copy' = [copy EXCEPT ![w] = CopyOf(j)]
      <4>1. \A v \in Workers : copy'[v] = IF v = w THEN CopyOf(j) ELSE copy[v]
        BY <3>2 DEF CopiesOK
      <4>2. CopyOf(j) # NoCopy /\ CopyOf(j).id = j
        BY <2>1 DEF CopyOf, NoCopy
      <4> QED
        BY <4>1, <4>2 DEF HeldOf
    <3>3. UNCHANGED copy \/ copy' = [copy EXCEPT ![w] = CopyOf(j)]
      BY <1>1
    <3> QED
      BY <3>1, <3>2, <3>3
  <2>8. Leases!Acquire(w, j)
    BY <2>3, <2>4, <2>5, <2>6, <2>7 DEF RecordOf, HeldOf, Leases!Acquire
  <2> QED
    BY <2>1, <2>4, <2>8 DEF Leases!LeasesNext
<1> QED
  BY <1>1, <1>2, <1>3

\* The commit of UpdateTasks stores all results of a job at once, or none.
LEMMA ResultsLeases ==
    ASSUME CallersOK, CopiesOK, RowsOK, DataOK, ColumnsAgree, NEW w \in Workers,
           ResultsCommit(w) \/ ResultsCommitFails(w)
    PROVE  /\ ColumnsAgree'
           /\ Leases!LeasesNext \/ UNCHANGED <<RecordOf, results, HeldOf>>
<1> PICK j : j = target[w]
  OBVIOUS
<1>1. /\ at[w] = "results commit"
      /\ UNCHANGED <<status, locked, reason, copy>>
      /\ results' = results \/ results' = results \cup TasksOf(j)
  BY DEF ResultsCommit, ResultsCommitFails, StoreResults, db
<1>2. ColumnsAgree' /\ RecordOf' = RecordOf /\ HeldOf' = HeldOf
  BY <1>1, NothingStored, NothingHeld
<1>3. CASE results' # results
  <2>1. results' = results \cup Leases!Own(j)
    BY <1>1, <1>3, Rows
  <2>2. PICK t \in TaskIDs : JobOf[t] = j
    BY <1>1, <1>3 DEF TasksOf
  <2>3. j \in JobIDs
    BY <2>2, TasksHaveJobs
  <2>4. t \in tasks
    BY <1>1, <2>2 DEF DataOK, WritersHoldLocks
  <2>5. RecordOf[j] # Leases!Absent
    BY <2>2, <2>3, <2>4, RecordFacts DEF DataOK, TasksGoWithJobs, Stored
  <2>6. j \in HeldOf[w]
    BY <1>1, HeldIs DEF Holding
  <2>7. Leases!StoreResults(w, j)
    BY <1>2, <2>1, <2>5, <2>6 DEF RecordOf, HeldOf, Leases!StoreResults
  <2> QED
    BY <1>2, <2>3, <2>7 DEF Leases!LeasesNext
<1> QED
  BY <1>2, <1>3

\* UpdateJob is a holder's write-back, or finds nothing to write.
LEMMA WriteBackLeases ==
    ASSUME CallersOK, CopiesOK, RowsOK, DataOK, ColumnsAgree, NEW w \in Workers,
           UpdateJob(w) \/ UpdateJobFails(w)
    PROVE  /\ ColumnsAgree'
           /\ Leases!LeasesNext
<1> PICK j : j = target[w]
  OBVIOUS
<1>1. /\ at[w] \in {"stored", "failing", "working"}
      /\ copy' = [copy EXCEPT ![w] = NoCopy]
      /\ results' = results
      /\ \/ UNCHANGED <<status, locked, reason>>
         \/ /\ Stored(j) /\ j \in JobIDs
            /\ \E s \in {"pending", "completed", "failed"}, r \in Reasons \cup {NoReason} :
                 /\ status' = [status EXCEPT ![j] = s]
                 /\ locked' = [locked EXCEPT ![j] = FALSE]
                 /\ reason' = [reason EXCEPT ![j] = r]
                 /\ s = "completed" => at[w] = "stored"
                 /\ r # NoReason <=> s = "failed"
  BY UpdateEffect
<1>2. Leases!Forget(w)
  BY <1>1, HeldForgotten
<1>3. CASE UNCHANGED <<status, locked, reason>>
  <2>1. ColumnsAgree' /\ RecordOf' = RecordOf
    BY <1>3, NothingStored
  <2>2. Leases!Drop(w)
    BY <1>1, <1>2, <2>1 DEF RecordOf, HeldOf, Leases!Drop
  <2> QED
    BY <2>1, <2>2 DEF Leases!LeasesNext
<1>4. CASE ~ UNCHANGED <<status, locked, reason>>
  <2>1. PICK s \in {"pending", "completed", "failed"}, r \in Reasons \cup {NoReason} :
          /\ status' = [status EXCEPT ![j] = s]
          /\ locked' = [locked EXCEPT ![j] = FALSE]
          /\ reason' = [reason EXCEPT ![j] = r]
          /\ s = "completed" => at[w] = "stored"
          /\ r # NoReason <=> s = "failed"
    BY <1>1, <1>4
  <2>2. Stored(j) /\ j \in JobIDs
    BY <1>1, <1>4
  <2>3. Leases!Become(j, Leases!Row(s, FALSE, r)) /\ ColumnsAgree'
    <3>1. (FALSE <=> s = "processing") /\ (r # NoReason <=> s = "failed")
      BY <2>1
    <3> QED
      BY <2>1, <2>2, <3>1, RecordWritten
  <2>4. RecordOf[j] # Leases!Absent
    BY <2>2, RecordFacts
  <2>5. j \in HeldOf[w]
    BY <1>1, HeldIs DEF Holding
  <2>6. s = "completed" => Leases!Own(j) \subseteq results
    <3>1. \A t \in TasksOf(j) : t \in tasks
      BY <2>2 DEF TasksOf, Stored, DataOK, TasksGoWithJobs
    <3> QED
      BY <2>1, <3>1, Rows DEF TasksOf, DataOK, WrittenIsThere
  <2>7. \/ Leases!Own(j) \subseteq results /\ Leases!Become(j, Leases!Completed)
        \/ \E why \in Leases!Reasons : Leases!Become(j, Leases!Failed(why))
        \/ Leases!Become(j, Leases!Pending)
    BY <2>1, <2>3, <2>6, Rows
  <2>8. Leases!WriteBack(w, j)
    BY <1>1, <1>2, <2>4, <2>5, <2>7 DEF RecordOf, HeldOf, Leases!WriteBack
  <2> QED
    BY <2>2, <2>3, <2>8 DEF Leases!LeasesNext
<1> QED
  BY <1>3, <1>4

\* Each commit of a worker is one operation of the abstract store.
LEMMA WorkerLeases ==
    ASSUME CallersOK, CopiesOK, RowsOK, DataOK, ColumnsAgree, NEW w \in Workers, WorkerStep(w)
    PROVE  /\ ColumnsAgree'
           /\ Leases!LeasesNext \/ UNCHANGED <<RecordOf, results, HeldOf>>
<1>1. CASE \/ AcquireBegin(w) \/ AcquireSelect(w) \/ AcquireNothing(w) \/ AcquireLookup(w)
           \/ ResultsBegin(w) \/ ResultsWrite(w) \/ ResultsMissing(w) \/ ResultsFails(w)
           \/ ResultsDeadlock(w)
  <2>1. UNCHANGED <<db, copy>>
    BY <1>1 DEF AcquireBegin, AcquireSelect, AcquireNothing, AcquireLookup, ResultsBegin,
                ResultsWrite, ResultsMissing, ResultsFails, ResultsDeadlock
  <2> QED
    BY <2>1, NothingStored, NothingHeld DEF db
<1> QED
  BY <1>1, AcquireLeases, ResultsLeases, WriteBackLeases DEF WorkerStep, Acquire, WorkOn, Results

\* So is each commit of anybody, and other steps are none.
LEMMA StepLeases ==
    ASSUME IInv, ColumnsAgree, [Next]_vars
    PROVE  /\ ColumnsAgree'
           /\ Leases!LeasesNext \/ UNCHANGED <<RecordOf, results, HeldOf>>
<1>1. CASE UNCHANGED vars \/ \E i \in Instances : ListenerStep(i)
  <2>1. UNCHANGED <<db, copy>>
    BY <1>1 DEF vars, ListenerStep, Listen, ListenerBreaks, Deliver, Receive
  <2> QED
    BY <2>1, NothingStored, NothingHeld DEF db
<1> QED
  BY <1>1, HandlerLeases, WorkerLeases, NextIs DEF IInv

\* A row is locked while its job is processing, and has a reason if it failed, as
\* long as it exists, whoever wrote it last (postgres.go:129-182, 227-257, 307-328,
\* 384-437; job.go:62-104).
THEOREM Agreement == Spec => []ColumnsAgree
<1>1. Init => ColumnsAgree
  BY DEF Init, ColumnsAgree
<1>2. IInv /\ ColumnsAgree /\ [Next]_vars => ColumnsAgree'
  BY StepLeases
<1> QED
  BY <1>1, <1>2, Invariance, PTL DEF Spec

\* Between them, the workers of all processes keep what every job store promises:
\* transactions whose statements fail, commits whose answer is lost, sweeps and
\* deletions at any time included (postgres.go:129-375, store.go:12-24).
THEOREM LeasesRefinement == Spec => ImplementsLeases
<1>1. Init => Leases!LeasesInit
  BY Rows DEF Init, Leases!LeasesInit, Leases!Row
<1>2. UNCHANGED <<RecordOf, results, HeldOf>> \/ Leases!LeasesNext
        => [Leases!LeasesNext]_(Leases!leaseVars)
  BY DEF RecordOf, HeldOf, Leases!leaseVars
<1>3. IInv /\ ColumnsAgree /\ [Next]_vars => [Leases!LeasesNext]_(Leases!leaseVars)
  BY <1>2, StepLeases
<1> QED
  BY <1>1, <1>3, Invariance, Agreement, PTL DEF Spec, ImplementsLeases, Leases!LeasesSpec

-----------------------------------------------------------------------------
(* How many connections are enough.                                        *)

WorkersOf(i) == {w \in Workers : InstanceOf[w] = i}

\* One for each worker's AcquireJob, one for the listener, those that errors of the
\* database may cost, and one more.
EnoughConnections ==
    \A i \in Instances : Cardinality(WorkersOf(i)) + MaxFaults + 1 < MaxConns

\* While nobody deletes jobs, no UpdateTasks misses a row; while nobody sweeps leases,
\* no two attempts at a job wait for each other; so that only an error can leave its
\* transaction open.
LossesOK ==
    /\ \A w \in Workers : at[w] \in Holding => Stored(target[w])
    /\ \A i \in Instances : leaked[i] <= faults

\* Without deletions, the job that a worker holds is stored.
LEMMA HeldStayStored ==
    ASSUME ~Deletes, IInv, LossesOK, Next
    PROVE  \A w \in Workers : at'[w] \in Holding => Stored(target[w])'
<1>1. ASSUME NEW j \in JobIDs, Stored(j) PROVE Stored(j)'
  <2>1. status \in [JobIDs -> JobStatus \cup {"absent"}]
    BY DEF IInv, RowsOK
  <2>2. ASSUME NEW h \in Handlers, HandlerStep(h) PROVE Stored(j)'
    <3>1. CASE CreateCommit(h) \/ CreateFails(h)
      BY <1>1, <2>1, <3>1 DEF CreateCommit, CreateFails, Insert, Stored, db
    <3>2. CASE ReleaseJobs(h)
      BY <1>1, <2>1, <3>2 DEF ReleaseJobs, Stored
    <3>3. CASE CreateBegin(h) \/ CreateNotify(h) \/ GetRow(h) \/ GetTasks(h)
      BY <1>1, <3>3 DEF CreateBegin, CreateNotify, GetRow, GetTasks, Stored, db
    <3> QED
      BY <2>2, <3>1, <3>2, <3>3 DEF HandlerStep, Create, DeleteJob
  <2>3. ASSUME NEW w \in Workers, WorkerStep(w) PROVE Stored(j)'
    <3>1. CASE AcquireCommit(w) \/ AcquireFails(w)
      BY <1>1, <2>1, <3>1 DEF AcquireCommit, AcquireFails, Lock, Stored, db
    <3>2. CASE UpdateJob(w) \/ UpdateJobFails(w)
      <4>1. UNCHANGED status \/ \E s \in {"pending", "completed", "failed"} :
                                  status' = [status EXCEPT ![target[w]] = s]
        BY <3>2, UpdateEffect DEF IInv
      <4> QED
        BY <1>1, <2>1, <4>1 DEF Stored
    <3>3. CASE ResultsCommit(w) \/ ResultsCommitFails(w)
      BY <1>1, <3>3 DEF ResultsCommit, ResultsCommitFails, StoreResults, Stored, db
    <3>4. CASE \/ AcquireBegin(w) \/ AcquireSelect(w) \/ AcquireNothing(w) \/ AcquireLookup(w)
               \/ ResultsBegin(w) \/ ResultsWrite(w) \/ ResultsMissing(w) \/ ResultsFails(w)
               \/ ResultsDeadlock(w)
      BY <1>1, <3>4 DEF AcquireBegin, AcquireSelect, AcquireNothing, AcquireLookup, ResultsBegin,
                        ResultsWrite, ResultsMissing, ResultsFails, ResultsDeadlock, Stored, db
    <3> QED
      BY <2>3, <3>1, <3>2, <3>3, <3>4 DEF WorkerStep, Acquire, WorkOn, Results
  <2>4. ASSUME NEW i \in Instances, ListenerStep(i) PROVE Stored(j)'
    BY <1>1, <2>4 DEF ListenerStep, Listen, ListenerBreaks, Deliver, Receive, Stored, db
  <2> QED
    BY <2>2, <2>3, <2>4, NextIs
<1>2. SUFFICES ASSUME NEW w \in Workers, at'[w] \in Holding PROVE Stored(target[w])'
  OBVIOUS
<1>3. CASE at[w] \in Holding /\ target'[w] = target[w]
  <2>1. target[w] \in JobIDs
    BY <1>3, HoldersHaveTargets DEF IInv
  <2> QED
    BY <1>1, <1>3, <2>1 DEF LossesOK, Stored
<1>4. CASE AcquireCommit(w)
  <2>1. target[w] \in JobIDs
    <3>1. at[w] \in Locking
      BY <1>4 DEF AcquireCommit, Locking
    <3> QED
      BY <3>1, LockersHaveTargets DEF IInv
  <2>2. target'[w] = target[w] /\ status'[target[w]] = "processing"
    <3>1. target \in [Callers -> JobIDs \cup {NoJob}] /\ w \in Callers
      BY DEF IInv, CallersOK, Callers
    <3>2. \A j \in JobIDs : status' = [status EXCEPT ![j] = "processing"] => status'[j] = "processing"
      BY DEF IInv, RowsOK
    <3>3. target' = [target EXCEPT ![w] = target[w]]
      BY <1>4 DEF AcquireCommit, Go
    <3>4. status' = [status EXCEPT ![target[w]] = "processing"]
      BY <1>4 DEF AcquireCommit, Lock
    <3> QED
      BY <2>1, <3>1, <3>2, <3>3, <3>4
  <2> QED
    BY <2>2 DEF Stored
<1>5. AcquireCommit(w) \/ (at[w] \in Holding /\ target'[w] = target[w])
  <2>1. at \in [Callers -> Places] /\ target \in [Callers -> JobIDs \cup {NoJob}] /\ w \in Callers
    BY DEF IInv, CallersOK, Callers
  <2>2. ASSUME NEW h \in Handlers, HandlerStep(h) PROVE at'[w] = at[w] /\ target'[w] = target[w]
    <3>1. PICK place, j : Go(h, place, j)
      BY <2>2, HandlerMoves DEF IInv, RowsOK
    <3>2. w # h
      BY PostgresAssumption
    <3> QED
      BY <2>1, <3>1, <3>2 DEF Go
  <2>3. ASSUME NEW v \in Workers, v # w, WorkerStep(v)
        PROVE  at'[w] = at[w] /\ target'[w] = target[w]
    <3>1. PICK place, j : Go(v, place, j)
      BY <2>3, WorkerMoves DEF IInv
    <3> QED
      BY <2>1, <2>3, <3>1 DEF Go
  <2>4. ASSUME WorkerStep(w), ~ AcquireCommit(w)
        PROVE  at[w] \in Holding /\ target'[w] = target[w]
    <3>1. CASE \/ AcquireBegin(w) \/ AcquireSelect(w) \/ AcquireNothing(w) \/ AcquireLookup(w)
               \/ AcquireFails(w) \/ UpdateJob(w) \/ UpdateJobFails(w)
      <4>1. at'[w] \in {"acquire", "lookup", "acquire commit", "idle"}
        BY <2>1, <3>1 DEF AcquireBegin, AcquireSelect, AcquireNothing, AcquireLookup,
                          AcquireFails, UpdateJob, UpdateJobFails, Drop, Go
      <4> QED
        BY <1>2, <4>1 DEF Holding
    <3>2. CASE \/ ResultsBegin(w) \/ ResultsWrite(w) \/ ResultsMissing(w) \/ ResultsFails(w)
               \/ ResultsDeadlock(w)
               \/ ResultsCommit(w) \/ ResultsCommitFails(w)
      BY <2>1, <3>2 DEF ResultsBegin, ResultsWrite, ResultsMissing, ResultsFails, ResultsDeadlock,
                        ResultsCommit, ResultsCommitFails, Go, Holding
    <3> QED
      BY <2>4, <3>1, <3>2 DEF WorkerStep, Acquire, WorkOn, Results
  <2>5. ASSUME NEW i \in Instances, ListenerStep(i) PROVE at'[w] = at[w] /\ target'[w] = target[w]
    BY <2>5 DEF ListenerStep, Listen, ListenerBreaks, Deliver, Receive
  <2> QED
    BY <1>2, <2>2, <2>3, <2>4, <2>5, NextIs
<1> QED
  BY <1>3, <1>4, <1>5

\* So UpdateTasks misses no row and meets no other one, and loses a connection to errors alone.
LEMMA LossesInvariance ==
    ASSUME ~Deletes, ~LeaseSweeps
    PROVE  Spec => []LossesOK
<1>1. Init => LossesOK
  BY DEF Init, LossesOK, Holding, Callers
<1>2. ASSUME IInv, OwnerOK, LossesOK, Next PROVE LossesOK'
  <2> USE <1>2
  <2>1. \A i \in Instances : leaked'[i] <= faults'
    <3>1. /\ faults \in Nat /\ leaked \in [Instances -> Nat]
          /\ \A i \in Instances : leaked[i] <= faults
      BY PostgresAssumption DEF IInv, CallersOK, ConnsOK, LossesOK
    <3>2. (leaked' = leaked /\ faults' \in {faults, faults + 1})
          \/ \E w \in Workers : Leak(w) /\ Fault
      <4>1. ASSUME NEW w \in Workers, ResultsMissing(w) PROVE FALSE
        <5>1. at[w] = "results" /\ ~ (TasksOf(target[w]) \subseteq tasks)
          BY <4>1 DEF ResultsMissing
        <5>2. Stored(target[w])
          BY <5>1 DEF LossesOK, Holding
        <5> QED
          BY <5>1, <5>2 DEF TasksOf, Stored, IInv, DataOK, TasksGoWithJobs
      <4>0. ASSUME NEW w \in Workers, ResultsDeadlock(w) PROVE FALSE
        <5>1. PICK v \in Workers \ {w} : at[w] = "results" /\ target[v] = target[w]
          BY <4>0 DEF ResultsDeadlock
        <5>2. target[w] # NoJob
          BY <5>1, HoldersHaveTargets DEF IInv, Holding
        <5> QED
          BY <5>1, <5>2 DEF OwnerOK
      <4>2. ASSUME NEW h \in Handlers, HandlerStep(h)
            PROVE  leaked' = leaked /\ faults' \in {faults, faults + 1}
        BY <4>2 DEF HandlerStep, CreateBegin, Create, CreateCommit, CreateFails, CreateNotify,
                    GetRow, GetTasks, DeleteJob, ReleaseJobs, Fault
      <4>3. ASSUME NEW i \in Instances, ListenerStep(i)
            PROVE  leaked' = leaked /\ faults' \in {faults, faults + 1}
        BY <4>3 DEF ListenerStep, Listen, ListenerBreaks, Deliver, Receive, Fault
      <4>4. ASSUME NEW w \in Workers, WorkerStep(w)
            PROVE  \/ leaked' = leaked /\ faults' \in {faults, faults + 1}
                   \/ Leak(w) /\ Fault
        <5>1. CASE ResultsFails(w)
          BY <5>1 DEF ResultsFails, ResultsDeadlock
        <5>2. CASE UpdateJob(w) \/ UpdateJobFails(w)
          BY <5>2 DEF UpdateJob, UpdateJobFails, Fault
        <5>3. CASE AcquireBegin(w) \/ Acquire(w) \/ ResultsBegin(w)
          BY <5>3 DEF AcquireBegin, Acquire, AcquireSelect, AcquireNothing, AcquireLookup,
                      AcquireCommit, AcquireFails, ResultsBegin, Fault
        <5>4. CASE ResultsWrite(w) \/ ResultsCommit(w) \/ ResultsCommitFails(w)
          BY <5>4 DEF ResultsWrite, ResultsCommit, ResultsCommitFails, Fault
        <5> QED
          BY <4>0, <4>1, <4>4, <5>1, <5>2, <5>3, <5>4 DEF WorkerStep, WorkOn, Results
      <4> QED
        BY <4>2, <4>3, <4>4, NextIs
    <3>3. CASE leaked' = leaked /\ faults' \in {faults, faults + 1}
      BY <3>1, <3>3
    <3>4. CASE \E w \in Workers : Leak(w) /\ Fault
      <4>1. PICK k : leaked' = [leaked EXCEPT ![k] = @ + 1] /\ faults' = faults + 1
        BY <3>4 DEF Leak, Fault
      <4>2. \A i \in Instances : leaked'[i] = leaked[i] \/ leaked'[i] = leaked[i] + 1
        BY <3>1, <4>1
      <4> QED
        BY <3>1, <4>1, <4>2
    <3> QED
      BY <3>2, <3>3, <3>4
  <2> QED
    BY <2>1, HeldStayStored DEF LossesOK
<1>3. LossesOK /\ UNCHANGED vars => LossesOK'
  BY DEF LossesOK, vars, db, Stored
<1> QED
  BY <1>1, <1>2, <1>3, Invariance, OwnersInvariance, PTL DEF Spec

\* When every connection of a process is taken, one that needs no other is among
\* them, unless its workers, its listener and what it lost have all of them.
LEMMA SomebodyGoesOn ==
    ASSUME IInv, NEW i \in Instances, free[i] = 0,
           Cardinality(WorkersOf(i)) + leaked[i] + 1 < MaxConns
    PROVE  \E c \in Callers : InstanceOf[c] = i /\ InCall(c) /\ at[c] \notin {"lookup", "notify", "get"}
<1> SUFFICES ASSUME \A c \in Callers : InstanceOf[c] = i /\ InCall(c) =>
                      at[c] \in {"lookup", "notify", "get"}
             PROVE  FALSE
  OBVIOUS
<1>1. OpenOf(i) \subseteq WorkersOf(i)
  BY DEF OpenOf, Open, WorkersOf, Callers, IInv, CallersOK
<1>2. IsFiniteSet(WorkersOf(i))
  <2>1. WorkersOf(i) \subseteq Callers
    BY DEF WorkersOf, Callers
  <2> QED
    BY <2>1, PostgresAssumption, FS_Subset
<1>3. Cardinality(OpenOf(i)) <= Cardinality(WorkersOf(i))
  BY <1>1, <1>2, FS_Subset
<1>4. Cardinality(WorkersOf(i)) \in Nat
  BY <1>2, FS_CardinalityType
<1>5. OpenTransactions(i) \in Nat /\ OpenTransactions(i) <= Cardinality(WorkersOf(i))
  BY <1>3, OpenCounted
<1>6. leaked[i] \in Nat /\ MaxConns \in Nat
  BY PostgresAssumption DEF IInv, ConnsOK
<1>7. Listener(i) \in {0, 1} /\ 0 + OpenTransactions(i) + leaked[i] + Listener(i) = MaxConns
  BY DEF IInv, ConnsOK, ConnectionsAccounted, Listener
<1> QED
  BY <1>4, <1>5, <1>6, <1>7

\* With enough connections, and while nobody deletes jobs or sweeps leases, AcquireJob's
\* second connection never makes all callers of a process wait for each other
\* (postgres.go:130-174, 330-338).
THEOREM PoolSuffices ==
    ASSUME ~Deletes, ~LeaseSweeps, EnoughConnections
    PROVE  Spec => []ConnectionComesFree
<1>1. ASSUME IInv, LossesOK PROVE ConnectionComesFree
  <2> SUFFICES ASSUME NEW i \in Instances, free[i] = 0
               PROVE  \E c \in Callers :
                        InstanceOf[c] = i /\ InCall(c) /\ at[c] \notin {"lookup", "notify", "get"}
    BY DEF ConnectionComesFree
  <2>1. leaked[i] \in Nat /\ leaked[i] <= MaxFaults
    BY <1>1, PostgresAssumption DEF LossesOK, IInv, CallersOK, ConnsOK
  <2>2. Cardinality(WorkersOf(i)) \in Nat
    <3>1. WorkersOf(i) \subseteq Callers
      BY DEF WorkersOf, Callers
    <3> QED
      BY <3>1, PostgresAssumption, FS_Subset, FS_CardinalityType
  <2>3. Cardinality(WorkersOf(i)) + leaked[i] + 1 < MaxConns
    BY <2>1, <2>2, PostgresAssumption DEF EnoughConnections
  <2> QED
    BY <1>1, <2>3, SomebodyGoesOn
<1> QED
  BY <1>1, Invariance, LossesInvariance, PTL
=============================================================================
