# A verification project for icecube

icecube is an image service in Go: clients upload images over HTTP, create jobs
that resize, convert or compress them, and poll the jobs until they are done; a
command line tool does the same to one file. This directory holds TLA+ models of
the parts that are hard to test, configurations that check them with TLC, and
proofs checked by TLAPS. Source paths below are relative to the repository;
modules are in this directory.

## 1. The system

| Component (source) | State it keeps | Operations | Talks to |
|---|---|---|---|
| job domain (`domain/jobs`) | none: values | marks, error classes | everybody who holds a job |
| job store, memory (`store/jobstore/memory.go`) | jobs, tasks, subscriber channels, one mutex | create, get, acquire, update, results, release, delete, count, subscribe | HTTP, workers, pool (channel) |
| job store, PostgreSQL (`postgres.go`, `migrations.go`) | rows, row locks, connection pool, listener, channels | the same, as transactions; NOTIFY trigger | the same, from several processes |
| worker (`service/processor/worker.go`) | a job copy while `Run` lasts, goroutines for tasks, for writes and for notifications | `Run` | job store, image store, pipeline, Kafka |
| worker pool (`workerpool.go`) | counter, token channel, wait group, stop channel | event loop, poller, `tryStartWorker`, `runWorker`, `Stop` | job store (channel), workers, main |
| image store (`store/imagestore`) | blobs in memory, on disk or in S3; metadata in memory or PostgreSQL | upload, download, delete | HTTP, workers |
| pipeline (`service/processor/service.go`, `resizer.go`, `converter.go`, `compressor.go`, `domain/processing`) | files in a directory | `Process`: validate, resize, convert, compress | external tools; called by workers and the CLI |
| command line tool (`cmd/cli/main.go`) | the user's directory | one run | pipeline |
| configuration (`infra/config`) | settings | file, environment, defaults, validation | server |
| schema migrations (`infra/postgres`) | `schema_migrations`, the schema | `runMigrations` | server, database |
| server (`cmd/server/main.go`) | none | start, shutdown goroutine | all of them |
| HTTP API (`transport/http`) | none | upload, download, create job, get job | both stores |
| Kafka (`infra/kafka`) | producer | send a notification, close | workers |

How they interact. An instance loads its configuration, migrates the database when
it uses one, opens its stores, starts the pool and listens. `POST /api/v1/job` looks
the original up and puts a job and its tasks into the store, which writes to a
channel of capacity one. The pool's loop receives from it, adds one to a counter and
tries to start a worker; a poller tries every ten seconds, and so does a goroutine
that a finishing worker leaves behind. A worker acquires the oldest pending job,
fetches the original into a temporary directory, runs `Process` for all tasks at a
time in that directory, uploads the variants, and stores the tasks' results and then
the job. When an attempt fails, a goroutine writes the job back, as pending when the
error is temporary and as failed otherwise, *after* `Run` has returned.

What is hard about it, and what makes each part correct:

* **Job stores.** Copies are handed out and written back later, over whatever
  happened in between. A job must have one owner, its lock must agree with its
  status, results must come from one attempt, an end must be final, no wakeup
  may be lost. With PostgreSQL each operation is several statements on a limited
  number of connections, next to those of other processes, and a commit may take
  effect without an answer.
* **Worker.** Three generations of goroutines outlive one another. What they
  write must never contradict what another attempt did, and whatever is announced
  must be true.
* **Worker pool.** The counter is read and changed by separate instructions in
  three kinds of goroutines. Never too many workers, an exact wait group, no job
  left lying, and `Stop` returns.
* **Image store.** Two stores and no transaction, clients that come back to an id
  later, and jobs that do for every attempt. What is found must be readable, what
  was promised must stay, a deletion must be repeatable.
* **Pipeline.** The calls of one job share a directory and an original. No tool may
  read what another one writes, what comes out must be what was asked for, and
  nothing may be left behind in a user's directory.
* **Start.** Several instances migrate one database, with a read, a decision and a
  transaction per version. Settings come from three places with an order of
  precedence.

`PROJECT.json` lists the hazards one by one at their lines.

## 2. The modules

    Jobs                      job values, marks, error classes
     |- JobStore              the memory store, operation by operation
     |   |- JobStoreClients   arbitrary clients of it, sweeps and deletions  (MC, run)
     |   |- Worker            Worker.Run and what it leaves behind           (MC, runs)
     |   `- WorkerPool        loop, poller, tokens, counter, shutdown        (MC, runs)
     `- PostgresStore         the store in PostgreSQL, several processes     (MC, runs)
    JobLifecycle              what the machinery promises of a job (abstract):
                              implemented by Worker and by PostgresStore
    JobLeases                 what a job store promises to those who work on its
                              jobs (abstract): implemented by JobStoreClients and
                              by PostgresStore
    ImageStore                uploads, deletions, downloads, jobs' originals (MC, run)
    Pipeline                  formats, options, dimensions, tools: operators
     `- Processing            Process: chains of tools in one directory
         `- ProcessingCallers the worker's attempts and the CLI's run        (MC, run)
    Startup                   configuration, migrations, start of instances  (MC, run)

    JobStoreProofs (lemmas), JobStoreClientsProofs, WorkerProofs,
    WorkerPoolProofs, PostgresStoreProofs, ImageStoreProofs, ProcessingProofs,
    StartupProofs             theorems about the module each is named for

**Jobs, JobStore.** A job is its status, whether `LockedAt` is set, and its
reason, a kind of error. Each operation holds the store's mutex throughout, so
each is one action (`CreateJob`, `AcquireJob`, `UpdateJob`, ...); the variables
are what the maps hold. `OldestPending` leaves open which of several jobs of the
same age is taken, since the code iterates over a map. One variant id is a
number, 0 for none. `GetJob` changes nothing, and its one step reads what the
variables say; `UpdateTask` is `UpdateTasks` of one task, and nothing calls it.

**JobStoreClients.** Clients that use the interface as it is meant, next to the
two operations that the server implements but never calls: `ReleaseJobs` (the
lease sweep) and `DeleteJob`.

**Worker.** `pc[w]` says where in `Run` a worker is; `task`, `made` are its
goroutines and its copies of the tasks; `writers` are the copies that goroutines
of `markJobFailed` and `releaseJob` have yet to write; `outbox` the notifications
to be sent. Each call of the store may fail, with or without effect, where
`CallsThatFail` says so; the process may crash. Marks are made on the worker's own
copy, which nobody else reads, so only the write is a step.

**JobLifecycle.** The life of a job as a client sees it: pending, processing,
completed or failed for good; results are recorded at once, and a completed job
has all of them. `Worker` implements it with the variants as results,
`PostgresStore` with 1 for a task whose row has a variant, and with deletions.

**JobLeases.** The interface of `store.go` as atomic operations: a job is handed out
while it is pending, and written only by a holder, who may not notice that a sweep or
a deletion took it away. Lock and reason are part of the record, so that each of its
states agrees with itself. Which of its pending jobs a store hands out, and whom it
tells of a new one, is left open. Both stores implement it, the one in memory under
arbitrary clients, the one in PostgreSQL under the workers of all processes, with every
failure of a statement or a commit; a holder is somebody with a copy of the job.

**WorkerPool.** Goroutines of one kind are alike and are counted by where they
are: `at` for the loop and the poller, `retries` for goroutines in
`tryStartWorker`, `crew` and `running` for workers, `writers` for what they leave.
The counter is loaded, the token sent and the counter lowered in three steps, as
in the code. `Worker.Run` is coarser here: it acquires, and ends.

**PostgresStore.** One action per transaction boundary and per statement whose
place among those of others matters. `free` is the pool of connections, `rowLock`
and `taskLock` what open transactions hold, `mail` a notification on its way,
`signal` the full channel. Each statement and each commit may fail, the commit with
or without effect; a process that dies is not modelled here. `UpdateTasks` updates, and
locks, one row per step, in any order, since the tasks come from a SELECT without ORDER BY:
two late attempts at one job may lock each other out, and the database fails one
(`ResultsDeadlock`). Of the database only this is assumed: isolation level read
committed, locks until the end of a transaction, SKIP LOCKED, NOTIFY at the commit.
Simplified: what `Run` leaves to a goroutine (the write-back) is done by the worker
itself before it acquires again; `Worker.tla` has the finer order; and a deletion takes
all rows of a job at once, so that it never waits in the middle for `UpdateTasks` (the
failure that would end such a wait is one of `ResultsFails`). `answer` keeps what a handler
read of a job that it saw completed: whether the tasks it read then were all of them with
their variants, only some, or none.

**ImageStore.** A blob and its metadata are two sets of ids; an upload is a step in the one,
then in the other. `config` ranges over all pairs of stores; where the kinds differ the
guards do: S3 deletes what is not there without an error and has put an object before the
last check of its image (`RefuseFile`), a store in memory never fails but is empty after a
restart, and metadata that are missing in PostgreSQL are an internal error. A download is a
lookup, a fetch and the reading of the bytes: the store in memory reads them after its lock
is given back, so a deletion can come between (`blob_memory.go:74`), and one from another
store can break off after the first 512 bytes, when the answer is 200 already
(`handlers.go:115`). A job is a client that looks its original up at its creation and
fetches it in every attempt, at any later time. `left` remembers the blobs that uploads left
behind and those whose metadata a restart lost.

**Pipeline, Processing, ProcessingCallers.** `Pipeline` has the rules without state:
which conversions are supported, which options are valid, what rounding makes of
dimensions, which tool reads and writes which format. In `Processing` the calls of
`Process` for the tasks of a job run side by side (`call[t]`: which tool runs), on the
files of one directory (`dir`: names to images). A tool reads its input until it
ends, and writes its output from the start, as a `Partial` file; a name is a prefix,
the tag of the call and an extension. A tool may fail for a moment (`faults`), and
refuse an image whenever it is asked (`request.refused`). `ProcessingCallers` adds
what a worker does with the results and errors of all calls, and `main` of the
command line tool, with the rename into the user's directory, where there are other
files (`request.files`) and `-output` may name one of them or the input. The job's store is
reduced to its status; `Worker` has the rest.

**Startup.** `pc[i]` says how far `main` of an instance has got; `settings[i]` is what
its file and environment say, `config[i]` what it made of them. The database is the set
of `applied` versions, how often each was `built`, and whether the table exists; a
transaction (`writing`) is seen by others when it commits, and one that builds what
another open one builds waits for it. The same statement fails when the other has
committed; the last answer may be lost. `Keys` are the settings that decide about
stores.

Definitions called *broken variants* are used by no action. Each is a plausible bug
in place of a definition after it, listed in `PROJECT.json` under `mutants` with the
property that TLC then finds violated.

## 3. What the runs check

| Run | Instance | Shows |
|---|---|---|
| `JobStoreClients` | 2 jobs of equal age, 3 tasks, 2 clients, 3 acquisitions, sweeps, deletions | results of one attempt; no lost wakeup; one holder and a final end until a sweep takes the job away; the refinement of `JobLeases` |
| `WorkerStore` | 2 jobs, 3 tasks, 2 workers, 3 faults, crashes | one owner; a completed job has the last variants; notifications are true; the refinement of `JobLifecycle` |
| `WorkerReliable` | 2 jobs, one without tasks, 2 workers, no store failures, 2 temporary errors | no job is lost, none fails for a temporary error, every attempt ends |
| `Pool` | 2 jobs, one there at the start, 1 worker at a time, shutdown | tokens match workers, the wait group is exact, a processing job is held by a goroutine; pending jobs are taken unless the counter is behind; `Stop` ends |
| `PoolCoalesced` | 2 jobs created at once, 1 worker | *violation*: the second stays pending |
| `PostgresInstances` | 2 processes, 3 connections each, 2 workers, 1 handler, 1 fault, deletions | one owner across processes; every pending job is announced to those that listen; the refinement of `JobLifecycle` |
| `PostgresFaults` | 1 process, 3 connections, 2 workers, 2 handlers, 1 fault, deletions, sweeps | no connection is lost but by `UpdateTasks`, no lock on a row of jobs outlives its transaction, completed jobs read complete unless they are deleted in between; the refinement of `JobLeases` |
| `PostgresReturns` | 1 process, 5 connections, 1 fault | `AcquireJob` returns; whenever no connection is free, the caller of some transaction can go on |
| `PostgresExhausted` | 1 process, 3 connections | *violation*: `AcquireJob` waits for ever |
| `ImageStore` | 3 images, 2 uploaders, 2 deleters, 1 reader, 1 job, every pair of stores, 2 faults | metadata have a blob; what was promised stays; where each stray blob comes from, and that deletions leave none; a download or a job fails only for a deletion or a loss; "not found" means gone (S3) |
| `Processing` | one task with every format, limit -1 to 2 and refusing tool on images of 3x1 and 2x4 pixels; every pair of chains; three equal tasks; no task; runs of the CLI with every extension and flag, with and without other files, and `-output` naming a new file, another one or the input; 2 faults | what a job or a run ends with is what was asked for; tools read whole files; the user's directory is kept; jobs and runs end |
| `Startup` | 2 instances that race on a database of any version, 2 migrations, 2 faults; one of them with many combinations of file and environment | what is recorded is what was built; nothing serves on an old schema; somebody serves; an instance that is started again and again serves in the end |

**Bounds.** `MaxAcquires`, `MaxFaults`, `MaxRetries`, `MaxFinishing`, `LastVersion` and the
sets of ids and requests are the only ones, and each is a guard or a constant. Two jobs
are what it takes for two notifications to merge, for the oldest to be chosen and for one
job to be taken while another is created; two workers are what it takes for two attempts
to meet; two tasks of one job for results to mix. Two faults let one strike while the
goroutines of another are still at work, three leave one for the attempt after that; in
`PostgresFaults`, where sweeps let attempts overlap without a fault, one is enough for an
error beside them, and two handlers let one delete a job while the other is reading it.
`PendingFloor` caps the pool's counter where it can fall without end: beyond it the
remaining notifications cannot bring it back to zero, so nothing changes. `MaxFinishing`
limits the workers between the return of their token and their last look at the counter;
that more than one worker runs is left to the proof. In `PostgresStore` one connection
more than open transactions and listener is the exact limit between `PostgresReturns` and
`PostgresExhausted`; `PostgresReturns` has another one, which its fault may cost. Three
images let one be uploaded and one deleted while a third is read. Ids and callers of one
kind are alike there, and so are the workers and the handlers of `PostgresFaults`
(`SYMMETRY`), which is sound as these runs check safety alone. A
limit of 1 makes a side of no pixels and of 2 rounds up; what `resizeDimensions` does for
images of any size is proved. `migrations.go` has one migration today; two are the least
between which an instance can fail.

**Deadlock** is not an error where the system may stop, when every job has been created
and is done; `ImageStore`, whose readers always can ask, is checked for it.

**Fairness.** Goroutines run and calls return, so what one can do it does in the end
(weak fairness): a worker in `Run`, a goroutine that writes, a caller of
`tryStartWorker`, a tool, `main`. A `select` with two ready branches chooses at random, so
a branch that is ready again and again is taken (strong fairness of `Notified`,
`LoopStops`, `Tick`, `PollerStops`). pgxpool serves those that wait in turn, hence strong
fairness of a caller in `PostgresStore` that needs a connection or a row. `Processing`
takes from the pool that a pending job is tried again; `WorkerPool` shows when it is.
`Startup` assumes that somebody who waits for a transaction is woken, and nothing of
restarts: `docker-compose.yml` has no restart policy for the server, so an instance that
exits comes back only when an operator starts it; `RestartsEnd` is about an instance that
somebody does start again each time. Nothing is assumed of clients, failures
and the signal to shut down: they may come or not.

## 4. What was found

Kept as runs:

* `PoolCoalesced`: two notifications that merge in the channel are counted once. The
  poller only looks at the counter, not at the store, so the second job waits until
  another one is created (`workerpool.go:79-83, 137-143`). `TakenUnlessBehind` shows
  the counter to be all that goes wrong: while it is not behind, every job is taken.
* `PostgresExhausted`: `AcquireJob` takes a second connection of the pool while its
  transaction holds the first (`postgres.go:174`).

Seen while modelling, and stated where the models take the code's side. Jobs:

* The pool's counter also falls behind in two other ways. The memory store's
  `UpdateJob` announces nothing, so a job released after a temporary error is not
  counted (`worker.go:98`). And the count is taken off before a worker acquires, so a
  worker that finds nothing, or another's job, uses up a later job's count
  (`workerpool.go:103`), even when jobs come one at a time. `FallsBehindOnlyBy` proves that
  these ways, a failed first count and the end of the subscription are all there are.
* A failed last `UpdateJob` (`worker.go:128`) leaves a job processing for ever, as does a
  crash or a lost answer of the commit in `AcquireJob`: `ReleaseJobs` is called by nothing.
  `ProcessingIsOwned` therefore holds where these calls do not fail, as with the store in memory.
* A failed `UpdateTasks` fails the job, a lost connection included (`worker.go:123`), though
  it is temporary by `isRetryableError`; so `FailedForGood` needs an `UpdateTasks` that does
  not fail.
* A tool that refuses an image gives an error that looks temporary, so the job is tried
  again without end (`Hopeless`); so does an original that is gone from PostgreSQL's metadata.
* `releaseJob` takes a job from processing to pending; `CanTransitionTo` and
  `status_test.go:21` forbid that, but only the test calls it. It is not modelled.
* `Stop` waits for the workers, not for the goroutines that write their outcome;
  the process may exit before they do (`main.go:58-66`), and `ProcessingIsHeld` ends with it.
* `UpdateTasks` in PostgreSQL loses a connection at each failed statement, since `err` is
  a new variable in the loop (`postgres.go:292`). `leaked` counts these. A row that is
  missing, as after a deletion, leaves the transaction open, with its locks. Two attempts at
  one job, which only a sweep makes possible, update its rows in orders that may differ, and
  can end in a deadlock of the database (`postgres.go:386-400`).
* `GetJob` in PostgreSQL reads the job, then its tasks (`postgres.go:98-120`); deleted in between,
  a completed job is returned without any task. `CompletedIsComplete` allows that and no other
  torn answer. Nothing in the running server deletes jobs.

Images:

* A missing row of metadata is not recognised (`metadata_postgres.go:43`), so the
  answer is 500 where `README.md:306` says 404. A missing job is 500 too, where
  `README.md:380` says 404.
* A deletion that failed between the two stores can be repeated with S3 only; in memory
  and on disk it ends with "not found" and leaves the metadata (`store.go:105`). Nothing in
  the running server deletes images.
* S3's store puts the object before `image.NewVariant` looks at the sides of the image
  (`blob_s3.go:58-71`): a file whose header gives a side of zero is refused with its object
  stored, where the store on disk removes it. `RefuseFile` has this, and `StraysExplained`
  counts it among what uploads leave.
* With metadata in memory and blobs on disk or in S3 a restart strands every blob.
* A download from memory that meets a deletion may be empty, or end the process
  (`blob_memory.go:74`).

Pipeline, configuration, documents:

* Rounding makes a side of no pixels from an image more than twice as long as the limit
  allows for a pixel (`resizer.go:24`); `ResizedFits` gives the exact condition.
* The command line tool renames its result over whatever has the name (`main.go:117-118`): a
  file that `-output` names or that has the default name, and with `-output`, or with `-format`
  and the format the input's name has, the input itself (`main.go:82`). `DirectoryKept` allows
  that, by a complete result, and nothing else.
* `README.md:334` calls the format optional; an empty one fails as a conversion that is not
  supported. `README.md:343` says 201 for a created job; it is 200. The CLI's default
  output is not the one of `README.md:409` (`main.go:77-86`), and names ending in `jpg` need
  the flag.
* A file that omits the port gives port 0, not the 3331 of `README.md:179`
  (`config.go:59-72`). Without a file the environment is not read (`config.go:52-56`), so the
  instance serves from memory whatever it was told, though `README.md:105` offers environment
  variables or a file, and `README.md:192` lets the environment win. `Loaded` does as the code
  does; since code and document disagree, no property says which is right.

## 5. What is proved

For every value of the constants that satisfies the assumptions in the modules (sets of
jobs and callers that are finite, tasks that belong to a job, positive limits), TLAPS
checks the following. Each invariant needs a strengthening; what that says is the
argument.

`JobStoreClientsProofs`: all properties of its run, the type invariant, and `RecordsAgree`
(lock, reason and tasks of a job agree with its status), which no run states by
itself: they check `ImplementsLeases`, whose records agree by their values. The invariant
adds that a client's copy is as it was acquired (`CopiesAsAcquired`) and that what it knows
of its own results is what the store has, until a sweep (`ResultsStored`): so a write-back
can only spoil a job that a sweep took away. `LeasesRefinement` adds `VariantsStored`: a
client that is about to complete a job has stored all results, and these stay as long as
the job does.

`WorkerProofs`: the type invariant, all safety properties of its runs and
`ImplementsLifecycle`. `RunOK`: what a worker knows at each place of `Run`, so that, where
it is about to complete the job, the store has the variants it made and they are the
last. `TasksStored`: a stored job has its tasks, one not yet created has no results.
`WritersEnd`: what goroutines still have to write is pending or failed. The heart is
`OwnedByOne`: what a worker knows survives the steps of the others *because* nobody else has
the job, and the status stays processing from `AcquireJob` to the goroutine's write, long
after `Run` returned. `Refinement` then takes each step to one of `JobLifecycle` or to none.
Two theorems say which failures of the store matter, more exactly than the run, whose
store does not fail at all: only `UpdateTasks` makes a job fail for an error that is
temporary (`LastingFailures`: reasons travel in copies, and all of them are lasting),
and only `AcquireJob`, `UpdateJob` and the death of the process leave a job in
processing with no owner (`NoJobStranded`: each step that ends one ownership starts
another or writes the end).

`WorkerPoolProofs`: `TypeOK`, `TokensMatchWorkers`, `WaitGroupMatches`, `ProcessingIsHeld`. Tokens
equal workers plus those being started; that a worker which goes from acquiring to
processing is still counted once rests on `CopiesOwned`, since a set of copies grows by one
only if nobody has the same copy. `FallsBehindOnlyBy` completes what the run shows with
`TakenUnlessBehind`: counter, signal and workers that are about to acquire account for all
pending jobs until one of four steps is taken, a creation whose signal merges or is heard
by nobody, a job given back in silence, a worker that finds nothing while the counter is
below zero, and a count that failed. All other steps move a job's share from the signal to
the counter, to a worker, and out of what is pending.

`PostgresStoreProofs`: the type invariant and all safety properties of its runs, in layers.
`CallersOK`: a caller is about a job exactly where it says so, and its step moves nobody
else. `ConnsOK`: a step takes, returns, loses or keeps one connection, and opens or ends one
transaction with it, by cardinality of the set of open ones. `RowsOK`: a row is locked
exactly by the worker that acquires it, and is pending meanwhile; an id that is being
created is nobody else's. `DataOK`: a task has a row exactly when its job has; a transaction
that wrote variants holds their locks, so that no deletion comes before its commit; after
the commit the variants stay as long as the rows. Hence a job is completed only with all
variants. `AnswersOK`: between the statements of `GetJob` a job that was seen completed
keeps its rows and variants, or is deleted and then gone for good (`GoneStays`: an id is
used once), so the second statement finds all or nothing. `NewsOK` is about announcements
alone. `OwnerOK`, for a store whose leases nobody sweeps, says that two workers are never
about one job: the selected row is locked until the commit, and processing afterwards, so it
is never selected. `OneOwner` and `Refinement` need this, with deletions or without; they do
not hold with sweeps, where a holder whose job was taken away can write over what another
one completed. `LeasesRefinement` needs neither: `ColumnsAgree` and the copies as they were
acquired (`CopiesOK`) are enough to say that each commit is one operation of `JobLeases` and
each other step none. `PoolSuffices` is about `AcquireJob`'s second connection, where
`EnoughConnections` holds (one for each worker, one for the listener, those that errors cost
and one more) and nobody deletes jobs or sweeps leases: then no row is missing, no two
attempts meet, and each connection that is lost goes with a fault (`LossesOK`), so when none
is free somebody is in a call who asks for no other. The image metadata use the same pool
with single statements; these take one connection, give it back and wait for no second, so
that they delay others and block nobody.

`ImageStoreProofs`: the type invariant and all six properties of its run. An image that is
in one store only is known to its uploader alone (`UploadsAlone`), so nobody can have asked
for it; whoever saw metadata finds the blob unless the image was deleted or lost
(`SeenThenFound`); a deletion goes blob first (`DeletedInOrder`), so that it leaves no blob
without metadata: `StraysAreExplained` names the other causes, and says that a client, with
metadata in PostgreSQL, was told of none.

`ProcessingProofs`: the type invariant, `OutcomeJustified`, `WholeInputs` and `DirectoryKept`
for any requests, sizes and number of tasks, and two facts about `Pipeline`: what
`resizeDimensions` returns (`ResizedFits`), and that every supported conversion reaches its
compressor in a format this one reads (`CompressorCanRead`). The invariant says that the
input of a running tool is whole and as its call wants it (`Chain`), which no other call
disturbs as the tags differ, and that the original stays while tools run (`Fetched`). For
the command line tool `RunDirectory` says that the user's files are as they were until the
rename (no name that `Process` makes is one of theirs) and which there are besides: those
of its chain, or one that a failure left.

`StartupProofs`: the type invariant, `SchemaRecorded` and `ServesMigrated` for any number of
instances and versions and any settings. What is being committed is in nobody else's
transaction and not in the database, and all versions below the one an instance is about to
do are there. `NotAllGiveUp` is the safe half of `SomeoneServes`: unless a call failed
or a process was killed, some instance has not given up and does not wait for another
one. An instance keeps the configuration it made (`Configured`), and the invariant names one
that is not beaten: what it is about to build, nobody
has committed. When another commits first, the one that did is unbeaten itself.

`JobStoreProofs` holds the lemmas on the store's operations that the proofs about its
clients, the worker and the pool cite.

Type invariants are proved and are not in the runs. Only model-checked is liveness
(`ProcessingEnds`, `TakenUnlessBehind`, `StopEnds`, `AcquireReturns`, `JobEnds`,
`SomeoneServes`, `RestartsEnd`), which is out of reach of the provers here; every safety
property that a run shows is proved. No module declares a recursive operator.

## 6. What is not modelled

* The external programs: a tool succeeds, fails or refuses; which formats each reads and
  writes is taken from how the code chooses it. `oxipng` is never chosen.
* HTTP: requests are modelled by what they do to the stores; parsing and the mapping of
  errors to status codes (`json.go`) are stateless.
* Kafka: a notification is sent or lost. The producer's own retries and `Close` belong to a
  library.
* Operations that nothing calls: `UpdateTask`, `UnsubscribeOnJob`, bulk operations on images and
  metadata (`DeleteImages`, `GetMetadataByIDs`, `DeleteMetadataByIDs`).
* Names and bytes: sanitizing and validating of names, reading of metadata from files
  (`pkg/fs`), identifiers (`uuid.go`; every id is fresh), errors (`errs.go`), construction of S3
  and Kafka clients.
* Settings other than those that decide about stores: port, workers and Kafka are read in
  the same way.
* The misuse of a wait group: an `Add` at zero beside a `Wait`, which the documentation of
  `sync.WaitGroup` forbids. In `WorkerPool` the counter is exact and `Wait` returns at zero.
* That two announcements of one job are counted twice by the pool of a server with
  PostgreSQL: `PostgresStore` ends at the signal, and `WorkerPool` has the memory store.
* Time: a lease sweep may find any lock expired, a ticker may fire at any moment, a
  connection's timeout is a failure that may come at any time.

## 7. Plan

The modules of the first plan are written. What would add most next:

1. `Shutdown`: `main`, the HTTP server, the pool, the producer's `Close` and the goroutines
left by `Run` together; composes `WorkerPool` with `Worker`'s `writers` and `outbox`. What
may be lost, and what not. 2. `Requests`: the mapping of errors to codes (`json.go:67-94`)
over what the stores return, and the variants in the image store that no task names. 3. The
bulk operations of the image store and `UpdateTask`, once something calls them. 4. The
reader of `GetJob` beside `JobLeases`, so that what a client polls is stated once for both
stores.
