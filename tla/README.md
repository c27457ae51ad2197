# TLA+ specification of apalis-surrealdb

This directory specifies the core of `apalis-surrealdb`: a persistent job queue
on SurrealDB with claims, locks, acknowledgements, heartbeats and orphan
recovery, its producers, its fetchers, its shared storage and the clients that
read its tables. TLC checks the
modules on small instances; TLAPS proves every safety property that a passing run
checks, of all components, and the three refinements, for every number of jobs,
workers, queues, sinks and tasks. Liveness is checked by TLC only.

Paths below are relative to the repository (`src/` in `PROJECT.json`).

## 1. The system

| Component | State it keeps | Operations | Module |
|---|---|---|---|
| Job table (`src/schema.surql`, `queries/task/*`, `queries/backend/*`) | rows of `job`: status, attempts, `lock_by`, `lock_at`, `run_at`, result | claim, shared claim, lock, ack, kill, re-enqueue, vacuum, push | `JobStore` (row operators) |
| Worker run (`src/lib.rs`, `src/ack.rs`) | one `instance` ULID, tasks in memory | boot, poll, lock layer, handler, ack layer, stop | `JobQueue` |
| Heartbeat and recovery (`keep_alive.rs`, `reenqueue_orphaned.rs`) | rows of `worker`: `last_seen` | register, heartbeat, three-statement sweep | `JobQueue` |
| Transaction retries (`queries/mod.rs`) | number of tries | classify errors, retry up to `MAX_TX_RETRIES` | `TxRetry` |
| Sink (`sink.rs`, `push_tasks.rs`) | buffer, flush future | start_send, poll_flush, push transaction | `TaskSink` |
| Poll fetcher (`fetcher.rs`) | `StreamState`, buffer | poll_next, take_pending | `PollFetcher` |
| Live storage (`fetcher.rs`, `lib.rs`) | `LiveState`, backoff; the two halves of its stream | subscribe, notify, back off, wake fetch_next; poll the live and the polling half in turn | `LiveStorage` |
| Shared storage (`shared.rs`) | registry of channels, driver future | make_shared, drive_registry, SharedFetcher | `SharedDriver` |
| wait_for (`wait_for.rs`) | ids still waited for | poll for finished rows | `WaitFor` |
| Metrics, queue listing (`metrics.rs`, `list_queues.rs`) | answers of the statements so far | two or four SELECTs, assembled by the client | `Board` |
| Listings (`list_tasks.rs`, `list_workers.rs`) | pages read so far | a page of tasks, the workers seen last | `Listings` |

The components meet in the two tables. A producer pushes rows; each worker run
claims due rows of its queue (`fetch_next`, or the shared driver's
`fetch_next_shared`), keeps them in a buffer or channel, passes each through a
lock layer (`lock_task`: Queued to Running), its handler and an
acknowledgement layer (`ack_task`: Done, Failed or Killed). Workers heartbeat
their row and periodically sweep: rows locked longer ago than the liveness
window whose owner is not live go back to Pending. No component talks to another
except through these statements and, in a shared storage, through the driver's
channels.

What is hard: no statement after the claim is in a transaction with another, so
every `await` is a place where another worker, a sweep, a vacuum or a crash may
come in; liveness of workers is judged by time; replies may be lost after a
commit; the sweep itself is three statements; acknowledgements are guarded by
the owner only; the shared claim names no owner; the shared driver holds a lock
while it waits for channels that only the workers empty; and a reader that needs
several statements, or several pages, reads a table that has moved in between.

What makes each part correct:

* worker runs: one handler per task, recorded outcomes are final, no attempt is
  lost, every task completes, failed tasks run again;
* recovery: a live owner is never swept, every row in flight can be recovered;
* sink: no task vanishes without an error, one row per key, conflicts are
  retried and nothing else is;
* poll fetcher: each claimed task handed on once, one batch at a time, no claim
  after an error, due tasks are handed on;
* live storage: coalesced wake-ups leave no task behind, backoff as documented,
  polling brings to a worker what the live query misses;
* shared driver: no task lost or doubled, channels bounded, the driver runs on;
* all of these together: each job lives one life, in which it returns to the
  queue only when no handler runs it; between claim and worker each queue is a line;
* wait_for: each task once and only when final, ends exactly when all are;
* board: bars are whole days, durations are not negative, statistics read while
  nothing moves agree;
* listings: pages add up, and no live worker is pushed off the list.

## 2. Modules

| Module | Extends | Content |
|---|---|---|
| `JobStore` | | row of the job table; one operator per WHERE clause (`Claimable`, `Lockable`, `Ackable`, `Orphaned`, `Vacuumable`) and per SET clause (`Claimed`, `SharedClaimed`, `Locked`, `Acked`, `KilledRow`, `Reenqueued`) |
| `JobQueue` | `JobStore`, instance of `JobLifecycle` | the core state machine, its specifications and properties |
| `MCJobQueue` | `JobQueue` | small instances for TLC |
| `JobQueueProofs` | `JobQueue`, `TLAPS` | theorems about `JobQueue` |
| `JobLifecycleProofs` | `JobQueueProofs` | `JobQueue` implements `JobLifecycle` |
| `TxRetry` | | `classify_tx_errors` and the retry decision |
| `TaskSink`, `MCTaskSink` | `TxRetry` | producers |
| `TaskSinkProofs` | `TaskSink`, `SequenceFacts` | theorems about `TaskSink` |
| `TaskLine` | | abstract: claimed tasks stand in one line per queue until they are handed on |
| `PollFetcher` | `TxRetry`, instance of `TaskLine` | the poll stream |
| `PollFetcherProofs` | `PollFetcher`, `SequenceFacts` | theorems about `PollFetcher`; it implements `TaskLine` |
| `LiveStorage` | | the live query with its polling fallback |
| `LiveStorageProofs` | `LiveStorage`, `SequenceFacts` | theorems about `LiveStorage` |
| `SharedDriver`, `MCSharedDriver` | instance of `TaskLine` | the driver and its channels |
| `SharedDriverProofs` | `SharedDriver`, `SequenceFacts` | theorems about `SharedDriver`; each queue implements `TaskLine` |
| `JobLifecycle` | | abstract: the life of each job, its row and the one handler that may run it |
| `WaitFor` | `JobLifecycle` | the result stream |
| `Board` | `JobLifecycle` | `global`, `fetch_by_queue` and `list_queues`, statement by statement, with `done_at` and `lock_at` |
| `Listings` | `Board` | pages of `list_tasks` and `list_all_tasks`, and `list_workers` |
| `Readers`, `MCReaders` | `WaitFor`, `Listings` | each reader beside a table that moves |
| `ReadersProofs` | `Readers`, `SequenceFacts` | theorems about `WaitFor`, `Board`, `Listings` as `Readers` runs them |
| `SequenceFacts` | `TLAPS`, theorems of the library | lemmas about the items of sequences, least elements and iteration |

Definitions called "Mutant" in their comment are wrong versions of the
definition that follows them. They are never used by a specification; they
serve to show that each property fails when the code is wrong in that way
(`PROJECT.json`, "mutants").

### JobQueue and the code

One action is one SurrealQL statement, or one BEGIN..COMMIT transaction, with the
Rust code around it.

| Variable | Code |
|---|---|
| `jobs` | the `job` table; a row that is not there is `Unborn` or `Purged` |
| `registered`, `seen` | the `worker` table, `last_seen` as an age |
| `phase` | run of one instance: `new`, `booting` (in `initial_heartbeat`), `up`, `down` |
| `sweep` | the next statement of a running `reenqueue_orphaned`, with `$live` and its age |
| `tasks` | claimed tasks in memory, with `parts.attempt` and how far they have come |

`Boot` and `Register` are `initial_heartbeat`; `Heartbeat` and
`HeartbeatNotFound` are `keep_alive`; `SweepRead`, `SweepUpdate`, `SweepDelete`
are the three statements of `reenqueue_orphaned.surql`; `FetchNext` and
`FetchNextShared` the claims; `KillTask` is `decode_or_kill`; `LockTask`,
`LockTaskNotFound` and `LockTaskFails` are `LockTaskService::call`; `AckTask` and
`AckTaskFails` are `SurrealAck::ack`; `Push` and `VacuumJobs` the producers and
maintenance; `Crash` ends a run at any point; `Restart` starts a run from a clone
of the storage.

The two orders of the middleware matter and are both modelled (`LockError`). A
tower `Stack::new(inner, outer)` wraps `outer` around `inner`. Poll and live
storages use `Stack::new(lock, ack)`: the acknowledgement is outside, so a
refused lock is acknowledged as an error of the task. The shared storage uses
`Stack::new(ack, lock)`: a refused lock ends the task without an acknowledgement.
Shared storages also poll an eager `SurrealPollFetcher`, so `FetchNext` is open to
every instance.

Times are ages counted in ticks. All comparisons in the queries are between a
stored timestamp and `time::now()`, so an age up to the largest threshold is all
that can matter.

### What is promised, and what is built on it

Two modules say what the detailed ones promise (`INSTANCE ... WITH` and a
refinement mapping). TLC checks on the runs' instances that they do, and TLAPS
proves it for all:

* `JobLifecycle`: eight statuses and a handler per job, and ten ways to move on.
  Under the mapping `JobQueue!Abstract` the runner of a job is the instance whose
  task is in its handler, or waits for its acknowledgement; a step of `JobQueue`
  (a batch, a sweep, the end of a worker) moves several jobs at once, each in a way
  its own life allows, or none. It holds for timely workers, like
  `MutualExclusion`, and says more: `Recover` needs a job without a runner, a final
  status is left only by `Vacuum`, an outcome is recorded only by the runner or by
  a refused lock. A copy in a shared channel may start a job that has returned to
  Pending or has failed meanwhile; that is part of what is promised.
* `TaskLine`: tasks are claimed to the end of their queue's line, leave it at the
  front, each handed on at most once while nobody returns it, and are lost only
  with the worker of the queue. In `PollFetcher` the line is the buffer, and
  `take_pending` hands it all on. In `SharedDriver` the line of a queue is its
  channel followed by the part of the driver's batch that is bound for it.

The readers do not repeat how the table changes: their environment is
`JobLifecycle!OneStep`, one job at a time. That is what makes statement-by-statement
readers affordable, and it is sound for timely workers because `JobQueue` implements
it. (A batch is several such steps in a row; a reader that runs in between sees
more states than the code allows.) Readers do not influence each other, so each
behaviour of `Readers` has one of them, and leaves the time and `done_at` of the
rows alone when that reader does not look at them.

### What is taken from outside the repository

* SurrealDB: BEGIN..COMMIT is atomic and serialisable, a single statement is
  atomic; a statement may take effect although its reply is lost. Live queries may
  fail, end, and lose what they have not delivered.
* apalis-core: the attempt counter goes up when the task's future is first polled
  (for a refused lock both values are allowed); an error in the task or heartbeat
  stream ends the worker run, so failing claims, sweeps and heartbeats are
  `Crash`. A heartbeat that fires before `register_worker` has run ends the run as
  well and is covered by `Crash`.
* futures `select` polls its two streams in turn, the other one whenever the first
  has no item; `ready_chunks(n)` collects up to n wake-ups; `then` and `flat_map` do
  not poll what is before them while a future runs or items are left. The item that
  is an error ends the worker run, as above.
* futures mpsc: `send` puts the message and then waits until the channel holds no
  more than its buffer; a sender whose receiver is gone returns at once.

### Abstractions

* Metadata, the text of results and layer names are left out; a result is `None`,
  `Ok` or `Err`. `done_at` is in `Board` only, the one place that reads it; there
  `lock_at` is told apart by its order with `done_at`, which is all that the sign of
  a duration depends on.
* `Board` keeps total, done and backlog of the counts, and the rows behind the average
  duration (`Finished`): the others are counted by the same SELECT in the same way.
  Percentages, averages, rounding and the text of
  statistics are left out.
* The clocks of the server and of the client of `list_queues` are one clock read at
  different times. A client clock a day behind would leave out today's bar.
* Ties of the ORDER BY behind equal priority are left open.
* In `JobQueue` a shared claim is made queue by queue, each up to the limit the code
  has for all queues together; `SharedDriver` has the driver's multi-queue batch.
* In `SharedDriver` a task that was killed because it cannot be read counts as
  `dropped`, like one left claimed; `Reenqueue` may return any of them, which is more
  than the sweep does: a killed row stays killed, and a Failed row that the driver
  claimed may name a live worker and wait for its end (`SharedRetry`).
* `LiveStorage` has one worker run, up to its end; the steps of the live query, which
  the code takes when it is polled, may happen at any time in between. A delay of the
  live fetcher or of the poll strategy may end at any time.
* The channel of a shared storage exists from `make_shared` on, also before its
  worker starts, and may hold several copies of a task (`CopyId`).
* Periodic sweeps that overlap the boot of the same instance, and claims, locks or
  acknowledgements executed by the server after their client died, are left out;
  for sweeps the latter is modelled.
* `PollFetcher` and `LiveStorage` see the rest of the system as tasks that become
  due; `SharedDriver` assumes that no sweep takes a task that is held
  (`JobQueue` covers that).

## 3. Runs

Deadlock is checked except where a system may come to rest: `Readers` (the answer
is complete), `LiveStorage` (an error has ended the run) and `SharedDriver` (all
workers may have stopped, after which nobody polls the driver).

| Run | Specification | Instance and what it shows |
|---|---|---|
| `Timely` | `TimelySpec` | a poll and a shared storage on one queue, crashes, failing calls, two copies of a task in one channel: `TimelyInv`, `MutualExclusion`, `LiveNeverSwept`, `TerminalIsFinal`, and `LivesAsPromised`: it implements `JobLifecycle` |
| `Stalls` | `Spec` | unbounded stalls, a worker that cannot decode the task and kills it unguarded: `TypeOK`, `InFlightIsRecoverable`, `FailedHasAttemptsLeft` |
| `Liveness` | `FairSpec` | two poll storages, one of them mortal, delayed tasks: `JobCompletes`, `FailedRunsAgain`, `AttemptsNeverDecrease`, `OnlyDeathExceedsMaxAttempts` |
| `Sink` | `FairSpec` | two sinks, equal keys, a taken id, conflicts, lost replies, dropped flushes, vacuum: `NothingForgotten`, `KeysAreUnique`, `ConflictsAreRetried`, `SentIsSettled` |
| `Fetcher` | `FairSpec` | conflicts, errors, undecodable rows, `take_pending` at any time: `ClaimsOnlyWhenDrained`, `NothingClaimedAfterError`, `DueIsHandedOn`, and `HandsOnInOrder`: it implements `TaskLine` |
| `LiveFallback` | `FairSpec` | the live query fails, ends, and loses notifications, tasks come due unannounced, the lazy half of the stream is stuck in a fetch_next or holds tasks, the eager half waits, fetches, or holds tasks, and select polls both in turn: `BackoffIsDoubled`, `WakesCoverDue`, and `DueReachesAWorker` |
| `Readers` | `FairSpec` | retries, query errors and vacuum during a wait: `EndIsComplete`, `ReportedOnceAndFinal`, `WaitEnds`; jobs that move and time that passes between any two statements of the board: `BarsAreWholeDays`, `NoNegativeDuration`, `QuietBoardAgrees`; pages read while jobs move, an undecodable task, workers that come and go: `PagesAddUp`, `LiveWorkersAreListed` |
| `Driver` | `StartedSpec` | two queues, workers that stop at any time, failing claims, a task that cannot be read: `ClaimsAreAccountedFor`, `ChannelsAreBounded`, `DriverKeepsRunning`, and `QueuesAreLines`: each queue implements `TaskLine` |

Every module also has its `TypeOK` checked (for `Timely` it is a conjunct of
`TimelyInv`).

Four runs are expected to fail. Each states a sentence of the documentation and
shows a behaviour of the code that contradicts it (details in `PROJECT.json`,
"findings"):

| Run | Sentence | What happens |
|---|---|---|
| `StallsOverwriteDone` | "terminal status" | a stalled worker claims the task a second time; the refusal of one copy is acknowledged over the outcome of the other |
| `SharedRetry` | "a failed job with attempts left is picked up again on the next claim" | the shared claim keeps the old `lock_by`; the worker that gets the task cannot lock it, and no sweep frees it while the old one lives |
| `ClonedStorage` | "jobs stranded by a dead worker are re-enqueued" | a run started from a clone of the storage has the dead run's instance and keeps its rows owned |
| `DriverBlocked` | "polling the shared driver keeps it running for every registered queue" | the driver waits on the full channel of a storage nobody polls |

The first needs a worker that misses its heartbeats; `TerminalHolds` (section 5)
says that it cannot happen otherwise.

Five limits of the guarantees are stated in the properties themselves rather
than by a run. `MutualExclusion` is claimed for `TimelySpec` only: a worker that
stalls beyond the window runs on after its row was given to another. `WaitEnds`
excepts `Overtaken`: a row that vacuum deletes between two polls is waited for
forever. `PagesAddUp` promises a complete list only if no task leaves the listing
while its pages are read, and one without repetition only if none joins it: pages
are offsets into what is there at the time. `QuietBoardAgrees` claims agreement of
one answer's numbers only if nothing happened between its statements. And a queue
stays in the registry of a shared storage after its worker
has ended, so that its tasks are still claimed and then dropped
(`SharedDriver!Send`), until a sweep returns them.

### Bounds

* `KeepAlive = 1`, `ReenqueueAfter = 1`: the floor applies and the window is 2
  ticks, the purge 8; every comparison is met from both sides.
* One job, one queue and two instances: mutual exclusion, recovery and retries of
  a task involve one row and two workers, and rows of one queue influence each
  other only through the order and limit of a batch. Batches of several rows,
  priorities and several queues are covered by the theorems of section 5, which
  hold for all of them, and not by a run: with a second job the timely instance
  passes ten million states.
* `AttemptCap`: a row with more attempts is not claimed again, since a re-enqueue
  adds attempts without limit. With 1 a task is claimed at least twice and swept in
  between, with 4 (liveness) it reaches its limit in every way.
* `CopyId`: copies of one task one instance may hold. One suffices for poll
  storages (`PolledOnce` is proved); two are used for channels and for
  `StallsOverwriteDone`. In `Stalls` it is one, and the properties there are about
  rows only.
* `MaxAttempts = 2`: fail, retry and kill. `MaxDelay = 1` in `Liveness`.
* `MaxTxRetries` is 5 in `Fetcher` as in the code, 2 in the sink; `MaxNotes`,
  `MaxFails` and `MaxRetries` bound notifications under way, failures in a row and
  retries.
* `LiveFallback`: three tasks and batches of two, so that a chunk of wake-ups is
  filled with one more to come, and a half of the stream holds several tasks. The
  backoff is 1, 2 and then 3, the cap, for 1 to 30 in the code: the second failure
  reaches the cap, and the theorem covers every base, cap and number of failures. One
  notification under way suffices for one to be lost, to wait while the lazy half is
  busy, or to meet a full chunk; the theorems have no such bound.
* The sinks send three tasks with one key, two of them through one sink, so that
  equal keys meet in one batch, in two batches and in two sinks; the third has the
  record id of a row that is there before.
* The limit of the shared driver is 3 instead of 10 so that it is reached; with five
  tasks, one of them unreadable and two others on each queue, a batch mixes queues
  and a line has a middle.
* `Readers`: three jobs, two on one queue and due at the same time, so that the order
  of equal `run_at` matters; pages of one task, of any status, so that a listing has
  several; the
  list of workers is cut at one of up to three, the 100 of the code being a parameter.
  `DayLength = 2`, `ActivityDays = 2` and `MaxNow = 5` in place of 86400 seconds, 7
  days and no end: both halves of a day, a midnight between any two statements, and
  tasks that have left the window all occur. `MaxNow` also lets the worker
  table live long enough to be purged. `Timed` leaves `list_queues` two jobs.

### Fairness

* `JobQueue!Fairness`: time passes and every request an instance can make is
  eventually made: the streams are polled by the worker for as long as it runs. A
  handler that runs returns. `Punctual` bounds how late a heartbeat may be: due
  `KeepAlive` after the last one, it arrives within another `KeepAlive`, and the
  UPDATE of a sweep runs within the window after its LET. Nothing is fair about
  crashes, pushes or vacuum.
* `CloneSpec` adds that from some time on no worker ends, so that its
  counterexample is not an endless series of crashes.
* `TaskSink!FairSpec`: a caller that sent tasks calls flush again, and although it
  may drop flushes, it does not drop them forever before they get a step further
  (strong fairness of `FlushStep`). Conflicts and lost answers stay unlimited.
* `PollFetcher`: the worker polls the stream. `LiveStorage`: the
  worker polls the merged stream, a fetch_next of the poll fetcher is answered or
  fails, and the delay of the poll strategy ends; nothing is assumed of the live
  query, nor that the fetch_next of the lazy half ever returns. Which half is polled,
  and when, is not a matter of fairness but of `select`.
* `SharedDriver`: running workers poll their fetcher, and with it the driver.
  `StartedSpec` adds that storages that are made are started.
* `Readers`: the caller of `wait_for` polls the stream. Nothing is assumed of the
  jobs, of vacuum, or of queries failing: `WaitEnds` says that the stream ends once
  all tasks are final.

## 4. What the specifications assume of each other

`JobQueue` uses claims as single steps; `TxRetry` and `PollFetcher` look into the
retry loop behind one. `WaitFor`, `Board` and `Listings` use the life of a job that
`LivesAsPromised` shows for timely workers; under stalls, where Done may be
overwritten (`StallsOverwriteDone`), `ReportedOnceAndFinal` is not claimed.
`WaitFor!Completed` leaves out "Failed and exhausted"
because `FailedHasAttemptsLeft` holds. `SharedDriver!Reenqueue` returns what nobody
holds, which `InFlightIsRecoverable` permits.

## 5. Proofs

The theorems hold for all values of the constants that satisfy the named
assumptions of the modules, which TLC evaluates on the runs' instances. Most only
type the parameters. Those that say more: the heartbeat interval is positive
(`TimeAssumption`); the tasks of `LiveStorage` and `SharedDriver`, the jobs and
workers of the readers, and the ids waited for are finitely many, as they are at any
time; a batch, a page, a limit and `MaxTxRetries` are at least 1; the backoff starts
within its cap; the rows that a sink finds have distinct keys (`PresentAssumption`).
The theorems are about the specifications without fairness; each run checks one that
adds fairness, or the same.

Each safety property needs an inductive invariant. TLC checked each of them on the
run's instance first.

**`JobQueueProofs`**

* `TypeCorrect`, `BaseCorrect`: `Spec => []BaseInv`. Row by row: the `...Facts`
  lemmas say what each row operator returns; `RowSteps`, `PhaseSteps` and
  `TaskSteps` reduce a step of the system to what it may do to one row, one
  instance, one task, so that later lemmas need not look at every action again.
* `RowsCorrect`, `FailedHolds`: `InFlightIsRecoverable` and `FailedHasAttemptsLeft`
  under any stalls and failures, by an invariant of single rows (`RowInv`).
* `TimelyCorrect`: `TimelySpec => []TimelyInv`. Mutual exclusion is not inductive.
  A sweep under way carries a `$live` that may be out of date; what saves a worker
  that started after the LET is that its locks are younger than the sweep
  (`SweepsAreFresh`), and what saves the others is that their worker row is younger
  than the window (`UpIsFresh`). With these a row owned by a running instance is
  never orphaned (`OwnedIsNotOrphaned`), so handlers keep their row
  (`HandlersOwnTheirRow`), poll storages own whatever they hold
  (`PolledTasksAreOwned`, `PolledOnce`), and a lock can only be taken on a row that
  no handler holds (`OneHandlerPerJob`).
* `MutualExclusionHolds`, `LiveNeverSweptHolds` follow from `TimelyInv`.
* `TerminalHolds`: `TerminalIsFinal` when all workers of a queue decode the same
  tasks (`UniformCodec`; without it the unguarded `kill_task` overwrites Done).
* `AttemptsHold`: `AttemptsNeverDecrease` without shared storages, by
  `AttemptsCarried`: a held task remembers the attempts of its row.
* `OnlyDeathHolds`: `OnlyDeathExceedsMaxAttempts` by `WithinInv`. Attempts within the
  limit are not enough: as long as no worker is down, a row is Pending only before its
  first run (only a sweep makes it Pending again), a row in flight has an attempt
  left, and so has the copy in memory. It holds without shared storages and for limits
  above 0; a task with `max_attempts = 0` is claimed once, since a Pending row is
  claimed whatever its attempts, and records attempt 1.

**`JobLifecycleProofs`**: `QueueImplementsLifecycle`, `TimelySpec => LivesAsPromised`,
for workers of a queue that share a codec. The mapping gives a job the instance in
whose handler it is as its runner; that there is one is `OneHandlerPerJob`. Beyond
`TimelyInv` the refinement needs (`LifeInv`) that a row in a handler is Running, so
that recovery and claims find no runner, that a refused lock carries an error, and
that a row that was locked was read by a codec of its queue, so that no worker of the
queue kills it. Then each action is shown to move every job by a step of its own
life, or not at all.

**`PollFetcherProofs`**: `DrainedHolds`, `ErrorHolds`, and `FetcherImplementsLine`,
`Spec => HandsOnInOrder`. The invariant adds that a task is in the table, in the
buffer or handed on, in one place only (`OnePlace`), that the stream is over after an
error (`ErrorEnds`) and that retries are counted only while fetching (`AttemptLeft`).

**`LiveStorageProofs`**: `BackoffHolds`, by what `Doubled` computes (`DoubledFacts`),
and `WakesHold`. `WakesCoverDue` sums two sets that may overlap, and is kept by no
step on its own; `DueIsCovered` counts a task that is both announced and missed
once, and leaves out tasks whose time has not come. That a claim answers a whole
chunk needs a chunk to be no larger than a batch, a conjunct of `TypeOK`.

**`SharedDriverProofs`**: `ChannelBoundHolds`, `ClaimsAccountedHolds`, and
`DriverImplementsLines`, `Spec => QueuesAreLines`. The bound of a channel rests on the
driver being its only sender, which waits when it is full. The batch exists only
while the driver has the lock, holds tasks of registered queues, and each channel
holds its own queue's tasks while it has a receiver (`BatchIsLocked`,
`ChannelsAreOwn`). For the refinement, the line of a queue is its channel followed by
its part of the batch: sending moves a task from one to the other and leaves the line
as it is.

**`TaskSinkProofs`**: `NothingForgottenHolds`, `KeysAreUniqueHolds`,
`ConflictsRetriedHolds`. What makes `NothingForgotten` inductive is that an answer
without an error is true (`AnswersAreTrue`): the batch was stored when it was given,
and a row stored once stays accounted for although vacuum may delete it. The last
needs what `classify_tx_errors` makes of every well-formed answer.

**`ReadersProofs`**, on `WaitFor`, `Board` and `Listings`:

* `ReportedOnceHolds`, `EndIsCompleteHolds`: what is reported and what is waited for
  are disjoint, and together what was asked, until an error (`WaitInv`).
* `NoNegativeDurationHolds`: an outcome has a time, and one that was locked keeps the
  lock from before it (`StampInv`).
* `QuietBoardAgreesHolds`, `BarsAreWholeDaysHolds`: what an undisturbed call has read
  is what its statements would answer now (`AnswersStand`), and the activity was
  counted at some time before the client reads its clock (`ActivityStands`). That each
  bar is a whole day then follows from the window of the query being as long as the
  chart, for every length of a day.
* `PagesAddUpHolds`: by ranks. While no task leaves the listing, one that has not
  been read has at least `offset` others before it; while none joins, one that has
  been read has fewer (`NoneSkipped`, `NoneTwice`).
* `LiveWorkersListedHolds`: by counting. A live worker missing from a full answer was
  seen no later than those in it, so these are live too, and with it one too many.

**`SequenceFacts`** serves the component proofs: what `Append`, `Tail`, `\o` and `Front`
do to the items of a sequence, that a set of numbers has a least element (`NatMin`)
and that a start and a step have a function that iterates them (`Iterate`). The last
two stand in for induction.

Only model-checked: the liveness properties `JobCompletes`, `FailedRunsAgain`,
`SentIsSettled`, `DueIsHandedOn`, `DueReachesAWorker`, `WaitEnds` and
`DriverKeepsRunning`, because TLAPS does not prove liveness under fairness (nor the
ENABLED in it), and the four violations, which are behaviours.

## 6. Not modelled

* `fetch_by_id` and `check_status`: one read of a table that changes nothing; the
  query of `check_status` is that of `wait_for`.
* Schema setup, builders, error types and examples: no behaviour over time.
* Clock skew between server and clients; a day boundary in another time zone (both
  sides use UTC).
* The isolation level behind the idempotency check.

Modelled, but without a property, because the documentation promises nothing: a
failing acknowledgement that leaves a row Running with a live owner, an unguarded
kill by a worker with another codec, and one undecodable task failing a whole page;
see the notes of the hazards in `PROJECT.json`.

## 7. Plan

Done: 1. `JobStore` and `JobQueue` with their runs; 2. proofs of the core; 3. the
component modules; 4. `JobLifecycle` and `TaskLine` with their refinements; 5. the
readers; 6. proofs of every component's safety properties and of the refinements.

Next, in this order:

1. Two workers running at the same time with clones of one storage, and
   acknowledgements that the server executes after their client died; which parts of
   `TimelyInv` then still hold.
2. Several rows in one batch, priorities and several queues in an instance of
   `JobQueue` small enough for TLC.
3. Readers beside `JobLifecycle!Next`, where one step moves several jobs.
