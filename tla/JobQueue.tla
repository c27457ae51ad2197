------------------------------ MODULE JobQueue ------------------------------
(***************************************************************************)
(* A set of worker instances over one `job` table and one `worker` table:  *)
(* claiming, locking, running and acknowledging tasks, heartbeats, orphan  *)
(* recovery, parking of undecodable tasks, vacuum, crashes and failed      *)
(* database calls.  One action is one SurrealQL statement (or transaction) *)
(* together with the Rust code around it, so every interleaving of two     *)
(* instances between two awaits is a behaviour of this module.             *)
(***************************************************************************)
EXTENDS JobStore, FiniteSets

CONSTANTS
    Job,          \* task ids
    Queue,        \* queue names
    JobQueueOf,   \* the queue a task is pushed to
    InstQueueOf,  \* the queue an instance works on
    MaxAttempts,  \* max_attempts of each task
    Priority,     \* priority of each task
    Key,          \* idempotency_key of each task, or NONE
    SharedInst,   \* the instances made by SharedSurrealStorage::make_shared
    Storage,      \* the SharedSurrealStorage (one driver) of each of those
    Decodes,      \* <<i, j>>: the codec of instance i decodes the args of j
    Mortal,       \* the instances whose process may stop
    BatchSize,    \* config.buffer_size()
    CopyId,       \* bound: copies of one task one instance may hold at once
    AttemptCap    \* bound: a row with more attempts is not claimed again

ASSUME ConstantAssumption ==
    /\ JobQueueOf \in [Job -> Queue]
    /\ InstQueueOf \in [Instance -> Queue]
    /\ MaxAttempts \in [Job -> Nat]
    /\ Priority \in [Job -> Nat]
    /\ SharedInst \subseteq Instance
    /\ DOMAIN Storage = SharedInst
    /\ Mortal \subseteq Instance
    /\ Decodes \subseteq Instance \X Job
    /\ BatchSize \in Nat \ {0}
    /\ AttemptCap \in Nat

VARIABLES
    jobs,        \* the job table
    registered,  \* the instances that have a row in the worker table
    seen,        \* age of each worker row's last_seen
    phase,       \* how far each instance's run has come
    sweep,       \* each instance's run of reenqueue_orphaned
    tasks        \* claimed tasks in the memory of the instances

vars == <<jobs, registered, seen, phase, sweep, tasks>>

Phase == {"new", "booting", "up", "down"}

\* `stage` is the next statement of reenqueue_orphaned.surql to run, `live`
\* the value of $live and `age` the time since it was read.
Sweep == [stage : {"idle", "update", "delete"},
          live  : SUBSET Instance,
          age   : 0 .. Dur]

IdleSweep == [stage |-> "idle", live |-> {}, age |-> 0]

\* A claimed task on its way through an instance.  "buffered": in a fetcher
\* buffer or a shared channel; "running": locked, in the handler; "acking":
\* the handler has returned; "refused": lock_task failed and the error is on
\* its way to the acknowledgement.  `attempt` is parts.attempt.
Task == [inst    : Instance,
         job     : Job,
         n       : CopyId,
         attempt : Nat,
         pc      : {"buffered", "running", "acking", "refused"},
         res     : {"None", "Ok", "Err", "Abort"}]

\* Every row, worker record and in-memory task keeps the shape the schema and
\* the Rust types give it; in particular no delay or age leaves its range.
TypeOK ==
    /\ jobs \in [Job -> Row]
    /\ registered \subseteq Instance
    /\ seen \in [Instance -> SeenAge]
    /\ phase \in [Instance -> Phase]
    /\ sweep \in [Instance -> Sweep]
    /\ tasks \subseteq Task

Init ==
    /\ jobs = [j \in Job |-> NoRow("Unborn")]
    /\ registered = {}
    /\ seen = [i \in Instance |-> 0]
    /\ phase = [i \in Instance |-> "new"]
    /\ sweep = [i \in Instance |-> IdleSweep]
    /\ tasks = {}

-----------------------------------------------------------------------------
(* Producers and maintenance. *)

\* A row of the queue already carries the task's idempotency key.
DuplicateKey(j) ==
    /\ Key[j] # NONE
    /\ \E k \in Job : /\ Exists(jobs[k])
                      /\ JobQueueOf[k] = JobQueueOf[j]
                      /\ Key[k] = Key[j]

\* push_tasks, one task of the batch; a duplicate is skipped.
Push(j) ==
    /\ jobs[j].status = "Unborn"
    /\ ~DuplicateKey(j)
    /\ \E d \in 0 .. MaxDelay : jobs' = [jobs EXCEPT ![j] = Pushed(d)]
    /\ UNCHANGED <<registered, seen, phase, sweep, tasks>>

\* vacuum: finished rows of every queue are deleted.
VacuumJobs ==
    /\ \E j \in Job : Vacuumable(jobs[j], MaxAttempts[j])
    /\ jobs' = [j \in Job |-> IF Vacuumable(jobs[j], MaxAttempts[j])
                              THEN NoRow("Purged") ELSE jobs[j]]
    /\ UNCHANGED <<registered, seen, phase, sweep, tasks>>

-----------------------------------------------------------------------------
(* reenqueue_orphaned: three statements, no transaction around them. *)

\* Mutant: the liveness test is strict.
LiveStrictly(q) ==
    {i \in registered : InstQueueOf[i] = q /\ seen[i] < Dur}

\* The LET $live statement.
Live(q) == {i \in registered : InstQueueOf[i] = q /\ seen[i] <= Dur}

StartSweep(i) == sweep' = [sweep EXCEPT ![i] =
    [stage |-> "update", live |-> Live(InstQueueOf[i]), age |-> 0]]

\* reenqueue_orphaned_stream: the periodic sweep of a running instance.
SweepRead(i) ==
    /\ phase[i] = "up"
    /\ sweep[i].stage = "idle"
    /\ StartSweep(i)
    /\ UNCHANGED <<jobs, registered, seen, phase, tasks>>

\* The rows the UPDATE statement of instance i's sweep selects.
Orphans(i) ==
    {j \in Job : /\ JobQueueOf[j] = InstQueueOf[i]
                 /\ Orphaned(jobs[j], sweep[i].live)}

\* The UPDATE statement.  The server runs it even if the client has died.
SweepUpdate(i) ==
    /\ sweep[i].stage = "update"
    /\ jobs' = [j \in Job |-> IF j \in Orphans(i) THEN Reenqueued(jobs[j])
                                                  ELSE jobs[j]]
    /\ sweep' = [sweep EXCEPT ![i] = [IdleSweep EXCEPT !.stage = "delete"]]
    /\ UNCHANGED <<registered, seen, phase, tasks>>

\* The DELETE statement.
SweepDelete(i) ==
    /\ sweep[i].stage = "delete"
    /\ registered' = {k \in registered : ~ /\ InstQueueOf[k] = InstQueueOf[i]
                                           /\ seen[k] > PurgeAfter}
    /\ sweep' = [sweep EXCEPT ![i] = IdleSweep]
    /\ UNCHANGED <<jobs, seen, phase, tasks>>

-----------------------------------------------------------------------------
(* Starting, heartbeating and stopping an instance. *)

\* initial_heartbeat begins with a sweep.
Boot(i) ==
    /\ phase[i] = "new"
    /\ phase' = [phase EXCEPT ![i] = "booting"]
    /\ StartSweep(i)
    /\ UNCHANGED <<jobs, registered, seen, tasks>>

\* ... and ends with register_worker; only then is the fetcher polled.
Register(i) ==
    /\ phase[i] = "booting"
    /\ sweep[i].stage = "idle"
    /\ phase' = [phase EXCEPT ![i] = "up"]
    /\ registered' = registered \cup {i}
    /\ seen' = [seen EXCEPT ![i] = 0]
    /\ UNCHANGED <<jobs, sweep, tasks>>

\* The run of an instance ends and everything it held in memory is dropped.
Stop(i) ==
    /\ phase' = [phase EXCEPT ![i] = "down"]
    /\ tasks' = {t \in tasks : t.inst # i}

\* keep_alive refreshes the row.
Heartbeat(i) ==
    /\ phase[i] = "up"
    /\ i \in registered
    /\ seen' = [seen EXCEPT ![i] = 0]
    /\ UNCHANGED <<jobs, registered, phase, sweep, tasks>>

\* keep_alive finds no row: WorkerNotFound fails the heartbeat stream.
HeartbeatNotFound(i) ==
    /\ phase[i] = "up"
    /\ i \notin registered
    /\ Stop(i)
    /\ UNCHANGED <<jobs, registered, seen, sweep>>

\* The worker ends: by a crash, by worker.stop(), or by an error in one of its
\* streams (a failing claim, sweep or heartbeat, or a heartbeat that is due
\* before register_worker has run).
Crash(i) ==
    /\ i \in Mortal
    /\ phase[i] \in {"booting", "up"}
    /\ Stop(i)
    /\ UNCHANGED <<jobs, registered, seen, sweep>>

\* A worker is started from a clone of the storage, which has the instance of
\* the run that has ended.
Restart(i) ==
    /\ i \in Mortal
    /\ phase[i] = "down" /\ sweep[i].stage = "idle"
    /\ phase' = [phase EXCEPT ![i] = "booting"]
    /\ StartSweep(i)
    /\ UNCHANGED <<jobs, registered, seen, tasks>>

-----------------------------------------------------------------------------
(* Claiming. *)

Due(q) == {j \in Job : /\ JobQueueOf[j] = q
                       /\ Claimable(jobs[j], MaxAttempts[j])}

\* ORDER BY priority DESC ... LIMIT $limit; ties between equal priorities are
\* left open.
IsBatch(S, due, limit) ==
    /\ S \subseteq due
    /\ Cardinality(S) = IF Cardinality(due) < limit THEN Cardinality(due)
                                                    ELSE limit
    /\ \A a \in S, b \in due \ S : Priority[a] >= Priority[b]
    /\ \A a \in S : jobs[a].attempts <= AttemptCap

\* Mutant: the attempts of the row are not carried over.
NewTaskFresh(i, j, n) ==
    [inst |-> i, job |-> j, n |-> n, attempt |-> 0,
     pc |-> "buffered", res |-> "None"]

NewTask(i, j, n) ==
    [inst |-> i, job |-> j, n |-> n, attempt |-> jobs[j].attempts,
     pc |-> "buffered", res |-> "None"]

\* Instance i takes the claimed tasks S into memory, as copy n of each.
Hold(i, S, n) ==
    /\ \A t \in tasks : t.inst = i /\ t.job \in S => t.n # n
    /\ tasks' = tasks \cup {NewTask(i, j, n) : j \in S}

\* fetch_next: the claim of a poll fetcher, or of a live notification.
FetchNext(i) ==
    /\ phase[i] = "up"
    /\ \E S \in SUBSET Due(InstQueueOf[i]) \ {{}}, n \in CopyId :
         /\ IsBatch(S, Due(InstQueueOf[i]), BatchSize)
         /\ jobs' = [j \in Job |-> IF j \in S THEN Claimed(jobs[j], i)
                                              ELSE jobs[j]]
         /\ Hold(i, S, n)
    /\ UNCHANGED <<registered, seen, phase, sweep>>

\* max(10, queues.len()), the LIMIT of the shared driver.
SharedLimit == 10

\* The driver of i's SharedSurrealStorage runs while one of the workers that
\* share it polls it.
Driven(i) ==
    /\ i \in SharedInst
    /\ \E k \in SharedInst : Storage[k] = Storage[i] /\ phase[k] = "up"

\* fetch_next_shared for the queue of i, and the send into i's channel, which
\* exists from make_shared on, before the worker of i has started.
FetchNextShared(i) ==
    /\ Driven(i)
    /\ phase[i] # "down"
    /\ \E S \in SUBSET Due(InstQueueOf[i]) \ {{}}, n \in CopyId :
         /\ IsBatch(S, Due(InstQueueOf[i]), SharedLimit)
         /\ jobs' = [j \in Job |-> IF j \in S THEN SharedClaimed(jobs[j])
                                              ELSE jobs[j]]
         /\ Hold(i, S, n)
    /\ UNCHANGED <<registered, seen, phase, sweep>>

\* The same claim, but the channel is gone or the reply is lost: the rows are
\* claimed and nobody holds them.
FetchNextSharedDropped(i) ==
    /\ Driven(i)
    /\ \E S \in SUBSET Due(InstQueueOf[i]) \ {{}} :
         /\ IsBatch(S, Due(InstQueueOf[i]), SharedLimit)
         /\ jobs' = [j \in Job |-> IF j \in S THEN SharedClaimed(jobs[j])
                                              ELSE jobs[j]]
    /\ UNCHANGED <<registered, seen, phase, sweep, tasks>>

-----------------------------------------------------------------------------
(* The life of a claimed task in its instance. *)

Drop(t) == tasks' = tasks \ {t}

Become(t, u) == tasks' = (tasks \ {t}) \cup {u}

\* The lock is held, the handler starts and its attempt is counted.
Started(t) == [t EXCEPT !.pc = "running", !.attempt = @ + 1]

\* The lock failed.  Whether the attempt was counted by then is left open.
Refused(t, a) == [t EXCEPT !.pc = "refused", !.res = "Err", !.attempt = a]

\* The handler returned res.
Returned(t, res) == [t EXCEPT !.pc = "acking", !.res = res]

\* decode_or_kill (and decode_row in fetch_next): args the codec cannot read.
KillTask(t) ==
    /\ t.pc = "buffered" /\ phase[t.inst] = "up"
    /\ <<t.inst, t.job>> \notin Decodes
    /\ jobs' = [jobs EXCEPT ![t.job] = KilledRow(@)]
    /\ Drop(t)
    /\ UNCHANGED <<registered, seen, phase, sweep>>

\* The kill fails too: logged, the task is skipped and its row stays claimed.
KillTaskFails(t) ==
    /\ t.pc = "buffered" /\ phase[t.inst] = "up"
    /\ <<t.inst, t.job>> \notin Decodes
    /\ Drop(t)
    /\ UNCHANGED <<jobs, registered, seen, phase, sweep>>

\* LockTaskService::call, lock_task succeeds and the handler starts.
LockTask(t) ==
    /\ t.pc = "buffered" /\ phase[t.inst] = "up"
    /\ <<t.inst, t.job>> \in Decodes
    /\ Lockable(jobs[t.job], t.inst)
    /\ jobs' = [jobs EXCEPT ![t.job] = Locked(@, t.inst)]
    /\ Become(t, Started(t))
    /\ UNCHANGED <<registered, seen, phase, sweep>>

\* What becomes of a task whose lock_task returned an error.  In the poll and
\* live storages the acknowledgement layer is the outer one and acknowledges
\* the error; in the shared storage the lock layer is outside of it and the
\* task just ends.
LockError(t) ==
    IF t.inst \in SharedInst THEN Drop(t)
    ELSE \E a \in {t.attempt, t.attempt + 1} :
            Become(t, Refused(t, a))

\* lock_task updates no row: TaskNotFound.
LockTaskNotFound(t) ==
    /\ t.pc = "buffered" /\ phase[t.inst] = "up"
    /\ <<t.inst, t.job>> \in Decodes
    /\ ~Lockable(jobs[t.job], t.inst)
    /\ LockError(t)
    /\ UNCHANGED <<jobs, registered, seen, phase, sweep>>

\* lock_task fails in the database (a conflict is not retried here) or its
\* reply is lost after the update.
LockTaskFails(t) ==
    /\ t.pc = "buffered" /\ phase[t.inst] = "up"
    /\ <<t.inst, t.job>> \in Decodes
    /\ Lockable(jobs[t.job], t.inst)
    /\ \/ UNCHANGED jobs
       \/ jobs' = [jobs EXCEPT ![t.job] = Locked(@, t.inst)]
    /\ LockError(t)
    /\ UNCHANGED <<registered, seen, phase, sweep>>

\* The handler returns.
Finish(t) ==
    /\ t.pc = "running"
    /\ \E res \in {"Ok", "Err", "Abort"} :
         Become(t, Returned(t, res))
    /\ UNCHANGED <<jobs, registered, seen, phase, sweep>>

\* SurrealAck::ack; when no row matches, TaskNotFound is all that happens.
AckTask(t) ==
    /\ t.pc \in {"acking", "refused"}
    /\ jobs' = IF Ackable(jobs[t.job], t.inst)
               THEN [jobs EXCEPT ![t.job] =
                        Acked(@, t.res, t.attempt, MaxAttempts[t.job])]
               ELSE jobs
    /\ Drop(t)
    /\ UNCHANGED <<registered, seen, phase, sweep>>

\* ack_task fails in the database; nothing retries it.
AckTaskFails(t) ==
    /\ t.pc \in {"acking", "refused"}
    /\ Drop(t)
    /\ UNCHANGED <<jobs, registered, seen, phase, sweep>>

-----------------------------------------------------------------------------
(* Time. *)

Tick ==
    /\ jobs' = [j \in Job |-> AgedRow(jobs[j])]
    /\ seen' = [i \in Instance |-> IF i \in registered
                                   THEN Older(seen[i], PurgeAfter + 1)
                                   ELSE seen[i]]
    /\ sweep' = [i \in Instance |-> IF sweep[i].stage = "update"
                    THEN [sweep[i] EXCEPT !.age = Older(@, Dur)]
                    ELSE sweep[i]]
    /\ UNCHANGED <<registered, phase, tasks>>

\* The timing the constants of the code rely on: a heartbeat is due KeepAlive
\* after the last one and lands within another KeepAlive, and the UPDATE of a
\* sweep runs less than the liveness window after its LET.
Punctual ==
    /\ \A i \in Instance : phase[i] = "up" => seen[i] < 2 * KeepAlive
    /\ \A i \in Instance :
         sweep[i].stage = "update" => sweep[i].age + 1 < Dur

TimelyTick == Punctual /\ Tick

-----------------------------------------------------------------------------
(* Specifications. *)

InstanceStep(i) ==
    \/ Boot(i) \/ Register(i) \/ Heartbeat(i) \/ HeartbeatNotFound(i)
    \/ SweepRead(i) \/ SweepUpdate(i) \/ SweepDelete(i)
    \/ FetchNext(i) \/ FetchNextShared(i)

TaskStep(t) ==
    \/ KillTask(t) \/ LockTask(t) \/ LockTaskNotFound(t)
    \/ Finish(t) \/ AckTask(t)

FaultStep ==
    \/ \E i \in Instance : FetchNextSharedDropped(i)
    \/ \E t \in tasks : KillTaskFails(t) \/ LockTaskFails(t) \/ AckTaskFails(t)

\* Everything but failing database calls and the clock.
Work ==
    \/ \E j \in Job : Push(j)
    \/ VacuumJobs
    \/ \E i \in Instance : InstanceStep(i) \/ Crash(i)
    \/ \E t \in tasks : TaskStep(t)

Next == Work \/ FaultStep \/ Tick
TimelyNext == Work \/ FaultStep \/ TimelyTick

\* Instances may stall for any length of time.
Spec == Init /\ [][Next]_vars

\* The same without failing database calls: stalls and crashes only.
StallSpec == Init /\ [][Work \/ Tick]_vars

\* Instances that are up heartbeat on time.
TimelySpec == Init /\ [][TimelyNext]_vars

\* Time passes, a request that can be made is eventually made, and a handler
\* that runs eventually returns.
Fairness ==
    /\ WF_vars(TimelyTick)
    /\ \A i \in Instance :
         /\ WF_vars(Boot(i)) /\ WF_vars(Register(i)) /\ WF_vars(Heartbeat(i))
         /\ WF_vars(SweepRead(i)) /\ WF_vars(SweepUpdate(i))
         /\ WF_vars(SweepDelete(i))
         /\ WF_vars(FetchNext(i)) /\ WF_vars(FetchNextShared(i))
         /\ \A j \in Job : WF_vars(\E t \in tasks : /\ t.inst = i /\ t.job = j
                                                  /\ TaskStep(t))

\* Timely instances and no failing database call.
FairSpec == Init /\ [][Work \/ TimelyTick]_vars /\ Fairness

\* The same, with workers started from clones of a storage; from some time on
\* no worker ends.
CloneSpec ==
    /\ Init
    /\ [][Work \/ TimelyTick \/ \E i \in Instance : Restart(i)]_vars
    /\ Fairness
    /\ <>[][\A i \in Instance : phase'[i] = "down" => phase[i] = "down"]_vars

-----------------------------------------------------------------------------
(* Safety. *)

\* Whatever stalls or fails, a row that is in flight can be recovered: once its
\* lock is old enough and its owner dead, the WHERE clause of
\* reenqueue_orphaned.surql selects it.  (The clause has no case for a Running
\* row without an owner, and none for a row without lock_at.)
InFlightIsRecoverable ==
    \A j \in Job :
        jobs[j].status \in {"Queued", "Running"} =>
            /\ jobs[j].lock_age # NoAge
            /\ Orphaned([jobs[j] EXCEPT !.lock_age = Dur], {})

\* A Failed row always has attempts left, so fetch_next picks it up again; the
\* "Failed and exhausted" cases of vacuum.surql and of
\* fetch_completed_tasks.surql never apply.
FailedHasAttemptsLeft ==
    \A j \in Job :
        jobs[j].status = "Failed" => jobs[j].attempts < MaxAttempts[j]

InHandler(t) == t.pc \in {"running", "acking"}

\* README: "two workers never run the same job".
MutualExclusion ==
    \A t, u \in tasks :
        t.job = u.job /\ t.pc = "running" /\ u.pc = "running" => t = u

\* The handler that runs job j, if any.
Runner(j) ==
    LET running == {t \in tasks : t.job = j /\ InHandler(t)}
    IN IF running = {} THEN NONE ELSE (CHOOSE t \in running : TRUE).inst

Abstract == INSTANCE JobLifecycle WITH
    life <- [j \in Job |-> [status |-> jobs[j].status, runner |-> Runner(j)]]

\* While workers heartbeat on time (and those of a queue share a codec), every
\* job lives as JobLifecycle says, whatever crashes, is lost or fails: a claim
\* is never taken from a handler that runs, an outcome is recorded by the
\* handler that produced it or for a job nobody runs, and is final.
LivesAsPromised == Abstract!Spec

\* effective_reenqueue_millis: "a worker mid-heartbeat is never judged dead".
\* No step returns to the queue a row that an instance which is up owns.
LiveNeverSweptStep ==
    \A i \in Instance, j \in Job :
        /\ phase[i] = "up" /\ jobs[j].lock_by = i
        /\ jobs[j].status \in {"Queued", "Running"}
        => jobs'[j].status # "Pending"
LiveNeverSwept == [][LiveNeverSweptStep]_vars

\* A recorded outcome is final: Done and Killed rows change only by vacuum, and
\* a purged task never comes back ("terminal status" in calculate_status).
TerminalIsFinalStep ==
    \A j \in Job :
        jobs[j].status \in {"Done", "Killed", "Purged"} =>
            jobs'[j].status \in {jobs[j].status, "Purged"}
TerminalIsFinal == [][TerminalIsFinalStep]_vars

\* Only a worker's death takes a job beyond max_attempts.  reenqueue_orphaned
\* adds an attempt without looking at the limit, and a Pending row is claimed
\* whatever its attempts; but while every worker lives, failures, refused locks
\* and retries stay within it.
OnlyDeathExceedsMaxAttempts ==
    (\A i \in Instance : phase[i] # "down") =>
        \A j \in Job : jobs[j].attempts <= MaxAttempts[j]

\* attempts never goes down, although ack_task writes the value a claim read
\* long before: no re-enqueue in between is lost.
AttemptsNeverDecreaseStep ==
    \A j \in Job :
        jobs'[j].attempts >= jobs[j].attempts \/ jobs'[j].status = "Purged"
AttemptsNeverDecrease == [][AttemptsNeverDecreaseStep]_vars

-----------------------------------------------------------------------------
(* Liveness. *)

\* README: "a restart never loses work", "jobs stranded by a dead worker are
\* re-enqueued".  With one worker that does not die, every pushed task reaches
\* a terminal status, however its claimers crash and its handler fails.
JobCompletes ==
    \A j \in Job :
        Exists(jobs[j]) ~> jobs[j].status \in {"Done", "Killed", "Purged"}

\* README: "a failed job with attempts left is picked up again on the next
\* claim".  A failed task runs again.
FailedRunsAgain ==
    \A j \in Job :
        jobs[j].status = "Failed" ~> jobs[j].status = "Running"

-----------------------------------------------------------------------------
(* The invariants behind them: BaseInv of Spec, TimelyInv of TimelySpec. *)

\* The row will never be claimed, locked or acknowledged again.
Gone(r) == r.status \in {"Killed", "Purged"} /\ r.lock_by = NONE

\* A running instance has a worker row, and the row is young enough for every
\* sweep to count the instance as live (keep_alive, register_worker).
UpIsFresh ==
    \A i \in Instance :
        phase[i] = "up" => i \in registered /\ seen[i] <= 2 * KeepAlive

\* lock_by only ever names an instance that has registered, and one that works
\* on the queue of the row.
OwnersHaveStarted ==
    \A j \in Job : \A i \in Instance :
        jobs[j].lock_by = i => /\ phase[i] \in {"up", "down"}
                               /\ InstQueueOf[i] = JobQueueOf[j]

\* A task in memory belongs to an instance that has not ended, and has gone past
\* the fetcher only if that instance runs and its codec reads the task.
TasksAreHeld ==
    \A t \in tasks :
        /\ phase[t.inst] # "down"
        /\ InstQueueOf[t.inst] = JobQueueOf[t.job]
        /\ t.pc # "buffered" => /\ phase[t.inst] = "up"
                                /\ <<t.inst, t.job>> \in Decodes
        /\ t.pc = "refused" => t.inst \notin SharedInst

\* An instance a sweep does not know to be live started after its LET, and so
\* did every lock of that instance.
SweepsAreFresh ==
    \A k \in Instance : sweep[k].stage = "update" =>
        /\ sweep[k].age < Dur
        /\ \A i \in Instance, j \in Job :
             /\ phase[i] = "up" /\ i \notin sweep[k].live
             /\ InstQueueOf[i] = InstQueueOf[k] /\ jobs[j].lock_by = i
             => jobs[j].lock_age <= sweep[k].age

\* From the start of its handler to its acknowledgement a task owns a Running
\* row, unless another codec killed it or vacuum deleted it.
HandlersOwnTheirRow ==
    \A t \in tasks : InHandler(t) =>
        \/ jobs[t.job].status = "Running" /\ jobs[t.job].lock_by = t.inst
        \/ Gone(jobs[t.job])

\* No two tasks are past lock_task for the same row.
OneHandlerPerJob ==
    \A t, u \in tasks :
        t.job = u.job /\ InHandler(t) /\ InHandler(u) => t = u

\* A poll storage holds a task only while it owns the row, and only once.
PolledTasksAreOwned ==
    \A t \in tasks : t.inst \notin SharedInst =>
        \/ /\ jobs[t.job].status \in {"Queued", "Running"}
           /\ jobs[t.job].lock_by = t.inst
        \/ Gone(jobs[t.job])

\* A poll storage never claims a task it still holds.
PolledOnce ==
    \A t, u \in tasks :
        t.inst \notin SharedInst /\ t.inst = u.inst /\ t.job = u.job => t = u

\* What holds however long instances stall and whatever calls fail.
BaseInv ==
    /\ TypeOK
    /\ OwnersHaveStarted
    /\ TasksAreHeld

\* The inductive invariant of TimelySpec, from which MutualExclusion,
\* LiveNeverSwept and TerminalIsFinal follow: locks, worker rows, sweeps under
\* way and tasks in memory agree on who owns each row.
TimelyInv ==
    /\ BaseInv
    /\ UpIsFresh
    /\ SweepsAreFresh
    /\ HandlersOwnTheirRow
    /\ OneHandlerPerJob
    /\ PolledTasksAreOwned
    /\ PolledOnce

=============================================================================
