--------------------------- MODULE JobQueueProofs ---------------------------
(***************************************************************************)
(* Proofs about JobQueue, for every set of tasks, instances and queues and *)
(* every timing.                                                           *)
(***************************************************************************)
EXTENDS JobQueue, TLAPS

-----------------------------------------------------------------------------
(* The row operators. *)

\* The liveness window is at least two heartbeat intervals.
LEMMA DurFacts ==
    /\ Dur \in Nat /\ Dur >= 2 * KeepAlive /\ Dur >= 2
    /\ 2 * KeepAlive \in Nat /\ PurgeAfter \in Nat /\ PurgeAfter > Dur
    /\ 0 \in LockAge /\ NoAge \in LockAge /\ 0 \in SeenAge
BY TimeAssumption DEF Dur, PurgeAfter, LockAge, SeenAge, NoAge

\* A row that is not there has the type of a row.
LEMMA NoRowFacts ==
    ASSUME NEW s \in Status \cup NoRowStatus
    PROVE  /\ NoRow(s) \in Row
           /\ NoRow(s).status = s /\ NoRow(s).lock_by = NONE
           /\ NoRow(s).attempts = 0
BY DurFacts, TimeAssumption, 0 \in 0 .. MaxDelay DEF NoRow, Row

\* What push_tasks creates.
LEMMA PushedFacts ==
    ASSUME NEW d \in 0 .. MaxDelay
    PROVE  /\ Pushed(d) \in Row
           /\ Pushed(d).status = "Pending" /\ Pushed(d).lock_by = NONE
           /\ Pushed(d).attempts = 0
BY NoRowFacts DEF Pushed, NoRow, Row, Status

\* What a claim and a lock do to a row.
LEMMA ClaimFacts ==
    ASSUME NEW r \in Row, NEW i \in Instance
    PROVE  /\ Claimed(r, i) \in Row /\ Claimed(r, i).status = "Queued"
           /\ Claimed(r, i).lock_by = i /\ Claimed(r, i).lock_age = 0
           /\ Claimed(r, i).attempts = r.attempts
           /\ Locked(r, i) \in Row /\ Locked(r, i).status = "Running"
           /\ Locked(r, i).lock_by = i /\ Locked(r, i).lock_age = 0
           /\ Locked(r, i).attempts = r.attempts
BY DurFacts DEF Claimed, Locked, Row, Status

\* What the claim of the shared driver does to a row.
LEMMA SharedClaimFacts ==
    ASSUME NEW r \in Row
    PROVE  /\ SharedClaimed(r) \in Row /\ SharedClaimed(r).status = "Queued"
           /\ SharedClaimed(r).lock_by = r.lock_by
           /\ SharedClaimed(r).lock_age = 0
           /\ SharedClaimed(r).attempts = r.attempts
BY DurFacts DEF SharedClaimed, Row, Status

\* calculate_status returns Done, Killed, or Failed with attempts left.
LEMMA StatusFacts ==
    ASSUME NEW res, NEW a \in Nat, NEW max \in Nat
    PROVE  /\ CalculateStatus(res, a, max) \in {"Done", "Killed", "Failed"}
           /\ CalculateStatus(res, a, max) = "Failed" => a < max
BY DEF CalculateStatus

\* What an acknowledgement does to a row.
LEMMA AckedFacts ==
    ASSUME NEW r \in Row, NEW res, NEW a \in Nat, NEW max \in Nat
    PROVE  /\ Acked(r, res, a, max) \in Row
           /\ Acked(r, res, a, max).status = CalculateStatus(res, a, max)
           /\ Acked(r, res, a, max).attempts = a
           /\ Acked(r, res, a, max).lock_by = r.lock_by
           /\ Acked(r, res, a, max).lock_age = r.lock_age
<1>1. CalculateStatus(res, a, max) \in Status
  BY StatusFacts DEF Status
<1> QED
  BY <1>1 DEF Acked, Row

\* What kill_task and the sweep do to a row.
LEMMA KilledFacts ==
    ASSUME NEW r \in Row
    PROVE  /\ KilledRow(r) \in Row
           /\ KilledRow(r).attempts = r.attempts
           /\ Exists(r) => Gone(KilledRow(r)) /\ KilledRow(r).status = "Killed"
           /\ ~Exists(r) => KilledRow(r) = r
BY DurFacts DEF KilledRow, Row, Gone, Exists, Status

\* What the sweep does to a row.
LEMMA ReenqueuedFacts ==
    ASSUME NEW r \in Row
    PROVE  /\ Reenqueued(r) \in Row /\ Reenqueued(r).status = "Pending"
           /\ Reenqueued(r).lock_by = NONE
           /\ Reenqueued(r).attempts = r.attempts + 1
<1>1. r.attempts + 1 \in Nat
  BY DEF Row
<1> QED
  BY <1>1, DurFacts DEF Reenqueued, Row, Status

\* What a tick does to a row.
LEMMA AgedFacts ==
    ASSUME NEW r \in Row
    PROVE  /\ AgedRow(r) \in Row
           /\ AgedRow(r).status = r.status /\ AgedRow(r).lock_by = r.lock_by
           /\ AgedRow(r).attempts = r.attempts
           /\ AgedRow(r).lock_age = NoAge <=> r.lock_age = NoAge
           /\ AgedRow(r).lock_age <= r.lock_age + 1
<1>1. r.lock_age \in LockAge /\ r.delay \in 0 .. MaxDelay
  BY DEF Row
<1>2. r.lock_age # NoAge => /\ Older(r.lock_age, Dur) \in 0 .. Dur
                            /\ Older(r.lock_age, Dur) <= r.lock_age + 1
  BY <1>1, DurFacts DEF LockAge, Older, NoAge
<1>3. r.delay # 0 => r.delay - 1 \in 0 .. MaxDelay
  BY <1>1, TimeAssumption
<1> DEFINE x == IF r.lock_age = NoAge THEN NoAge ELSE Older(r.lock_age, Dur)
           y == IF r.delay = 0 THEN 0 ELSE r.delay - 1
<1>4. /\ x \in LockAge /\ y \in 0 .. MaxDelay
      /\ x = NoAge <=> r.lock_age = NoAge
      /\ x <= r.lock_age + 1
  BY <1>1, <1>2, <1>3, TimeAssumption DEF LockAge, NoAge
<1>5. AgedRow(r) = [r EXCEPT !.lock_age = x, !.delay = y]
  BY DEF AgedRow
<1> HIDE DEF x, y
<1> QED
  BY <1>4, <1>5 DEF Row

-----------------------------------------------------------------------------
(* The tasks in memory. *)

\* A claim makes a well-formed task of the row it claimed.
LEMMA NewTaskFacts ==
    ASSUME TypeOK, NEW i \in Instance, NEW j \in Job, NEW n \in CopyId
    PROVE  /\ NewTask(i, j, n) \in Task
           /\ NewTask(i, j, n).inst = i /\ NewTask(i, j, n).job = j
           /\ NewTask(i, j, n).n = n /\ NewTask(i, j, n).pc = "buffered"
           /\ NewTask(i, j, n).attempt = jobs[j].attempts
<1>1. jobs[j].attempts \in Nat
  BY DEF TypeOK, Row
<1> QED
  BY <1>1 DEF NewTask, Task

\* A task keeps its identity on its way through the instance.
LEMMA StartedFacts ==
    ASSUME NEW t \in Task
    PROVE  /\ Started(t) \in Task /\ Started(t).inst = t.inst
           /\ Started(t).job = t.job /\ Started(t).pc = "running"
           /\ Started(t).attempt = t.attempt + 1
<1>1. t.attempt + 1 \in Nat
  BY DEF Task
<1> QED
  BY <1>1 DEF Started, Task

\* The same for a task whose lock failed.
LEMMA RefusedFacts ==
    ASSUME NEW t \in Task, NEW a \in Nat
    PROVE  /\ Refused(t, a) \in Task /\ Refused(t, a).inst = t.inst
           /\ Refused(t, a).job = t.job /\ Refused(t, a).pc = "refused"
           /\ Refused(t, a).attempt = a
BY DEF Refused, Task

\* The same for a task whose handler has returned.
LEMMA ReturnedFacts ==
    ASSUME NEW t \in Task, NEW res \in {"Ok", "Err", "Abort"}
    PROVE  /\ Returned(t, res) \in Task /\ Returned(t, res).inst = t.inst
           /\ Returned(t, res).job = t.job /\ Returned(t, res).pc = "acking"
           /\ Returned(t, res).attempt = t.attempt
BY DEF Returned, Task

-----------------------------------------------------------------------------
(* What a step can do to a row. *)

Serves(i, j) == phase[i] = "up" /\ InstQueueOf[i] = JobQueueOf[j]

RowStep(j) ==
    \/ jobs'[j] = jobs[j]
    \/ /\ jobs[j].status = "Unborn"
       /\ \E d \in 0 .. MaxDelay : jobs'[j] = Pushed(d)
    \/ /\ Vacuumable(jobs[j], MaxAttempts[j])
       /\ jobs'[j] = NoRow("Purged")
    \/ /\ Claimable(jobs[j], MaxAttempts[j])
       /\ \/ SharedInst # {} /\ jobs'[j] = SharedClaimed(jobs[j])
          \/ \E i \in Instance : /\ Serves(i, j)
                                 /\ jobs'[j] = Claimed(jobs[j], i)
    \/ \E t \in tasks : /\ LockTask(t) \/ LockTaskFails(t)
                        /\ t.job = j /\ Serves(t.inst, j)
                        /\ Lockable(jobs[j], t.inst)
                        /\ jobs'[j] = Locked(jobs[j], t.inst)
    \/ \E t \in tasks : /\ AckTask(t) /\ t.job = j
                        /\ Ackable(jobs[j], t.inst)
                        /\ jobs'[j] = Acked(jobs[j], t.res, t.attempt,
                                            MaxAttempts[j])
    \/ \E t \in tasks : /\ KillTask(t) /\ t.job = j
                        /\ jobs'[j] = KilledRow(jobs[j])
    \/ \E k \in Instance : /\ sweep[k].stage = "update"
                           /\ InstQueueOf[k] = JobQueueOf[j]
                           /\ Orphaned(jobs[j], sweep[k].live)
                           /\ jobs'[j] = Reenqueued(jobs[j])

\* Every step but a tick changes every row by one of the statements of queries/,
\* with the guard of that statement, or leaves it alone.
LEMMA RowWork ==
    ASSUME TypeOK, TasksAreHeld, [Work \/ FaultStep]_vars
    PROVE  /\ \A j \in Job : RowStep(j)
           /\ jobs' = [j \in Job |-> jobs'[j]]
<1> USE DEF RowStep
<1> DEFINE Goal == /\ \A j \in Job : RowStep(j)
                   /\ jobs' = [j \in Job |-> jobs'[j]]
<1>0. ASSUME NEW t \in tasks
      PROVE  /\ t \in Task /\ t.inst \in Instance /\ t.job \in Job
             /\ t.attempt \in Nat /\ t.res \in {"None", "Ok", "Err", "Abort"}
             /\ InstQueueOf[t.inst] = JobQueueOf[t.job]
  BY DEF TypeOK, Task, TasksAreHeld
<1>1. CASE UNCHANGED jobs
  BY <1>1 DEF TypeOK
<1>2. ASSUME NEW j \in Job, Push(j) PROVE Goal
  BY <1>2 DEF Push, TypeOK
<1>3. CASE VacuumJobs
  BY <1>3 DEF VacuumJobs
<1>4. ASSUME NEW i \in Instance, SweepUpdate(i) PROVE Goal
  BY <1>4 DEF SweepUpdate, Orphans
<1>5. ASSUME NEW i \in Instance, FetchNext(i) PROVE Goal
  BY <1>5 DEF FetchNext, Due, Serves
<1>6. ASSUME NEW i \in Instance, FetchNextShared(i) PROVE Goal
  BY <1>6 DEF FetchNextShared, Due, Driven
<1>7. ASSUME NEW i \in Instance, FetchNextSharedDropped(i) PROVE Goal
  BY <1>7 DEF FetchNextSharedDropped, Due, Driven
<1>8. ASSUME NEW t \in tasks, KillTask(t) PROVE Goal
  <2>1. jobs' = [jobs EXCEPT ![t.job] = KilledRow(@)]
    BY <1>8 DEF KillTask
  <2> QED
    BY <1>0, <1>8, <2>1 DEF TypeOK
<1>9. ASSUME NEW t \in tasks, LockTask(t) \/ LockTaskFails(t) PROVE Goal
  <2>1. /\ Lockable(jobs[t.job], t.inst) /\ phase[t.inst] = "up"
        /\ \/ UNCHANGED jobs
           \/ jobs' = [jobs EXCEPT ![t.job] = Locked(@, t.inst)]
    BY <1>9 DEF LockTask, LockTaskFails
  <2> QED
    BY <1>0, <1>1, <1>9, <2>1 DEF TypeOK, Serves
<1>11. ASSUME NEW t \in tasks, AckTask(t) PROVE Goal
  <2>1. \/ UNCHANGED jobs
        \/ /\ Ackable(jobs[t.job], t.inst)
           /\ jobs' = [jobs EXCEPT ![t.job] =
                         Acked(@, t.res, t.attempt, MaxAttempts[t.job])]
    BY <1>11 DEF AckTask
  <2> QED
    BY <1>0, <1>1, <1>11, <2>1 DEF TypeOK
<1>13. ASSUME NEW i \in Instance,
              \/ Boot(i) \/ Register(i) \/ Heartbeat(i) \/ HeartbeatNotFound(i)
              \/ SweepRead(i) \/ SweepDelete(i) \/ Crash(i)
       PROVE  UNCHANGED jobs
  BY <1>13 DEF Boot, Register, Heartbeat, HeartbeatNotFound, SweepRead,
               SweepDelete, Crash
<1>14. ASSUME NEW t \in tasks,
              \/ LockTaskNotFound(t) \/ Finish(t) \/ KillTaskFails(t)
              \/ AckTaskFails(t)
       PROVE  UNCHANGED jobs
  BY <1>14 DEF LockTaskNotFound, Finish, KillTaskFails, AckTaskFails
<1> QED
  BY <1>1, <1>2, <1>3, <1>4, <1>5, <1>6, <1>7, <1>8, <1>9, <1>11, <1>13,
     <1>14 DEF Work, InstanceStep, TaskStep, FaultStep, vars

\* The same for every step: a tick ages the rows.
LEMMA RowSteps ==
    ASSUME TypeOK, TasksAreHeld, [Next]_vars
    PROVE  /\ \A j \in Job : RowStep(j) \/ jobs'[j] = AgedRow(jobs[j])
           /\ jobs' = [j \in Job |-> jobs'[j]]
<1>1. CASE Tick
  BY <1>1 DEF Tick
<1>2. CASE [Work \/ FaultStep]_vars
  BY <1>2, RowWork
<1> QED
  BY <1>1, <1>2 DEF Next

-----------------------------------------------------------------------------
(* BaseInv is an invariant of Spec. *)

\* Rows keep their type.
LEMMA RowType ==
    ASSUME TypeOK, TasksAreHeld, [Next]_vars
    PROVE  jobs' \in [Job -> Row]
<1>1. \A j \in Job : /\ RowStep(j) \/ jobs'[j] = AgedRow(jobs[j])
                     /\ jobs[j] \in Row /\ MaxAttempts[j] \in Nat
  BY RowSteps, ConstantAssumption DEF TypeOK
<1>0. \A t \in tasks : t.inst \in Instance /\ t.attempt \in Nat
  BY DEF TypeOK, Task
<1>2. ASSUME NEW j \in Job PROVE jobs'[j] \in Row
  <2>1. NoRow("Purged") \in Row
    BY NoRowFacts DEF NoRowStatus
  <2>2. \A d \in 0 .. MaxDelay : Pushed(d) \in Row
    BY PushedFacts
  <2>3. /\ SharedClaimed(jobs[j]) \in Row
        /\ \A i \in Instance : /\ Claimed(jobs[j], i) \in Row
                               /\ Locked(jobs[j], i) \in Row
    BY <1>1, ClaimFacts, SharedClaimFacts
  <2>4. \A t \in tasks :
           Acked(jobs[j], t.res, t.attempt, MaxAttempts[j]) \in Row
    BY <1>0, <1>1, AckedFacts
  <2>5. /\ KilledRow(jobs[j]) \in Row /\ Reenqueued(jobs[j]) \in Row
        /\ AgedRow(jobs[j]) \in Row
    BY <1>1, KilledFacts, ReenqueuedFacts, AgedFacts
  <2> QED
    BY <1>0, <1>1, <2>1, <2>2, <2>3, <2>4, <2>5 DEF RowStep
<1> QED
  BY <1>2, RowSteps

\* An instance goes from new to booting to up to down.
LEMMA PhaseSteps ==
    ASSUME TypeOK, [Next]_vars
    PROVE  /\ phase' \in [Instance -> Phase]
           /\ \A i \in Instance :
                \/ phase'[i] = phase[i]
                \/ phase[i] = "new" /\ phase'[i] = "booting"
                \/ phase[i] = "booting" /\ phase'[i] = "up"
                \/ /\ phase[i] \in {"booting", "up"} /\ phase'[i] = "down"
                   /\ tasks' = {t \in tasks : t.inst # i}
<1> USE DEF Phase
<1>0. phase \in [Instance -> Phase]
  BY DEF TypeOK
<1>1. CASE UNCHANGED phase
  BY <1>0, <1>1
<1>2. ASSUME NEW i \in Instance, Boot(i)
      PROVE  /\ phase' = [phase EXCEPT ![i] = "booting"]
             /\ phase[i] = "new"
  BY <1>2 DEF Boot
<1>3. ASSUME NEW i \in Instance, Register(i)
      PROVE  /\ phase' = [phase EXCEPT ![i] = "up"]
             /\ phase[i] = "booting"
  BY <1>3 DEF Register
<1>4. ASSUME NEW i \in Instance, Crash(i) \/ HeartbeatNotFound(i)
      PROVE  /\ phase' = [phase EXCEPT ![i] = "down"]
             /\ phase[i] \in {"booting", "up"}
             /\ tasks' = {t \in tasks : t.inst # i}
  BY <1>4 DEF Crash, HeartbeatNotFound, Stop
<1>5. ASSUME NEW i \in Instance,
             \/ Heartbeat(i) \/ SweepRead(i) \/ SweepUpdate(i) \/ SweepDelete(i)
             \/ FetchNext(i) \/ FetchNextShared(i) \/ FetchNextSharedDropped(i)
      PROVE  UNCHANGED phase
  BY <1>5 DEF Heartbeat, SweepRead, SweepUpdate, SweepDelete, FetchNext,
              FetchNextShared, FetchNextSharedDropped
<1>6. ASSUME NEW t \in tasks, \/ TaskStep(t) \/ KillTaskFails(t)
                             \/ LockTaskFails(t) \/ AckTaskFails(t)
      PROVE  UNCHANGED phase
  BY <1>6 DEF TaskStep, KillTask, LockTask, LockTaskNotFound, Finish, AckTask,
              KillTaskFails, LockTaskFails, AckTaskFails
<1>7. ASSUME NEW j \in Job, Push(j) PROVE UNCHANGED phase
  BY <1>7 DEF Push
<1>8. ASSUME VacuumJobs \/ Tick PROVE UNCHANGED phase
  BY <1>8 DEF VacuumJobs, Tick
<1> QED
  BY <1>0, <1>1, <1>2, <1>3, <1>4, <1>5, <1>6, <1>7, <1>8
     DEF Next, Work, InstanceStep, FaultStep, vars

\* Where a task that an instance holds after a step comes from: it was there,
\* it was just claimed, or it moved on.
CameFrom(u) ==
    \/ u \in tasks
    \/ \E i \in Instance, j \in Job, n \in CopyId :
         /\ u = NewTask(i, j, n) /\ phase[i] # "down"
         /\ InstQueueOf[i] = JobQueueOf[j]
         /\ i \notin SharedInst => jobs'[j] = Claimed(jobs[j], i)
    \/ \E t \in tasks :
         \/ u = Started(t) /\ LockTask(t)
         \/ /\ LockTaskNotFound(t) \/ LockTaskFails(t)
            /\ t.inst \notin SharedInst
            /\ \E a \in Nat : a <= t.attempt + 1 /\ u = Refused(t, a)
         \/ /\ Finish(t)
            /\ \E res \in {"Ok", "Err", "Abort"} : u = Returned(t, res)

\* Every task comes from somewhere.
LEMMA TaskSteps ==
    ASSUME TypeOK, [Next]_vars
    PROVE  \A u \in tasks' : CameFrom(u)
<1> USE DEF CameFrom
<1> DEFINE Goal == \A u \in tasks' : CameFrom(u)
<1>0. \A t \in tasks : t.attempt \in Nat /\ t.attempt + 1 \in Nat
  BY DEF TypeOK, Task
<1>1. ASSUME tasks' \subseteq tasks PROVE Goal
  BY <1>1
<1>2. ASSUME NEW i \in Instance, NEW S, NEW n \in CopyId, Hold(i, S, n),
             S \subseteq Due(InstQueueOf[i]), phase[i] # "down",
             \A j \in S : \/ i \in SharedInst
                          \/ jobs'[j] = Claimed(jobs[j], i)
      PROVE  Goal
  <2>1. \A j \in S : j \in Job /\ InstQueueOf[i] = JobQueueOf[j]
    BY <1>2 DEF Due
  <2> QED
    BY <1>2, <2>1 DEF Hold
<1>3. ASSUME NEW i \in Instance, FetchNext(i) PROVE Goal
  BY <1>2, <1>3 DEF FetchNext, Due
<1>4. ASSUME NEW i \in Instance, FetchNextShared(i) PROVE Goal
  BY <1>2, <1>4 DEF FetchNextShared, Driven
<1>5. ASSUME NEW t \in tasks, LockTask(t) PROVE Goal
  <2>1. tasks' = (tasks \ {t}) \cup {Started(t)}
    BY <1>5 DEF LockTask, Become
  <2> QED
    BY <1>5, <2>1
<1>6. ASSUME NEW t \in tasks, Finish(t) PROVE Goal
  <2>1. PICK res \in {"Ok", "Err", "Abort"} :
            tasks' = (tasks \ {t}) \cup {Returned(t, res)}
    BY <1>6 DEF Finish, Become
  <2> QED
    BY <1>6, <2>1
<1>7. ASSUME NEW t \in tasks, LockTaskNotFound(t) \/ LockTaskFails(t) PROVE Goal
  <2>1. LockError(t)
    BY <1>7 DEF LockTaskNotFound, LockTaskFails
  <2> QED
    BY <1>0, <1>7, <2>1 DEF LockError, Become, Drop
<1>8. ASSUME NEW t \in tasks, \/ KillTask(t) \/ KillTaskFails(t) \/ AckTask(t)
                             \/ AckTaskFails(t)
      PROVE  tasks' \subseteq tasks
  BY <1>8 DEF KillTask, KillTaskFails, AckTask, AckTaskFails, Drop
<1>9. ASSUME NEW i \in Instance,
             \/ Boot(i) \/ Register(i) \/ Heartbeat(i) \/ SweepRead(i)
             \/ SweepUpdate(i) \/ SweepDelete(i) \/ FetchNextSharedDropped(i)
             \/ Crash(i) \/ HeartbeatNotFound(i)
      PROVE  tasks' \subseteq tasks
  BY <1>9 DEF Boot, Register, Heartbeat, SweepRead, SweepUpdate, SweepDelete,
              FetchNextSharedDropped, Crash, HeartbeatNotFound, Stop
<1>10. ASSUME NEW j \in Job, Push(j) PROVE tasks' \subseteq tasks
  BY <1>10 DEF Push
<1>11. ASSUME VacuumJobs \/ Tick PROVE tasks' \subseteq tasks
  BY <1>11 DEF VacuumJobs, Tick
<1> QED
  BY <1>1, <1>3, <1>4, <1>5, <1>6, <1>7, <1>8, <1>9, <1>10, <1>11
     DEF Next, Work, InstanceStep, TaskStep, FaultStep, vars

\* The tasks an instance holds keep their type.
LEMMA TaskType ==
    ASSUME TypeOK, [Next]_vars
    PROVE  tasks' \subseteq Task
<1> SUFFICES ASSUME NEW u \in tasks' PROVE u \in Task
  OBVIOUS
<1>1. CameFrom(u)
  BY TaskSteps
<1>2. \A t \in tasks : t \in Task
  BY DEF TypeOK
<1>3. \A i \in Instance, j \in Job, n \in CopyId : NewTask(i, j, n) \in Task
  BY NewTaskFacts
<1>4. \A t \in tasks :
        /\ Started(t) \in Task
        /\ \A a \in Nat : Refused(t, a) \in Task
        /\ \A res \in {"Ok", "Err", "Abort"} : Returned(t, res) \in Task
  BY <1>2, StartedFacts, RefusedFacts, ReturnedFacts
<1> QED
  BY <1>1, <1>2, <1>3, <1>4 DEF CameFrom

\* The worker table and the sweeps keep their type.
LEMMA WorkerType ==
    ASSUME TypeOK, [Next]_vars
    PROVE  /\ registered' \subseteq Instance
           /\ seen' \in [Instance -> SeenAge]
           /\ sweep' \in [Instance -> Sweep]
<1> DEFINE Goal == /\ registered' \subseteq Instance
                   /\ seen' \in [Instance -> SeenAge]
                   /\ sweep' \in [Instance -> Sweep]
<1>0. /\ registered \subseteq Instance
      /\ seen \in [Instance -> SeenAge]
      /\ sweep \in [Instance -> Sweep]
  BY DEF TypeOK
<1>1. CASE UNCHANGED <<registered, seen, sweep>>
  BY <1>0, <1>1
<1>2. /\ IdleSweep \in Sweep
      /\ [IdleSweep EXCEPT !.stage = "delete"] \in Sweep
  BY DurFacts DEF IdleSweep, Sweep
<1>3. ASSUME NEW i \in Instance, StartSweep(i), UNCHANGED <<registered, seen>>
      PROVE  Goal
  <2>1. Live(InstQueueOf[i]) \in SUBSET Instance
    BY <1>0 DEF Live
  <2>2. [stage |-> "update", live |-> Live(InstQueueOf[i]), age |-> 0] \in Sweep
    BY <2>1, DurFacts DEF Sweep
  <2> QED
    BY <1>0, <1>3, <2>2 DEF StartSweep
<1>4. ASSUME NEW i \in Instance, Boot(i) \/ SweepRead(i) PROVE Goal
  BY <1>3, <1>4 DEF Boot, SweepRead
<1>5. ASSUME NEW i \in Instance, SweepUpdate(i) PROVE Goal
  BY <1>0, <1>2, <1>5 DEF SweepUpdate
<1>6. ASSUME NEW i \in Instance, SweepDelete(i) PROVE Goal
  BY <1>0, <1>2, <1>6 DEF SweepDelete
<1>7. ASSUME NEW i \in Instance, Register(i) \/ Heartbeat(i) PROVE Goal
  BY <1>0, <1>7, DurFacts DEF Register, Heartbeat
<1>8. CASE Tick
  <2>1. \A i \in Instance : Older(seen[i], PurgeAfter + 1) \in SeenAge
    BY <1>0, DurFacts DEF Older, SeenAge
  <2>2. ASSUME NEW i \in Instance
        PROVE  [sweep[i] EXCEPT !.age = Older(@, Dur)] \in Sweep
    <3>1. Older(sweep[i].age, Dur) \in 0 .. Dur
      BY <1>0, DurFacts DEF Older, Sweep
    <3> QED
      BY <1>0, <3>1 DEF Sweep
  <2> QED
    BY <1>0, <1>8, <2>1, <2>2 DEF Tick
<1>9. ASSUME NEW i \in Instance,
             \/ Crash(i) \/ HeartbeatNotFound(i) \/ FetchNext(i)
             \/ FetchNextShared(i) \/ FetchNextSharedDropped(i)
      PROVE  UNCHANGED <<registered, seen, sweep>>
  BY <1>9 DEF Crash, HeartbeatNotFound, FetchNext, FetchNextShared,
              FetchNextSharedDropped
<1>10. ASSUME NEW t \in tasks, \/ TaskStep(t) \/ KillTaskFails(t)
                              \/ LockTaskFails(t) \/ AckTaskFails(t)
       PROVE  UNCHANGED <<registered, seen, sweep>>
  BY <1>10 DEF TaskStep, KillTask, LockTask, LockTaskNotFound, Finish, AckTask,
               KillTaskFails, LockTaskFails, AckTaskFails
<1>11. ASSUME NEW j \in Job, Push(j) PROVE UNCHANGED <<registered, seen, sweep>>
  BY <1>11 DEF Push
<1>12. ASSUME VacuumJobs PROVE UNCHANGED <<registered, seen, sweep>>
  BY <1>12 DEF VacuumJobs
<1> QED
  BY <1>1, <1>4, <1>5, <1>6, <1>7, <1>8, <1>9, <1>10, <1>11, <1>12
     DEF Next, Work, InstanceStep, FaultStep, vars

\* Only an instance that has started owns rows, and only rows of its queue.
LEMMA OwnerStep ==
    ASSUME BaseInv, [Next]_vars
    PROVE  OwnersHaveStarted'
<1> SUFFICES ASSUME NEW j \in Job, NEW i \in Instance, jobs'[j].lock_by = i
             PROVE  /\ phase'[i] \in {"up", "down"}
                    /\ InstQueueOf[i] = JobQueueOf[j]
  BY DEF OwnersHaveStarted
<1>0. \A t \in tasks : t.inst \in Instance /\ t.attempt \in Nat
  BY DEF BaseInv, TypeOK, Task
<1>1. /\ RowStep(j) \/ jobs'[j] = AgedRow(jobs[j])
      /\ jobs[j] \in Row /\ i # NONE
  BY RowSteps, NoneAssumption DEF BaseInv, TypeOK
<1>2. jobs[j].lock_by = i \/ Serves(i, j)
  <2>1. /\ NoRow("Purged").lock_by = NONE
        /\ \A d \in 0 .. MaxDelay : Pushed(d).lock_by = NONE
    BY NoRowFacts, PushedFacts DEF NoRowStatus
  <2>2. /\ SharedClaimed(jobs[j]).lock_by = jobs[j].lock_by
        /\ \A k \in Instance : /\ Claimed(jobs[j], k).lock_by = k
                               /\ Locked(jobs[j], k).lock_by = k
    BY <1>1, ClaimFacts, SharedClaimFacts
  <2>3. \A t \in tasks :
           Acked(jobs[j], t.res, t.attempt, MaxAttempts[j]).lock_by
             = jobs[j].lock_by
    BY <1>0, <1>1, AckedFacts, ConstantAssumption
  <2>4. KilledRow(jobs[j]).lock_by \in {jobs[j].lock_by, NONE}
    BY <1>1, KilledFacts DEF Gone
  <2>5. /\ Reenqueued(jobs[j]).lock_by = NONE
        /\ AgedRow(jobs[j]).lock_by = jobs[j].lock_by
    BY <1>1, ReenqueuedFacts, AgedFacts
  <2> QED
    BY <1>0, <1>1, <2>1, <2>2, <2>3, <2>4, <2>5 DEF RowStep
<1> QED
  BY <1>2, PhaseSteps DEF BaseInv, OwnersHaveStarted, Serves

\* A task in memory belongs to an instance that has not ended.
LEMMA HeldStep ==
    ASSUME BaseInv, [Next]_vars
    PROVE  TasksAreHeld'
<1> DEFINE Held(u) ==
        /\ phase'[u.inst] # "down"
        /\ InstQueueOf[u.inst] = JobQueueOf[u.job]
        /\ u.pc # "buffered" => /\ phase'[u.inst] = "up"
                                /\ <<u.inst, u.job>> \in Decodes
        /\ u.pc = "refused" => u.inst \notin SharedInst
<1> SUFFICES ASSUME NEW u \in tasks' PROVE Held(u)
  BY DEF TasksAreHeld
<1>1. TypeOK /\ TasksAreHeld /\ CameFrom(u)
  BY TaskSteps DEF BaseInv
<1>2. ASSUME NEW i \in Instance, phase[i] # "down", u.inst = i
      PROVE  /\ phase'[i] # "down"
             /\ phase[i] = "up" => phase'[i] = "up"
  BY <1>1, <1>2, PhaseSteps
<1>3. CASE u \in tasks
  BY <1>1, <1>2, <1>3 DEF TypeOK, Task, TasksAreHeld
<1>4. ASSUME NEW i \in Instance, NEW j \in Job, NEW n \in CopyId,
             u = NewTask(i, j, n), phase[i] # "down",
             InstQueueOf[i] = JobQueueOf[j]
      PROVE  Held(u)
  BY <1>1, <1>2, <1>4, NewTaskFacts
<1>5. ASSUME NEW t \in tasks, u = Started(t), LockTask(t) PROVE Held(u)
  <2>1. /\ t \in Task /\ t.inst \in Instance /\ phase[t.inst] = "up"
        /\ u.inst = t.inst /\ u.job = t.job /\ u.pc = "running"
        /\ <<t.inst, t.job>> \in Decodes
    BY <1>1, <1>5, StartedFacts DEF LockTask, TypeOK, Task
  <2> QED
    BY <1>1, <1>2, <2>1 DEF TasksAreHeld
<1>6. ASSUME NEW t \in tasks, NEW a \in Nat, u = Refused(t, a),
             t.inst \notin SharedInst, LockTaskNotFound(t) \/ LockTaskFails(t)
      PROVE  Held(u)
  <2>1. /\ t.inst \in Instance /\ u.inst = t.inst /\ u.job = t.job
        /\ u.pc = "refused" /\ phase[t.inst] = "up"
        /\ <<t.inst, t.job>> \in Decodes
    BY <1>1, <1>6, RefusedFacts DEF TypeOK, Task, LockTaskNotFound,
                                    LockTaskFails
  <2> QED
    BY <1>1, <1>2, <1>6, <2>1 DEF TasksAreHeld
<1>7. ASSUME NEW t \in tasks, NEW res \in {"Ok", "Err", "Abort"},
             u = Returned(t, res), Finish(t)
      PROVE  Held(u)
  <2>1. /\ t.inst \in Instance /\ u.inst = t.inst /\ u.job = t.job
        /\ u.pc = "acking" /\ t.pc = "running"
    BY <1>1, <1>7, ReturnedFacts DEF TypeOK, Task, Finish
  <2> QED
    BY <1>1, <1>2, <1>7, <2>1 DEF TasksAreHeld
<1> QED
  BY <1>1, <1>3, <1>4, <1>5, <1>6, <1>7 DEF CameFrom

\* BaseInv is preserved by every step.
LEMMA BaseStep ==
    ASSUME BaseInv, [Next]_vars
    PROVE  BaseInv'
<1>1. TypeOK'
  BY RowType, PhaseSteps, TaskType, WorkerType DEF BaseInv, TypeOK
<1> QED
  BY <1>1, OwnerStep, HeldStep DEF BaseInv

\* BaseInv holds initially.
LEMMA BaseInit == Init => BaseInv
<1> SUFFICES ASSUME Init PROVE BaseInv
  OBVIOUS
<1>1. NoRow("Unborn") \in Row /\ NoRow("Unborn").lock_by = NONE
  BY NoRowFacts DEF NoRowStatus
<1>2. IdleSweep \in Sweep
  BY DurFacts DEF IdleSweep, Sweep
<1>3. TypeOK
  BY <1>1, <1>2, DurFacts DEF Init, TypeOK, Phase
<1>4. OwnersHaveStarted
  BY <1>1, NoneAssumption DEF Init, OwnersHaveStarted
<1> QED
  BY <1>3, <1>4 DEF BaseInv, TasksAreHeld, Init

\* Every reachable state is well typed, every owner of a row has started and
\* works on the row's queue, and every task in memory belongs to a live run.
THEOREM BaseCorrect == Spec => []BaseInv
BY BaseInit, BaseStep, PTL DEF Spec

\* TypeOK for every set of tasks and instances.
THEOREM TypeCorrect == Spec => []TypeOK
<1>1. BaseInv => TypeOK
  BY DEF BaseInv
<1> QED
  BY <1>1, BaseCorrect, PTL

-----------------------------------------------------------------------------
(* InFlightIsRecoverable and FailedHasAttemptsLeft, whatever stalls or fails. *)

\* What the sweep needs of a row that is in flight, and the property on Failed.
RowInv(j) ==
    /\ jobs[j].status \in {"Queued", "Running"} => jobs[j].lock_age # NoAge
    /\ jobs[j].status = "Running" => jobs[j].lock_by # NONE
    /\ jobs[j].status = "Failed" => jobs[j].attempts < MaxAttempts[j]

\* A row has RowInv after each of the statements of queries/.
LEMMA RowInvStep ==
    ASSUME BaseInv, [Next]_vars, NEW j \in Job, RowInv(j)
    PROVE  RowInv(j)'
<1> DEFINE Ok(r) ==
        /\ r.status \in {"Queued", "Running"} => r.lock_age # NoAge
        /\ r.status = "Running" => r.lock_by # NONE
        /\ r.status = "Failed" => r.attempts < MaxAttempts[j]
<1>0. \A t \in tasks : t.inst \in Instance /\ t.attempt \in Nat
  BY DEF BaseInv, TypeOK, Task
<1>1. /\ RowStep(j) \/ jobs'[j] = AgedRow(jobs[j])
      /\ jobs[j] \in Row /\ MaxAttempts[j] \in Nat
      /\ Ok(jobs[j])
  BY RowSteps, ConstantAssumption DEF BaseInv, TypeOK, RowInv
<1>2. /\ Ok(NoRow("Purged"))
      /\ \A d \in 0 .. MaxDelay : Ok(Pushed(d))
  BY NoRowFacts, PushedFacts DEF NoRowStatus
<1>3. /\ Ok(SharedClaimed(jobs[j]))
      /\ \A i \in Instance : Ok(Claimed(jobs[j], i)) /\ Ok(Locked(jobs[j], i))
  BY <1>1, ClaimFacts, SharedClaimFacts, NoneAssumption DEF NoAge
<1>4. ASSUME NEW a \in Nat, NEW res
      PROVE  Ok(Acked(jobs[j], res, a, MaxAttempts[j]))
  BY <1>1, AckedFacts, StatusFacts
<1>5. Ok(KilledRow(jobs[j])) /\ Ok(Reenqueued(jobs[j]))
  BY <1>1, KilledFacts, ReenqueuedFacts
<1>6. Ok(AgedRow(jobs[j]))
  BY <1>1, AgedFacts
<1>7. Ok(jobs'[j])
  <2> HIDE DEF Ok
  <2> QED
    BY <1>0, <1>1, <1>2, <1>3, <1>4, <1>5, <1>6 DEF RowStep
<1> QED
  BY <1>7 DEF RowInv

\* RowInv says what InFlightIsRecoverable asks of the WHERE clause.
LEMMA RowInvMeans ==
    ASSUME TypeOK, \A j \in Job : RowInv(j)
    PROVE  InFlightIsRecoverable /\ FailedHasAttemptsLeft
<1>1. ASSUME NEW j \in Job, jobs[j].status \in {"Queued", "Running"}
      PROVE  Orphaned([jobs[j] EXCEPT !.lock_age = Dur], {})
  <2>1. jobs[j] \in Row /\ RowInv(j)
    BY DEF TypeOK
  <2> DEFINE r == [jobs[j] EXCEPT !.lock_age = Dur]
  <2>2. /\ r.lock_age = Dur /\ r.status = jobs[j].status
        /\ r.lock_by = jobs[j].lock_by
    BY <2>1 DEF Row
  <2> HIDE DEF r
  <2>3. Orphaned(r, {})
    BY <1>1, <2>1, <2>2, DurFacts DEF Orphaned, RowInv, NoAge
  <2> QED
    BY <2>3 DEF r
<1> QED
  BY <1>1 DEF InFlightIsRecoverable, FailedHasAttemptsLeft, RowInv

\* Whatever stalls, crashes or fails, the sweep can recover every row that is
\* in flight, and every Failed row can be claimed again.
THEOREM RowsCorrect == Spec => [](InFlightIsRecoverable /\ FailedHasAttemptsLeft)
<1> DEFINE Inv == BaseInv /\ \A j \in Job : RowInv(j)
<1>1. Init => Inv
  <2>1. NoRow("Unborn").status = "Unborn"
    BY NoRowFacts DEF NoRowStatus
  <2> QED
    BY <2>1, BaseInit DEF Init, RowInv
<1>2. Inv /\ [Next]_vars => Inv'
  BY BaseStep, RowInvStep
<1>3. Inv => InFlightIsRecoverable /\ FailedHasAttemptsLeft
  BY RowInvMeans DEF BaseInv
<1> HIDE DEF Inv
<1> QED
  BY <1>1, <1>2, <1>3, PTL DEF Spec

\* A Failed row always has attempts left, so vacuum never deletes it and
\* fetch_next picks it up again.
THEOREM FailedHolds == Spec => []FailedHasAttemptsLeft
BY RowsCorrect, PTL

-----------------------------------------------------------------------------
(* TimelyInv is an invariant of TimelySpec. *)

\* A timely step is a step.
LEMMA TimelyIsNext == [TimelyNext]_vars => [Next]_vars
BY DEF TimelyNext, Next, TimelyTick

\* An instance that is up has a fresh worker row.
LEMMA UpIsFreshStep ==
    ASSUME TimelyInv, [TimelyNext]_vars
    PROVE  UpIsFresh'
<1> DEFINE Fresh(i) ==
        phase'[i] = "up" => i \in registered' /\ seen'[i] <= 2 * KeepAlive
<1> SUFFICES ASSUME NEW i \in Instance PROVE Fresh(i)
  BY DEF UpIsFresh
<1>0. /\ phase[i] = "up" => i \in registered /\ seen[i] <= 2 * KeepAlive
      /\ phase \in [Instance -> Phase] /\ seen \in [Instance -> SeenAge]
      /\ seen[i] \in SeenAge /\ 2 * KeepAlive \in Nat
  BY DurFacts DEF TimelyInv, BaseInv, TypeOK, UpIsFresh
<1>1. CASE UNCHANGED <<phase, registered, seen>>
  BY <1>0, <1>1
<1>2. ASSUME NEW k \in Instance, Boot(k) PROVE Fresh(i)
  BY <1>0, <1>2 DEF Boot
<1>3. ASSUME NEW k \in Instance, Register(k) PROVE Fresh(i)
  BY <1>0, <1>3 DEF Register
<1>4. ASSUME NEW k \in Instance, Heartbeat(k) PROVE Fresh(i)
  BY <1>0, <1>4 DEF Heartbeat
<1>5. ASSUME NEW k \in Instance, Crash(k) \/ HeartbeatNotFound(k) PROVE Fresh(i)
  BY <1>0, <1>5 DEF Crash, HeartbeatNotFound, Stop
<1>6. ASSUME NEW k \in Instance, SweepDelete(k) PROVE Fresh(i)
  BY <1>0, <1>6, DurFacts DEF SweepDelete, SeenAge
<1>7. CASE TimelyTick
  <2>1. phase[i] = "up" => seen[i] < 2 * KeepAlive
    BY <1>7 DEF TimelyTick, Punctual
  <2>2. phase[i] = "up" => Older(seen[i], PurgeAfter + 1) <= 2 * KeepAlive
    BY <1>0, <2>1, DurFacts DEF Older, SeenAge
  <2> QED
    BY <1>0, <1>7, <2>2 DEF TimelyTick, Tick
<1>8. ASSUME NEW k \in Instance,
             \/ SweepRead(k) \/ SweepUpdate(k) \/ FetchNext(k)
             \/ FetchNextShared(k) \/ FetchNextSharedDropped(k)
      PROVE  UNCHANGED <<phase, registered, seen>>
  BY <1>8 DEF SweepRead, SweepUpdate, FetchNext, FetchNextShared,
              FetchNextSharedDropped
<1>9. ASSUME NEW t \in tasks, \/ TaskStep(t) \/ KillTaskFails(t)
                             \/ LockTaskFails(t) \/ AckTaskFails(t)
      PROVE  UNCHANGED <<phase, registered, seen>>
  BY <1>9 DEF TaskStep, KillTask, LockTask, LockTaskNotFound, Finish, AckTask,
              KillTaskFails, LockTaskFails, AckTaskFails
<1>10. ASSUME NEW j \in Job, Push(j) PROVE UNCHANGED <<phase, registered, seen>>
  BY <1>10 DEF Push
<1>11. ASSUME VacuumJobs PROVE UNCHANGED <<phase, registered, seen>>
  BY <1>11 DEF VacuumJobs
<1> QED
  BY <1>1, <1>2, <1>3, <1>4, <1>5, <1>6, <1>7, <1>8, <1>9, <1>10, <1>11
     DEF TimelyNext, Work, InstanceStep, FaultStep, vars

\* The sweep does not select a row that an instance which is up owns.
LEMMA OwnedIsNotOrphaned ==
    ASSUME TimelyInv, NEW i \in Instance, NEW j \in Job, NEW k \in Instance,
           phase[i] = "up", jobs[j].lock_by = i,
           sweep[k].stage = "update", InstQueueOf[k] = JobQueueOf[j],
           Orphaned(jobs[j], sweep[k].live)
    PROVE  FALSE
<1>1. /\ jobs[j].lock_age >= Dur /\ i \notin sweep[k].live
  BY NoneAssumption DEF Orphaned
<1>2. InstQueueOf[i] = InstQueueOf[k]
  BY DEF TimelyInv, BaseInv, OwnersHaveStarted
<1>3. sweep[k].age < Dur /\ jobs[j].lock_age <= sweep[k].age
  BY <1>1, <1>2 DEF TimelyInv, SweepsAreFresh
<1>4. jobs[j].lock_age \in Int /\ sweep[k].age \in Int /\ Dur \in Int
  BY DurFacts DEF TimelyInv, BaseInv, TypeOK, Row, LockAge, NoAge, Sweep
<1> QED
  BY <1>1, <1>3, <1>4

\* How a step other than a tick changes the lock of a row.
LEMMA LockSteps ==
    ASSUME BaseInv, [Work \/ FaultStep]_vars, NEW j \in Job
    PROVE  \/ jobs'[j].lock_by = NONE
           \/ jobs'[j].lock_age = 0
           \/ /\ jobs'[j].lock_by = jobs[j].lock_by
              /\ jobs'[j].lock_age = jobs[j].lock_age
<1>0. \A t \in tasks : t.inst \in Instance /\ t.attempt \in Nat
  BY DEF BaseInv, TypeOK, Task
<1>1. /\ RowStep(j) /\ jobs[j] \in Row /\ MaxAttempts[j] \in Nat
  BY RowWork, ConstantAssumption DEF BaseInv, TypeOK
<1>2. /\ NoRow("Purged").lock_by = NONE
      /\ \A d \in 0 .. MaxDelay : Pushed(d).lock_by = NONE
  BY NoRowFacts, PushedFacts DEF NoRowStatus
<1>3. /\ SharedClaimed(jobs[j]).lock_age = 0
      /\ \A k \in Instance : /\ Claimed(jobs[j], k).lock_age = 0
                             /\ Locked(jobs[j], k).lock_age = 0
  BY <1>1, ClaimFacts, SharedClaimFacts
<1>4. \A t \in tasks :
        /\ Acked(jobs[j], t.res, t.attempt, MaxAttempts[j]).lock_by
             = jobs[j].lock_by
        /\ Acked(jobs[j], t.res, t.attempt, MaxAttempts[j]).lock_age
             = jobs[j].lock_age
  BY <1>0, <1>1, AckedFacts
<1>5. KilledRow(jobs[j]) = jobs[j] \/ KilledRow(jobs[j]).lock_by = NONE
  BY <1>1, KilledFacts DEF Gone
<1>6. Reenqueued(jobs[j]).lock_by = NONE
  BY <1>1, ReenqueuedFacts
<1> QED
  BY <1>0, <1>1, <1>2, <1>3, <1>4, <1>5, <1>6 DEF RowStep

\* How a step other than a tick changes a sweep.
LEMMA SweepSteps ==
    ASSUME TypeOK, [Work \/ FaultStep]_vars, NEW k \in Instance
    PROVE  \/ sweep'[k] = sweep[k]
           \/ sweep'[k].stage # "update"
           \/ /\ sweep'[k].live = Live(InstQueueOf[k]) /\ sweep'[k].age = 0
              /\ \A i \in Instance : phase'[i] = "up" => phase[i] = "up"
<1> DEFINE Goal == \/ sweep'[k] = sweep[k]
                   \/ sweep'[k].stage # "update"
                   \/ /\ sweep'[k].live = Live(InstQueueOf[k])
                      /\ sweep'[k].age = 0
                      /\ \A i \in Instance : phase'[i] = "up" => phase[i] = "up"
<1>0. sweep \in [Instance -> Sweep] /\ phase \in [Instance -> Phase]
  BY DEF TypeOK
<1>1. CASE UNCHANGED sweep
  BY <1>1
<1>2. ASSUME NEW i \in Instance, Boot(i) PROVE Goal
  BY <1>0, <1>2 DEF Boot, StartSweep
<1>3. ASSUME NEW i \in Instance, SweepRead(i) PROVE Goal
  BY <1>0, <1>3 DEF SweepRead, StartSweep
<1>4. ASSUME NEW i \in Instance, SweepUpdate(i) PROVE Goal
  <2>1. [IdleSweep EXCEPT !.stage = "delete"].stage = "delete"
    BY DEF IdleSweep
  <2> QED
    BY <1>0, <1>4, <2>1 DEF SweepUpdate
<1>5. ASSUME NEW i \in Instance, SweepDelete(i) PROVE Goal
  <2>1. IdleSweep.stage = "idle"
    BY DEF IdleSweep
  <2> QED
    BY <1>0, <1>5, <2>1 DEF SweepDelete
<1>6. ASSUME NEW i \in Instance,
             \/ Register(i) \/ Heartbeat(i) \/ HeartbeatNotFound(i)
             \/ FetchNext(i) \/ FetchNextShared(i) \/ FetchNextSharedDropped(i)
             \/ Crash(i)
      PROVE  UNCHANGED sweep
  BY <1>6 DEF Register, Heartbeat, HeartbeatNotFound, FetchNext,
              FetchNextShared, FetchNextSharedDropped, Crash
<1>7. ASSUME NEW t \in tasks, \/ TaskStep(t) \/ KillTaskFails(t)
                             \/ LockTaskFails(t) \/ AckTaskFails(t)
      PROVE  UNCHANGED sweep
  BY <1>7 DEF TaskStep, KillTask, LockTask, LockTaskNotFound, Finish, AckTask,
              KillTaskFails, LockTaskFails, AckTaskFails
<1>8. ASSUME NEW j \in Job, Push(j) PROVE UNCHANGED sweep
  BY <1>8 DEF Push
<1>9. ASSUME VacuumJobs PROVE UNCHANGED sweep
  BY <1>9 DEF VacuumJobs
<1> QED
  BY <1>1, <1>2, <1>3, <1>4, <1>5, <1>6, <1>7, <1>8, <1>9
     DEF Work, InstanceStep, FaultStep, vars

\* What a sweep does not know about is younger than the sweep.
LEMMA SweepsAreFreshStep ==
    ASSUME TimelyInv, [TimelyNext]_vars
    PROVE  SweepsAreFresh'
<1> SUFFICES ASSUME NEW k \in Instance, sweep'[k].stage = "update"
             PROVE  /\ sweep'[k].age < Dur
                    /\ \A i \in Instance, j \in Job :
                         /\ phase'[i] = "up" /\ i \notin sweep'[k].live
                         /\ InstQueueOf[i] = InstQueueOf[k]
                         /\ jobs'[j].lock_by = i
                         => jobs'[j].lock_age <= sweep'[k].age
  BY DEF SweepsAreFresh
<1>0. /\ TypeOK /\ BaseInv /\ OwnersHaveStarted /\ UpIsFresh /\ SweepsAreFresh
      /\ sweep[k] \in Sweep /\ sweep[k].age \in 0 .. Dur /\ Dur \in Nat
      /\ Dur >= 2
  BY DurFacts DEF TimelyInv, BaseInv, TypeOK, Sweep
<1>1. CASE TimelyTick
  <2>1. /\ sweep' = [i \in Instance |-> IF sweep[i].stage = "update"
                        THEN [sweep[i] EXCEPT !.age = Older(@, Dur)]
                        ELSE sweep[i]]
        /\ jobs' = [j \in Job |-> AgedRow(jobs[j])] /\ phase' = phase
    BY <1>1 DEF TimelyTick, Tick
  <2>2. sweep[k].stage = "update"
    BY <2>1
  <2>3. sweep[k].age + 1 < Dur
    BY <1>1, <2>2 DEF TimelyTick, Punctual
  <2>4. sweep'[k].age = sweep[k].age + 1 /\ sweep'[k].live = sweep[k].live
    BY <1>0, <2>1, <2>2, <2>3 DEF Older, Sweep
  <2>5. ASSUME NEW i \in Instance, NEW j \in Job, phase'[i] = "up",
               i \notin sweep'[k].live, InstQueueOf[i] = InstQueueOf[k],
               jobs'[j].lock_by = i
        PROVE  jobs'[j].lock_age <= sweep'[k].age
    <3>1. /\ jobs'[j].lock_by = jobs[j].lock_by
          /\ jobs'[j].lock_age <= jobs[j].lock_age + 1
          /\ jobs'[j] \in Row /\ jobs[j] \in Row
      BY <1>0, <2>1, AgedFacts DEF TypeOK
    <3>2. jobs[j].lock_age <= sweep[k].age
      BY <1>0, <2>1, <2>2, <2>4, <2>5, <3>1 DEF SweepsAreFresh
    <3> QED
      BY <1>0, <2>4, <3>1, <3>2 DEF Row, LockAge, NoAge
  <2> QED
    BY <1>0, <2>3, <2>4, <2>5
<1>2. CASE [Work \/ FaultStep]_vars
  <2>0. [Next]_vars
    BY <1>2 DEF Next
  <2>1. CASE sweep'[k] = sweep[k]
    <3>1. ASSUME NEW i \in Instance, NEW j \in Job, phase'[i] = "up",
                 i \notin sweep'[k].live, InstQueueOf[i] = InstQueueOf[k],
                 jobs'[j].lock_by = i
          PROVE  jobs'[j].lock_age <= sweep'[k].age
      <4>1. phase[i] \in {"booting", "up"}
        BY <1>0, <2>0, <3>1, PhaseSteps
      <4>2. CASE jobs'[j].lock_age = 0
        BY <1>0, <2>1, <4>2
      <4>3. CASE jobs[j].lock_by = i /\ jobs'[j].lock_age = jobs[j].lock_age
        <5>1. phase[i] = "up"
          BY <1>0, <4>1, <4>3 DEF OwnersHaveStarted
        <5> QED
          BY <1>0, <2>1, <3>1, <4>3, <5>1 DEF SweepsAreFresh
      <4> QED
        BY <1>0, <1>2, <3>1, <4>2, <4>3, LockSteps, NoneAssumption
    <3> QED
      BY <1>0, <2>1, <3>1 DEF SweepsAreFresh
  <2>2. CASE /\ sweep'[k].live = Live(InstQueueOf[k]) /\ sweep'[k].age = 0
             /\ \A i \in Instance : phase'[i] = "up" => phase[i] = "up"
    <3>1. ASSUME NEW i \in Instance, phase'[i] = "up",
                 InstQueueOf[i] = InstQueueOf[k]
          PROVE  i \in sweep'[k].live
      <4>1. /\ i \in registered /\ seen[i] <= 2 * KeepAlive
            /\ seen[i] \in Int /\ 2 * KeepAlive \in Int
        BY <1>0, <2>2, <3>1, DurFacts DEF UpIsFresh, TypeOK, SeenAge
      <4>2. seen[i] <= Dur
        BY <1>0, <4>1, DurFacts
      <4> QED
        BY <2>2, <3>1, <4>1, <4>2 DEF Live
    <3> QED
      BY <1>0, <2>2, <3>1
  <2> QED
    BY <1>0, <1>2, <2>1, <2>2, SweepSteps
<1> QED
  BY <1>1, <1>2 DEF TimelyNext

\* HandlersOwnTheirRow and PolledTasksAreOwned for one task and its row.
Owned(t, r) ==
    /\ InHandler(t) => \/ r.status = "Running" /\ r.lock_by = t.inst
                       \/ Gone(r)
    /\ t.inst \notin SharedInst =>
         \/ r.status \in {"Queued", "Running"} /\ r.lock_by = t.inst
         \/ Gone(r)

\* A row nobody can have back stays so, and a row in flight is changed only by
\* its lock, its acknowledgement, a kill or the sweep.
LEMMA FlightSteps ==
    ASSUME BaseInv, [Work \/ FaultStep]_vars, NEW j \in Job,
           jobs[j].status \in {"Queued", "Running"} \/ Gone(jobs[j])
    PROVE  \/ jobs'[j] = jobs[j]
           \/ Gone(jobs'[j])
           \/ \E t \in tasks : /\ LockTask(t) \/ LockTaskFails(t)
                               /\ t.job = j /\ Lockable(jobs[j], t.inst)
           \/ \E t \in tasks : /\ AckTask(t) /\ t.job = j
                               /\ Ackable(jobs[j], t.inst)
           \/ \E k \in Instance : /\ sweep[k].stage = "update"
                                  /\ InstQueueOf[k] = JobQueueOf[j]
                                  /\ Orphaned(jobs[j], sweep[k].live)
<1>1. RowStep(j) /\ jobs[j] \in Row
  BY RowWork DEF BaseInv, TypeOK
<1>2. ~(jobs[j].status = "Unborn") /\ ~Claimable(jobs[j], MaxAttempts[j])
  BY DEF Claimable, Gone
<1>3. Gone(NoRow("Purged"))
  BY NoRowFacts DEF Gone, NoRowStatus
<1>4. KilledRow(jobs[j]) = jobs[j] \/ Gone(KilledRow(jobs[j]))
  BY <1>1, KilledFacts
<1> QED
  BY <1>1, <1>2, <1>3, <1>4 DEF RowStep

\* Nobody changes the row of a task that a step leaves alone, other than by
\* killing or purging it.
LEMMA KeptRow ==
    ASSUME TimelyInv, [Work \/ FaultStep]_vars, NEW t \in tasks, t \in tasks',
           InHandler(t) \/ t.inst \notin SharedInst
    PROVE  jobs'[t.job] = jobs[t.job] \/ Gone(jobs'[t.job])
<1> DEFINE r == jobs[t.job]
<1>0. /\ BaseInv /\ TasksAreHeld /\ OneHandlerPerJob /\ PolledOnce
      /\ t.inst \in Instance /\ t.job \in Job /\ t \in Task
      /\ t.inst # NONE
  BY NoneAssumption DEF TimelyInv, BaseInv, TypeOK, Task
<1>1. Owned(t, r)
  BY DEF TimelyInv, HandlersOwnTheirRow, PolledTasksAreOwned, Owned
<1>2. /\ r.status \in {"Queued", "Running"} \/ Gone(r)
      /\ ~Gone(r) => r.lock_by = t.inst
      /\ InHandler(t) /\ ~Gone(r) => r.status = "Running"
  BY <1>1 DEF Owned
<1>3. ASSUME NEW u \in tasks, LockTask(u) \/ LockTaskFails(u), u.job = t.job,
             Lockable(r, u.inst)
      PROVE  FALSE
  <2>1. /\ ~Gone(r) /\ r.status # "Running" /\ ~InHandler(t)
    BY <1>2, <1>3 DEF Lockable, Gone
  <2>2. u.inst = t.inst /\ t.inst \notin SharedInst
    BY <1>0, <1>2, <1>3, <2>1 DEF Lockable
  <2>3. u = t
    BY <1>0, <1>3, <2>2 DEF PolledOnce
  <2>4. /\ t.pc = "buffered" /\ t.attempt \in Nat /\ t.attempt + 1 \in Nat
        /\ \/ tasks' = (tasks \ {t}) \cup {Started(t)}
           \/ \E a \in {t.attempt, t.attempt + 1} :
                tasks' = (tasks \ {t}) \cup {Refused(t, a)}
    BY <1>0, <1>3, <2>2, <2>3 DEF LockTask, LockTaskFails, LockError, Become,
                                  Task
  <2>5. t = Started(t) \/ \E a \in Nat : t = Refused(t, a)
    BY <2>4
  <2> QED
    BY <1>0, <2>4, <2>5, StartedFacts, RefusedFacts
<1>4. ASSUME NEW u \in tasks, AckTask(u), u.job = t.job, Ackable(r, u.inst)
      PROVE  FALSE
  <2>1. u # t /\ u.pc \in {"acking", "refused"} /\ u.inst \in Instance
    BY <1>0, <1>4 DEF AckTask, Drop, BaseInv, TypeOK, Task
  <2>2. r.lock_by = u.inst /\ r.lock_by # NONE
    BY <1>4, <2>1, NoneAssumption DEF Ackable
  <2>3. ~Gone(r) /\ u.inst = t.inst
    BY <1>2, <2>2 DEF Gone
  <2>4. CASE t.inst \notin SharedInst
    BY <1>0, <1>4, <2>1, <2>3, <2>4 DEF PolledOnce
  <2>5. CASE t.inst \in SharedInst
    <3>1. u.pc # "refused"
      BY <1>0, <2>3, <2>5 DEF TasksAreHeld
    <3> QED
      BY <1>0, <1>4, <2>1, <2>5, <3>1 DEF OneHandlerPerJob, InHandler
  <2> QED
    BY <2>4, <2>5
<1>5. ASSUME NEW k \in Instance, sweep[k].stage = "update",
             InstQueueOf[k] = JobQueueOf[t.job], Orphaned(r, sweep[k].live)
      PROVE  FALSE
  <2>1. ~Gone(r) /\ r.lock_by = t.inst
    BY <1>2, <1>5 DEF Orphaned, Gone
  <2>2. phase[t.inst] = "up"
    BY <1>0, <2>1 DEF BaseInv, OwnersHaveStarted, TasksAreHeld
  <2> QED
    BY <1>0, <1>5, <2>1, <2>2, OwnedIsNotOrphaned
<1> QED
  BY <1>0, <1>2, <1>3, <1>4, <1>5, FlightSteps

\* So it still owns its row.
LEMMA KeptTask ==
    ASSUME TimelyInv, [Work \/ FaultStep]_vars, NEW t \in tasks, t \in tasks',
           InHandler(t) \/ t.inst \notin SharedInst
    PROVE  Owned(t, jobs'[t.job])
<1>1. Owned(t, jobs[t.job])
  BY DEF TimelyInv, HandlersOwnTheirRow, PolledTasksAreOwned, Owned
<1> QED
  BY <1>1, KeptRow DEF Owned

\* Every task in a handler, and every task of a poll storage, owns its row.
LEMMA OwnedStep ==
    ASSUME TimelyInv, [TimelyNext]_vars
    PROVE  HandlersOwnTheirRow' /\ PolledTasksAreOwned'
<1> SUFFICES ASSUME NEW u \in tasks', InHandler(u) \/ u.inst \notin SharedInst
             PROVE  Owned(u, jobs'[u.job])
  BY DEF HandlersOwnTheirRow, PolledTasksAreOwned, Owned, InHandler
<1>0. TypeOK /\ BaseInv /\ \A t \in tasks : /\ t \in Task /\ t.job \in Job
                                            /\ t.inst \in Instance
                                            /\ jobs[t.job] \in Row
                                            /\ Owned(t, jobs[t.job])
  BY DEF TimelyInv, BaseInv, TypeOK, Task, HandlersOwnTheirRow,
         PolledTasksAreOwned, Owned
<1>1. CASE TimelyTick
  <2>1. u \in tasks /\ jobs' = [j \in Job |-> AgedRow(jobs[j])]
    BY <1>1 DEF TimelyTick, Tick
  <2>2. /\ jobs'[u.job].status = jobs[u.job].status
        /\ jobs'[u.job].lock_by = jobs[u.job].lock_by
    BY <1>0, <2>1, AgedFacts
  <2> QED
    BY <1>0, <2>1, <2>2 DEF Owned, Gone
<1>2. CASE [Work \/ FaultStep]_vars
  <2>0. CameFrom(u)
    BY <1>0, <1>2, TaskSteps DEF Next
  <2>1. CASE u \in tasks
    BY <1>2, <2>1, KeptTask
  <2>2. ASSUME NEW i \in Instance, NEW j \in Job, NEW n \in CopyId,
               u = NewTask(i, j, n),
               i \notin SharedInst => jobs'[j] = Claimed(jobs[j], i)
        PROVE  Owned(u, jobs'[u.job])
    <3>1. u.inst = i /\ u.job = j /\ u.pc = "buffered" /\ jobs[j] \in Row
      BY <1>0, <2>2, NewTaskFacts DEF TypeOK
    <3> QED
      BY <2>2, <3>1, ClaimFacts DEF Owned, InHandler
  <2>3. ASSUME NEW t \in tasks, u = Started(t), LockTask(t)
        PROVE  Owned(u, jobs'[u.job])
    <3>1. /\ u.inst = t.inst /\ u.job = t.job
          /\ jobs' = [jobs EXCEPT ![t.job] = Locked(@, t.inst)]
      BY <1>0, <2>3, StartedFacts DEF LockTask
    <3>2. jobs'[u.job] = Locked(jobs[t.job], t.inst)
      BY <1>0, <3>1 DEF TypeOK
    <3> QED
      BY <1>0, <3>1, <3>2, ClaimFacts DEF Owned
  <2>4. ASSUME NEW t \in tasks, NEW a \in Nat, u = Refused(t, a),
               LockTaskNotFound(t) \/ LockTaskFails(t), t.inst \notin SharedInst
        PROVE  Owned(u, jobs'[u.job])
    <3>1. /\ u.inst = t.inst /\ u.job = t.job /\ u.pc = "refused"
          /\ \/ jobs' = jobs
             \/ jobs' = [jobs EXCEPT ![t.job] = Locked(@, t.inst)]
      BY <1>0, <2>4, RefusedFacts DEF LockTaskNotFound, LockTaskFails
    <3>2. \/ jobs'[u.job] = jobs[t.job]
          \/ jobs'[u.job] = Locked(jobs[t.job], t.inst)
      BY <1>0, <3>1 DEF TypeOK
    <3>3. ~InHandler(u)
      BY <3>1 DEF InHandler
    <3> QED
      BY <1>0, <2>4, <3>1, <3>2, <3>3, ClaimFacts DEF Owned
  <2>5. ASSUME NEW t \in tasks, NEW res \in {"Ok", "Err", "Abort"},
               u = Returned(t, res), Finish(t)
        PROVE  Owned(u, jobs'[u.job])
    <3>1. /\ u.inst = t.inst /\ u.job = t.job /\ jobs' = jobs
          /\ InHandler(t)
      BY <1>0, <2>5, ReturnedFacts DEF Finish, InHandler
    <3> QED
      BY <1>0, <3>1 DEF Owned
  <2> QED
    BY <2>0, <2>1, <2>2, <2>3, <2>4, <2>5 DEF CameFrom
<1> QED
  BY <1>1, <1>2 DEF TimelyNext

\* One task moving on in its instance keeps OneHandlerPerJob and PolledOnce.
LEMMA BecomeOnce ==
    ASSUME OneHandlerPerJob, PolledOnce, NEW t \in tasks, NEW v, Become(t, v),
           v.inst = t.inst, v.job = t.job,
           InHandler(v) => \A u \in tasks : u.job = t.job /\ InHandler(u) => u = t
    PROVE  OneHandlerPerJob' /\ PolledOnce'
<1>0. tasks' = (tasks \ {t}) \cup {v}
  BY DEF Become
<1>1. OneHandlerPerJob'
  <2> SUFFICES ASSUME NEW a \in tasks', NEW b \in tasks', a.job = b.job,
                      InHandler(a), InHandler(b)
               PROVE  a = b
    BY DEF OneHandlerPerJob, InHandler
  <2> QED
    BY <1>0 DEF OneHandlerPerJob
<1>2. PolledOnce'
  <2> SUFFICES ASSUME NEW a \in tasks', NEW b \in tasks', a.inst \notin SharedInst,
                      a.inst = b.inst, a.job = b.job
               PROVE  a = b
    BY DEF PolledOnce
  <2> QED
    BY <1>0 DEF PolledOnce
<1> QED
  BY <1>1, <1>2

\* A claim keeps them: a row that can be claimed is held by no poll storage.
LEMMA ClaimOnce ==
    ASSUME TimelyInv, NEW i \in Instance, FetchNext(i) \/ FetchNextShared(i)
    PROVE  OneHandlerPerJob' /\ PolledOnce'
<1>0. TypeOK /\ OneHandlerPerJob /\ PolledOnce /\ PolledTasksAreOwned
  BY DEF TimelyInv, BaseInv
<1>1. PICK S \in SUBSET Due(InstQueueOf[i]), n \in CopyId :
         tasks' = tasks \cup {NewTask(i, j, n) : j \in S}
  BY DEF FetchNext, FetchNextShared, Hold
<1>2. \A j \in S : /\ j \in Job /\ NewTask(i, j, n).inst = i
                   /\ NewTask(i, j, n).job = j
                   /\ NewTask(i, j, n).pc = "buffered"
                   /\ jobs[j].status \in {"Pending", "Failed"}
  BY <1>0, <1>1, NewTaskFacts DEF Due, Claimable
<1>3. OneHandlerPerJob'
  <2> SUFFICES ASSUME NEW a \in tasks', NEW b \in tasks', a.job = b.job,
                      InHandler(a), InHandler(b)
               PROVE  a = b
    BY DEF OneHandlerPerJob, InHandler
  <2>1. a \in tasks /\ b \in tasks
    BY <1>1, <1>2 DEF InHandler
  <2> QED
    BY <1>0, <2>1 DEF OneHandlerPerJob
<1>4. ASSUME NEW t \in tasks, NEW j \in S, t.inst = i, t.job = j,
             i \notin SharedInst
      PROVE  FALSE
  BY <1>0, <1>2, <1>4 DEF PolledTasksAreOwned, Gone
<1>5. PolledOnce'
  <2> SUFFICES ASSUME NEW a \in tasks', NEW b \in tasks', a.inst \notin SharedInst,
                      a.inst = b.inst, a.job = b.job
               PROVE  a = b
    BY DEF PolledOnce
  <2>1. CASE a \in tasks /\ b \in tasks
    BY <1>0, <2>1 DEF PolledOnce
  <2>2. CASE a \notin tasks /\ b \in tasks
    BY <1>1, <1>2, <1>4, <2>2
  <2>3. CASE a \in tasks /\ b \notin tasks
    BY <1>1, <1>2, <1>4, <2>3
  <2>4. CASE a \notin tasks /\ b \notin tasks
    BY <1>1, <1>2, <2>4
  <2> QED
    BY <2>1, <2>2, <2>3, <2>4
<1> QED
  BY <1>3, <1>5

\* At most one handler per task, and one copy of it in each poll storage.
LEMMA OnceStep ==
    ASSUME TimelyInv, [TimelyNext]_vars
    PROVE  OneHandlerPerJob' /\ PolledOnce'
<1> DEFINE Goal == OneHandlerPerJob' /\ PolledOnce'
<1>0. /\ OneHandlerPerJob /\ PolledOnce /\ HandlersOwnTheirRow
      /\ \A t \in tasks : t \in Task /\ t.attempt \in Nat
  BY DEF TimelyInv, BaseInv, TypeOK, Task
<1>1. ASSUME tasks' \subseteq tasks PROVE Goal
  BY <1>0, <1>1 DEF OneHandlerPerJob, PolledOnce, InHandler
<1>2. ASSUME NEW i \in Instance, FetchNext(i) \/ FetchNextShared(i) PROVE Goal
  BY <1>2, ClaimOnce
<1>3. ASSUME NEW t \in tasks, LockTask(t) PROVE Goal
  <2>1. /\ Become(t, Started(t)) /\ Lockable(jobs[t.job], t.inst)
        /\ Started(t).inst = t.inst /\ Started(t).job = t.job
    BY <1>0, <1>3, StartedFacts DEF LockTask
  <2>2. \A u \in tasks : u.job = t.job /\ InHandler(u) => u = t
    BY <1>0, <2>1 DEF HandlersOwnTheirRow, Lockable, Gone
  <2> QED
    BY <1>0, <2>1, <2>2, BecomeOnce
<1>4. ASSUME NEW t \in tasks, LockTaskNotFound(t) \/ LockTaskFails(t) PROVE Goal
  <2>1. LockError(t)
    BY <1>4 DEF LockTaskNotFound, LockTaskFails
  <2>2. CASE Drop(t)
    BY <1>1, <2>2 DEF Drop
  <2>3. ASSUME NEW a \in Nat, Become(t, Refused(t, a)) PROVE Goal
    <3>1. /\ Refused(t, a).inst = t.inst /\ Refused(t, a).job = t.job
          /\ ~InHandler(Refused(t, a))
      BY <1>0, RefusedFacts DEF InHandler
    <3> QED
      BY <1>0, <2>3, <3>1, BecomeOnce
  <2>4. t.attempt \in Nat /\ t.attempt + 1 \in Nat
    BY <1>0
  <2> QED
    BY <2>1, <2>2, <2>3, <2>4 DEF LockError
<1>5. ASSUME NEW t \in tasks, Finish(t) PROVE Goal
  <2>1. PICK res \in {"Ok", "Err", "Abort"} : Become(t, Returned(t, res))
    BY <1>5 DEF Finish
  <2>2. /\ Returned(t, res).inst = t.inst /\ Returned(t, res).job = t.job
        /\ InHandler(t)
    BY <1>0, <1>5, ReturnedFacts DEF Finish, InHandler
  <2>3. \A u \in tasks : u.job = t.job /\ InHandler(u) => u = t
    BY <1>0, <2>2 DEF OneHandlerPerJob
  <2> QED
    BY <1>0, <2>1, <2>2, <2>3, BecomeOnce
<1>8. ASSUME NEW t \in tasks, \/ KillTask(t) \/ KillTaskFails(t) \/ AckTask(t)
                             \/ AckTaskFails(t)
      PROVE  tasks' \subseteq tasks
  BY <1>8 DEF KillTask, KillTaskFails, AckTask, AckTaskFails, Drop
<1>9. ASSUME NEW i \in Instance,
             \/ Boot(i) \/ Register(i) \/ Heartbeat(i) \/ SweepRead(i)
             \/ SweepUpdate(i) \/ SweepDelete(i) \/ FetchNextSharedDropped(i)
             \/ Crash(i) \/ HeartbeatNotFound(i)
      PROVE  tasks' \subseteq tasks
  BY <1>9 DEF Boot, Register, Heartbeat, SweepRead, SweepUpdate, SweepDelete,
              FetchNextSharedDropped, Crash, HeartbeatNotFound, Stop
<1>10. ASSUME NEW j \in Job, Push(j) PROVE tasks' \subseteq tasks
  BY <1>10 DEF Push
<1>11. ASSUME VacuumJobs \/ TimelyTick PROVE tasks' \subseteq tasks
  BY <1>11 DEF VacuumJobs, TimelyTick, Tick
<1> HIDE DEF Goal
<1> QED
  BY <1>1, <1>2, <1>3, <1>4, <1>5, <1>8, <1>9, <1>10, <1>11
     DEF TimelyNext, Work, InstanceStep, TaskStep, FaultStep, vars, Goal

\* While instances heartbeat on time and sweeps are quick, TimelyInv holds,
\* whatever crashes and whichever database calls fail.
THEOREM TimelyCorrect == TimelySpec => []TimelyInv
<1>1. Init => TimelyInv
  <2> SUFFICES ASSUME Init PROVE TimelyInv
    OBVIOUS
  <2>1. \A i \in Instance : phase[i] = "new" /\ sweep[i].stage = "idle"
    BY DEF Init, IdleSweep
  <2>2. UpIsFresh /\ SweepsAreFresh
    BY <2>1 DEF UpIsFresh, SweepsAreFresh
  <2>3. HandlersOwnTheirRow /\ OneHandlerPerJob /\ PolledTasksAreOwned
        /\ PolledOnce
    BY DEF Init, HandlersOwnTheirRow, OneHandlerPerJob, PolledTasksAreOwned,
           PolledOnce
  <2> QED
    BY <2>2, <2>3, BaseInit DEF TimelyInv
<1>2. TimelyInv /\ [TimelyNext]_vars => TimelyInv'
  <2> SUFFICES ASSUME TimelyInv, [TimelyNext]_vars PROVE TimelyInv'
    OBVIOUS
  <2>1. BaseInv'
    BY TimelyIsNext, BaseStep DEF TimelyInv
  <2> QED
    BY <2>1, UpIsFreshStep, SweepsAreFreshStep, OwnedStep, OnceStep
       DEF TimelyInv
<1> QED
  BY <1>1, <1>2, PTL DEF TimelySpec

\* README "two workers never run the same job", for every set of tasks,
\* instances, codecs and shared storages, as long as instances are timely.
THEOREM MutualExclusionHolds == TimelySpec => []MutualExclusion
<1>1. TimelyInv => MutualExclusion
  BY DEF TimelyInv, OneHandlerPerJob, MutualExclusion, InHandler
<1> QED
  BY <1>1, TimelyCorrect, PTL

\* The reclaimer never takes a row from an instance that is up.
THEOREM LiveNeverSweptHolds == TimelySpec => LiveNeverSwept
<1>1. TimelyInv /\ [TimelyNext]_vars => [LiveNeverSweptStep]_vars
  <2> SUFFICES ASSUME TimelyInv, [TimelyNext]_vars, NEW i \in Instance,
                      NEW j \in Job, phase[i] = "up", jobs[j].lock_by = i,
                      jobs[j].status \in {"Queued", "Running"}
               PROVE  jobs'[j].status # "Pending"
    BY DEF LiveNeverSweptStep
  <2>0. /\ BaseInv /\ TypeOK /\ TasksAreHeld /\ jobs[j] \in Row
        /\ MaxAttempts[j] \in Nat
        /\ \A t \in tasks : t.inst \in Instance /\ t.attempt \in Nat
    BY ConstantAssumption DEF TimelyInv, BaseInv, TypeOK, Task
  <2>1. CASE TimelyTick
    <3>1. jobs'[j] = AgedRow(jobs[j])
      BY <2>1 DEF TimelyTick, Tick
    <3> QED
      BY <2>0, <3>1, AgedFacts
  <2>2. CASE [Work \/ FaultStep]_vars
    <3>1. CASE jobs'[j] = jobs[j] \/ Gone(jobs'[j])
      BY <3>1 DEF Gone
    <3>2. CASE \E k \in Instance : /\ sweep[k].stage = "update"
                                   /\ InstQueueOf[k] = JobQueueOf[j]
                                   /\ Orphaned(jobs[j], sweep[k].live)
      BY <3>2, OwnedIsNotOrphaned
    <3>3. ASSUME NEW t \in tasks, LockTask(t) \/ LockTaskFails(t), t.job = j
          PROVE  jobs'[j].status # "Pending"
      <4>1. jobs' = jobs \/ jobs' = [jobs EXCEPT ![j] = Locked(@, t.inst)]
        BY <3>3 DEF LockTask, LockTaskFails
      <4> QED
        BY <2>0, <4>1, ClaimFacts DEF TypeOK
    <3>4. ASSUME NEW t \in tasks, AckTask(t), t.job = j
          PROVE  jobs'[j].status # "Pending"
      <4>1. \/ jobs' = jobs
            \/ jobs' = [jobs EXCEPT ![j] =
                          Acked(@, t.res, t.attempt, MaxAttempts[j])]
        BY <3>4 DEF AckTask
      <4>2. Acked(jobs[j], t.res, t.attempt, MaxAttempts[j]).status # "Pending"
        BY <2>0, AckedFacts, StatusFacts
      <4> QED
        BY <2>0, <4>1, <4>2 DEF TypeOK
    <3> QED
      BY <2>0, <2>2, <3>1, <3>2, <3>3, <3>4, FlightSteps
  <2> QED
    BY <2>1, <2>2 DEF TimelyNext
<1> QED
  BY <1>1, TimelyCorrect, PTL DEF TimelySpec, LiveNeverSwept

-----------------------------------------------------------------------------
(* Outcomes are final, and attempts are not lost, while instances are timely. *)

\* Instances of one queue read the same payloads.
UniformCodec ==
    \A i, k \in Instance, j \in Job :
        /\ InstQueueOf[i] = JobQueueOf[j] /\ InstQueueOf[k] = JobQueueOf[j]
        /\ <<i, j>> \in Decodes
        => <<k, j>> \in Decodes

\* A task that is done was read by some instance of its queue.
DoneWasRead ==
    \A j \in Job : jobs[j].status = "Done" =>
        \E i \in Instance : /\ InstQueueOf[i] = JobQueueOf[j]
                            /\ <<i, j>> \in Decodes

\* Only the acknowledgement of a task that was read makes a row Done.
LEMMA DoneWasReadStep ==
    ASSUME BaseInv, DoneWasRead, [Next]_vars
    PROVE  DoneWasRead'
<1> SUFFICES ASSUME NEW j \in Job, jobs'[j].status = "Done"
             PROVE  \E i \in Instance : /\ InstQueueOf[i] = JobQueueOf[j]
                                        /\ <<i, j>> \in Decodes
  BY DEF DoneWasRead
<1>0. /\ TypeOK /\ TasksAreHeld /\ jobs[j] \in Row /\ MaxAttempts[j] \in Nat
      /\ \A t \in tasks : t.inst \in Instance /\ t.attempt \in Nat
  BY ConstantAssumption DEF BaseInv, TypeOK, Task
<1>1. RowStep(j) \/ jobs'[j] = AgedRow(jobs[j])
  BY <1>0, RowSteps
<1>2. CASE jobs[j].status = "Done"
  BY <1>2 DEF DoneWasRead
<1>3. ASSUME NEW t \in tasks, AckTask(t), t.job = j
      PROVE  InstQueueOf[t.inst] = JobQueueOf[j] /\ <<t.inst, j>> \in Decodes
  BY <1>0, <1>3 DEF AckTask, TasksAreHeld
<1>4. /\ NoRow("Purged").status = "Purged"
      /\ \A d \in 0 .. MaxDelay : Pushed(d).status = "Pending"
      /\ SharedClaimed(jobs[j]).status = "Queued"
      /\ \A i \in Instance : /\ Claimed(jobs[j], i).status = "Queued"
                             /\ Locked(jobs[j], i).status = "Running"
      /\ KilledRow(jobs[j]).status \in {"Killed", jobs[j].status}
      /\ Reenqueued(jobs[j]).status = "Pending"
      /\ AgedRow(jobs[j]).status = jobs[j].status
  BY <1>0, NoRowFacts, PushedFacts, SharedClaimFacts, ClaimFacts, KilledFacts,
     ReenqueuedFacts, AgedFacts DEF NoRowStatus
<1> QED
  BY <1>0, <1>1, <1>2, <1>3, <1>4 DEF RowStep

\* A task in memory has no claim on a row that is Done or Killed.
LEMMA TerminalStep ==
    ASSUME UniformCodec, TimelyInv, DoneWasRead, [TimelyNext]_vars
    PROVE  TerminalIsFinalStep
<1> SUFFICES ASSUME NEW j \in Job,
                    jobs[j].status \in {"Done", "Killed", "Purged"}
             PROVE  jobs'[j].status \in {jobs[j].status, "Purged"}
  BY DEF TerminalIsFinalStep
<1>0. /\ BaseInv /\ TypeOK /\ TasksAreHeld /\ jobs[j] \in Row
      /\ \A t \in tasks : t.inst \in Instance /\ t.job \in Job
  BY DEF TimelyInv, BaseInv, TypeOK, Task
<1>1. RowStep(j) \/ jobs'[j] = AgedRow(jobs[j])
  BY <1>0, TimelyIsNext, RowSteps
<1>2. ASSUME NEW t \in tasks, AckTask(t), t.job = j, Ackable(jobs[j], t.inst)
      PROVE  FALSE
  <2>1. /\ t.pc \in {"acking", "refused"} /\ t.inst # NONE
        /\ jobs[j].lock_by = t.inst
    BY <1>0, <1>2, NoneAssumption DEF AckTask, Ackable
  <2>2. InHandler(t) \/ t.inst \notin SharedInst
    BY <1>0, <2>1 DEF InHandler, TasksAreHeld
  <2> QED
    BY <1>2, <2>1, <2>2 DEF TimelyInv, HandlersOwnTheirRow,
                            PolledTasksAreOwned, Gone
<1>3. ASSUME NEW t \in tasks, KillTask(t), t.job = j,
             jobs'[j] = KilledRow(jobs[j])
      PROVE  jobs'[j].status = jobs[j].status
  <2>1. jobs[j].status # "Done"
    BY <1>0, <1>3 DEF KillTask, TasksAreHeld, DoneWasRead, UniformCodec
  <2> QED
    BY <1>0, <1>3, <2>1, KilledFacts DEF Exists, Status
<1>4. /\ ~Claimable(jobs[j], MaxAttempts[j]) /\ jobs[j].status # "Unborn"
      /\ \A i \in Instance : ~Lockable(jobs[j], i)
      /\ \A i \in Instance : ~Orphaned(jobs[j], sweep[i].live)
      /\ NoRow("Purged").status = "Purged"
      /\ AgedRow(jobs[j]).status = jobs[j].status
  BY <1>0, NoRowFacts, AgedFacts DEF Claimable, Lockable, Orphaned, NoRowStatus
<1> QED
  BY <1>0, <1>1, <1>2, <1>3, <1>4 DEF RowStep

\* With one codec per queue and timely instances, Done and Killed are final and
\* a purged task never comes back.
THEOREM TerminalHolds ==
    ASSUME UniformCodec PROVE TimelySpec => TerminalIsFinal
<1>1. Init => DoneWasRead
  <2>1. NoRow("Unborn").status = "Unborn"
    BY NoRowFacts DEF NoRowStatus
  <2> QED
    BY <2>1 DEF Init, DoneWasRead
<1>2. TimelyInv /\ DoneWasRead /\ [TimelyNext]_vars => DoneWasRead'
  BY TimelyIsNext, DoneWasReadStep DEF TimelyInv
<1>3. TimelyInv /\ DoneWasRead /\ [TimelyNext]_vars => [TerminalIsFinalStep]_vars
  BY TerminalStep
<1> QED
  BY <1>1, <1>2, <1>3, TimelyCorrect, PTL DEF TimelySpec, TerminalIsFinal

\* What a task of a poll storage will write back is no less than what is there.
AttemptsCarried ==
    \A t \in tasks : t.inst \notin SharedInst =>
        t.attempt >= jobs[t.job].attempts \/ Gone(jobs[t.job])

\* The sweep, the only statement that counts attempts in the database, leaves
\* the row of a task in a poll storage alone.
LEMMA AttemptsCarriedStep ==
    ASSUME TimelyInv, AttemptsCarried, [TimelyNext]_vars
    PROVE  AttemptsCarried'
<1> DEFINE Carried(u) == \/ u.attempt >= jobs'[u.job].attempts
                         \/ Gone(jobs'[u.job])
<1> SUFFICES ASSUME NEW u \in tasks', u.inst \notin SharedInst
             PROVE  Carried(u)
  BY DEF AttemptsCarried
<1>0. /\ TypeOK /\ BaseInv
      /\ \A t \in tasks : /\ t \in Task /\ t.job \in Job /\ t.inst \in Instance
                          /\ t.attempt \in Nat /\ jobs[t.job] \in Row
                          /\ jobs[t.job].attempts \in Nat
  BY DEF TimelyInv, BaseInv, TypeOK, Task, Row
<1>1. CASE TimelyTick
  <2>1. u \in tasks /\ jobs'[u.job] = AgedRow(jobs[u.job])
    BY <1>0, <1>1 DEF TimelyTick, Tick
  <2> QED
    BY <1>0, <2>1, AgedFacts DEF AttemptsCarried, Gone
<1>2. CASE [Work \/ FaultStep]_vars
  <2>0. CameFrom(u)
    BY <1>0, <1>2, TaskSteps DEF Next
  <2>1. CASE u \in tasks
    BY <1>2, <2>1, KeptRow DEF AttemptsCarried
  <2>2. ASSUME NEW i \in Instance, NEW j \in Job, NEW n \in CopyId,
               u = NewTask(i, j, n),
               i \notin SharedInst => jobs'[j] = Claimed(jobs[j], i)
        PROVE  Carried(u)
    <3>1. /\ u.inst = i /\ u.job = j /\ u.attempt = jobs[j].attempts
          /\ jobs[j] \in Row /\ jobs[j].attempts \in Nat
      BY <1>0, <2>2, NewTaskFacts DEF TypeOK, Row
    <3> QED
      BY <2>2, <3>1, ClaimFacts
  <2>3. ASSUME NEW t \in tasks, u = Started(t), LockTask(t) PROVE Carried(u)
    <3>1. /\ u.inst = t.inst /\ u.job = t.job /\ u.attempt = t.attempt + 1
          /\ jobs' = [jobs EXCEPT ![t.job] = Locked(@, t.inst)]
          /\ Lockable(jobs[t.job], t.inst)
      BY <1>0, <2>3, StartedFacts DEF LockTask
    <3>2. /\ jobs'[u.job].attempts = jobs[t.job].attempts
          /\ ~Gone(jobs[t.job])
      BY <1>0, <3>1, ClaimFacts DEF TypeOK, Lockable, Gone
    <3> QED
      BY <1>0, <3>1, <3>2 DEF AttemptsCarried
  <2>4. ASSUME NEW t \in tasks, NEW a \in Nat, u = Refused(t, a),
               LockTaskNotFound(t) \/ LockTaskFails(t), t.inst \notin SharedInst
        PROVE  Carried(u)
    <3>1. /\ u.inst = t.inst /\ u.job = t.job /\ u.attempt = a
          /\ \/ jobs' = jobs
             \/ /\ jobs' = [jobs EXCEPT ![t.job] = Locked(@, t.inst)]
                /\ Lockable(jobs[t.job], t.inst)
          /\ \E b \in {t.attempt, t.attempt + 1} : Become(t, Refused(t, b))
      BY <1>0, <2>4, RefusedFacts DEF LockTaskNotFound, LockTaskFails, LockError
    <3>2. a >= t.attempt
      <4>1. PICK b \in {t.attempt, t.attempt + 1} :
                tasks' = (tasks \ {t}) \cup {Refused(t, b)}
        BY <3>1 DEF Become
      <4>2. CASE u = Refused(t, b)
        <5>1. b \in Nat /\ b >= t.attempt
          BY <1>0
        <5>2. Refused(t, b).attempt = b
          BY <1>0, <5>1, RefusedFacts
        <5> QED
          BY <3>1, <4>2, <5>1, <5>2
      <4>3. CASE u \in tasks \ {t}
        BY <1>0, <3>1, <4>3 DEF TimelyInv, PolledOnce
      <4> QED
        BY <4>1, <4>2, <4>3
    <3>3. \/ jobs'[u.job] = jobs[t.job]
          \/ /\ jobs'[u.job].attempts = jobs[t.job].attempts
             /\ ~Gone(jobs[t.job])
      BY <1>0, <3>1, ClaimFacts DEF TypeOK, Lockable, Gone
    <3>4. t.attempt >= jobs[t.job].attempts \/ Gone(jobs[t.job])
      BY <2>4 DEF AttemptsCarried
    <3> QED
      BY <1>0, <3>1, <3>2, <3>3, <3>4
  <2>5. ASSUME NEW t \in tasks, NEW res \in {"Ok", "Err", "Abort"},
               u = Returned(t, res), Finish(t)
        PROVE  Carried(u)
    <3>1. /\ u.inst = t.inst /\ u.job = t.job /\ jobs' = jobs
          /\ u.attempt = t.attempt
      BY <1>0, <2>5, ReturnedFacts DEF Finish
    <3> QED
      BY <1>0, <3>1 DEF AttemptsCarried
  <2> QED
    BY <2>0, <2>1, <2>2, <2>3, <2>4, <2>5 DEF CameFrom
<1> QED
  BY <1>1, <1>2 DEF TimelyNext

\* A task that has not been pushed has not been tried.
UnbornIsUntried ==
    \A j \in Job : jobs[j].status = "Unborn" => jobs[j].attempts = 0

\* No statement makes a row Unborn.
LEMMA UnbornStep ==
    ASSUME BaseInv, UnbornIsUntried, [Next]_vars
    PROVE  UnbornIsUntried'
<1> SUFFICES ASSUME NEW j \in Job, jobs'[j].status = "Unborn"
             PROVE  jobs'[j].attempts = 0
  BY DEF UnbornIsUntried
<1>0. /\ TypeOK /\ TasksAreHeld /\ jobs[j] \in Row /\ MaxAttempts[j] \in Nat
      /\ \A t \in tasks : t.inst \in Instance /\ t.attempt \in Nat
  BY ConstantAssumption DEF BaseInv, TypeOK, Task
<1>1. RowStep(j) \/ jobs'[j] = AgedRow(jobs[j])
  BY <1>0, RowSteps
<1>2. /\ NoRow("Purged").status = "Purged"
      /\ \A d \in 0 .. MaxDelay : Pushed(d).status = "Pending"
      /\ SharedClaimed(jobs[j]).status = "Queued"
      /\ \A i \in Instance : /\ Claimed(jobs[j], i).status = "Queued"
                             /\ Locked(jobs[j], i).status = "Running"
      /\ Reenqueued(jobs[j]).status = "Pending"
      /\ AgedRow(jobs[j]).status = jobs[j].status
      /\ AgedRow(jobs[j]).attempts = jobs[j].attempts
  BY <1>0, NoRowFacts, PushedFacts, SharedClaimFacts, ClaimFacts,
     ReenqueuedFacts, AgedFacts DEF NoRowStatus
<1>3. \A t \in tasks :
        Acked(jobs[j], t.res, t.attempt, MaxAttempts[j]).status # "Unborn"
  BY <1>0, AckedFacts, StatusFacts
<1>4. KilledRow(jobs[j]) = jobs[j] \/ KilledRow(jobs[j]).status = "Killed"
  BY <1>0, KilledFacts
<1> QED
  BY <1>0, <1>1, <1>2, <1>3, <1>4 DEF RowStep, UnbornIsUntried

\* No step lowers the attempts of a row, if all storages are poll storages.
LEMMA AttemptsStep ==
    ASSUME SharedInst = {}, TimelyInv, AttemptsCarried, UnbornIsUntried,
           [TimelyNext]_vars
    PROVE  AttemptsNeverDecreaseStep
<1> SUFFICES ASSUME NEW j \in Job
             PROVE  \/ jobs'[j].attempts >= jobs[j].attempts
                    \/ jobs'[j].status = "Purged"
  BY DEF AttemptsNeverDecreaseStep
<1>0. /\ BaseInv /\ TypeOK /\ TasksAreHeld /\ jobs[j] \in Row
      /\ MaxAttempts[j] \in Nat /\ jobs[j].attempts \in Nat
      /\ \A t \in tasks : t.inst \in Instance /\ t.attempt \in Nat
  BY ConstantAssumption DEF TimelyInv, BaseInv, TypeOK, Task, Row
<1>1. RowStep(j) \/ jobs'[j] = AgedRow(jobs[j])
  BY <1>0, TimelyIsNext, RowSteps
<1>2. ASSUME NEW t \in tasks, AckTask(t), t.job = j, Ackable(jobs[j], t.inst)
      PROVE  t.attempt >= jobs[j].attempts
  <2>1. jobs[j].lock_by # NONE
    BY <1>0, <1>2, NoneAssumption DEF Ackable
  <2> QED
    BY <1>2, <2>1 DEF AttemptsCarried, Gone
<1>3. jobs[j].status = "Unborn" => jobs[j].attempts = 0
  BY DEF UnbornIsUntried
<1>4. \A d \in 0 .. MaxDelay : Pushed(d).attempts = 0
  BY PushedFacts
<1>5. /\ NoRow("Purged").status = "Purged"
      /\ SharedClaimed(jobs[j]).attempts = jobs[j].attempts
      /\ \A i \in Instance : /\ Claimed(jobs[j], i).attempts = jobs[j].attempts
                             /\ Locked(jobs[j], i).attempts = jobs[j].attempts
      /\ \A t \in tasks :
            Acked(jobs[j], t.res, t.attempt, MaxAttempts[j]).attempts = t.attempt
      /\ KilledRow(jobs[j]).attempts = jobs[j].attempts
      /\ Reenqueued(jobs[j]).attempts = jobs[j].attempts + 1
      /\ AgedRow(jobs[j]).attempts = jobs[j].attempts
  BY <1>0, NoRowFacts, SharedClaimFacts, ClaimFacts, AckedFacts, KilledFacts,
     ReenqueuedFacts, AgedFacts DEF NoRowStatus
<1>6. \/ jobs'[j].status = "Purged"
      \/ jobs'[j].attempts = jobs[j].attempts
      \/ jobs'[j].attempts = jobs[j].attempts + 1
      \/ \E t \in tasks : /\ AckTask(t) /\ t.job = j
                          /\ Ackable(jobs[j], t.inst)
                          /\ jobs'[j].attempts = t.attempt
  BY <1>0, <1>1, <1>3, <1>4, <1>5 DEF RowStep
<1> QED
  BY <1>0, <1>2, <1>6

\* In poll storages no attempt is lost: what ack_task writes back is never
\* less than what the row has counted meanwhile.
THEOREM AttemptsHold ==
    ASSUME SharedInst = {} PROVE TimelySpec => AttemptsNeverDecrease
<1>1. Init => AttemptsCarried /\ UnbornIsUntried
  BY NoRowFacts DEF Init, AttemptsCarried, UnbornIsUntried, NoRowStatus
<1>2. TimelyInv /\ AttemptsCarried /\ [TimelyNext]_vars => AttemptsCarried'
  BY AttemptsCarriedStep
<1>3. TimelyInv /\ UnbornIsUntried /\ [TimelyNext]_vars => UnbornIsUntried'
  BY TimelyIsNext, UnbornStep DEF TimelyInv
<1>4. TimelyInv /\ AttemptsCarried /\ UnbornIsUntried /\ [TimelyNext]_vars
        => [AttemptsNeverDecreaseStep]_vars
  BY AttemptsStep
<1> QED
  BY <1>1, <1>2, <1>3, <1>4, TimelyCorrect, PTL
     DEF TimelySpec, AttemptsNeverDecrease

-----------------------------------------------------------------------------
(* Only a worker's death takes a job beyond max_attempts. *)

NobodyDown == \A i \in Instance : phase[i] # "down"

\* A task that nobody has lost: it is Pending only before its first run, and it
\* is claimed only with an attempt left.
RowWithin(j) ==
    /\ jobs[j].attempts <= MaxAttempts[j]
    /\ jobs[j].status \in {"Unborn", "Pending"} => jobs[j].attempts = 0
    /\ jobs[j].status \in {"Queued", "Running", "Failed"} =>
         jobs[j].attempts < MaxAttempts[j]

\* ... and so in memory: the run that a handler counts is within the limit.
TaskWithin(t) ==
    /\ t.attempt <= MaxAttempts[t.job]
    /\ t.pc = "buffered" => t.attempt < MaxAttempts[t.job]

\* Without shared storages every claim names its owner.
QueuedIsOwned == \A j \in Job : jobs[j].status = "Queued" => jobs[j].lock_by # NONE

WithinInv ==
    /\ QueuedIsOwned
    /\ NobodyDown => /\ \A j \in Job : RowWithin(j)
                     /\ \A t \in tasks : TaskWithin(t)

\* A worker that is down stays down.
LEMMA NobodyWasDown ==
    ASSUME TypeOK, [Next]_vars, NobodyDown'
    PROVE  NobodyDown
BY PhaseSteps DEF NobodyDown

\* Every claim names its owner, and nothing but the end of the claim takes the
\* name away.
LEMMA QueuedIsOwnedStep ==
    ASSUME SharedInst = {}, BaseInv, QueuedIsOwned, [Next]_vars
    PROVE  QueuedIsOwned'
<1> SUFFICES ASSUME NEW j \in Job, jobs'[j].status = "Queued"
             PROVE  jobs'[j].lock_by # NONE
  BY DEF QueuedIsOwned
<1>0. /\ TypeOK /\ TasksAreHeld /\ jobs[j] \in Row /\ MaxAttempts[j] \in Nat
      /\ \A t \in tasks : t.inst \in Instance /\ t.attempt \in Nat
  BY ConstantAssumption DEF BaseInv, TypeOK, Task
<1>1. RowStep(j) \/ jobs'[j] = AgedRow(jobs[j])
  BY <1>0, RowSteps
<1>2. jobs[j].status = "Queued" => jobs[j].lock_by # NONE
  BY DEF QueuedIsOwned
<1>3. /\ NoRow("Purged").status # "Queued"
      /\ \A d \in 0 .. MaxDelay : Pushed(d).status # "Queued"
      /\ \A i \in Instance : /\ Claimed(jobs[j], i).lock_by # NONE
                             /\ Locked(jobs[j], i).status # "Queued"
      /\ KilledRow(jobs[j]) = jobs[j] \/ KilledRow(jobs[j]).status = "Killed"
      /\ Reenqueued(jobs[j]).status = "Pending"
      /\ AgedRow(jobs[j]).status = jobs[j].status
      /\ AgedRow(jobs[j]).lock_by = jobs[j].lock_by
  BY <1>0, NoRowFacts, PushedFacts, ClaimFacts, KilledFacts, ReenqueuedFacts,
     AgedFacts, NoneAssumption DEF NoRowStatus
<1>4. \A t \in tasks :
        Acked(jobs[j], t.res, t.attempt, MaxAttempts[j]).status # "Queued"
  BY <1>0, AckedFacts, StatusFacts
<1> QED
  BY <1>0, <1>1, <1>2, <1>3, <1>4 DEF RowStep

\* While every worker lives nothing is swept.
LEMMA NothingIsSwept ==
    ASSUME TimelyInv, QueuedIsOwned, NobodyDown, NEW j \in Job, NEW k \in Instance,
           sweep[k].stage = "update", InstQueueOf[k] = JobQueueOf[j],
           Orphaned(jobs[j], sweep[k].live)
    PROVE  FALSE
<1>1. jobs[j].lock_by # NONE /\ jobs[j].lock_by \in Instance
  BY DEF Orphaned, QueuedIsOwned, TimelyInv, BaseInv, TypeOK, Row
<1>2. PICK i \in Instance : i = jobs[j].lock_by
  BY <1>1
<1>3. phase[i] = "up"
  BY <1>2 DEF TimelyInv, BaseInv, OwnersHaveStarted, NobodyDown
<1> QED
  BY <1>2, <1>3, OwnedIsNotOrphaned

\* While every worker lives, a claim finds an attempt left, and an outcome is
\* recorded with an attempt within the limit.
LEMMA RowWithinStep ==
    ASSUME SharedInst = {}, \A j \in Job : MaxAttempts[j] > 0,
           TimelyInv, WithinInv, [TimelyNext]_vars, NobodyDown', NEW j \in Job
    PROVE  RowWithin(j)'
<1> DEFINE Ok(r) == /\ r.attempts <= MaxAttempts[j]
                    /\ r.status \in {"Unborn", "Pending"} => r.attempts = 0
                    /\ r.status \in {"Queued", "Running", "Failed"} =>
                         r.attempts < MaxAttempts[j]
<1>0. /\ TypeOK /\ TasksAreHeld /\ BaseInv /\ [Next]_vars /\ NobodyDown
      /\ jobs[j] \in Row /\ MaxAttempts[j] \in Nat /\ jobs[j].attempts \in Nat
      /\ \A t \in tasks : t.inst \in Instance /\ t.attempt \in Nat
  BY TimelyIsNext, NobodyWasDown, ConstantAssumption
     DEF TimelyInv, BaseInv, TypeOK, Task, Row
<1>1. /\ RowStep(j) \/ jobs'[j] = AgedRow(jobs[j])
      /\ Ok(jobs[j])
  BY <1>0, RowSteps DEF WithinInv, RowWithin
<1>2. Ok(NoRow("Purged")) /\ \A d \in 0 .. MaxDelay : Ok(Pushed(d))
  BY <1>0, NoRowFacts, PushedFacts DEF NoRowStatus
<1>3. ASSUME Claimable(jobs[j], MaxAttempts[j]), NEW i \in Instance
      PROVE  Ok(Claimed(jobs[j], i))
  BY <1>0, <1>1, <1>3, ClaimFacts DEF Claimable
<1>4. ASSUME NEW i \in Instance, Lockable(jobs[j], i) PROVE Ok(Locked(jobs[j], i))
  BY <1>0, <1>1, <1>4, ClaimFacts DEF Lockable
<1>5. ASSUME NEW t \in tasks, t.job = j
      PROVE  Ok(Acked(jobs[j], t.res, t.attempt, MaxAttempts[j]))
  <2>1. t.attempt <= MaxAttempts[j]
    BY <1>0, <1>5 DEF WithinInv, TaskWithin
  <2> QED
    BY <1>0, <1>5, <2>1, AckedFacts, StatusFacts
<1>6. Ok(KilledRow(jobs[j])) /\ Ok(AgedRow(jobs[j]))
  BY <1>0, <1>1, KilledFacts, AgedFacts
<1>7. ASSUME NEW k \in Instance, sweep[k].stage = "update",
             InstQueueOf[k] = JobQueueOf[j], Orphaned(jobs[j], sweep[k].live)
      PROVE  FALSE
  BY <1>0, <1>7, NothingIsSwept DEF WithinInv
<1>8. Ok(jobs'[j])
  <2> HIDE DEF Ok
  <2> QED
    BY <1>0, <1>1, <1>2, <1>3, <1>4, <1>5, <1>6, <1>7 DEF RowStep
<1> QED
  BY <1>8 DEF RowWithin

\* The same for the tasks in memory.
LEMMA TaskWithinStep ==
    ASSUME SharedInst = {}, \A j \in Job : MaxAttempts[j] > 0,
           TimelyInv, WithinInv, [TimelyNext]_vars, NobodyDown', NEW u \in tasks'
    PROVE  TaskWithin(u)
<1>0. /\ TypeOK /\ [Next]_vars /\ NobodyDown
      /\ \A t \in tasks : /\ t \in Task /\ t.attempt \in Nat /\ t.job \in Job
                          /\ MaxAttempts[t.job] \in Nat
      /\ \A j \in Job : jobs[j].attempts \in Nat /\ MaxAttempts[j] \in Nat
  BY TimelyIsNext, NobodyWasDown, ConstantAssumption
     DEF TimelyInv, BaseInv, TypeOK, Task, Row
<1>1. /\ \A t \in tasks : TaskWithin(t)
      /\ \A j \in Job : RowWithin(j)
  BY <1>0 DEF WithinInv
<1>2. CASE u \in tasks
  BY <1>1, <1>2
<1>3. ASSUME NEW t \in tasks, u = Started(t), LockTask(t) PROVE TaskWithin(u)
  BY <1>0, <1>1, <1>3, StartedFacts DEF TaskWithin, LockTask
<1>4. ASSUME NEW t \in tasks, Finish(t), NEW res \in {"Ok", "Err", "Abort"},
             u = Returned(t, res)
      PROVE  TaskWithin(u)
  BY <1>0, <1>1, <1>4, ReturnedFacts DEF TaskWithin
<1>5. ASSUME NEW i \in Instance, NEW j \in Job, NEW n \in CopyId,
             u = NewTask(i, j, n), jobs'[j] = Claimed(jobs[j], i)
      PROVE  TaskWithin(u)
  <2>1. jobs[j] \in Row
    BY <1>0 DEF TypeOK
  <2>2. jobs'[j].status = "Queued" /\ jobs'[j].attempts = jobs[j].attempts
    BY <1>5, <2>1, ClaimFacts
  <2>3. RowWithin(j)'
    BY RowWithinStep
  <2>4. jobs[j].attempts < MaxAttempts[j]
    BY <2>2, <2>3 DEF RowWithin
  <2>5. u.job = j /\ u.attempt = jobs[j].attempts
    BY <1>0, <1>5, NewTaskFacts
  <2> QED
    BY <1>0, <2>4, <2>5 DEF TaskWithin
<1>6. ASSUME NEW t \in tasks, LockTaskNotFound(t) \/ LockTaskFails(t),
             NEW a \in Nat, a <= t.attempt + 1, u = Refused(t, a)
      PROVE  TaskWithin(u)
  <2>1. t.attempt < MaxAttempts[t.job]
    BY <1>1, <1>6 DEF TaskWithin, LockTaskNotFound, LockTaskFails
  <2>2. u.job = t.job /\ u.attempt = a /\ u.pc = "refused"
    BY <1>0, <1>6, RefusedFacts
  <2>3. a <= MaxAttempts[t.job]
    BY <1>0, <1>6, <2>1
  <2> QED
    BY <2>2, <2>3 DEF TaskWithin
<1>7. CameFrom(u)
  BY <1>0, TaskSteps
<1> QED
  BY <1>2, <1>3, <1>4, <1>5, <1>6, <1>7 DEF CameFrom

\* Without shared storages, and for tasks that may run at all (max_attempts is
\* not 0: a task is run before its limit is looked at), only the death of a
\* worker takes a job beyond max_attempts, whatever calls fail.
THEOREM OnlyDeathHolds ==
    ASSUME SharedInst = {}, \A j \in Job : MaxAttempts[j] > 0
    PROVE  TimelySpec => []OnlyDeathExceedsMaxAttempts
<1>1. Init => WithinInv
  <2>1. NoRow("Unborn").status = "Unborn" /\ NoRow("Unborn").attempts = 0
    BY NoRowFacts DEF NoRowStatus
  <2>2. \A j \in Job : MaxAttempts[j] \in Nat
    BY ConstantAssumption
  <2> QED
    BY <2>1, <2>2 DEF Init, WithinInv, QueuedIsOwned, RowWithin
<1>2. TimelyInv /\ WithinInv /\ [TimelyNext]_vars => WithinInv'
  <2> SUFFICES ASSUME TimelyInv, WithinInv, [TimelyNext]_vars PROVE WithinInv'
    OBVIOUS
  <2>1. QueuedIsOwned'
    BY TimelyIsNext, QueuedIsOwnedStep DEF WithinInv, TimelyInv
  <2>2. ASSUME NobodyDown', NEW j \in Job PROVE RowWithin(j)'
    BY <2>2, RowWithinStep
  <2>3. ASSUME NobodyDown', NEW u \in tasks' PROVE TaskWithin(u)
    BY <2>3, TaskWithinStep
  <2> QED
    BY <2>1, <2>2, <2>3 DEF WithinInv, TaskWithin
<1>3. WithinInv => OnlyDeathExceedsMaxAttempts
  BY DEF WithinInv, NobodyDown, RowWithin, OnlyDeathExceedsMaxAttempts
<1> QED
  BY <1>1, <1>2, <1>3, TimelyCorrect, PTL DEF TimelySpec

=============================================================================
