------------------------- MODULE JobLifecycleProofs -------------------------
(***************************************************************************)
(* JobQueue implements JobLifecycle: proofs for every set of tasks,        *)
(* instances and queues, while workers heartbeat on time.                  *)
(***************************************************************************)
EXTENDS JobQueueProofs

-----------------------------------------------------------------------------
(* What the refinement needs beyond TimelyInv. *)

\* A task that has been locked was read by an instance of its queue.
LockedWasRead ==
    \A j \in Job : jobs[j].status \in {"Running", "Done", "Failed"} =>
        \E i \in Instance : /\ InstQueueOf[i] = JobQueueOf[j]
                            /\ <<i, j>> \in Decodes

\* The row of a task in a handler is Running.
HandlersRun ==
    \A t \in tasks : InHandler(t) => jobs[t.job].status = "Running"

\* A refused lock is an error of the task.
RefusedIsError == \A t \in tasks : t.pc = "refused" => t.res = "Err"

LifeInv ==
    /\ TimelyInv
    /\ \A j \in Job : RowInv(j)
    /\ LockedWasRead /\ HandlersRun /\ RefusedIsError

\* Only a lock makes a row Running, and only an acknowledgement makes it Done
\* or Failed; both need a task that was read.
LEMMA LockedWasReadStep ==
    ASSUME BaseInv, LockedWasRead, [Next]_vars
    PROVE  LockedWasRead'
<1> SUFFICES ASSUME NEW j \in Job, jobs'[j].status \in {"Running", "Done", "Failed"}
             PROVE  \E i \in Instance : /\ InstQueueOf[i] = JobQueueOf[j]
                                        /\ <<i, j>> \in Decodes
  BY DEF LockedWasRead
<1>0. /\ TypeOK /\ TasksAreHeld /\ jobs[j] \in Row
      /\ \A t \in tasks : t.inst \in Instance
  BY DEF BaseInv, TypeOK, Task
<1>1. RowStep(j) \/ jobs'[j] = AgedRow(jobs[j])
  BY <1>0, RowSteps
<1>2. CASE jobs[j].status \in {"Running", "Done", "Failed"}
  BY <1>2 DEF LockedWasRead
<1>3. ASSUME NEW t \in tasks, AckTask(t) \/ LockTask(t) \/ LockTaskFails(t), t.job = j
      PROVE  InstQueueOf[t.inst] = JobQueueOf[j] /\ <<t.inst, j>> \in Decodes
  BY <1>0, <1>3 DEF AckTask, LockTask, LockTaskFails, TasksAreHeld
<1>4. /\ NoRow("Purged").status = "Purged"
      /\ \A d \in 0 .. MaxDelay : Pushed(d).status = "Pending"
      /\ SharedClaimed(jobs[j]).status = "Queued"
      /\ \A i \in Instance : Claimed(jobs[j], i).status = "Queued"
      /\ KilledRow(jobs[j]).status \in {"Killed", jobs[j].status}
      /\ Reenqueued(jobs[j]).status = "Pending"
      /\ AgedRow(jobs[j]).status = jobs[j].status
  BY <1>0, NoRowFacts, PushedFacts, SharedClaimFacts, ClaimFacts, KilledFacts,
     ReenqueuedFacts, AgedFacts DEF NoRowStatus
<1> QED
  BY <1>0, <1>1, <1>2, <1>3, <1>4 DEF RowStep

\* No step ends the run of a handler by killing or purging its row: kill_task
\* is called by an instance that cannot read the task.
LEMMA RunningStays ==
    ASSUME UniformCodec, TimelyInv, [Next]_vars, NEW t \in tasks, InHandler(t),
           jobs[t.job].status = "Running"
    PROVE  ~Gone(jobs'[t.job])
<1> DEFINE j == t.job
<1>0. /\ TypeOK /\ TasksAreHeld /\ j \in Job /\ t.inst \in Instance
      /\ jobs[j] \in Row /\ MaxAttempts[j] \in Nat
      /\ \A u \in tasks : u.inst \in Instance /\ u.attempt \in Nat
  BY ConstantAssumption DEF TimelyInv, BaseInv, TypeOK, Task
<1>1. RowStep(j) \/ jobs'[j] = AgedRow(jobs[j])
  BY <1>0, RowSteps
<1>2. <<t.inst, j>> \in Decodes /\ InstQueueOf[t.inst] = JobQueueOf[j]
  BY <1>0 DEF TasksAreHeld, InHandler
<1>3. ASSUME NEW u \in tasks, KillTask(u), u.job = j PROVE FALSE
  BY <1>0, <1>2, <1>3 DEF KillTask, TasksAreHeld, UniformCodec
<1>4. ASSUME NEW u \in tasks, Ackable(jobs[j], u.inst)
      PROVE  ~Gone(Acked(jobs[j], u.res, u.attempt, MaxAttempts[j]))
  BY <1>0, <1>4, AckedFacts, NoneAssumption DEF Gone, Ackable
<1>5. /\ ~Vacuumable(jobs[j], MaxAttempts[j]) /\ ~Claimable(jobs[j], MaxAttempts[j])
      /\ \A i \in Instance : ~Lockable(jobs[j], i)
  BY DEF Vacuumable, Claimable, Lockable
<1>6. /\ AgedRow(jobs[j]).status = "Running" /\ Reenqueued(jobs[j]).status = "Pending"
  BY <1>0, AgedFacts, ReenqueuedFacts
<1> QED
  BY <1>0, <1>1, <1>3, <1>4, <1>5, <1>6 DEF RowStep, Gone

\* A task in a handler keeps its row Running.
LEMMA HandlersRunStep ==
    ASSUME UniformCodec, TimelyInv, HandlersRun, TimelyInv', [TimelyNext]_vars
    PROVE  HandlersRun'
<1> SUFFICES ASSUME NEW u \in tasks', InHandler(u)
             PROVE  jobs'[u.job].status = "Running"
  BY DEF HandlersRun, InHandler
<1>0. /\ TypeOK /\ [Next]_vars
      /\ \A t \in tasks : t \in Task /\ t.inst \in Instance /\ t.job \in Job
      /\ \A t \in tasks : jobs[t.job] \in Row
  BY TimelyIsNext DEF TimelyInv, BaseInv, TypeOK, Task
<1>1. jobs'[u.job].status = "Running" \/ Gone(jobs'[u.job])
  BY DEF TimelyInv, HandlersOwnTheirRow, InHandler, Gone
<1>2. CASE u \in tasks
  BY <1>0, <1>1, <1>2, RunningStays DEF HandlersRun
<1>3. ASSUME NEW i \in Instance, NEW j \in Job, NEW n \in CopyId, u = NewTask(i, j, n)
      PROVE  FALSE
  BY <1>0, <1>3, NewTaskFacts DEF InHandler
<1>4. ASSUME NEW t \in tasks, u = Started(t), LockTask(t)
      PROVE  jobs'[u.job].status = "Running"
  <2>1. u.job = t.job
    BY <1>0, <1>4, StartedFacts
  <2>2. jobs'[t.job] = Locked(jobs[t.job], t.inst)
    BY <1>0, <1>4 DEF LockTask, TypeOK
  <2> QED
    BY <1>0, <2>1, <2>2, ClaimFacts
<1>5. ASSUME NEW t \in tasks, NEW a \in Nat, u = Refused(t, a) PROVE FALSE
  BY <1>0, <1>5, RefusedFacts DEF InHandler
<1>6. ASSUME NEW t \in tasks, Finish(t), NEW res \in {"Ok", "Err", "Abort"},
             u = Returned(t, res)
      PROVE  jobs'[u.job].status = "Running"
  <2>1. u.job = t.job /\ InHandler(t)
    BY <1>0, <1>6, ReturnedFacts DEF Finish, InHandler
  <2> QED
    BY <1>0, <1>1, <2>1, RunningStays DEF HandlersRun
<1>7. CameFrom(u)
  BY <1>0, TaskSteps
<1> QED
  BY <1>2, <1>3, <1>4, <1>5, <1>6, <1>7 DEF CameFrom

\* A refused task carries the error of its lock.
LEMMA RefusedIsErrorStep ==
    ASSUME TypeOK, RefusedIsError, [Next]_vars
    PROVE  RefusedIsError'
<1> SUFFICES ASSUME NEW u \in tasks', u.pc = "refused" PROVE u.res = "Err"
  BY DEF RefusedIsError
<1>0. \A t \in tasks : t \in Task
  BY DEF TypeOK
<1>1. ASSUME NEW i \in Instance, NEW j \in Job, NEW n \in CopyId, u = NewTask(i, j, n)
      PROVE  FALSE
  BY <1>1, NewTaskFacts
<1>2. ASSUME NEW t \in tasks, u = Started(t) PROVE FALSE
  BY <1>0, <1>2, StartedFacts
<1>3. ASSUME NEW t \in tasks, NEW a \in Nat, u = Refused(t, a) PROVE u.res = "Err"
  BY <1>0, <1>3 DEF Refused, Task
<1>4. ASSUME NEW t \in tasks, NEW res \in {"Ok", "Err", "Abort"}, u = Returned(t, res)
      PROVE  FALSE
  BY <1>0, <1>4, ReturnedFacts
<1>5. CameFrom(u)
  BY TaskSteps
<1> QED
  BY <1>1, <1>2, <1>3, <1>4, <1>5 DEF CameFrom, RefusedIsError

-----------------------------------------------------------------------------
(* The handler that runs a job. *)

\* Runner for an arbitrary set of tasks in memory.
RunnerIn(T, j) ==
    LET running == {t \in T : t.job = j /\ InHandler(t)}
    IN IF running = {} THEN NONE ELSE (CHOOSE t \in running : TRUE).inst

\* It is the instance of the task in its handler, if there is one.
LEMMA RunnerInFacts ==
    ASSUME NEW T \in SUBSET Task, NEW j,
           \A t, u \in T : t.job = u.job /\ InHandler(t) /\ InHandler(u) => t = u
    PROVE  /\ \A t \in T : t.job = j /\ InHandler(t) =>
                RunnerIn(T, j) = t.inst /\ RunnerIn(T, j) # NONE
           /\ (\A t \in T : ~(t.job = j /\ InHandler(t))) => RunnerIn(T, j) = NONE
           /\ RunnerIn(T, j) \in Instance \cup {NONE}
<1> DEFINE running == {t \in T : t.job = j /\ InHandler(t)}
<1>1. \A t \in T : t.inst \in Instance /\ t.inst # NONE
  BY NoneAssumption DEF Task
<1>2. CASE running = {}
  BY <1>2 DEF RunnerIn
<1>3. CASE running # {}
  <2>1. PICK c \in running : c = CHOOSE t \in running : TRUE
    BY <1>3
  <2>2. RunnerIn(T, j) = c.inst
    BY <1>3, <2>1 DEF RunnerIn
  <2>3. \A t \in T : t.job = j /\ InHandler(t) => t = c
    BY <2>1
  <2> QED
    BY <1>1, <2>1, <2>2, <2>3
<1> QED
  BY <1>2, <1>3

\* The two readings of Runner.
LEMMA RunnerIsIn ==
    \A j : Runner(j) = RunnerIn(tasks, j) /\ Runner(j)' = RunnerIn(tasks', j)
BY DEF Runner, RunnerIn, InHandler

\* What LifeInv says of the handler that runs a job.
LEMMA RunnerFacts ==
    ASSUME LifeInv, NEW j \in Job
    PROVE  /\ Runner(j) \in Instance \cup {NONE}
           /\ Runner(j) # NONE =>
                /\ jobs[j].status = "Running" /\ jobs[j].lock_by = Runner(j)
                /\ \E t \in tasks : t.job = j /\ InHandler(t) /\ t.inst = Runner(j)
           /\ \A t \in tasks : t.job = j /\ InHandler(t) =>
                Runner(j) = t.inst /\ Runner(j) # NONE
<1>1. /\ tasks \in SUBSET Task /\ HandlersRun /\ HandlersOwnTheirRow
      /\ \A t, u \in tasks : t.job = u.job /\ InHandler(t) /\ InHandler(u) => t = u
  BY DEF LifeInv, TimelyInv, BaseInv, TypeOK, OneHandlerPerJob
<1>2. /\ \A t \in tasks : t.job = j /\ InHandler(t) =>
           Runner(j) = t.inst /\ Runner(j) # NONE
      /\ (\A t \in tasks : ~(t.job = j /\ InHandler(t))) => Runner(j) = NONE
      /\ Runner(j) \in Instance \cup {NONE}
  BY <1>1, RunnerInFacts, RunnerIsIn
<1>3. \A t \in tasks : t.job = j /\ InHandler(t) =>
        jobs[j].status = "Running" /\ jobs[j].lock_by = t.inst
  BY <1>1 DEF HandlersRun, HandlersOwnTheirRow, Gone
<1> QED
  BY <1>2, <1>3

\* The same after a step.
LEMMA NextRunnerFacts ==
    ASSUME LifeInv', NEW j \in Job
    PROVE  /\ Runner(j)' \in Instance \cup {NONE}
           /\ Runner(j)' # NONE =>
                /\ jobs'[j].status = "Running"
                /\ \E t \in tasks' : t.job = j /\ InHandler(t) /\ t.inst = Runner(j)'
<1>1. /\ tasks' \in SUBSET Task
      /\ \A t \in tasks' : InHandler(t) => jobs'[t.job].status = "Running"
      /\ \A t, u \in tasks' : t.job = u.job /\ InHandler(t) /\ InHandler(u) => t = u
  BY DEF LifeInv, TimelyInv, BaseInv, TypeOK, OneHandlerPerJob, HandlersRun, InHandler
<1>2. /\ \A t \in tasks' : t.job = j /\ InHandler(t) => RunnerIn(tasks', j) = t.inst
      /\ (\A t \in tasks' : ~(t.job = j /\ InHandler(t))) => RunnerIn(tasks', j) = NONE
      /\ RunnerIn(tasks', j) \in Instance \cup {NONE}
  BY <1>1, RunnerInFacts
<1>3. Runner(j)' = RunnerIn(tasks', j)
  BY RunnerIsIn
<1> QED
  BY <1>1, <1>2, <1>3

\* While a row keeps its status no other handler takes over: the one that runs
\* goes on, or is gone.
LEMMA SameRunner ==
    ASSUME LifeInv, LifeInv', [Next]_vars, NEW j \in Job,
           jobs'[j].status = jobs[j].status
    PROVE  Runner(j)' \in {Runner(j), NONE}
<1> SUFFICES ASSUME Runner(j)' # NONE PROVE Runner(j)' = Runner(j)
  OBVIOUS
<1>0. /\ TypeOK /\ \A t \in tasks : t \in Task /\ t.job \in Job
  BY DEF LifeInv, TimelyInv, BaseInv, TypeOK, Task
<1>1. PICK u \in tasks' : u.job = j /\ InHandler(u) /\ u.inst = Runner(j)'
  BY NextRunnerFacts
<1>2. CASE u \in tasks
  BY <1>1, <1>2, RunnerFacts
<1>3. ASSUME NEW i \in Instance, NEW k \in Job, NEW n \in CopyId, u = NewTask(i, k, n)
      PROVE  FALSE
  BY <1>0, <1>1, <1>3, NewTaskFacts DEF InHandler
<1>4. ASSUME NEW t \in tasks, u = Started(t), LockTask(t) PROVE FALSE
  <2>1. t.job = j
    BY <1>0, <1>1, <1>4, StartedFacts
  <2>2. jobs[j].status # "Running"
    BY <1>4, <2>1 DEF LockTask, Lockable
  <2> QED
    BY <2>2, NextRunnerFacts
<1>5. ASSUME NEW t \in tasks, NEW a \in Nat, u = Refused(t, a) PROVE FALSE
  BY <1>0, <1>1, <1>5, RefusedFacts DEF InHandler
<1>6. ASSUME NEW t \in tasks, Finish(t), NEW res \in {"Ok", "Err", "Abort"},
             u = Returned(t, res)
      PROVE  Runner(j)' = Runner(j)
  <2>1. t.job = j /\ InHandler(t) /\ t.inst = u.inst
    BY <1>0, <1>1, <1>6, ReturnedFacts DEF Finish, InHandler
  <2> QED
    BY <1>1, <2>1, RunnerFacts
<1>7. CameFrom(u)
  BY <1>0, TaskSteps
<1> QED
  BY <1>2, <1>3, <1>4, <1>5, <1>6, <1>7 DEF CameFrom

-----------------------------------------------------------------------------
(* The refinement. *)

\* The life of job j as JobLifecycle sees it.
LifeOf(j) == [status |-> jobs[j].status, runner |-> Runner(j)]

\* Whatever happens to a row happens to the life of its job.
LEMMA LifeStep ==
    ASSUME UniformCodec, LifeInv, LifeInv', [TimelyNext]_vars, NEW j \in Job
    PROVE  LifeOf(j)' = LifeOf(j) \/ Abstract!JobStep(LifeOf(j), LifeOf(j)')
<1>0. /\ TypeOK /\ TasksAreHeld /\ [Next]_vars /\ TimelyInv
      /\ jobs[j] \in Row /\ MaxAttempts[j] \in Nat
      /\ \A t \in tasks : t.inst \in Instance /\ t.attempt \in Nat /\ t.inst # NONE
  BY TimelyIsNext, ConstantAssumption, NoneAssumption
     DEF LifeInv, TimelyInv, BaseInv, TypeOK, Task
<1>1. RowStep(j) \/ jobs'[j] = AgedRow(jobs[j])
  BY <1>0, RowSteps
<1> DEFINE s == jobs[j].status
           l == LifeOf(j)
           m == LifeOf(j)'
<1>2. /\ l = [status |-> s, runner |-> Runner(j)]
      /\ m = [status |-> jobs'[j].status, runner |-> Runner(j)']
  BY DEF LifeOf
<1>3. /\ s # "Running" => l = Abstract!At(s)
      /\ jobs'[j].status # "Running" => m = Abstract!At(jobs'[j].status)
  BY <1>2, RunnerFacts, NextRunnerFacts DEF Abstract!At
<1> HIDE DEF l, m
<1> DEFINE Goal == m = l \/ Abstract!JobStep(l, m)
<1>4. ASSUME jobs'[j].status = s PROVE Goal
  <2>1. CASE Runner(j)' = Runner(j)
    BY <1>2, <1>4, <2>1
  <2>2. CASE Runner(j)' = NONE /\ Runner(j) # NONE
    <3>1. s = "Running"
      BY <2>2, RunnerFacts
    <3>2. Abstract!Lose(l, m)
      BY <1>2, <1>4, <2>2, <3>1 DEF Abstract!Lose, Abstract!At
    <3> QED
      BY <3>2 DEF Abstract!JobStep
  <2> QED
    BY <1>0, <1>4, <2>1, <2>2, SameRunner
<1>5. ASSUME s = "Unborn", NEW d \in 0 .. MaxDelay, jobs'[j] = Pushed(d)
      PROVE  Goal
  <2>1. Abstract!Push(l, m)
    BY <1>3, <1>5, PushedFacts DEF Abstract!Push
  <2> QED
    BY <2>1 DEF Abstract!JobStep
<1>6. ASSUME Vacuumable(jobs[j], MaxAttempts[j]), jobs'[j] = NoRow("Purged")
      PROVE  Goal
  <2>1. s \in {"Done", "Killed"}
    BY <1>0, <1>6 DEF Vacuumable, LifeInv, RowInv, Row
  <2>2. jobs'[j].status = "Purged"
    BY <1>6, NoRowFacts DEF NoRowStatus
  <2>3. Abstract!Vacuum(l, m)
    BY <1>3, <2>1, <2>2 DEF Abstract!Vacuum
  <2> QED
    BY <2>3 DEF Abstract!JobStep
<1>7. ASSUME Claimable(jobs[j], MaxAttempts[j]), jobs'[j].status = "Queued"
      PROVE  Goal
  <2>1. s \in {"Pending", "Failed"}
    BY <1>7 DEF Claimable
  <2>2. Abstract!Claim(l, m)
    BY <1>3, <1>7, <2>1 DEF Abstract!Claim
  <2> QED
    BY <2>2 DEF Abstract!JobStep
<1>8. ASSUME NEW t \in tasks, Lockable(jobs[j], t.inst), jobs'[j].status = "Running"
      PROVE  Goal
  <2>1. s \in {"Queued", "Pending", "Failed"}
    BY <1>8 DEF Lockable
  <2>2. Abstract!Start(l, m) \/ Abstract!StartUnheard(l, m)
    BY <1>2, <1>3, <1>8, <2>1, NextRunnerFacts
       DEF Abstract!Start, Abstract!StartUnheard, Abstract!At
  <2> QED
    BY <2>2 DEF Abstract!JobStep
<1>9. ASSUME NEW t \in tasks, AckTask(t), t.job = j, Ackable(jobs[j], t.inst),
             jobs'[j] = Acked(jobs[j], t.res, t.attempt, MaxAttempts[j])
      PROVE  Goal
  <2>1. /\ jobs'[j].status = CalculateStatus(t.res, t.attempt, MaxAttempts[j])
        /\ jobs'[j].status \in {"Done", "Killed", "Failed"}
    BY <1>0, <1>9, AckedFacts, StatusFacts
  <2>2. m = Abstract!At(jobs'[j].status)
    BY <1>3, <2>1
  <2>3. CASE t.pc = "acking"
    <3>1. s = "Running" /\ Runner(j) # NONE
      BY <1>9, <2>3, RunnerFacts DEF InHandler
    <3>2. Abstract!Record(l, m)
      BY <1>2, <2>1, <2>2, <3>1 DEF Abstract!Record
    <3> QED
      BY <3>2 DEF Abstract!JobStep
  <2>4. CASE t.pc = "refused"
    <3>1. t.inst \notin SharedInst /\ t.res = "Err"
      BY <1>0, <2>4 DEF TasksAreHeld, LifeInv, RefusedIsError
    <3>2. jobs'[j].status \in {"Killed", "Failed"}
      BY <2>1, <3>1 DEF CalculateStatus
    <3>3. s \in {"Queued", "Running"} /\ jobs[j].lock_by = t.inst
      BY <1>0, <1>9, <3>1 DEF TimelyInv, PolledTasksAreOwned, Ackable, Gone
    <3>4. Runner(j) = NONE
      <4> SUFFICES ASSUME Runner(j) # NONE PROVE FALSE
        OBVIOUS
      <4>1. PICK u \in tasks : u.job = j /\ InHandler(u) /\ u.inst = jobs[j].lock_by
        BY RunnerFacts
      <4>2. u = t
        BY <1>0, <1>9, <3>1, <3>3, <4>1 DEF TimelyInv, PolledOnce
      <4> QED
        BY <2>4, <4>1, <4>2 DEF InHandler
    <3>5. Abstract!Refuse(l, m)
      BY <1>2, <2>2, <3>2, <3>3, <3>4 DEF Abstract!Refuse, Abstract!At
    <3> QED
      BY <3>5 DEF Abstract!JobStep
  <2> QED
    BY <1>9, <2>3, <2>4 DEF AckTask
<1>10. ASSUME NEW t \in tasks, KillTask(t), t.job = j, jobs'[j] = KilledRow(jobs[j])
       PROVE  Goal
  <2>1. s \notin {"Running", "Done", "Failed"}
    BY <1>0, <1>10 DEF KillTask, TasksAreHeld, LifeInv, LockedWasRead, UniformCodec
  <2>2. CASE s \in {"Pending", "Queued"}
    <3>1. jobs'[j].status = "Killed"
      BY <1>0, <1>10, <2>2, KilledFacts DEF Exists, Status
    <3>2. Abstract!Park(l, m)
      BY <1>3, <2>2, <3>1 DEF Abstract!Park
    <3> QED
      BY <3>2 DEF Abstract!JobStep
  <2>3. CASE s \notin {"Pending", "Queued"}
    <3>1. s \in {"Killed", "Unborn", "Purged"}
      BY <1>0, <2>1, <2>3 DEF Row, Status, NoRowStatus
    <3>2. jobs'[j].status = s
      BY <1>0, <1>10, <3>1, KilledFacts DEF Exists, Status
    <3> QED
      BY <3>2, <1>4
  <2> QED
    BY <2>2, <2>3
<1>11. ASSUME NEW k \in Instance, sweep[k].stage = "update",
              InstQueueOf[k] = JobQueueOf[j], Orphaned(jobs[j], sweep[k].live),
              jobs'[j] = Reenqueued(jobs[j])
       PROVE  Goal
  <2>1. s \in {"Queued", "Running"} /\ jobs'[j].status = "Pending"
    BY <1>0, <1>11, ReenqueuedFacts DEF Orphaned
  <2>2. Runner(j) = NONE
    <3> SUFFICES ASSUME Runner(j) # NONE PROVE FALSE
      OBVIOUS
    <3>1. PICK u \in tasks : u.job = j /\ InHandler(u) /\ u.inst = jobs[j].lock_by
      BY RunnerFacts
    <3>2. phase[u.inst] = "up" /\ u.inst \in Instance
      BY <1>0, <3>1 DEF TasksAreHeld, InHandler
    <3> QED
      BY <1>0, <1>11, <3>1, <3>2, OwnedIsNotOrphaned
  <2>3. Abstract!Recover(l, m)
    BY <1>2, <1>3, <2>1, <2>2 DEF Abstract!Recover, Abstract!At
  <2> QED
    BY <2>3 DEF Abstract!JobStep
<1>12. /\ AgedRow(jobs[j]).status = s /\ SharedClaimed(jobs[j]).status = "Queued"
       /\ \A i \in Instance : Claimed(jobs[j], i).status = "Queued"
       /\ \A i \in Instance : Locked(jobs[j], i).status = "Running"
  BY <1>0, AgedFacts, SharedClaimFacts, ClaimFacts
<1>13. Goal
  <2> HIDE DEF Goal
  <2> QED
    BY <1>0, <1>1, <1>4, <1>5, <1>6, <1>7, <1>8, <1>9, <1>10, <1>11, <1>12 DEF RowStep
<1> QED
  BY <1>13 DEF l, m

-----------------------------------------------------------------------------
(* The theorems. *)

\* LifeInv is an invariant while workers are timely and those of a queue share
\* a codec.
THEOREM LifeCorrect ==
    ASSUME UniformCodec PROVE TimelySpec => []LifeInv
<1>1. Init /\ TimelyInv => LifeInv
  <2>1. NoRow("Unborn").status = "Unborn"
    BY NoRowFacts DEF NoRowStatus
  <2> QED
    BY <2>1 DEF Init, LifeInv, RowInv, LockedWasRead, HandlersRun, RefusedIsError
<1>2. TimelyInv /\ TimelyInv' /\ LifeInv /\ [TimelyNext]_vars => LifeInv'
  <2> SUFFICES ASSUME TimelyInv', LifeInv, [TimelyNext]_vars PROVE LifeInv'
    OBVIOUS
  <2>1. /\ [Next]_vars /\ BaseInv /\ TypeOK /\ TimelyInv
        /\ LockedWasRead /\ HandlersRun /\ RefusedIsError
    BY TimelyIsNext DEF LifeInv, TimelyInv, BaseInv
  <2>2. ASSUME NEW j \in Job PROVE RowInv(j)'
    BY <2>1, RowInvStep DEF LifeInv
  <2>3. LockedWasRead' /\ HandlersRun' /\ RefusedIsError'
    BY <2>1, LockedWasReadStep, HandlersRunStep, RefusedIsErrorStep
  <2> QED
    BY <2>2, <2>3 DEF LifeInv
<1> QED
  BY <1>1, <1>2, TimelyCorrect, PTL DEF TimelySpec

\* While workers heartbeat on time and those of a queue share a codec, every job
\* lives as JobLifecycle says: a claim is never taken from a handler that runs,
\* an outcome is recorded by the handler that produced it or for a job nobody
\* runs, and is final.
THEOREM QueueImplementsLifecycle ==
    ASSUME UniformCodec PROVE TimelySpec => LivesAsPromised
<1>0. TimelySpec => []LifeInv
  BY LifeCorrect
<1>1. Init /\ LifeInv => Abstract!Init
  <2> SUFFICES ASSUME Init, LifeInv PROVE Abstract!Init
    OBVIOUS
  <2>1. ASSUME NEW j \in Job
        PROVE  [status |-> jobs[j].status, runner |-> Runner(j)] = Abstract!At("Unborn")
    <3>1. jobs[j].status = "Unborn"
      BY NoRowFacts DEF Init, NoRowStatus
    <3>2. Runner(j) = NONE
      BY <3>1, RunnerFacts
    <3> QED
      BY <3>1, <3>2 DEF Abstract!At
  <2> QED
    BY <2>1 DEF Abstract!Init
<1>2. LifeInv /\ LifeInv' /\ [TimelyNext]_vars
      => [Abstract!Next]_[j \in Job |->
                           [status |-> jobs[j].status, runner |-> Runner(j)]]
  <2> SUFFICES ASSUME LifeInv, LifeInv', [TimelyNext]_vars PROVE Abstract!Next
    OBVIOUS
  <2>1. ASSUME NEW j \in Job
        PROVE  /\ [status |-> jobs'[j].status, runner |-> Runner(j)'] \in Abstract!Life
               /\ \/ LifeOf(j)' = LifeOf(j)
                  \/ Abstract!JobStep(LifeOf(j), LifeOf(j)')
    <3>1. jobs'[j] \in Row
      BY DEF LifeInv, TimelyInv, BaseInv, TypeOK
    <3>2. /\ jobs'[j].status \in {"Unborn", "Pending", "Queued", "Running", "Done",
                                  "Failed", "Killed", "Purged"}
          /\ Runner(j)' \in Instance \cup {NONE}
      BY <3>1, NextRunnerFacts DEF Row, Status, NoRowStatus
    <3>3. [status |-> jobs'[j].status, runner |-> Runner(j)'] \in Abstract!Life
      BY <3>2 DEF Abstract!Life
    <3> QED
      BY <3>3, LifeStep
  <2> QED
    BY <2>1 DEF Abstract!Next, LifeOf
<1> QED
  BY <1>0, <1>1, <1>2, PTL DEF TimelySpec, LivesAsPromised, Abstract!Spec

=============================================================================
