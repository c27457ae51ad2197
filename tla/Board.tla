------------------------------- MODULE Board -------------------------------
(***************************************************************************)
(* The statistics of the board: Metrics::global, Metrics::fetch_by_queue   *)
(* and ListQueues::list_queues.  Each sends several SELECTs in one query   *)
(* without a transaction around them, so the table may change, and time    *)
(* may pass, between any two of them; the client puts the answers          *)
(* together, by its own clock.                                             *)
(***************************************************************************)
EXTENDS JobLifecycle, Integers, FiniteSets

CONSTANTS
    Queue,         \* queues
    QueueOf,       \* the queue of each job
    RunAt,         \* run_at of each job
    DayLength,     \* a day: SECS_PER_DAY, and 1d in the query
    ActivityDays,  \* ACTIVITY_DAYS, and the 7 of the query's window
    MaxNow         \* bound: the last time there is

\* The epoch itself is not a time a job is due at: 0 is OLDEST_PENDING_JOB's
\* way of saying that there is none.
ASSUME BoardAssumption ==
    /\ IsFiniteSet(Job) /\ QueueOf \in [Job -> Queue]
    /\ RunAt \in [Job -> Nat \ {0}]
    /\ DayLength \in Nat \ {0} /\ ActivityDays \in Nat \ {0} /\ MaxNow \in Nat

VARIABLES
    now,       \* time::now()
    done_at,   \* done_at of each job
    lock_at,   \* lock_at of each job, told apart by its order with done_at
    board,     \* the call, and the answers of its statements so far
    quiet,     \* nothing has changed since the first statement (history)
    done_rows  \* <<job, done_at>> of the Done rows at the third (history)

timeVars == <<now, done_at, lock_at>>
boardVars == <<board, quiet, done_rows>>

NoTime == -1
Time == 0 .. MaxNow
MaybeTime == Time \cup {NoTime}

\* lock_at is NONE, is not later than done_at (or there is no done_at), or is.
LockOrder == {"none", "earlier", "later"}

\* A SELECT ... GROUP BY queue has one group per queue, GROUP ALL only one.
PerQueue == {{q} : q \in Queue}
Group == PerQueue \cup {Queue}

\* The days there are, by the time they begin.
Day == {t \in Time : t % DayLength = 0}

Stage == {"counts", "oldest", "activity", "assemble", "done"}

NoCounts == [total |-> 0, done |-> 0, backlog |-> 0]

\* build_statistics; without an oldest job OLDEST_PENDING_JOB is 0.
BuildStatistics(counts, oldest) ==
    [done |-> counts.done, backlog |-> counts.backlog,
     oldest |-> IF oldest = NoTime THEN 0 ELSE oldest]

NoBars == [k \in 1 .. ActivityDays |-> 0]

Call == [groups : SUBSET Group, stage : Stage,
         counts : [Group -> [total : Nat, done : Nat, backlog : Nat]],
         oldest : [Group -> Nat \cup {NoTime}],
         stats : [Group -> [done : Nat, backlog : Nat, oldest : Nat]],
         activity : [Group -> [Day -> Nat]],
         listed : SUBSET Group, bars : [Group -> [1 .. ActivityDays -> Nat]],
         today : Nat]

BoardTypeOK ==
    /\ now \in Time
    /\ done_at \in [Job -> MaybeTime] /\ lock_at \in [Job -> LockOrder]
    /\ board \in Call
    /\ quiet \in BOOLEAN /\ done_rows \subseteq Job \X Time

NoCall == [groups |-> {}, stage |-> "counts",
           counts |-> [g \in Group |-> NoCounts],
           oldest |-> [g \in Group |-> NoTime],
           stats |-> [g \in Group |-> BuildStatistics(NoCounts, NoTime)],
           activity |-> [g \in Group |-> [t \in Day |-> 0]],
           listed |-> {}, bars |-> [g \in Group |-> NoBars], today |-> 0]

BoardInit ==
    /\ now = 0
    /\ done_at = [j \in Job |-> NoTime] /\ lock_at = [j \in Job |-> "none"]
    /\ board = NoCall
    /\ quiet = TRUE /\ done_rows = {}

-----------------------------------------------------------------------------
(* The timestamps of the rows. *)

\* A claim and a lock set lock_at, an outcome sets done_at; a kill clears
\* lock_at and a re-enqueue clears both.  A claim of a Failed row leaves its
\* done_at where it is.
Stamp(j, m) ==
    \/ /\ Claim(life[j], m) \/ Start(life[j], m) \/ StartUnheard(life[j], m)
       /\ lock_at' = [lock_at EXCEPT ![j] = IF done_at[j] \in {NoTime, now}
                                            THEN "earlier" ELSE "later"]
       /\ UNCHANGED done_at
    \/ /\ Record(life[j], m) \/ Refuse(life[j], m)
       /\ done_at' = [done_at EXCEPT ![j] = now]
       /\ lock_at' = [lock_at EXCEPT ![j] = "earlier"]
    \/ /\ Park(life[j], m)
       /\ done_at' = [done_at EXCEPT ![j] = now]
       /\ lock_at' = [lock_at EXCEPT ![j] = "none"]
    \/ /\ Recover(life[j], m) \/ Vacuum(life[j], m)
       /\ done_at' = [done_at EXCEPT ![j] = NoTime]
       /\ lock_at' = [lock_at EXCEPT ![j] = "none"]
    \/ /\ Push(life[j], m) \/ Lose(life[j], m)
       /\ UNCHANGED <<done_at, lock_at>>

\* A call that is under way is no longer alone.
Disturbed ==
    /\ quiet' = (board.stage = "counts")
    /\ UNCHANGED <<board, done_rows>>

StampedStep(j) ==
    /\ \E m \in Life : OneStep(j, m) /\ Stamp(j, m)
    /\ Disturbed
    /\ UNCHANGED now

Tick ==
    /\ now < MaxNow
    /\ now' = now + 1
    /\ Disturbed
    /\ UNCHANGED <<done_at, lock_at>>

-----------------------------------------------------------------------------
(* The statements. *)

Row(j) == life[j].status \notin {"Unborn", "Purged"}
RowsOf(g) == {j \in Job : Row(j) /\ QueueOf[j] \in g}
WithStatus(g, s) == {j \in RowsOf(g) : life[j].status = s}

\* status = 'Pending' AND run_at <= time::now()
Backlog(g) == {j \in WithStatus(g, "Pending") : RunAt[j] <= now}

\* count() AS total, ..., GROUP BY queue.
CountsOf(g) ==
    [total |-> Cardinality(RowsOf(g)), done |-> Cardinality(WithStatus(g, "Done")),
     backlog |-> Cardinality(Backlog(g))]

\* Mutant: every row that has both times.
FinishedEver(j) == Row(j) /\ done_at[j] # NoTime /\ lock_at[j] # "none"

\* The rows whose durations are summed up in dur_secs.
Finished(j) ==
    /\ life[j].status \in {"Done", "Failed", "Killed"}
    /\ done_at[j] # NoTime /\ lock_at[j] # "none"

\* Mutant: the oldest pending job, due or not.
OldestPending(g) ==
    LET times == {RunAt[j] : j \in WithStatus(g, "Pending")}
    IN IF times = {} THEN NoTime ELSE CHOOSE t \in times : \A u \in times : t <= u

\* math::min(time::unix(run_at)) ... WHERE status = 'Pending' AND run_at <= time::now()
OldestOf(g) ==
    LET times == {RunAt[j] : j \in Backlog(g)}
    IN IF times = {} THEN NoTime ELSE CHOOSE t \in times : \A u \in times : t <= u

\* Mutant: the window is one day shorter.
InWindowShort(j) == done_at[j] >= now - (ActivityDays - 1) * DayLength

\* done_at >= time::now() - 7d
InWindow(j) == done_at[j] >= now - ActivityDays * DayLength

\* time::floor(done_at, 1d)
DayOf(t) == (t \div DayLength) * DayLength

\* SELECT queue, day, count() ... GROUP BY queue, day.
ActivityOf(g) ==
    [t \in Day |->
        Cardinality({j \in WithStatus(g, "Done") :
                        InWindow(j) /\ DayOf(done_at[j]) = t})]

ReadCounts(groups) ==
    /\ board.stage = "counts"
    /\ board' = [board EXCEPT
         !.groups = groups,
         !.counts = [g \in Group |-> IF g \in groups THEN CountsOf(g) ELSE NoCounts],
         !.stage = "oldest"]
    /\ UNCHANGED <<quiet, done_rows>>

ReadOldest ==
    /\ board.stage = "oldest"
    /\ board' = [board EXCEPT
         !.oldest = [g \in Group |-> IF g \in board.groups THEN OldestOf(g) ELSE NoTime],
         !.stage = "activity"]
    /\ UNCHANGED <<quiet, done_rows>>

\* global and fetch_by_queue have two statements only.
ReadOldestAndEnd ==
    /\ board.stage = "oldest"
    /\ board' = [board EXCEPT
         !.stats = [g \in Group |-> IF g \in board.groups
                      THEN BuildStatistics(board.counts[g], OldestOf(g)) ELSE @[g]],
         !.stage = "done"]
    /\ UNCHANGED <<quiet, done_rows>>

ReadActivity ==
    /\ board.stage = "activity"
    /\ board' = [board EXCEPT
         !.activity = [g \in Group |-> IF g \in board.groups THEN ActivityOf(g)
                                       ELSE board.activity[g]],
         !.stage = "assemble"]
    /\ done_rows' = {<<j, done_at[j]>> : j \in WithStatus(Queue, "Done")}
    /\ UNCHANGED quiet

-----------------------------------------------------------------------------
(* What list_queues makes of the answers. *)

\* The bar of each day up to `today`: rows outside of the range are skipped.
BarsOf(activity, today) ==
    [k \in 1 .. ActivityDays |->
        LET day == (today - (ActivityDays - k)) * DayLength
        IN IF day \in DOMAIN activity THEN activity[day] ELSE 0]

\* A queue is listed if it had a row at the first statement or has a worker at
\* the last; for one that had no row the other answers are not looked at.  The
\* last statement, SELECT ... FROM worker, answers with the queues in `staffed`;
\* no time need pass after it, since it does not look at the clock.
Assemble ==
    /\ board.stage = "assemble"
    /\ \E staffed \in SUBSET PerQueue :
       LET today == now \div DayLength
           known == {g \in board.groups : board.counts[g].total > 0}
       IN board' = [board EXCEPT
            !.listed = known \cup staffed,
            !.stats = [g \in Group |-> IF g \in known
                         THEN BuildStatistics(board.counts[g], board.oldest[g])
                         ELSE BuildStatistics(NoCounts, NoTime)],
            !.bars = [g \in Group |-> IF g \in known
                                      THEN BarsOf(board.activity[g], today)
                                      ELSE NoBars],
            !.today = today,
            !.stage = "done"]
    /\ UNCHANGED <<quiet, done_rows>>

\* global has one group, of all queues, and fetch_by_queue one, of its queue.
MetricsStep == (\E g \in Group : ReadCounts({g})) \/ ReadOldestAndEnd

ListQueuesStep ==
    \/ ReadCounts(PerQueue) \/ ReadOldest \/ ReadActivity \/ Assemble

-----------------------------------------------------------------------------
(* Properties. *)

\* Every bar of the activity chart is the number of tasks finished on that whole
\* day, as of the statement that read them: the query's window of 7 times 24
\* hours never cuts into the first of the 7 calendar days the client shows, on
\* whichever side of midnight the two clocks are read.  A queue that had no row
\* at the first statement is shown without bars.
BarsAreWholeDays ==
    board.stage = "done" =>
        \A g \in board.listed, k \in 1 .. ActivityDays :
            board.bars[g][k] =
                IF board.counts[g].total = 0 THEN 0
                ELSE Cardinality({r \in done_rows :
                        /\ QueueOf[r[1]] \in g
                        /\ r[2] \div DayLength = board.today - (ActivityDays - k)})

\* A duration summed up in AVG_JOB_DURATION_MINS is never negative, although a
\* claim renews lock_at and leaves the done_at of the run before.
NoNegativeDuration == \A j \in Job : Finished(j) => lock_at[j] = "earlier"

\* If nothing happened between the statements of a call, its statistics agree:
\* there is an oldest pending job exactly if there is a backlog, and no bar
\* counts more than the tasks that are done.
QuietBoardAgrees ==
    board.stage = "done" /\ quiet =>
        \A g \in board.groups :
            /\ board.stats[g].backlog > 0 <=> board.stats[g].oldest # 0
            /\ \A k \in 1 .. ActivityDays : board.bars[g][k] <= board.stats[g].done

=============================================================================
