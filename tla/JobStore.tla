------------------------------ MODULE JobStore ------------------------------
(***************************************************************************)
(* The rows of the `job` table and what each SurrealQL statement of        *)
(* queries/ does to one of them: one predicate per WHERE clause, one       *)
(* operator per SET clause.  The module has no variables; JobQueue puts    *)
(* the rows into a table and says who runs which statement when.           *)
(*                                                                         *)
(* Times are kept as ages.  The code only ever compares lock_at, last_seen *)
(* and run_at with time::now(), so a row stores how many ticks ago it was  *)
(* locked (up to the liveness window, beyond which nothing changes) and    *)
(* how many ticks are left until it is due.                                *)
(***************************************************************************)
EXTENDS Integers

CONSTANTS
    Instance,        \* worker instances: one fresh ULID per worker run
    NONE,            \* the value of an absent lock_by
    KeepAlive,       \* config.keep_alive(), in ticks
    ReenqueueAfter,  \* config.reenqueue_orphaned_after(), in ticks
    MaxDelay         \* bound: the furthest a pushed task's run_at lies ahead

ASSUME NoneAssumption == NONE \notin Instance
ASSUME TimeAssumption ==
    /\ KeepAlive \in Nat \ {0}
    /\ ReenqueueAfter \in Nat
    /\ MaxDelay \in Nat

-----------------------------------------------------------------------------
(* The liveness window. *)

\* Mutant: the configured value is used as it stands.
UnflooredWindow == ReenqueueAfter

\* effective_reenqueue_millis: floored at twice the heartbeat interval.
Dur == IF ReenqueueAfter < 2 * KeepAlive THEN 2 * KeepAlive
                                          ELSE ReenqueueAfter

\* A worker row is deleted once its last_seen is older than this.
PurgeAfter == 4 * Dur

NoAge == -1                  \* lock_at = NONE
LockAge == {NoAge} \cup (0 .. Dur)
SeenAge == 0 .. (PurgeAfter + 1)

\* The age of a timestamp one tick later; ages past `cap` are not told apart.
Older(age, cap) == IF age < cap THEN age + 1 ELSE age

-----------------------------------------------------------------------------
(* Rows. *)

Status == {"Pending", "Queued", "Running", "Done", "Failed", "Killed"}

\* "Unborn": the task has not been pushed.  "Purged": vacuum deleted the row.
\* Task ids are ULIDs, so a purged id is never pushed again.
NoRowStatus == {"Unborn", "Purged"}

Row == [status   : Status \cup NoRowStatus,
        attempts : Nat,
        lock_by  : Instance \cup {NONE},
        lock_age : LockAge,
        delay    : 0 .. MaxDelay,
        result   : {"None", "Ok", "Err"}]

NoRow(s) == [status |-> s, attempts |-> 0, lock_by |-> NONE,
             lock_age |-> NoAge, delay |-> 0, result |-> "None"]

Exists(r) == r.status \in Status

\* push_tasks.surql: the CONTENT of the CREATE.
Pushed(d) == [NoRow("Pending") EXCEPT !.delay = d]

\* Mutant: a failed task is left where it is.
ClaimablePendingOnly(r, max) ==
    r.status = "Pending" /\ r.lock_by = NONE /\ r.delay = 0

\* fetch_next.surql and fetch_next_shared.surql, the WHERE clause.
Claimable(r, max) ==
    /\ \/ r.status = "Pending" /\ r.lock_by = NONE
       \/ r.status = "Failed" /\ r.attempts < max
    /\ r.delay = 0

\* fetch_next.surql: the claim names its owner.
Claimed(r, i) ==
    [r EXCEPT !.status = "Queued", !.lock_by = i, !.lock_age = 0]

\* fetch_next_shared.surql: lock_by keeps whatever value it had.
SharedClaimed(r) == [r EXCEPT !.status = "Queued", !.lock_age = 0]

\* Mutant: the lock is taken on a row that is already running.
LockableRunning(r, i) ==
    /\ r.lock_by = i \/ r.lock_by = NONE
    /\ r.status \in {"Queued", "Pending", "Failed", "Running"}

\* lock_task.surql, the WHERE clause.
Lockable(r, i) ==
    /\ r.lock_by = i \/ r.lock_by = NONE
    /\ r.status \in {"Queued", "Pending", "Failed"}

\* Mutant: the lock forgets to name its owner.
LockedAnonymously(r, i) == [r EXCEPT !.status = "Running", !.lock_age = 0]

\* lock_task.surql, the SET clause.
Locked(r, i) ==
    [r EXCEPT !.status = "Running", !.lock_by = i, !.lock_age = 0]

\* ack_task.surql, the WHERE clause.
Ackable(r, i) == Exists(r) /\ r.lock_by = i

\* Mutant: one more retry than max_attempts allows is left.
CalculateStatusOffByOne(res, attempt, max) ==
    IF res = "Ok" THEN "Done"
    ELSE IF max < attempt \/ res = "Abort" THEN "Killed" ELSE "Failed"

\* calculate_status: `attempt` counts the run that has just ended.
CalculateStatus(res, attempt, max) ==
    IF res = "Ok" THEN "Done"
    ELSE IF max <= attempt \/ res = "Abort" THEN "Killed" ELSE "Failed"

\* ack_task.surql, the SET clause; lock_by and lock_at stay.
Acked(r, res, attempt, max) ==
    [r EXCEPT !.status   = CalculateStatus(res, attempt, max),
              !.attempts = attempt,
              !.result   = IF res = "Ok" THEN "Ok" ELSE "Err"]

\* kill_task.surql: no guard but the row's existence, and the lock is cleared.
KilledRow(r) ==
    IF Exists(r)
    THEN [r EXCEPT !.status = "Killed", !.result = "Err",
                   !.lock_by = NONE, !.lock_age = NoAge]
    ELSE r

\* Mutant: a claim that was never locked is left alone.
OrphanedRunningOnly(r, live) ==
    /\ r.lock_age # NoAge /\ r.lock_age >= Dur
    /\ r.status = "Running" /\ r.lock_by # NONE /\ r.lock_by \notin live

\* Mutant: every row whose lock is old enough, live owner or not.
OrphanedByAge(r, live) ==
    /\ r.lock_age # NoAge /\ r.lock_age >= Dur
    /\ r.status \in {"Queued", "Running"}

\* reenqueue_orphaned.surql, the WHERE clause of the UPDATE.
Orphaned(r, live) ==
    /\ r.lock_age # NoAge /\ r.lock_age >= Dur
    /\ \/ r.status \in {"Queued", "Running"} /\ r.lock_by # NONE
                                             /\ r.lock_by \notin live
       \/ r.status = "Queued" /\ r.lock_by = NONE

\* Mutant: the attempt that was lost is given back.
ReenqueuedRefunded(r) ==
    [r EXCEPT !.status = "Pending", !.attempts = @ - 1, !.lock_by = NONE,
              !.lock_age = NoAge, !.result = "Err"]

\* reenqueue_orphaned.surql, the SET clause of the UPDATE.
Reenqueued(r) ==
    [r EXCEPT !.status = "Pending", !.attempts = @ + 1, !.lock_by = NONE,
              !.lock_age = NoAge, !.result = "Err"]

\* vacuum.surql, the WHERE clause.
Vacuumable(r, max) ==
    \/ r.status \in {"Done", "Killed"}
    \/ r.status = "Failed" /\ r.attempts >= max

\* Passing of one tick for a row.
AgedRow(r) ==
    [r EXCEPT !.lock_age = IF @ = NoAge THEN NoAge ELSE Older(@, Dur),
              !.delay    = IF @ = 0 THEN 0 ELSE @ - 1]

=============================================================================
