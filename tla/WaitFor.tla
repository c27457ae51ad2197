------------------------------ MODULE WaitFor ------------------------------
(***************************************************************************)
(* wait_for: a stream of the results of a set of tasks, which polls the    *)
(* job table until every task has reached a terminal status.  The table    *)
(* lives as JobLifecycle says; Readers puts the two together.              *)
(***************************************************************************)
EXTENDS JobLifecycle, Integers, Sequences, FiniteSets

CONSTANTS
    Asked,      \* the ids wait_for is called with
    Unreadable  \* jobs whose result into_task_result cannot decode

ASSUME WaitAssumption ==
    Asked \subseteq Job /\ IsFiniteSet(Asked) /\ Unreadable \subseteq Job

VARIABLES
    remaining,  \* the ids still waited for: the state of stream::unfold
    items,      \* the results yielded: <<job, "Ok" or "Err">>
    errors,     \* database errors yielded
    ended       \* the stream has returned None

waitVars == <<remaining, items, errors, ended>>

Terminal == {"Done", "Killed"}

WaitTypeOK ==
    /\ remaining \subseteq Asked
    /\ items \in Seq(Asked \X {"Ok", "Err"})
    /\ errors \in Nat
    /\ ended \in BOOLEAN

WaitInit ==
    /\ remaining = Asked
    /\ items = <<>> /\ errors = 0 /\ ended = FALSE

\* Mutant: a task that failed counts as completed.
CompletedOrFailed(S) == {j \in S : life[j].status \in Terminal \cup {"Failed"}}

\* Mutant: the query knows one terminal status only.
CompletedDone(S) == {j \in S : life[j].status = "Done"}

\* Mutant: the query is not restricted to $ids.
CompletedAnywhere(S) == {j \in Job : life[j].status \in Terminal}

\* fetch_completed_tasks.surql.  (A Failed row without attempts left does not
\* occur: see JobQueue!FailedHasAttemptsLeft.)
Completed(S) == {j \in S : life[j].status \in Terminal}

Result(j) == <<j, IF j \in Unreadable THEN "Err" ELSE "Ok">>

\* One round of the unfold: the rows come back in any order, and each is
\* removed from `remaining`, whether or not its result can be read.  No row
\* means sleeping for POLL_INTERVAL.
Round ==
    /\ ~ended /\ remaining # {}
    /\ \E s \in [1 .. Cardinality(Completed(remaining)) -> Completed(remaining)] :
         /\ \A x, y \in DOMAIN s : s[x] = s[y] => x = y
         /\ items' = items \o [x \in DOMAIN s |-> Result(s[x])]
         /\ remaining' = remaining \ Completed(remaining)
    /\ UNCHANGED <<errors, ended>>

\* The query fails: the error is yielded and the stream ends.
RoundFails ==
    /\ ~ended /\ remaining # {}
    /\ remaining' = {} /\ errors' = errors + 1
    /\ UNCHANGED <<items, ended>>

\* Mutant: the stream ends as soon as something has been reported.
EndEarly ==
    /\ ~ended /\ items # <<>>
    /\ ended' = TRUE
    /\ UNCHANGED <<remaining, items, errors>>

End ==
    /\ ~ended /\ remaining = {}
    /\ ended' = TRUE
    /\ UNCHANGED <<remaining, items, errors>>

-----------------------------------------------------------------------------
(* Properties. *)

Reported == {items[x][1] : x \in DOMAIN items}

\* Each task is reported at most once, and only when it will not run again:
\* a task that failed and is retried is not reported.
ReportedOnceAndFinal ==
    /\ \A x, y \in DOMAIN items : items[x][1] = items[y][1] => x = y
    /\ \A j \in Reported : life[j].status \in Terminal \cup {"Purged"}

\* The stream ends only when every task has been reported, or after an error.
EndIsComplete == ended => Reported = Asked \/ errors > 0

\* Vacuum deleted a row before the stream saw it.
Overtaken == \E j \in remaining : life[j].status = "Purged"

=============================================================================
