---------------------------- MODULE PollFetcher ----------------------------
(***************************************************************************)
(* SurrealPollFetcher, the stream every storage polls: claim a batch with  *)
(* fetch_next, yield it task by task, and wait for the poll strategy when  *)
(* nothing was due.  Tasks are numbered in the order of fetch_next's       *)
(* ORDER BY.                                                               *)
(***************************************************************************)
EXTENDS TxRetry, Sequences, FiniteSets

CONSTANTS
    Task,        \* tasks, in the order in which they are claimed
    Unreadable,  \* tasks whose row decode_row cannot read
    BatchSize    \* config.buffer_size()

ASSUME FetcherAssumption ==
    /\ Task \subseteq Nat
    /\ Unreadable \subseteq Task
    /\ BatchSize \in Nat \ {0}

VARIABLES
    due,         \* tasks that can be claimed
    coming,      \* tasks that are not due yet
    state,       \* StreamState
    tries,       \* transactions sent by the fetch_next that is running
    buffer,      \* the tasks of StreamState::Buffered
    prev_count,  \* size of the last batch
    out,         \* everything handed on, by poll_next or take_pending
    errors       \* number of errors yielded

vars == <<due, coming, state, tries, buffer, prev_count, out, errors>>

State == {"Ready", "Delay", "Fetch", "Buffered", "Empty"}

\* The states of the stream and the sequences it handles keep their types.
TypeOK ==
    /\ due \subseteq Task /\ coming \subseteq Task
    /\ state \in State
    /\ tries \in 0 .. MaxTxRetries
    /\ buffer \in Seq(Task)
    /\ prev_count \in Nat
    /\ out \in Seq(Task)
    /\ errors \in Nat

Init ==
    /\ due = {} /\ coming = Task
    /\ state = "Ready" /\ tries = 0 /\ buffer = <<>> /\ prev_count = 0
    /\ out = <<>> /\ errors = 0

-----------------------------------------------------------------------------
(* The table. *)

\* A task is pushed, or its time comes.
BecomesDue(t) ==
    /\ t \in coming
    /\ due' = due \cup {t} /\ coming' = coming \ {t}
    /\ UNCHANGED <<state, tries, buffer, prev_count, out, errors>>

Elems(s) == {s[x] : x \in DOMAIN s}

Ascending(s) == \A x, y \in DOMAIN s : x < y => s[x] < s[y]

\* b is what SELECT ... ORDER BY ... LIMIT returns.
IsBatch(b) ==
    /\ Ascending(b)
    /\ \A x \in DOMAIN b, t \in due \ Elems(b) : b[x] < t
    /\ Len(b) < BatchSize => due = Elems(b)

Batches == {b \in UNION {[1 .. n -> due] : n \in 0 .. BatchSize} : IsBatch(b)}

-----------------------------------------------------------------------------
(* fetch_next. *)

Readable(t) == t \notin Unreadable

\* The rows of b that decode_row reads, in the order of b.
ReadableRows(b) ==
    {got \in UNION {[1 .. n -> Elems(b)] : n \in 0 .. Len(b)} :
        Ascending(got) /\ Elems(got) = {t \in Elems(b) : Readable(t)}}

\* The claim commits.  Rows that cannot be read are killed, or stay claimed if
\* the kill fails; the rest is returned and its number drives the backoff.
FetchOk ==
    /\ state = "Fetch"
    /\ \E b \in Batches : \E got \in ReadableRows(b) :
           /\ due' = due \ Elems(b)
           /\ buffer' = got
           /\ prev_count' = Len(got)
           /\ state' = IF got = <<>> THEN "Delay" ELSE "Buffered"
    /\ tries' = 0
    /\ UNCHANGED <<coming, out, errors>>

\* Mutant: the stream starts over after an error.
FailedStartsOver ==
    /\ state' = "Ready" /\ tries' = 0 /\ errors' = errors + 1
    /\ UNCHANGED <<buffer, prev_count, out>>

\* poll_next yields the error and the stream is over.
Failed ==
    /\ state' = "Empty" /\ tries' = 0 /\ errors' = errors + 1
    /\ UNCHANGED <<buffer, prev_count, out>>

\* The claim conflicts: it is retried, and after MAX_TX_RETRIES surfaced.
FetchConflict ==
    /\ state = "Fetch"
    /\ \E e \in Failures("conflict") :
         \/ /\ Verdict(e, tries + 1) = "again"
            /\ tries' = tries + 1
            /\ UNCHANGED <<state, buffer, prev_count, out, errors>>
         \/ /\ Verdict(e, tries + 1) = "fail"
            /\ Failed
    /\ UNCHANGED <<due, coming>>

\* The claim fails, or the connection does, whether or not it was committed.
FetchErr ==
    /\ state = "Fetch"
    /\ \/ UNCHANGED due
       \/ \E b \in Batches : due' = due \ Elems(b)
    /\ Failed
    /\ UNCHANGED coming

-----------------------------------------------------------------------------
(* poll_next and take_pending. *)

StartFetch ==
    /\ state = "Ready"
    /\ state' = "Fetch"
    /\ UNCHANGED <<due, coming, tries, buffer, prev_count, out, errors>>

\* The poll strategy says when to look again, or ends.
DelayOver ==
    /\ state = "Delay"
    /\ state' \in {"Ready", "Empty"}
    /\ UNCHANGED <<due, coming, tries, buffer, prev_count, out, errors>>

\* Mutant: the fetcher is ready again after the first task of a batch.
YieldFirst ==
    /\ state = "Buffered" /\ buffer # <<>>
    /\ out' = Append(out, Head(buffer))
    /\ buffer' = Tail(buffer)
    /\ state' = "Ready"
    /\ UNCHANGED <<due, coming, tries, prev_count, errors>>

Yield ==
    /\ state = "Buffered" /\ buffer # <<>>
    /\ out' = Append(out, Head(buffer))
    /\ buffer' = Tail(buffer)
    /\ state' = IF buffer' = <<>> THEN "Ready" ELSE "Buffered"
    /\ UNCHANGED <<due, coming, tries, prev_count, errors>>

\* Mutant: the fetcher waits for a task that is never put into the buffer.
YieldNothingStuck == FALSE

\* take_pending has emptied the buffer.
YieldNothing ==
    /\ state = "Buffered" /\ buffer = <<>>
    /\ state' = "Ready"
    /\ UNCHANGED <<due, coming, tries, buffer, prev_count, out, errors>>

\* Mutant: the tasks are copied, not taken.
TakePendingCopies ==
    /\ out' = IF state = "Buffered" THEN out \o buffer ELSE out
    /\ UNCHANGED <<due, coming, state, tries, buffer, prev_count, errors>>

\* take_pending, for tasks claimed but not yet yielded.
TakePending ==
    /\ out' = IF state = "Buffered" THEN out \o buffer ELSE out
    /\ buffer' = IF state = "Buffered" THEN <<>> ELSE buffer
    /\ UNCHANGED <<due, coming, state, tries, prev_count, errors>>

Poll ==
    \/ StartFetch \/ FetchOk \/ FetchConflict \/ FetchErr \/ DelayOver
    \/ Yield \/ YieldNothing

Next == (\E t \in Task : BecomesDue(t)) \/ Poll \/ TakePending

Spec == Init /\ [][Next]_vars

\* The worker polls the stream for as long as it runs.
FairSpec == Spec /\ WF_vars(Poll)

-----------------------------------------------------------------------------
(* Properties. *)

Line == INSTANCE TaskLine WITH
    Mortal <- {}, Queue <- {"queue"}, QueueOf <- [t \in Task |-> "queue"],
    line <- [q \in {"queue"} |-> buffer], handed <- Elems(out)

\* What fetch_next claimed is handed on at most once and in the order of the
\* claim, through poll_next or take_pending, and none of it is left out.
HandsOnInOrder == Line!LineSpec

\* The stream claims only when it has nothing left to hand on, so it never sits
\* on more than one batch: the rest stays in the table for other workers.
ClaimsOnlyWhenDrained ==
    /\ state \in {"Ready", "Fetch", "Delay", "Empty"} => buffer = <<>>
    /\ Len(buffer) <= BatchSize

\* Once the stream has yielded an error its worker ends: a claim after it would
\* strand its tasks.
NothingClaimedAfterError ==
    [][errors > 0 => due \subseteq due']_vars

\* A due task is handed on, unless it cannot be read or the stream ends.
DueIsHandedOn ==
    \A t \in Task \ Unreadable :
        t \in due ~> t \in Elems(out) \/ state = "Empty"

=============================================================================
