------------------------------ MODULE TaskSink ------------------------------
(***************************************************************************)
(* Producers: the buffered sink of SurrealStorage and push_tasks.  Each    *)
(* sink is one storage handle (a clone has a sink of its own).  Its caller *)
(* sends tasks, flushes, may drop the flush future half way, and goes on.  *)
(***************************************************************************)
EXTENDS TxRetry, Sequences, FiniteSets

CONSTANTS
    Sink,      \* sinks
    Msg,       \* tasks
    Present,   \* the tasks that have a row from the beginning
    SinkOf,    \* the sink a task is sent to
    QueueOf,   \* config.queue() of each sink
    Id,        \* the record id of each task
    Key,       \* the idempotency_key of each task, or NoKey
    NoKey

ASSUME SinkAssumption == SinkOf \in [Msg -> Sink] /\ Present \subseteq Msg

VARIABLES
    unsent,    \* tasks not yet handed to start_send
    buffer,    \* sink.buffer
    flush,     \* sink.flush_future, a run of push_tasks
    polling,   \* the sinks whose caller is polling poll_flush
    told,      \* tasks of batches that poll_flush answered with an error
    created,   \* tasks that push_tasks has ever created a row for
    rows       \* tasks that have a row now

vars == <<unsent, buffer, flush, polling, told, created, rows>>

\* `tries` counts the transactions sent; `reply` is an unread answer.
NoReply == [io |-> FALSE, errors |-> NoErrors]
NoFlush == [stage |-> "none", batch |-> <<>>, tries |-> 0, reply |-> NoReply]

Flush == [stage : {"none", "send", "read"},
          batch : Seq(Msg),
          tries : 0 .. MaxTxRetries,
          reply : [io : BOOLEAN,
                   errors : UNION {[S -> ErrorKind] : S \in SUBSET Slot}]]

\* The sink, its future and the table keep their types; in particular a
\* push_tasks never sends more than MAX_TX_RETRIES transactions.
TypeOK ==
    /\ unsent \subseteq Msg
    /\ buffer \in [Sink -> Seq(Msg)]
    /\ flush \in [Sink -> Flush]
    /\ polling \subseteq Sink
    /\ told \subseteq Msg
    /\ created \subseteq Msg
    /\ rows \subseteq created

Init ==
    /\ unsent = Msg \ Present
    /\ buffer = [p \in Sink |-> <<>>]
    /\ flush = [p \in Sink |-> NoFlush]
    /\ polling = {} /\ told = {}
    /\ created = Present /\ rows = Present

-----------------------------------------------------------------------------
(* The sink. *)

\* start_send; poll_ready is always ready.  While the caller awaits a flush it
\* holds the sink.
StartSend(p, m) ==
    /\ p \notin polling
    /\ m \in unsent /\ SinkOf[m] = p
    /\ unsent' = unsent \ {m}
    /\ buffer' = [buffer EXCEPT ![p] = Append(@, m)]
    /\ UNCHANGED <<flush, polling, told, created, rows>>

\* The caller polls poll_flush (or poll_close), or drops that future.
CallFlush(p) ==
    /\ p \notin polling
    /\ polling' = polling \cup {p}
    /\ UNCHANGED <<unsent, buffer, flush, told, created, rows>>

DropFlush(p) ==
    /\ p \in polling
    /\ polling' = polling \ {p}
    /\ UNCHANGED <<unsent, buffer, flush, told, created, rows>>

\* poll_flush takes the buffer and starts push_tasks.
TakeBuffer(p) ==
    /\ p \in polling
    /\ flush[p].stage = "none" /\ buffer[p] # <<>>
    /\ flush' = [flush EXCEPT ![p] = [NoFlush EXCEPT !.stage = "send",
                                                     !.batch = buffer[p]]]
    /\ buffer' = [buffer EXCEPT ![p] = <<>>]
    /\ UNCHANGED <<unsent, polling, told, created, rows>>

\* poll_flush has nothing left to do.
FlushOk(p) ==
    /\ p \in polling
    /\ flush[p].stage = "none" /\ buffer[p] = <<>>
    /\ polling' = polling \ {p}
    /\ UNCHANGED <<unsent, buffer, flush, told, created, rows>>

-----------------------------------------------------------------------------
(* push_tasks. *)

SameKey(m, k) ==
    /\ Key[m] # NoKey /\ Key[m] = Key[k]
    /\ QueueOf[SinkOf[m]] = QueueOf[SinkOf[k]]

\* The rows there are at the beginning were pushed before.
ASSUME PresentAssumption == \A m, k \in Present : SameKey(m, k) => m = k

\* Mutant: the tasks of a batch are compared with the table only.
FreshUnlessStored(b) ==
    {b[x] : x \in {y \in DOMAIN b : ~\E k \in rows : SameKey(k, b[y])}}

\* The tasks of batch b that push_tasks.surql creates rows for: no row, and no
\* task before it in the batch, has its key.
Fresh(b) ==
    {b[x] : x \in {y \in DOMAIN b :
                     /\ ~\E k \in rows : SameKey(k, b[y])
                     /\ ~\E z \in 1 .. y - 1 : SameKey(b[z], b[y])}}

\* CREATE fails on a record id that is taken.
IdTaken(S) ==
    \/ \E m \in S, k \in rows : Id[m] = Id[k]
    \/ \E m, k \in S : m # k /\ Id[m] = Id[k]

Send(p, io, errors) ==
    flush' = [flush EXCEPT ![p].stage = "read", ![p].tries = @ + 1,
                           ![p].reply = [io |-> io, errors |-> errors]]

\* The transaction runs.  All of it is committed or none, and the answer may be
\* lost, in which case the client sees a connection error.
Transaction(p) ==
    /\ p \in polling
    /\ flush[p].stage = "send"
    /\ LET new == Fresh(flush[p].batch) IN
         \/ /\ ~IdTaken(new)
            /\ rows' = rows \cup new
            /\ created' = created \cup new
            /\ \E io \in BOOLEAN : Send(p, io, NoErrors)
         \/ /\ IdTaken(new)
            /\ \E errors \in Failures("real") : Send(p, FALSE, errors)
            /\ UNCHANGED <<created, rows>>
    /\ UNCHANGED <<unsent, buffer, polling, told>>

\* It conflicts with another transaction, or does not reach the server.
TransactionConflicts(p) ==
    /\ p \in polling
    /\ flush[p].stage = "send"
    /\ \E errors \in Failures("conflict") : Send(p, FALSE, errors)
    /\ UNCHANGED <<unsent, buffer, polling, told, created, rows>>

TransactionLost(p) ==
    /\ p \in polling
    /\ flush[p].stage = "send"
    /\ Send(p, TRUE, NoErrors)
    /\ UNCHANGED <<unsent, buffer, polling, told, created, rows>>

PushVerdict(f) ==
    IF f.reply.io THEN "fail" ELSE Verdict(f.reply.errors, f.tries)

\* Mutant: each round starts counting anew.
RetryForgets(p) ==
    /\ p \in polling
    /\ flush[p].stage = "read" /\ PushVerdict(flush[p]) = "again"
    /\ flush' = [flush EXCEPT ![p].stage = "send", ![p].reply = NoReply,
                              ![p].tries = 0]
    /\ UNCHANGED <<unsent, buffer, polling, told, created, rows>>

\* push_tasks reads the answer and goes round again.
Retry(p) ==
    /\ p \in polling
    /\ flush[p].stage = "read" /\ PushVerdict(flush[p]) = "again"
    /\ flush' = [flush EXCEPT ![p].stage = "send", ![p].reply = NoReply]
    /\ UNCHANGED <<unsent, buffer, polling, told, created, rows>>

\* ... or returns Ok, and poll_flush looks at the buffer again ...
PushOk(p) ==
    /\ p \in polling
    /\ flush[p].stage = "read" /\ PushVerdict(flush[p]) = "ok"
    /\ flush' = [flush EXCEPT ![p] = NoFlush]
    /\ UNCHANGED <<unsent, buffer, polling, told, created, rows>>

\* Mutant: the failed batch is dropped and the flush goes on.
PushErrSwallowed(p) ==
    /\ p \in polling
    /\ flush[p].stage = "read" /\ PushVerdict(flush[p]) = "fail"
    /\ flush' = [flush EXCEPT ![p] = NoFlush]
    /\ UNCHANGED <<unsent, buffer, polling, told, created, rows>>

\* ... or returns Err, which poll_flush passes on; the batch is gone.
PushErr(p) ==
    /\ p \in polling
    /\ flush[p].stage = "read" /\ PushVerdict(flush[p]) = "fail"
    /\ flush' = [flush EXCEPT ![p] = NoFlush]
    /\ told' = told \cup {flush[p].batch[x] : x \in DOMAIN flush[p].batch}
    /\ polling' = polling \ {p}
    /\ UNCHANGED <<unsent, buffer, created, rows>>

\* A finished task is vacuumed; its key is free again.
Vacuum(m) ==
    /\ m \in rows
    /\ rows' = rows \ {m}
    /\ UNCHANGED <<unsent, buffer, flush, polling, told, created>>

\* What a poll of poll_flush does to the batch.
FlushStep(p) ==
    \/ TakeBuffer(p) \/ Transaction(p) \/ TransactionConflicts(p)
    \/ TransactionLost(p) \/ Retry(p) \/ PushOk(p) \/ PushErr(p)

Next ==
    \/ \E p \in Sink : \/ \E m \in Msg : StartSend(p, m)
                       \/ CallFlush(p) \/ DropFlush(p) \/ FlushOk(p)
                       \/ FlushStep(p)
    \/ \E m \in Msg : Vacuum(m)

Spec == Init /\ [][Next]_vars

\* A caller that has sent tasks flushes them.  It may drop any flush, but not for
\* ever before the flush has got a step further.
FairSpec ==
    /\ Spec
    /\ \A p \in Sink : WF_vars(CallFlush(p)) /\ SF_vars(FlushStep(p))

-----------------------------------------------------------------------------
(* Properties. *)

Elems(s) == {s[x] : x \in DOMAIN s}

Held(m) == m \in Elems(buffer[SinkOf[m]]) \cup Elems(flush[SinkOf[m]].batch)

\* The task has, or had, a row, or its key has.
Stored(m) == m \in created \/ \E k \in created : SameKey(k, m)

\* push_tasks: "so the batch is not silently dropped".  A task that was sent is
\* in the sink, stored, or in a batch whose error the caller has been given:
\* when poll_flush answers Ok, everything else has been stored, also what was
\* sent while an earlier flush was on its way.
NothingForgotten ==
    \A m \in Msg \ unsent : Held(m) \/ Stored(m) \/ m \in told

\* README: "attach a key to deduplicate jobs".  At most one row of a queue
\* carries a key, whichever sinks push it and however often it is retried.
KeysAreUnique ==
    \A m, k \in rows : SameKey(m, k) => m = k

\* The answer to the last transaction holds an error that is no conflict.
Refused(p) ==
    \E s \in DOMAIN flush[p].reply.errors : flush[p].reply.errors[s] = "real"

\* A conflict alone never fails a batch before its last try, and an error that
\* is no conflict is not tried again.
ConflictsAreRetried ==
    [][\A p \in Sink :
         /\ /\ PushErr(p) /\ ~flush[p].reply.io /\ ~Refused(p)
            => flush[p].tries = MaxTxRetries
         /\ Retry(p) => ~flush[p].reply.io /\ ~Refused(p)]_vars

\* However often transactions conflict, every task that is sent is stored or
\* its error reported.
SentIsSettled ==
    \A m \in Msg : m \notin unsent ~> Stored(m) \/ m \in told

=============================================================================
