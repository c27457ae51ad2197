---------------------------- MODULE SharedDriver ----------------------------
(***************************************************************************)
(* SharedSurrealStorage: one driver future claims tasks for every          *)
(* registered queue and sends each into the bounded channel of its queue.  *)
(* The driver runs only while some worker polls its own SharedFetcher, and *)
(* holds the registry lock while it sends.                                 *)
(***************************************************************************)
EXTENDS Integers, Sequences, FiniteSets

CONSTANTS
    Queue,       \* queues
    Task,        \* tasks
    TaskQueue,   \* the queue of each task
    Unreadable,  \* tasks whose row decode_row cannot read
    BufferSize,  \* config.buffer_size(), the bound of each channel
    Limit,       \* the LIMIT of the claim: max(10, queues.len()) in the code
    Mortal       \* the queues whose worker may stop

ASSUME DriverAssumption ==
    /\ Queue # {} /\ IsFiniteSet(Task)
    /\ TaskQueue \in [Task -> Queue] /\ Unreadable \subseteq Task
    /\ BufferSize \in Nat /\ Limit \in Nat \ {0}
    /\ Mortal \subseteq Queue

VARIABLES
    registry,  \* the queues that have a sender
    backend,   \* the storage made for each queue, and its worker
    channel,   \* the channel of each queue
    pc,        \* where drive_registry is
    queues,    \* the keys it has read from the registry
    batch,     \* the claimed tasks it has still to send
    target,    \* the queue whose send is under way
    due,       \* tasks that can be claimed
    received,  \* tasks a worker has taken from its channel
    dropped    \* tasks nobody holds: left claimed, or killed

vars == <<registry, backend, channel, pc, queues, batch, target, due, received,
          dropped>>

\* "none": not made; "idle": made, its worker not started; "polling": a worker
\* polls it; "gone": the worker has ended and the receiver is dropped.
BackendState == {"none", "idle", "polling", "gone"}

\* Registry, channels and the driver's locals keep their types, and the batch
\* never exceeds the limit of the claim.
TypeOK ==
    /\ registry \subseteq Queue
    /\ backend \in [Queue -> BackendState]
    /\ channel \in [Queue -> Seq(Task)]
    /\ pc \in {"wait", "keys", "fetch", "send", "flush"}
    /\ queues \subseteq Queue
    /\ batch \in Seq(Task) /\ Len(batch) <= Limit
    /\ target \in Queue
    /\ due \subseteq Task /\ received \subseteq Task /\ dropped \subseteq Task

Init ==
    /\ registry = {} /\ backend = [q \in Queue |-> "none"]
    /\ channel = [q \in Queue |-> <<>>]
    /\ pc = "wait" /\ queues = {} /\ batch = <<>>
    /\ target = CHOOSE q \in Queue : TRUE
    /\ due = Task /\ received = {} /\ dropped = {}

\* The driver holds the registry lock while it sends.
Locked == pc \in {"send", "flush"}

-----------------------------------------------------------------------------
(* make_shared and the workers. *)

\* Mutant: a plain insert, which clobbers the channel of an earlier backend.
MakeSharedInserts(q) ==
    /\ ~Locked
    /\ registry' = registry \cup {q}
    /\ backend' = [backend EXCEPT ![q] = "idle"]
    /\ channel' = [channel EXCEPT ![q] = <<>>]
    /\ UNCHANGED <<pc, queues, batch, target, due, received, dropped>>

\* make_shared succeeds; a queue that has a sender is refused (NamespaceExists),
\* and a registry that is locked as well (RegistryLocked).
MakeShared(q) ==
    /\ ~Locked
    /\ q \notin registry
    /\ registry' = registry \cup {q}
    /\ backend' = [backend EXCEPT ![q] = "idle"]
    /\ channel' = [channel EXCEPT ![q] = <<>>]
    /\ UNCHANGED <<pc, queues, batch, target, due, received, dropped>>

StartWorker(q) ==
    /\ backend[q] = "idle"
    /\ backend' = [backend EXCEPT ![q] = "polling"]
    /\ UNCHANGED <<registry, channel, pc, queues, batch, target, due, received,
                   dropped>>

\* The worker ends, or the storage is dropped: the receiver and what is in the
\* channel go with it, and the registry is not told.  A worker does not end in
\* the middle of a poll, and the driver is in "send" only during one.
StopWorker(q) ==
    /\ q \in Mortal
    /\ backend[q] \in {"idle", "polling"}
    /\ pc = "send" => \E k \in Queue \ {q} : backend[k] = "polling"
    /\ backend' = [backend EXCEPT ![q] = "gone"]
    /\ dropped' = dropped \cup {channel[q][x] : x \in DOMAIN channel[q]}
    /\ channel' = [channel EXCEPT ![q] = <<>>]
    /\ UNCHANGED <<registry, pc, queues, batch, target, due, received>>

\* Mutant: the receiver is polled only when the driver has nothing to do.
ReceiveWhenDriverIdle(q) ==
    /\ pc = "wait"
    /\ backend[q] = "polling" /\ channel[q] # <<>>
    /\ received' = received \cup {Head(channel[q])}
    /\ channel' = [channel EXCEPT ![q] = Tail(@)]
    /\ UNCHANGED <<registry, backend, pc, queues, batch, target, due, dropped>>

\* SharedFetcher::poll_next, the receiver's half.
Receive(q) ==
    /\ backend[q] = "polling" /\ channel[q] # <<>>
    /\ received' = received \cup {Head(channel[q])}
    /\ channel' = [channel EXCEPT ![q] = Tail(@)]
    /\ UNCHANGED <<registry, backend, pc, queues, batch, target, due, dropped>>

\* The SurrealPollFetcher that poll_shared runs beside the channel.
EagerFetch(q) ==
    /\ backend[q] = "polling"
    /\ \E t \in due :
         /\ TaskQueue[t] = q
         /\ due' = due \ {t}
         /\ received' = received \cup ({t} \ Unreadable)
         /\ dropped' = dropped \cup ({t} \cap Unreadable)
    /\ UNCHANGED <<registry, backend, channel, pc, queues, batch, target>>

-----------------------------------------------------------------------------
(* drive_registry, which advances when SharedFetcher::poll_next polls it. *)

Driven == \E q \in Queue : backend[q] = "polling"

\* A live notification or the fallback tick.
Wake ==
    /\ Driven /\ pc = "wait"
    /\ pc' = "keys"
    /\ UNCHANGED <<registry, backend, channel, queues, batch, target, due,
                   received, dropped>>

\* Lock the registry, copy its keys, unlock it.
ReadKeys ==
    /\ Driven /\ pc = "keys"
    /\ queues' = registry
    /\ pc' = IF registry = {} THEN "wait" ELSE "fetch"
    /\ UNCHANGED <<registry, backend, channel, batch, target, due, received,
                   dropped>>

Claimable == {t \in due : TaskQueue[t] \in queues}

Elems(s) == {s[x] : x \in DOMAIN s}

\* Mutant: the claim has no LIMIT.
ClaimsUnlimited == {Claimable}

\* What a claim may take: everything, or as many tasks as the limit allows.
Claims ==
    {S \in SUBSET Claimable :
       Cardinality(S) = IF Cardinality(Claimable) < Limit
                        THEN Cardinality(Claimable) ELSE Limit}

\* The orders in which tasks may be returned; the claim leaves it open.
Orders(S) ==
    {s \in [1 .. Cardinality(S) -> S] :
       Elems(s) = S /\ \A x, y \in DOMAIN s : s[x] = s[y] => x = y}

\* fetch_next_shared claims tasks of those queues.  Rows that cannot be read are
\* killed, or stay claimed if the kill fails; the others are to be sent.
Fetch ==
    /\ Driven /\ pc = "fetch"
    /\ \E S \in Claims : \E s \in Orders(S \ Unreadable) :
         /\ due' = due \ S
         /\ batch' = s
         /\ dropped' = dropped \cup (S \cap Unreadable)
    /\ pc' = "send"
    /\ UNCHANGED <<registry, backend, channel, queues, target, received>>

\* The answer to the claim is lost: logged, and the rows stay claimed.
FetchLost ==
    /\ Driven /\ pc = "fetch"
    /\ \E S \in Claims :
         /\ due' = due \ S
         /\ dropped' = dropped \cup S
    /\ pc' = "wait"
    /\ UNCHANGED <<registry, backend, channel, queues, batch, target, received>>

\* The claim fails: logged.
FetchFails ==
    /\ Driven /\ pc = "fetch"
    /\ pc' = "wait"
    /\ UNCHANGED <<registry, backend, channel, queues, batch, target, due,
                   received, dropped>>

HasReceiver(q) == q \in registry /\ backend[q] # "gone"

\* Mutant: the task that is sent overtakes those in the channel.
SendOvertakes ==
    /\ Driven /\ pc = "send" /\ batch # <<>>
    /\ LET t == Head(batch)
           q == TaskQueue[t]
       IN \/ /\ HasReceiver(q)
             /\ channel' = [channel EXCEPT ![q] = <<t>> \o @]
             /\ target' = q /\ pc' = "flush"
             /\ UNCHANGED dropped
          \/ /\ ~HasReceiver(q)
             /\ dropped' = dropped \cup {t}
             /\ UNCHANGED <<channel, target, pc>>
    /\ batch' = Tail(batch)
    /\ UNCHANGED <<registry, backend, queues, due, received>>

\* The first half of tx.send(task): the channel takes the task, or is gone and
\* the task is dropped.
Send ==
    /\ Driven /\ pc = "send" /\ batch # <<>>
    /\ LET t == Head(batch)
           q == TaskQueue[t]
       IN \/ /\ HasReceiver(q)
             /\ channel' = [channel EXCEPT ![q] = Append(@, t)]
             /\ target' = q /\ pc' = "flush"
             /\ UNCHANGED dropped
          \/ /\ ~HasReceiver(q)
             /\ dropped' = dropped \cup {t}
             /\ UNCHANGED <<channel, target, pc>>
    /\ batch' = Tail(batch)
    /\ UNCHANGED <<registry, backend, queues, due, received>>

\* Mutant: the driver does not wait for room in the channel.
FlushAtOnce ==
    /\ Driven /\ pc = "flush"
    /\ pc' = "send"
    /\ UNCHANGED <<registry, backend, channel, queues, batch, target, due,
                   received, dropped>>

\* The second half: send returns once the channel is no longer over its bound.
Flush ==
    /\ Driven /\ pc = "flush"
    /\ backend[target] = "gone" \/ Len(channel[target]) <= BufferSize
    /\ pc' = "send"
    /\ UNCHANGED <<registry, backend, channel, queues, batch, target, due,
                   received, dropped>>

\* The batch is sent: unlock the registry.
Sent ==
    /\ Driven /\ pc = "send" /\ batch = <<>>
    /\ pc' = "wait"
    /\ UNCHANGED <<registry, backend, channel, queues, batch, target, due,
                   received, dropped>>

\* reenqueue_orphaned returns a claim that nobody holds.  A row that was killed
\* never returns, nor a Failed one that still names a live worker (JobQueue).
Reenqueue(t) ==
    /\ t \in dropped
    /\ dropped' = dropped \ {t} /\ due' = due \cup {t}
    /\ UNCHANGED <<registry, backend, channel, pc, queues, batch, target,
                   received>>

DriveStep ==
    \/ Wake \/ ReadKeys \/ Fetch \/ FetchLost \/ FetchFails
    \/ Send \/ Flush \/ Sent

Next ==
    \/ \E q \in Queue : MakeShared(q) \/ StartWorker(q) \/ StopWorker(q)
                        \/ Receive(q) \/ EagerFetch(q)
    \/ DriveStep
    \/ \E t \in Task : Reenqueue(t)

Spec == Init /\ [][Next]_vars

\* Workers that run poll their stream.  A storage that is made need not be
\* started.
FairSpec ==
    /\ Spec
    /\ WF_vars(DriveStep)
    /\ \A q \in Queue : WF_vars(Receive(q))

\* The same, and every storage that is made is started.
StartedSpec == FairSpec /\ \A q \in Queue : WF_vars(StartWorker(q))

-----------------------------------------------------------------------------
(* Properties. *)

Places(t) ==
    {p \in {"due", "batch", "channel", "received", "dropped"} :
        CASE p = "due"      -> t \in due
          [] p = "batch"    -> t \in Elems(batch)
          [] p = "channel"  -> t \in Elems(channel[TaskQueue[t]])
          [] p = "received" -> t \in received
          [] p = "dropped"  -> t \in dropped}

\* Every task is in exactly one place: not claimed, in the driver, in the
\* channel of its own queue, with a worker of that queue, or with nobody, killed
\* or left to the reclaimer.  In particular a second make_shared loses nothing.
ClaimsAreAccountedFor == \A t \in Task : Cardinality(Places(t)) = 1

\* A channel holds at most buffer_size tasks and the one being sent.
ChannelsAreBounded ==
    \A q \in Queue :
        Len(channel[q]) <= BufferSize + (IF pc = "flush" /\ target = q
                                         THEN 1 ELSE 0)

\* The items of s that are in K, in the order of s.
Keep(s, K) ==
    LET kept[n \in 0 .. Len(s)] ==
          IF n = 0 THEN <<>>
          ELSE IF s[n] \in K THEN Append(kept[n - 1], s[n]) ELSE kept[n - 1]
    IN kept[Len(s)]

TasksOf(q) == {t \in Task : TaskQueue[t] = q}

\* Claimed tasks of queue q that its worker has not received, in order.
Waiting(q) == channel[q] \o Keep(batch, TasksOf(q))

Line == INSTANCE TaskLine WITH
    QueueOf <- TaskQueue, line <- [q \in Queue |-> Waiting(q)], handed <- received

\* Seen from its worker, a queue that shares the driver with others is a line of
\* its own: what one claim for all queues brings is received by the worker of
\* the right queue, in the order of the claim and once, and nothing is lost from
\* it while that worker lives.
QueuesAreLines == Line!LineSpec

\* SharedFetcher: "polling the shared driver keeps it running for every
\* registered queue".  While a worker polls it, the driver comes back to wait
\* for the next wake-up, whatever the other queues do.
DriverKeepsRunning == Driven ~> pc = "wait" \/ ~Driven

=============================================================================
