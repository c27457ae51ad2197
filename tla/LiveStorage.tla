---------------------------- MODULE LiveStorage ----------------------------
(***************************************************************************)
(* One run of the storage built by new_with_events: SurrealLiveFetcher     *)
(* subscribes to the job table and wakes fetch_next (the lazy half), and a *)
(* SurrealPollFetcher claims on its own (the eager half); the worker polls *)
(* both through futures' select.  The live query may fail, end, and        *)
(* deliver errors at any time, and what is created while it is not         *)
(* subscribed is not announced.  An error yielded by either half ends the  *)
(* run, and the model with it.                                             *)
(***************************************************************************)
EXTENDS Integers, Sequences, FiniteSets

CONSTANTS
    Task,         \* tasks of this queue whose rows can be read (see PollFetcher)
    BatchSize,    \* config.buffer_size()
    BackoffBase,  \* BACKOFF_BASE, in seconds
    BackoffCap,   \* BACKOFF_CAP
    MaxNotes,     \* bound: undelivered notifications
    MaxFails      \* bound: failures in a row that are told apart

ASSUME LiveAssumption ==
    /\ IsFiniteSet(Task)
    /\ BatchSize \in Nat \ {0}
    /\ BackoffBase \in Nat \ {0} /\ BackoffCap \in Nat
    /\ BackoffBase <= BackoffCap
    /\ MaxNotes \in Nat /\ MaxFails \in Nat

VARIABLES
    coming,     \* tasks that have not been created
    later,      \* created tasks whose run_at lies ahead
    due,        \* created tasks nobody has claimed
    handed,     \* tasks some worker of the queue has been given
    notes,      \* notifications the live query has not delivered yet
    state,      \* LiveState
    backoff,    \* this.backoff
    delay,      \* the delay of LiveState::Backoff, 0 in the other states
    wakes,      \* wake-ups in the chunk of ready_chunks
    lazy,       \* what the lazy half waits for
    lazyHeld,   \* tasks it has claimed and not yielded
    eager,      \* StreamState of the poll fetcher
    eagerHeld,  \* the tasks of StreamState::Buffered
    turn,       \* the half that select polls first
    running,    \* the worker run has not been ended by an error
    fails,      \* failures since the last notification (history)
    missed      \* tasks that came due unannounced (history)

table == <<coming, later, due>>
live == <<notes, state, backoff, delay, fails, missed>>
lazyVars == <<wakes, lazy, lazyHeld>>
eagerVars == <<eager, eagerHeld>>
stream == <<handed, turn, running>>
vars == <<table, live, lazyVars, eagerVars, stream>>

Half == {"lazy", "eager"}

\* A notification: of the creation of one of the tasks, or of another queue's
\* task (the live query is on the whole table), of a change of a row, or an error.
Note == Task \cup {"Foreign", "Update", "Error"}

\* The states of both halves, the backoff and its delay stay in range, and a
\* chunk holds no more wake-ups than a batch holds tasks.
TypeOK ==
    /\ coming \subseteq Task /\ later \subseteq Task /\ due \subseteq Task
    /\ handed \subseteq Task /\ missed \subseteq Task
    /\ notes \in Seq(Note)
    /\ state \in {"Init", "Subscribing", "Active", "Backoff"}
    /\ backoff \in 0 .. BackoffCap /\ delay \in 0 .. BackoffCap
    /\ wakes \in 0 .. BatchSize /\ fails \in 0 .. MaxFails
    /\ lazy \in {"Listen", "Fetch", "Failed"} /\ lazyHeld \subseteq Task
    /\ eager \in {"Ready", "Fetch", "Delay", "Buffered", "Failed", "Empty"}
    /\ eagerHeld \subseteq Task
    /\ turn \in Half /\ running \in BOOLEAN

Init ==
    /\ coming = Task /\ later = {} /\ due = {} /\ handed = {}
    /\ notes = <<>> /\ state = "Init" /\ backoff = BackoffBase /\ delay = 0
    /\ wakes = 0 /\ lazy = "Listen" /\ lazyHeld = {}
    /\ eager = "Ready" /\ eagerHeld = {}
    /\ turn = "lazy" /\ running = TRUE
    /\ fails = 0 /\ missed = {}

-----------------------------------------------------------------------------
(* The database. *)

\* The created tasks announced but not delivered.
Announced == {notes[x] : x \in DOMAIN notes} \cap Task

\* A notification reaches the client only while it is subscribed.
Notify(a) == notes' = IF state = "Active" THEN Append(notes, a) ELSE notes

\* A task is created, due at once or later (run_at).
Create(t) ==
    /\ t \in coming /\ Len(notes) < MaxNotes
    /\ coming' = coming \ {t}
    /\ \/ /\ due' = due \cup {t} /\ UNCHANGED later
          /\ missed' = IF state = "Active" THEN missed ELSE missed \cup {t}
       \/ /\ later' = later \cup {t} /\ UNCHANGED <<due, missed>>
    /\ Notify(t)
    /\ UNCHANGED <<state, backoff, delay, fails, lazyVars, eagerVars, stream>>

\* Nothing announces that a run_at has passed.
BecomesDue(t) ==
    /\ t \in later
    /\ later' = later \ {t} /\ due' = due \cup {t}
    /\ missed' = missed \cup {t}
    /\ UNCHANGED <<coming, notes, state, backoff, delay, fails>>
    /\ UNCHANGED <<lazyVars, eagerVars, stream>>

\* Another worker of the queue claims a task.
TakenElsewhere(t) ==
    /\ t \in due
    /\ due' = due \ {t} /\ handed' = handed \cup {t}
    /\ UNCHANGED <<coming, later, live, lazyVars, eagerVars, turn, running>>

\* Another queue's task is created, a row changes, or the live query reports an
\* error.
OtherNotification ==
    /\ state = "Active" /\ notes = <<>> /\ MaxNotes > 0
    /\ \E a \in Note \ Task : Notify(a)
    /\ UNCHANGED <<table, state, backoff, delay, fails, missed>>
    /\ UNCHANGED <<lazyVars, eagerVars, stream>>

\* fetch_next claims S: everything that is due, up to the limit.
Claim(S) ==
    /\ S = due \/ Cardinality(S) = BatchSize
    /\ Cardinality(S) <= BatchSize
    /\ due' = due \ S

\* fetch_next fails, before or after its claim commits.  What it had claimed
\* then stays claimed in the table, and no stream holds it.
ClaimFails == UNCHANGED due \/ \E S \in SUBSET due : Claim(S)

-----------------------------------------------------------------------------
(* SurrealLiveFetcher::poll_next. *)

\* Mutant: a chunk may hold one wake-up more than a batch holds tasks.
RoomForMore == wakes <= BatchSize

\* ready_chunks(buffer_size) takes no more wake-ups than this.
Room == wakes < BatchSize

\* The live fetcher is polled only to fill a chunk: not while the fetch_next of
\* the last chunk runs, nor while its tasks are left.
Listening == lazy = "Listen" /\ lazyHeld = {} /\ Room

Subscribe ==
    /\ Listening /\ state = "Init"
    /\ state' = "Subscribing"
    /\ UNCHANGED <<table, notes, backoff, delay, fails, missed>>
    /\ UNCHANGED <<lazyVars, eagerVars, stream>>

Subscribed ==
    /\ Listening /\ state = "Subscribing"
    /\ state' = "Active"
    /\ UNCHANGED <<table, notes, backoff, delay, fails, missed>>
    /\ UNCHANGED <<lazyVars, eagerVars, stream>>

\* Mutant: the backoff is not capped.
BackOffUncapped ==
    /\ fails < MaxFails
    /\ state' = "Backoff" /\ delay' = backoff
    /\ backoff' = 2 * backoff
    /\ fails' = fails + 1

\* Wait for the current backoff and double it for the next time.
BackOff ==
    /\ fails < MaxFails
    /\ state' = "Backoff" /\ delay' = backoff
    /\ backoff' = IF 2 * backoff < BackoffCap THEN 2 * backoff ELSE BackoffCap
    /\ fails' = fails + 1

SubscribeFails ==
    /\ Listening /\ state = "Subscribing"
    /\ BackOff
    /\ UNCHANGED <<table, notes, missed, lazyVars, eagerVars, stream>>

\* The live query ends; what it has not delivered is lost.
StreamEnds ==
    /\ Listening /\ state = "Active"
    /\ BackOff
    /\ notes' = <<>>
    /\ missed' = missed \cup Announced
    /\ UNCHANGED <<table, lazyVars, eagerVars, stream>>

\* Mutant: only a created task proves the stream healthy.
ResetsBackoffOnCreate(a) == a \in Task \cup {"Foreign"}

\* "a delivered notification proves the stream healthy".
ResetsBackoff(a) == a # "Error"

\* The next notification.  Only a created task wakes the storage, and errors of
\* the stream are logged.
Notified ==
    /\ Listening /\ state = "Active" /\ notes # <<>>
    /\ LET a == Head(notes) IN
         /\ backoff' = IF ResetsBackoff(a) THEN BackoffBase ELSE backoff
         /\ fails' = IF a # "Error" THEN 0 ELSE fails
         /\ wakes' = IF a \in Task \cup {"Foreign"} THEN wakes + 1 ELSE wakes
    /\ notes' = Tail(notes)
    /\ UNCHANGED <<table, state, delay, missed>>
    /\ UNCHANGED <<lazy, lazyHeld, eagerVars, stream>>

\* The delay is over, and the live fetcher subscribes again.
BackoffOver ==
    /\ Listening /\ state = "Backoff"
    /\ state' = "Init" /\ delay' = 0
    /\ UNCHANGED <<table, notes, backoff, fails, missed>>
    /\ UNCHANGED <<lazyVars, eagerVars, stream>>

-----------------------------------------------------------------------------
(* The lazy half: ready_chunks, then, flat_map. *)

\* The chunk is full, or no more wake-ups are ready: fetch_next starts.
LazyStarts ==
    /\ lazy = "Listen" /\ lazyHeld = {} /\ wakes > 0
    /\ lazy' = "Fetch"
    /\ UNCHANGED <<table, live, wakes, lazyHeld, eagerVars, stream>>

\* One fetch_next answers all the wake-ups of the chunk.
LazyAnswer ==
    /\ lazy = "Fetch"
    /\ \E S \in SUBSET due : Claim(S) /\ lazyHeld' = S
    /\ lazy' = "Listen" /\ wakes' = 0
    /\ UNCHANGED <<coming, later, live, eagerVars, stream>>

LazyFails ==
    /\ lazy = "Fetch"
    /\ ClaimFails
    /\ lazy' = "Failed"
    /\ UNCHANGED <<coming, later, live, wakes, lazyHeld, eagerVars, stream>>

\* The lazy half is polled: it yields the next task it holds.
LazyPolled ==
    \/ lazyHeld = {} /\ UNCHANGED lazyHeld
    \/ \E t \in lazyHeld : lazyHeld' = lazyHeld \ {t}

-----------------------------------------------------------------------------
(* The eager half: SurrealPollFetcher. *)

EagerAnswer ==
    /\ eager = "Fetch"
    /\ \E S \in SUBSET due : Claim(S) /\ eagerHeld' = S
    /\ eager' = IF eagerHeld' = {} THEN "Delay" ELSE "Buffered"
    /\ UNCHANGED <<coming, later, live, lazyVars, stream>>

EagerFails ==
    /\ eager = "Fetch"
    /\ ClaimFails
    /\ eager' = "Failed"
    /\ UNCHANGED <<coming, later, live, lazyVars, eagerHeld, stream>>

\* The poll strategy says when to look again, or ends.
DelayOver ==
    /\ eager = "Delay"
    /\ eager' \in {"Ready", "Empty"}
    /\ UNCHANGED <<table, live, lazyVars, eagerHeld, stream>>

\* The eager half is polled: it starts a fetch_next or yields the next task.
EagerPolled ==
    \/ /\ eager = "Ready"
       /\ eager' = "Fetch" /\ UNCHANGED eagerHeld
    \/ /\ eager = "Buffered"
       /\ \E t \in eagerHeld : eagerHeld' = eagerHeld \ {t}
       /\ eager' = IF eagerHeld' = {} THEN "Ready" ELSE "Buffered"
    \/ /\ eager \notin {"Ready", "Buffered"}
       /\ UNCHANGED eagerVars

-----------------------------------------------------------------------------
(* select. *)

\* Polled now, this half yields an item, a task or an error.
HasItem(h) ==
    IF h = "lazy" THEN lazyHeld # {} \/ lazy = "Failed"
                  ELSE eager \in {"Buffered", "Failed"}

\* Mutant: chain, which turns to the eager half once the lazy one has ended.
PolledChained(h) == h = "lazy"

\* The half whose turn it is is polled, and the other one if it yields nothing.
Polled(h) == h = turn \/ ~HasItem(turn)

\* The worker polls the stream.  The halves take turns at being polled first.
PollStream ==
    /\ IF Polled("lazy") THEN LazyPolled ELSE UNCHANGED lazyHeld
    /\ IF Polled("eager") THEN EagerPolled ELSE UNCHANGED eagerVars
    /\ handed' = handed \cup (lazyHeld \ lazyHeld') \cup (eagerHeld \ eagerHeld')
    /\ running' = /\ Polled("lazy") => lazy # "Failed"
                  /\ Polled("eager") => eager # "Failed"
    /\ turn' = IF turn = "lazy" THEN "eager" ELSE "lazy"
    /\ UNCHANGED <<table, live, wakes, lazy>>

-----------------------------------------------------------------------------
LiveStep ==
    \/ Subscribe \/ Subscribed \/ SubscribeFails \/ StreamEnds \/ Notified
    \/ BackoffOver

Next ==
    /\ running
    /\ \/ \E t \in Task : Create(t) \/ BecomesDue(t) \/ TakenElsewhere(t)
       \/ OtherNotification \/ LiveStep
       \/ LazyStarts \/ LazyAnswer \/ LazyFails
       \/ EagerAnswer \/ EagerFails \/ DelayOver
       \/ PollStream

Spec == Init /\ [][Next]_vars

\* The worker goes on polling its stream, the poll fetcher's fetch_next is
\* answered one way or the other, and its delay ends.  Nothing is assumed of the
\* live query, nor of the fetch_next it wakes.
FairSpec ==
    /\ Spec
    /\ WF_vars(running /\ PollStream)
    /\ WF_vars(running /\ (EagerAnswer \/ EagerFails))
    /\ WF_vars(running /\ DelayOver)

-----------------------------------------------------------------------------
(* Properties. *)

\* BACKOFF_BASE * 2^n, but no more than BACKOFF_CAP.
Doubled[n \in Nat] ==
    IF n = 0 THEN BackoffBase
    ELSE IF 2 * Doubled[n - 1] < BackoffCap THEN 2 * Doubled[n - 1] ELSE BackoffCap

\* The next wait is the base doubled once for every failure since the stream
\* last delivered something, and never more than the cap; a stream of errors
\* alone does not reset it.  The wait in force is the one before the last
\* doubling.
BackoffIsDoubled ==
    /\ backoff = Doubled[fails]
    /\ state = "Backoff" => fails > 0 /\ delay = Doubled[fails - 1]

\* Coalescing wake-ups leaves no task behind: those due and unclaimed are no
\* more than the wake-ups and notifications under way, and the tasks the live
\* query never announced, which the poll fetcher is there for (one of them may
\* take the place of an announced task in the batch a wake-up claims).
WakesCoverDue ==
    Cardinality(due) <= wakes + Cardinality(Announced) + Cardinality(missed)

\* README: "with polling as a fallback".  A created task that is due is handed to
\* a worker, whatever the live query misses and however the lazy half is stuck,
\* unless an error ends the run or the poll strategy ends.
DueReachesAWorker ==
    \A t \in Task :
        t \in due ~> t \in handed \/ ~running \/ eager = "Empty"

=============================================================================
