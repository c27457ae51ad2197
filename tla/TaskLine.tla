------------------------------ MODULE TaskLine ------------------------------
(***************************************************************************)
(* What a storage promises between the claim of a task and the worker it   *)
(* hands the task to: claimed tasks stand in one line per queue, are       *)
(* handed on from its front, each at most once, and are not lost from the  *)
(* middle of it.  PollFetcher and SharedDriver implement this module.      *)
(***************************************************************************)
EXTENDS Integers, Sequences

CONSTANTS
    Task,     \* tasks
    Queue,    \* queues
    QueueOf,  \* the queue of each task
    Mortal    \* the queues whose worker may end

VARIABLES
    due,      \* tasks that can be claimed
    line,     \* claimed tasks on their way to the worker of each queue
    handed    \* tasks handed on

Members(s) == {s[x] : x \in DOMAIN s}
InLine(q) == Members(line[q])
From(s, n) == SubSeq(s, n, Len(s))

LineInit ==
    /\ due \subseteq Task
    /\ line = [q \in Queue |-> <<>>]
    /\ handed = {}

\* Tasks nobody holds become due: pushed, or returned by the reclaimer.
Return ==
    /\ due \subseteq due'
    /\ \A t \in due' \ due : t \notin handed /\ t \notin InLine(QueueOf[t])
    /\ UNCHANGED <<line, handed>>

\* A claim: each of its tasks goes to the end of its line, or to its worker at
\* once, or nobody has it (unreadable, or the answer is lost).
Claim ==
    /\ due' \subseteq due
    /\ \A q \in Queue :
         LET new == From(line'[q], Len(line[q]) + 1) IN
         /\ line'[q] = line[q] \o new
         /\ \A x \in DOMAIN new : new[x] \in due \ due' /\ QueueOf[new[x]] = q
         /\ \A x, y \in DOMAIN new : new[x] = new[y] => x = y
         /\ Members(new) \cap handed' = {}
    /\ handed \subseteq handed' /\ handed' \ handed \subseteq due \ due'

\* The first n of a line are handed on ...
Hand(q, n) ==
    /\ line' = [line EXCEPT ![q] = From(@, n + 1)]
    /\ handed' = handed \cup Members(SubSeq(line[q], 1, n))
    /\ UNCHANGED due

\* ... or lost with the worker that ends.
Strand(q, n) ==
    /\ q \in Mortal
    /\ line' = [line EXCEPT ![q] = From(@, n + 1)]
    /\ UNCHANGED <<due, handed>>

LineNext ==
    \/ Return \/ Claim
    \/ \E q \in Queue : \E n \in 1 .. Len(line[q]) : Hand(q, n) \/ Strand(q, n)

LineSpec == LineInit /\ [][LineNext]_<<due, line, handed>>

=============================================================================
