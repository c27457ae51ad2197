------------------------------ MODULE Readers ------------------------------
(***************************************************************************)
(* The clients that only read the tables, each beside a job table that     *)
(* lives as JobLifecycle says.  Readers do not see each other, so one of   *)
(* them runs in a behaviour, and what none of its statements can see any   *)
(* more is left out.                                                       *)
(***************************************************************************)
EXTENDS WaitFor, Listings

CONSTANT Timed  \* bound: the jobs beside list_queues

ASSUME ReadersAssumption == Timed \subseteq Job

VARIABLE client  \* the reader

vars == <<life, waitVars, timeVars, boardVars, listVars, client>>

Client == {"wait_for", "list_tasks", "list_workers", "list_queues", "metrics"}

\* The rows, the calls under way and what they have read keep their types.
TypeOK ==
    /\ life \in [Job -> Life]
    /\ WaitTypeOK /\ BoardTypeOK /\ ListTypeOK
    /\ client \in Client

ReadersInit ==
    /\ Init /\ WaitInit /\ BoardInit /\ ListInit
    /\ client \in Client

\* The table moves on, seen by a reader that does not look at done_at ...
JobsMove ==
    /\ \/ client = "wait_for"
       \/ client = "list_tasks" /\ paging.end = "no"
       \/ client = "metrics" /\ board.stage # "done"
    /\ \E j \in Job, m \in Life : OneStep(j, m)
    /\ Moved /\ Disturbed
    /\ UNCHANGED <<waitVars, timeVars, client>>

\* ... and by one that does.
StampedJobsMove ==
    /\ client = "list_queues" /\ board.stage \in {"counts", "oldest", "activity"}
    /\ \E j \in Timed : StampedStep(j)
    /\ UNCHANGED <<waitVars, listVars, client>>

TimePasses ==
    /\ \/ client = "list_workers"
       \/ client \in {"list_queues", "metrics"} /\ board.stage # "done"
    /\ Tick
    /\ UNCHANGED <<life, waitVars, listVars, client>>

WorkersMove ==
    /\ client = "list_workers"
    /\ (\E w \in Worker : Beat(w)) \/ (\E q \in Queue : PurgeWorkers(q))
    /\ UNCHANGED <<life, waitVars, timeVars, boardVars, client>>

Wait ==
    /\ client = "wait_for"
    /\ Round \/ End
    /\ UNCHANGED <<life, timeVars, boardVars, listVars, client>>

WaitFails ==
    /\ client = "wait_for" /\ RoundFails
    /\ UNCHANGED <<life, timeVars, boardVars, listVars, client>>

Read ==
    /\ \/ client = "metrics" /\ MetricsStep
       \/ client = "list_queues" /\ ListQueuesStep
    /\ UNCHANGED <<life, waitVars, timeVars, listVars, client>>

List ==
    /\ client = "list_tasks"
    /\ FirstPage \/ NextPage
    /\ UNCHANGED <<life, waitVars, timeVars, boardVars, client>>

ReadersNext ==
    \/ JobsMove \/ StampedJobsMove \/ TimePasses \/ WorkersMove
    \/ Wait \/ WaitFails \/ Read \/ List

ReadersSpec == ReadersInit /\ [][ReadersNext]_vars

\* The caller of wait_for polls its stream; nothing is assumed of the jobs, nor
\* that a query fails.
FairSpec == ReadersSpec /\ WF_vars(Wait)

\* queries/mod.rs: "Wait for tasks to reach a terminal state".  Once all tasks
\* have, the stream of wait_for ends, unless vacuum deletes a row between two
\* polls: then fetch_completed_tasks.surql never returns it.
WaitEnds ==
    (/\ client = "wait_for"
     /\ \A j \in Asked : life[j].status \in Terminal \cup {"Purged"})
        ~> ended \/ Overtaken

=============================================================================
