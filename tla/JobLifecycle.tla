---------------------------- MODULE JobLifecycle ----------------------------
(***************************************************************************)
(* What the job table promises about each job: the life of its row and of  *)
(* the one handler that may run it.  JobQueue implements this module as    *)
(* long as workers heartbeat on time; the readers of the table (WaitFor,   *)
(* Board) are specified on top of it.                                      *)
(***************************************************************************)
CONSTANTS
    Job,       \* jobs
    Instance,  \* worker instances
    NONE       \* no instance

VARIABLE life  \* the life of each job

\* `runner` is the instance whose handler runs the job, or has run it and has
\* not recorded the outcome yet.
Life == [status : {"Unborn", "Pending", "Queued", "Running", "Done", "Failed",
                   "Killed", "Purged"},
         runner : Instance \cup {NONE}]

At(s) == [status |-> s, runner |-> NONE]

Init == life = [j \in Job |-> At("Unborn")]

Push(l, m) == l = At("Unborn") /\ m = At("Pending")

\* A due job is claimed; a failed one has attempts left.
Claim(l, m) == l \in {At("Pending"), At("Failed")} /\ m = At("Queued")

\* The lock is taken and the handler starts.  A channel may hold a copy of a
\* job that has been re-enqueued, or has failed, since.
Start(l, m) ==
    /\ l \in {At("Pending"), At("Queued"), At("Failed")}
    /\ \E i \in Instance : m = [status |-> "Running", runner |-> i]

\* The lock is taken but its taker never learns of it.
StartUnheard(l, m) ==
    /\ l \in {At("Pending"), At("Queued"), At("Failed")}
    /\ m = At("Running")

\* The outcome of the handler is recorded.
Record(l, m) ==
    /\ l.status = "Running" /\ l.runner # NONE
    /\ m \in {At("Done"), At("Failed"), At("Killed")}

\* A refused lock is recorded as a failure of the job.
Refuse(l, m) ==
    /\ l \in {At("Queued"), At("Running")}
    /\ m \in {At("Failed"), At("Killed")}

\* A job nobody can decode is parked.
Park(l, m) == l \in {At("Pending"), At("Queued")} /\ m = At("Killed")

\* The handler is gone without an outcome: its worker ended, or the
\* acknowledgement failed.
Lose(l, m) ==
    /\ l.status = "Running" /\ l.runner # NONE
    /\ m = At("Running")

\* A stranded job returns to the queue, and only when no handler runs it.
Recover(l, m) == l \in {At("Queued"), At("Running")} /\ m = At("Pending")

Vacuum(l, m) == l \in {At("Done"), At("Killed")} /\ m = At("Purged")

JobStep(l, m) ==
    \/ Push(l, m) \/ Claim(l, m) \/ Start(l, m) \/ StartUnheard(l, m)
    \/ Record(l, m) \/ Refuse(l, m) \/ Park(l, m) \/ Lose(l, m)
    \/ Recover(l, m) \/ Vacuum(l, m)

\* A batch, a sweep or the end of a worker changes several jobs at once, each
\* of them in a way its own life allows.
Next ==
    /\ life' \in [Job -> Life]
    /\ \A j \in Job : life'[j] = life[j] \/ JobStep(life[j], life'[j])

Spec == Init /\ [][Next]_life

\* One job at a time, as an environment of the modules built on this one.
OneStep(j, m) ==
    /\ JobStep(life[j], m)
    /\ life' = [life EXCEPT ![j] = m]

=============================================================================
