------------------------------ MODULE Listings ------------------------------
(***************************************************************************)
(* The listings of the board: list_tasks and list_all_tasks, read page by  *)
(* page while the jobs move on, and list_workers, over a worker table in   *)
(* which the rows of workers that ended stay for a while.                  *)
(***************************************************************************)
EXTENDS Board, Sequences

CONSTANTS
    BadArgs,      \* jobs whose args the codec of the storage cannot decode
    PageSize,     \* filter.limit()
    Worker,       \* worker instances
    WorkerQueue,  \* the queue each of them works on
    Window,       \* the liveness window of reenqueue_orphaned
    WorkerLimit   \* the LIMIT of list_workers: 100 in the code

ASSUME ListingAssumption ==
    /\ Job \subseteq Nat /\ BadArgs \subseteq Job
    /\ IsFiniteSet(Worker) /\ WorkerQueue \in [Worker -> Queue]
    /\ PageSize \in Nat \ {0} /\ Window \in Nat /\ WorkerLimit \in Nat

VARIABLES
    paging,  \* the pages read so far
    left,    \* a job has left the listing since the first page (history)
    joined,  \* a job has joined it since (history)
    last_seen  \* last_seen of each worker, or NoTime if it has no row

listVars == <<paging, left, joined, last_seen>>

JobStatus == {"Pending", "Queued", "Running", "Done", "Failed", "Killed"}

\* `typed`: list_tasks of the one queue in `queues`, which decodes the tasks;
\* otherwise list_all_tasks.  `first` is the listing at the first page.
Paging == [typed : BOOLEAN, queues : SUBSET Queue,
           status : JobStatus,
           offset : Nat, got : Seq(Job), first : SUBSET Job,
           end : {"no", "last_page", "error"}]

ListTypeOK ==
    /\ paging \in Paging
    /\ left \in BOOLEAN /\ joined \in BOOLEAN
    /\ last_seen \in [Worker -> MaybeTime]

ListInit ==
    /\ paging = [typed |-> FALSE, queues |-> {}, status |-> "Pending",
                 offset |-> 0, got |-> <<>>, first |-> {}, end |-> "no"]
    /\ left = FALSE /\ joined = FALSE
    /\ last_seen = [w \in Worker |-> NoTime]

-----------------------------------------------------------------------------
(* Pages of tasks. *)

\* WHERE queue = $queue AND status = $status
Listing(p) == WithStatus(p.queues, p.status)

\* Mutant: without the id, rows of the same time come in any order.
BeforeInTime(a, b) == RunAt[a] > RunAt[b]

\* ORDER BY run_at DESC, id DESC
Before(a, b) == RunAt[a] > RunAt[b] \/ (RunAt[a] = RunAt[b] /\ a > b)

Sorted(S) ==
    {s \in [1 .. Cardinality(S) -> S] :
        \A x, y \in DOMAIN s : x < y => s[x] # s[y] /\ ~Before(s[y], s[x])}

\* LIMIT $limit START $offset
PageOf(s, offset) ==
    SubSeq(s, offset + 1, IF Len(s) < offset + PageSize THEN Len(s)
                                                        ELSE offset + PageSize)

Elements(s) == {s[x] : x \in DOMAIN s}

\* The page at p.offset.  A task that list_tasks cannot decode fails the call;
\* the reader goes on until a page is not full.
ReadPage(p) ==
    /\ \E s \in Sorted(Listing(p)) :
         LET page == PageOf(s, p.offset) IN
         IF p.typed /\ Elements(page) \cap BadArgs # {}
         THEN paging' = [p EXCEPT !.end = "error"]
         ELSE paging' = [p EXCEPT
                !.got = @ \o page,
                !.offset = @ + PageSize,
                !.end = IF Len(page) < PageSize THEN "last_page" ELSE "no"]
    /\ UNCHANGED <<left, joined, last_seen>>

\* list_tasks of a queue, or list_all_tasks, of the tasks with one status.
FirstPage ==
    /\ paging.end = "no" /\ paging.offset = 0
    /\ \E call \in {<<TRUE, {q}>> : q \in Queue} \cup {<<FALSE, Queue>>},
         status \in JobStatus :
         LET p == [paging EXCEPT !.typed = call[1], !.queues = call[2],
                                 !.status = status]
         IN ReadPage([p EXCEPT !.first = Listing(p)])

NextPage == paging.end = "no" /\ paging.offset > 0 /\ ReadPage(paging)

\* What a step of the table means for a reader who has begun.
Moved ==
    /\ UNCHANGED <<paging, last_seen>>
    /\ left' = (left \/ ~(Listing(paging) \subseteq Listing(paging)'))
    /\ joined' = (joined \/ ~(Listing(paging)' \subseteq Listing(paging)))

-----------------------------------------------------------------------------
(* Workers. *)

\* register_worker or keep_alive.
Beat(w) ==
    /\ last_seen' = [last_seen EXCEPT ![w] = now]
    /\ UNCHANGED <<paging, left, joined>>

\* reenqueue_orphaned deletes rows of its queue that are long dead.
PurgeWorkers(q) ==
    /\ last_seen' = [w \in Worker |->
         IF WorkerQueue[w] = q /\ last_seen[w] < now - 4 * Window
         THEN NoTime ELSE last_seen[w]]
    /\ UNCHANGED <<paging, left, joined>>

\* The worker rows of a group: of one queue, or of all for list_all_workers.
WorkersOf(g) == {w \in Worker : last_seen[w] # NoTime /\ WorkerQueue[w] \in g}

\* Mutant: the workers not seen for longest come first.
SeenFirst(v, w) == last_seen[v] <= last_seen[w]

\* ORDER BY last_seen DESC
SeenLast(v, w) == last_seen[v] >= last_seen[w]

\* The sets list_workers and list_all_workers may return.
ListWorkers(g) ==
    {r \in SUBSET WorkersOf(g) :
        /\ Cardinality(r) <= WorkerLimit
        /\ Cardinality(r) < WorkerLimit => r = WorkersOf(g)
        /\ \A v \in r, w \in WorkersOf(g) \ r : SeenLast(v, w)}

-----------------------------------------------------------------------------
(* Properties. *)

\* What a reader of several pages gets, although each page is a query of its own
\* with an offset: as long as no task leaves the listing none is skipped, and as
\* long as none joins it none is listed twice.
PagesAddUp ==
    paging.end = "last_page" =>
        /\ ~left => paging.first \subseteq Elements(paging.got)
        /\ ~joined => \A x, y \in DOMAIN paging.got :
                            paging.got[x] = paging.got[y] => x = y

\* Workers that ended, whose rows stay for four windows, never push a live one
\* off the list: while no more than 100 are live, each of them is listed.
LiveWorkersAreListed ==
    \A g \in Group :
        LET live == {w \in WorkersOf(g) : last_seen[w] >= now - Window}
        IN Cardinality(live) <= WorkerLimit => \A r \in ListWorkers(g) : live \subseteq r

=============================================================================
