----------------------------- MODULE MCJobQueue -----------------------------
(* Small instances of JobQueue for TLC. *)
EXTENDS JobQueue, TLC

CONSTANTS j1, i1, i2, q1

\* One queue.
SameQueue == [x \in Job |-> q1]
SameQueueI == [x \in Instance |-> q1]

NoPriority == [x \in Job |-> 0]
NoKeys == [x \in Job |-> NONE]
TwoAttempts == [x \in Job |-> 2]
OwnStorage == [x \in SharedInst |-> x]
EveryCodec == Instance \X Job
\* i2 has another codec and cannot read j1.
OtherCodec == (Instance \X Job) \ {<<i2, j1>>}

CopySymmetry == Permutations(CopyId)
=============================================================================
