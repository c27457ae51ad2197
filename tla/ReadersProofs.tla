--------------------------- MODULE ReadersProofs ---------------------------
(***************************************************************************)
(* Proofs about the readers of the tables: wait_for, the board and its     *)
(* listings, for every set of jobs, queues and workers, every page size,   *)
(* window and length of a day.                                             *)
(***************************************************************************)
EXTENDS Readers, SequenceFacts

-----------------------------------------------------------------------------
(* The job table. *)

\* A job that has ended is at most purged.
LEMMA EndedStays ==
    ASSUME NEW l, NEW m, JobStep(l, m), l.status \in Terminal \cup {"Purged"}
    PROVE  m.status = "Purged"
BY DEF JobStep, Push, Claim, Start, StartUnheard, Record, Refuse, Park, Lose,
       Recover, Vacuum, At, Terminal

\* The job table moves by one step of one job, if at all.
LEMMA LifeSteps ==
    ASSUME TypeOK, [ReadersNext]_vars
    PROVE  \/ UNCHANGED life
           \/ \E j \in Job, m \in Life : /\ JobStep(life[j], m)
                                         /\ life' = [life EXCEPT ![j] = m]
<1>1. ASSUME NEW j \in Job, NEW m \in Life, OneStep(j, m)
      PROVE  JobStep(life[j], m) /\ life' = [life EXCEPT ![j] = m]
  BY <1>1 DEF OneStep
<1>2. CASE JobsMove
  BY <1>1, <1>2 DEF JobsMove
<1>3. CASE StampedJobsMove
  BY <1>1, <1>3, ReadersAssumption DEF StampedJobsMove, StampedStep
<1>4. CASE TimePasses \/ WorkersMove \/ Wait \/ WaitFails \/ Read \/ List
  BY <1>4 DEF TimePasses, WorkersMove, Wait, WaitFails, Read, List
<1> QED
  BY <1>2, <1>3, <1>4 DEF ReadersNext, vars

\* Rows keep their type.
LEMMA LifeType ==
    ASSUME TypeOK, [ReadersNext]_vars
    PROVE  life' \in [Job -> Life]
BY LifeSteps DEF TypeOK

-----------------------------------------------------------------------------
(* wait_for. *)

\* A task is reported or waited for, not both, until a query fails; what is
\* reported has ended; and the stream ends with nothing left to wait for.
WaitInv ==
    /\ Reported \cap remaining = {}
    /\ errors = 0 => Reported \cup remaining = Asked
    /\ ReportedOnceAndFinal
    /\ ended => remaining = {}

\* The rows of one answer, each once and in any order, are all that are
\* completed.
LEMMA AllRowsCome ==
    ASSUME NEW S, IsFiniteSet(S), NEW s \in [1 .. Cardinality(S) -> S],
           \A x, y \in DOMAIN s : s[x] = s[y] => x = y
    PROVE  /\ s \in Seq(S) /\ Len(s) = Cardinality(S) /\ DOMAIN s = 1 .. Len(s)
           /\ Items(s) = S
<1>1. Cardinality(S) \in Nat
  BY FS_CardinalityType
<1>2. s \in Seq(S) /\ Len(s) = Cardinality(S) /\ DOMAIN s = 1 .. Len(s)
  BY <1>1, FunctionIsSeq
<1>3. s \in Injection(1 .. Cardinality(S), S)
  BY DEF Injection, IsInjective
<1>4. Cardinality(1 .. Cardinality(S)) = Cardinality(S)
  <2>1. Cardinality(1 .. Cardinality(S))
          = IF 1 > Cardinality(S) THEN 0 ELSE Cardinality(S) - 1 + 1
    BY <1>1, FS_Interval
  <2> QED
    BY <1>1, <2>1
<1>5. s \in Surjection(1 .. Cardinality(S), S)
  BY <1>3, <1>4, FS_Injection
<1>6. Items(s) = S
  BY <1>5 DEF Surjection, Items
<1> QED
  BY <1>2, <1>6

\* One round of the stream.
LEMMA RoundFacts ==
    ASSUME WaitTypeOK, Round
    PROVE  /\ WaitTypeOK'
           /\ remaining' = remaining \ Completed(remaining)
           /\ Reported' = Reported \cup Completed(remaining)
           /\ /\ \A x, y \in DOMAIN items : items[x][1] = items[y][1] => x = y
              /\ Reported \cap remaining = {}
              => \A x, y \in DOMAIN items' : items'[x][1] = items'[y][1] => x = y
<1> DEFINE done == Completed(remaining)
<1>1. done \subseteq remaining /\ remaining \subseteq Asked
  BY DEF Completed, WaitTypeOK
<1>2. PICK C \in SUBSET Asked : C = done
  BY <1>1
<1>3. IsFiniteSet(C)
  BY WaitAssumption, FS_Subset
<1>4. PICK s \in [1 .. Cardinality(C) -> C] :
         /\ \A x, y \in DOMAIN s : s[x] = s[y] => x = y
         /\ items' = items \o [x \in DOMAIN s |-> Result(s[x])]
         /\ remaining' = remaining \ C
  BY <1>2 DEF Round
<1>5. s \in Seq(C) /\ Len(s) = Cardinality(C) /\ DOMAIN s = 1 .. Len(s) /\ Items(s) = C
  BY <1>3, <1>4, AllRowsCome
<1>6. PICK n \in Nat : n = Len(s)
  BY <1>5
<1>7. PICK Item : Item = Asked \X {"Ok", "Err"}
  OBVIOUS
<1>8. PICK r \in [1 .. n -> Item] : r = [x \in DOMAIN s |-> Result(s[x])]
  <2>1. ASSUME NEW x \in 1 .. n PROVE Result(s[x]) \in Item
    <3>1. s[x] \in Asked
      BY <1>4, <1>5, <1>6
    <3> QED
      BY <3>1, <1>7 DEF Result
  <2> QED
    BY <2>1, <1>5, <1>6
<1>9. r \in Seq(Item) /\ Len(r) = n /\ DOMAIN r = 1 .. n
  BY FunctionIsSeq
<1>10. \A x \in 1 .. n : r[x][1] = s[x] /\ s[x] \in C
  BY <1>4, <1>5, <1>6, <1>8 DEF Result
<1>11. items \in Seq(Item) /\ items' = items \o r
  BY <1>4, <1>7, <1>8 DEF WaitTypeOK
<1>12. PICK k \in Nat : k = Len(items)
  BY <1>11
<1>13. PICK old \in Seq(Item) : old = items
  BY <1>11
<1>14. /\ old \o r \in Seq(Item) /\ DOMAIN old = 1 .. k
       /\ DOMAIN (old \o r) = 1 .. k + n
       /\ \A x \in 1 .. k : (old \o r)[x] = old[x]
       /\ \A x \in k + 1 .. k + n : (old \o r)[x] = r[x - k]
  BY <1>9, <1>12, <1>13
<1>15. /\ items' \in Seq(Item) /\ DOMAIN items = 1 .. k
       /\ DOMAIN items' = 1 .. k + n
       /\ \A x \in 1 .. k : items'[x] = items[x]
       /\ \A x \in k + 1 .. k + n : items'[x] = r[x - k]
  BY <1>11, <1>13, <1>14
<1>16. WaitTypeOK'
  BY <1>15, <1>4, <1>7 DEF WaitTypeOK, Round
<1>17. Reported' = Reported \cup C
  <2>1. ASSUME NEW x \in 1 .. k + n PROVE items'[x][1] \in Reported \cup C
    <3>1. CASE x \in 1 .. k
      BY <3>1, <1>15 DEF Reported
    <3>2. CASE x \in k + 1 .. k + n
      BY <3>2, <1>10, <1>15
    <3> QED
      BY <3>1, <3>2
  <2>2. ASSUME NEW j \in Reported PROVE \E x \in 1 .. k + n : items'[x][1] = j
    <3>1. PICK x \in 1 .. k : items[x][1] = j
      BY <1>15 DEF Reported
    <3>2. x \in 1 .. k + n /\ items'[x][1] = j
      BY <3>1, <1>15
    <3> QED
      BY <3>2
  <2>3. ASSUME NEW j \in C PROVE \E x \in 1 .. k + n : items'[x][1] = j
    <3>1. PICK x \in 1 .. n : s[x] = j
      BY <1>5, <1>6 DEF Items
    <3>2. k + x \in k + 1 .. k + n /\ (k + x) - k = x /\ k + x \in 1 .. k + n
      OBVIOUS
    <3>3. items'[k + x] = r[x]
      BY <3>2, <1>15
    <3> QED
      BY <3>1, <3>2, <3>3, <1>10
  <2>4. Reported' = {items'[x][1] : x \in 1 .. k + n}
    BY <1>15 DEF Reported
  <2> HIDE DEF Reported
  <2> QED
    BY <2>1, <2>2, <2>3, <2>4
<1>18. ASSUME \A x, y \in DOMAIN items : items[x][1] = items[y][1] => x = y,
              Reported \cap remaining = {}
       PROVE  \A x, y \in DOMAIN items' : items'[x][1] = items'[y][1] => x = y
  <2>1. ASSUME NEW x \in 1 .. k, NEW y \in k + 1 .. k + n,
               items'[x][1] = items'[y][1]
        PROVE  FALSE
    <3>1. items'[x][1] \in Reported
      BY <2>1, <1>15 DEF Reported
    <3>2. items'[y][1] \in remaining
      <4>1. y - k \in 1 .. n
        OBVIOUS
      <4> QED
        BY <4>1, <1>10, <1>15, <1>1, <1>2
    <3> QED
      BY <3>1, <3>2, <2>1, <1>18
  <2>2. ASSUME NEW x \in k + 1 .. k + n, NEW y \in k + 1 .. k + n,
               items'[x][1] = items'[y][1]
        PROVE  x = y
    <3>1. x - k \in 1 .. n /\ y - k \in 1 .. n
      OBVIOUS
    <3>2. s[x - k] = s[y - k]
      BY <2>2, <3>1, <1>10, <1>15
    <3> QED
      BY <3>1, <3>2, <1>4, <1>5, <1>6
  <2>3. ASSUME NEW x \in 1 .. k, NEW y \in 1 .. k, items'[x][1] = items'[y][1]
        PROVE  x = y
    BY <2>3, <1>15, <1>18
  <2>4. \A x \in 1 .. k + n : x \in 1 .. k \/ x \in k + 1 .. k + n
    OBVIOUS
  <2> QED
    BY <2>1, <2>2, <2>3, <2>4, <1>15
<1> QED
  BY <1>2, <1>4, <1>16, <1>17, <1>18

\* Every step of the table and of the stream keeps WaitInv.
LEMMA WaitStep ==
    ASSUME TypeOK, WaitInv, [ReadersNext]_vars
    PROVE  WaitTypeOK' /\ WaitInv'
<1>0. WaitTypeOK /\ life \in [Job -> Life] /\ Reported \subseteq Job
  <2>1. WaitTypeOK /\ life \in [Job -> Life]
    BY DEF TypeOK
  <2>2. ASSUME NEW x \in DOMAIN items PROVE items[x][1] \in Asked
    BY <2>1 DEF WaitTypeOK
  <2> QED
    BY <2>1, <2>2, WaitAssumption DEF Reported
<1>1. ASSUME NEW j \in Reported, life[j].status \in Terminal \cup {"Purged"}
      PROVE  life'[j].status \in Terminal \cup {"Purged"}
  <2>1. CASE UNCHANGED life
    BY <1>1, <2>1
  <2>2. ASSUME NEW k \in Job, NEW m \in Life, JobStep(life[k], m),
               life' = [life EXCEPT ![k] = m]
        PROVE  life'[j].status \in Terminal \cup {"Purged"}
    <3>1. CASE k = j
      BY <1>0, <1>1, <2>2, <3>1, EndedStays
    <3>2. CASE k # j
      BY <1>0, <1>1, <2>2, <3>2
    <3> QED
      BY <3>1, <3>2
  <2> QED
    BY <2>1, <2>2, LifeSteps
<1>2. CASE UNCHANGED waitVars
  <2>1. UNCHANGED <<remaining, items, errors, ended>> /\ Reported' = Reported
    BY <1>2 DEF waitVars, Reported
  <2>2. WaitTypeOK'
    BY <1>0, <2>1 DEF WaitTypeOK
  <2>3. ReportedOnceAndFinal'
    BY <1>1, <2>1 DEF WaitInv, ReportedOnceAndFinal
  <2> QED
    BY <2>1, <2>2, <2>3 DEF WaitInv
<1>3. CASE Round /\ UNCHANGED life
  <2>1. /\ WaitTypeOK' /\ remaining' = remaining \ Completed(remaining)
        /\ Reported' = Reported \cup Completed(remaining)
        /\ \A x, y \in DOMAIN items' : items'[x][1] = items'[y][1] => x = y
        /\ UNCHANGED <<errors, ended, life>> /\ ~ended
    BY <1>0, <1>3, RoundFacts DEF WaitInv, ReportedOnceAndFinal, Round
  <2>2. /\ Completed(remaining) \subseteq remaining
        /\ \A j \in Completed(remaining) : life[j].status \in Terminal
    BY DEF Completed
  <2>3. \A j \in Reported' : life'[j].status \in Terminal \cup {"Purged"}
    BY <2>1, <2>2 DEF WaitInv, ReportedOnceAndFinal
  <2>4. ReportedOnceAndFinal'
    BY <2>1, <2>3 DEF ReportedOnceAndFinal
  <2>5. /\ Reported' \cap remaining' = {}
        /\ errors' = 0 => Reported' \cup remaining' = Asked
    BY <2>1, <2>2 DEF WaitInv
  <2> QED
    BY <2>1, <2>4, <2>5 DEF WaitInv
<1>4. CASE (RoundFails \/ End) /\ UNCHANGED life
  <2>1. /\ UNCHANGED <<items, life>> /\ Reported' = Reported
        /\ remaining' = {} /\ errors' \in Nat /\ ended' \in BOOLEAN
        /\ \/ errors' > 0
           \/ errors' = errors /\ remaining' = remaining
    <3>1. UNCHANGED <<items, life>> /\ remaining' = {}
      BY <1>4 DEF RoundFails, End
    <3>2. Reported' = Reported
      BY <3>1, Zenon DEF Reported
    <3>3. errors \in Nat /\ ended \in BOOLEAN
      BY <1>0 DEF WaitTypeOK
    <3>4. \/ errors' = errors + 1 /\ ended' = ended
          \/ errors' = errors /\ ended' = TRUE /\ remaining' = remaining
      BY <1>4 DEF RoundFails, End
    <3>5. ended' \in BOOLEAN
      BY <3>3, <3>4, Zenon
    <3>6. errors' = errors + 1 \/ (errors' = errors /\ remaining' = remaining)
      BY <3>4, Zenon
    <3>7. errors' \in Nat /\ (errors' > 0 \/ (errors' = errors /\ remaining' = remaining))
      BY <3>3, <3>6
    <3> QED
      BY <3>1, <3>2, <3>5, <3>7, Zenon
  <2>2. WaitTypeOK'
    BY <1>0, <2>1 DEF WaitTypeOK
  <2>3. ReportedOnceAndFinal'
    BY <2>1 DEF WaitInv, ReportedOnceAndFinal
  <2> QED
    BY <2>1, <2>2, <2>3 DEF WaitInv
<1>5. CASE Wait \/ WaitFails
  BY <1>3, <1>4, <1>5 DEF Wait, WaitFails
<1>6. CASE JobsMove \/ StampedJobsMove \/ TimePasses \/ WorkersMove \/ Read \/ List
  BY <1>2, <1>6 DEF JobsMove, StampedJobsMove, TimePasses, WorkersMove, Read, List
<1> QED
  BY <1>2, <1>5, <1>6 DEF ReadersNext, vars

-----------------------------------------------------------------------------
(* The timestamps of the rows. *)

\* An outcome has a time, and one that keeps its lock was locked before; the
\* times of the rows matter to list_queues only.
StampInv ==
    IF client = "list_queues"
    THEN \A j \in Job :
           /\ life[j].status \in {"Done", "Failed", "Killed"} => done_at[j] # NoTime
           /\ life[j].status \in {"Done", "Failed"} => lock_at[j] = "earlier"
           /\ life[j].status = "Killed" => lock_at[j] \in {"earlier", "none"}
    ELSE done_at = [j \in Job |-> NoTime]

\* Who may be reading never changes.
LEMMA SameClient ==
    ASSUME [ReadersNext]_vars
    PROVE  client' = client
BY DEF ReadersNext, JobsMove, StampedJobsMove, TimePasses, WorkersMove, Wait,
       WaitFails, Read, List, vars

\* Only a step of list_queues' jobs stamps a row, and time passes by one.
LEMMA TimeSteps ==
    ASSUME [ReadersNext]_vars
    PROVE  \/ UNCHANGED <<now, done_at, lock_at>>
           \/ TimePasses
           \/ /\ client = "list_queues" /\ UNCHANGED now
              /\ \E j \in Job, m \in Life : OneStep(j, m) /\ Stamp(j, m)
<1>1. CASE StampedJobsMove
  BY <1>1, ReadersAssumption DEF StampedJobsMove, StampedStep
<1>2. CASE TimePasses
  BY <1>2
<1>3. CASE JobsMove \/ WorkersMove \/ Wait \/ WaitFails \/ Read \/ List
  BY <1>3 DEF JobsMove, WorkersMove, Wait, WaitFails, Read, List, timeVars
<1> QED
  BY <1>1, <1>2, <1>3 DEF ReadersNext, vars, timeVars

\* What a stamped step leaves behind.
LEMMA StampFacts ==
    ASSUME now \in Time, done_at \in [Job -> MaybeTime], lock_at \in [Job -> LockOrder],
           NEW j \in Job, NEW m \in Life, Stamp(j, m)
    PROVE  /\ done_at' \in [Job -> MaybeTime] /\ lock_at' \in [Job -> LockOrder]
           /\ \A k \in Job \ {j} : done_at'[k] = done_at[k] /\ lock_at'[k] = lock_at[k]
           /\ m.status \in {"Done", "Failed", "Killed"} => done_at'[j] # NoTime
           /\ m.status \in {"Done", "Failed"} => lock_at'[j] = "earlier"
           /\ m.status = "Killed" => lock_at'[j] \in {"earlier", "none"}
<1>0. now # NoTime /\ now \in MaybeTime /\ NoTime \in MaybeTime
  BY BoardAssumption DEF Time, NoTime, MaybeTime
<1>1. CASE /\ Claim(life[j], m) \/ Start(life[j], m) \/ StartUnheard(life[j], m)
           /\ lock_at' = [lock_at EXCEPT ![j] = IF done_at[j] \in {NoTime, now}
                                                THEN "earlier" ELSE "later"]
           /\ UNCHANGED done_at
  BY <1>1 DEF LockOrder, Claim, Start, StartUnheard, At
<1>2. CASE /\ Record(life[j], m) \/ Refuse(life[j], m)
           /\ done_at' = [done_at EXCEPT ![j] = now]
           /\ lock_at' = [lock_at EXCEPT ![j] = "earlier"]
  BY <1>0, <1>2 DEF LockOrder
<1>3. CASE /\ Park(life[j], m)
           /\ done_at' = [done_at EXCEPT ![j] = now]
           /\ lock_at' = [lock_at EXCEPT ![j] = "none"]
  BY <1>0, <1>3 DEF LockOrder, Park, At
<1>4. CASE /\ Recover(life[j], m) \/ Vacuum(life[j], m)
           /\ done_at' = [done_at EXCEPT ![j] = NoTime]
           /\ lock_at' = [lock_at EXCEPT ![j] = "none"]
  BY <1>0, <1>4 DEF LockOrder, Recover, Vacuum, At
<1>5. CASE /\ Push(life[j], m) \/ Lose(life[j], m)
           /\ UNCHANGED <<done_at, lock_at>>
  BY <1>5 DEF Push, Lose, At
<1> QED
  BY <1>1, <1>2, <1>3, <1>4, <1>5 DEF Stamp

\* Every step keeps StampInv, and the clock and the stamps keep their types.
LEMMA StampStep ==
    ASSUME TypeOK, StampInv, [ReadersNext]_vars
    PROVE  /\ StampInv' /\ now' \in Time /\ now <= now'
           /\ done_at' \in [Job -> MaybeTime] /\ lock_at' \in [Job -> LockOrder]
<1>0. /\ now \in Time /\ now <= now /\ done_at \in [Job -> MaybeTime]
      /\ lock_at \in [Job -> LockOrder]
      /\ life \in [Job -> Life] /\ client' = client
  BY SameClient DEF TypeOK, BoardTypeOK, Time
<1>1. CASE TimePasses
  <2>1. /\ UNCHANGED <<life, done_at, lock_at>> /\ now' = now + 1 /\ now < MaxNow
    BY <1>1 DEF TimePasses, Tick
  <2>2. now' \in Time /\ now <= now'
    BY <1>0, <2>1, BoardAssumption DEF Time
  <2> QED
    BY <1>0, <2>1, <2>2 DEF StampInv
<1>2. ASSUME client = "list_queues", UNCHANGED now, NEW j \in Job, NEW m \in Life,
             OneStep(j, m), Stamp(j, m)
      PROVE  /\ StampInv'
             /\ done_at' \in [Job -> MaybeTime] /\ lock_at' \in [Job -> LockOrder]
  <2>1. /\ life' = [life EXCEPT ![j] = m] /\ life'[j] = m
        /\ \A k \in Job \ {j} : life'[k] = life[k]
    BY <1>0, <1>2 DEF OneStep
  <2> QED
    BY <1>0, <1>2, <2>1, StampFacts DEF StampInv
<1>3. CASE UNCHANGED <<now, done_at, lock_at>> /\ UNCHANGED life
  BY <1>0, <1>3 DEF StampInv
<1>4. CASE UNCHANGED <<now, done_at, lock_at>> /\ client # "list_queues"
  BY <1>0, <1>4 DEF StampInv
<1>5. CASE client = "list_queues" /\ UNCHANGED <<now, done_at, lock_at>>
  <2>1. UNCHANGED life \/ StampedJobsMove
    BY <1>5 DEF ReadersNext, JobsMove, TimePasses, WorkersMove, Wait, WaitFails,
                Read, List, vars
  <2>2. CASE StampedJobsMove
    BY <1>0, <1>2, <2>2, ReadersAssumption DEF StampedJobsMove, StampedStep
  <2> QED
    BY <1>3, <1>5, <2>1, <2>2
<1> QED
  BY <1>0, <1>1, <1>2, <1>4, <1>5, TimeSteps

-----------------------------------------------------------------------------
(* The statements of the board. *)

\* The least of a non-empty set of times is chosen.
LEMMA LeastIsChosen ==
    ASSUME NEW S \in SUBSET Nat, S # {}
    PROVE  (CHOOSE t \in S : \A u \in S : t <= u) \in S
<1>1. PICK n \in S : \A m \in S : n <= m
  BY NatMin
<1> QED
  BY <1>1

\* What the first two statements answer for a group: numbers of rows, and an
\* oldest job exactly if there is a backlog.
LEMMA CountsAndOldest ==
    ASSUME NEW g
    PROVE  /\ CountsOf(g) \in [total : Nat, done : Nat, backlog : Nat]
           /\ OldestOf(g) \in (Nat \ {0}) \cup {NoTime}
           /\ CountsOf(g).backlog > 0 <=> OldestOf(g) # NoTime
<1>1. ASSUME NEW S \in SUBSET Job
      PROVE  /\ IsFiniteSet(S) /\ Cardinality(S) \in Nat
             /\ Cardinality(S) > 0 <=> S # {}
  <2>1. IsFiniteSet(S)
    BY BoardAssumption, FS_Subset
  <2>2. Cardinality(S) \in Nat /\ (Cardinality(S) = 0 <=> S = {})
    BY <2>1, FS_CardinalityType, FS_EmptySet
  <2> QED
    BY <2>1, <2>2
<1>2. /\ RowsOf(g) \subseteq Job /\ WithStatus(g, "Done") \subseteq Job
      /\ Backlog(g) \subseteq Job
  BY DEF RowsOf, WithStatus, Backlog
<1>3. /\ CountsOf(g) \in [total : Nat, done : Nat, backlog : Nat]
      /\ CountsOf(g).backlog > 0 <=> Backlog(g) # {}
  BY <1>1, <1>2 DEF CountsOf
<1>4. PICK T \in SUBSET (Nat \ {0}) : T = {RunAt[j] : j \in Backlog(g)}
  BY <1>2, BoardAssumption
<1>5. T = {} <=> Backlog(g) = {}
  BY <1>4
<1>6. OldestOf(g) = IF T = {} THEN NoTime ELSE CHOOSE t \in T : \A u \in T : t <= u
  BY <1>4 DEF OldestOf
<1>7. /\ OldestOf(g) \in (Nat \ {0}) \cup {NoTime}
      /\ OldestOf(g) = NoTime <=> T = {}
  <2>1. CASE T = {}
    BY <1>6, <2>1
  <2>2. CASE T # {}
    <3>1. OldestOf(g) \in T
      BY <1>6, <2>2, LeastIsChosen
    <3>2. \A n \in Nat : n # NoTime
      BY DEF NoTime
    <3>3. OldestOf(g) \in Nat \ {0}
      BY <3>1
    <3> HIDE DEF NoTime
    <3> QED
      BY <3>2, <3>3, <2>2
  <2> QED
    BY <2>1, <2>2
<1> QED
  BY <1>3, <1>5, <1>7

\* What the third answers: for each day no more tasks than are done.
LEMMA ActivityFacts ==
    ASSUME NEW g
    PROVE  /\ ActivityOf(g) \in [Day -> Nat]
           /\ \A t \in Day : ActivityOf(g)[t] <= CountsOf(g).done
<1>1. PICK D \in SUBSET Job : D = WithStatus(g, "Done")
  BY DEF WithStatus, RowsOf
<1>2. IsFiniteSet(D)
  BY BoardAssumption, FS_Subset
<1>3. ASSUME NEW t \in Day
      PROVE  /\ ActivityOf(g)[t] \in Nat
             /\ ActivityOf(g)[t] <= Cardinality(D)
  <2>1. PICK F \in SUBSET D : F = {j \in D : InWindow(j) /\ DayOf(done_at[j]) = t}
    OBVIOUS
  <2>2. ActivityOf(g)[t] = Cardinality(F)
    BY <1>1, <2>1 DEF ActivityOf
  <2>3. IsFiniteSet(F) /\ Cardinality(F) <= Cardinality(D)
    BY <1>2, FS_Subset
  <2> QED
    BY <2>2, <2>3, FS_CardinalityType
<1>4. CountsOf(g).done = Cardinality(D)
  BY <1>1 DEF CountsOf
<1>5. ActivityOf(g) = [t \in Day |-> ActivityOf(g)[t]]
  BY DEF ActivityOf
<1> QED
  BY <1>3, <1>4, <1>5

\* The statements answer the same as long as the rows and the clock stand still.
LEMMA SameAnswers ==
    ASSUME UNCHANGED <<life, timeVars>>
    PROVE  \A g : /\ CountsOf(g)' = CountsOf(g) /\ OldestOf(g)' = OldestOf(g)
                  /\ ActivityOf(g)' = ActivityOf(g)
<1>1. life' = life /\ now' = now /\ done_at' = done_at
  BY DEF timeVars
<1> QED
  BY <1>1 DEF CountsOf, OldestOf, ActivityOf, RowsOf, Row, WithStatus, Backlog,
              InWindow

\* A step leaves the call and the table it reads alone, disturbs the call, or is
\* a statement of it.
LEMMA BoardSteps ==
    ASSUME [ReadersNext]_vars
    PROVE  \/ UNCHANGED <<life, timeVars, boardVars>>
           \/ Disturbed
           \/ Read
<1>1. CASE JobsMove \/ StampedJobsMove \/ TimePasses
  BY <1>1 DEF JobsMove, StampedJobsMove, StampedStep, TimePasses, Tick
<1>2. CASE WorkersMove \/ Wait \/ WaitFails \/ List
  BY <1>2 DEF WorkersMove, Wait, WaitFails, List
<1> QED
  BY <1>1, <1>2 DEF ReadersNext, vars

\* The first statement.
LEMMA CountsRead ==
    ASSUME board \in Call, NEW groups \in SUBSET Group, ReadCounts(groups)
    PROVE  /\ board' \in Call /\ board'.groups = groups /\ board'.stage = "oldest"
           /\ \A g \in groups : board'.counts[g] = CountsOf(g)
           /\ \A g \in Group \ groups : board'.counts[g] = NoCounts
           /\ board'.bars = board.bars /\ board'.listed = board.listed
<1>1. PICK cs : cs = [g \in Group |-> IF g \in groups THEN CountsOf(g) ELSE NoCounts]
  OBVIOUS
<1>2. board' = [board EXCEPT !.groups = groups, !.counts = cs, !.stage = "oldest"]
  BY <1>1 DEF ReadCounts
<1>3. NoCounts \in [total : Nat, done : Nat, backlog : Nat]
  BY DEF NoCounts
<1>4. cs \in [Group -> [total : Nat, done : Nat, backlog : Nat]]
  BY <1>1, <1>3, CountsAndOldest
<1>5. /\ board' \in Call /\ board'.groups = groups /\ board'.stage = "oldest"
      /\ board'.counts = cs
      /\ board'.bars = board.bars /\ board'.listed = board.listed
  BY <1>2, <1>4 DEF Call, Stage
<1> QED
  BY <1>1, <1>5

\* The second.
LEMMA OldestRead ==
    ASSUME board \in Call, ReadOldest
    PROVE  /\ board' \in Call /\ board'.stage = "activity"
           /\ \A g \in board.groups : board'.oldest[g] = OldestOf(g)
           /\ board'.groups = board.groups /\ board'.counts = board.counts
           /\ board'.bars = board.bars /\ board'.listed = board.listed
<1>1. PICK os : os = [g \in Group |-> IF g \in board.groups THEN OldestOf(g) ELSE NoTime]
  OBVIOUS
<1>2. board' = [board EXCEPT !.oldest = os, !.stage = "activity"]
  BY <1>1 DEF ReadOldest
<1>3. board.groups \subseteq Group
  BY DEF Call
<1>4. os \in [Group -> Nat \cup {NoTime}]
  BY <1>1, CountsAndOldest
<1>5. /\ board' \in Call /\ board'.stage = "activity" /\ board'.oldest = os
      /\ board'.groups = board.groups /\ board'.counts = board.counts
      /\ board'.bars = board.bars /\ board'.listed = board.listed
  BY <1>2, <1>4 DEF Call, Stage
<1> QED
  BY <1>1, <1>3, <1>5

\* The third.
LEMMA ActivityRead ==
    ASSUME board \in Call, ReadActivity
    PROVE  /\ board' \in Call /\ board'.stage = "assemble"
           /\ \A g \in board.groups : board'.activity[g] = ActivityOf(g)
           /\ board'.groups = board.groups /\ board'.counts = board.counts
           /\ board'.oldest = board.oldest
           /\ board'.bars = board.bars /\ board'.listed = board.listed
<1>1. PICK as : as = [g \in Group |-> IF g \in board.groups THEN ActivityOf(g)
                                      ELSE board.activity[g]]
  OBVIOUS
<1>2. board' = [board EXCEPT !.activity = as, !.stage = "assemble"]
  BY <1>1 DEF ReadActivity
<1>3. board.groups \subseteq Group /\ board.activity \in [Group -> [Day -> Nat]]
  BY DEF Call
<1>4. as \in [Group -> [Day -> Nat]]
  BY <1>1, <1>3, ActivityFacts
<1>5. /\ board' \in Call /\ board'.stage = "assemble" /\ board'.activity = as
      /\ board'.groups = board.groups /\ board'.counts = board.counts
      /\ board'.oldest = board.oldest
      /\ board'.bars = board.bars /\ board'.listed = board.listed
  BY <1>2, <1>4 DEF Call, Stage
<1> QED
  BY <1>1, <1>3, <1>5

\* What build_statistics makes of two answers.
LEMMA BuiltStatistics ==
    ASSUME NEW counts \in [total : Nat, done : Nat, backlog : Nat],
           NEW oldest \in Nat \cup {NoTime}
    PROVE  /\ BuildStatistics(counts, oldest) \in [done : Nat, backlog : Nat, oldest : Nat]
           /\ BuildStatistics(counts, oldest).done = counts.done
           /\ BuildStatistics(counts, oldest).backlog = counts.backlog
           /\ BuildStatistics(counts, oldest).oldest
                = IF oldest = NoTime THEN 0 ELSE oldest
BY DEF BuildStatistics

\* The second statement of global and fetch_by_queue.
LEMMA MetricsEnd ==
    ASSUME board \in Call, ReadOldestAndEnd
    PROVE  /\ board' \in Call /\ board'.stage = "done"
           /\ \A g \in board.groups :
                board'.stats[g] = BuildStatistics(board.counts[g], OldestOf(g))
           /\ board'.groups = board.groups /\ board'.counts = board.counts
           /\ board'.bars = board.bars /\ board'.listed = board.listed
<1>1. PICK ss : ss = [g \in Group |-> IF g \in board.groups
                        THEN BuildStatistics(board.counts[g], OldestOf(g))
                        ELSE board.stats[g]]
  OBVIOUS
<1>2. board' = [board EXCEPT !.stats = ss, !.stage = "done"]
  BY <1>1 DEF ReadOldestAndEnd
<1>3. /\ board.groups \subseteq Group
      /\ board.counts \in [Group -> [total : Nat, done : Nat, backlog : Nat]]
      /\ board.stats \in [Group -> [done : Nat, backlog : Nat, oldest : Nat]]
  BY DEF Call
<1>4. ss \in [Group -> [done : Nat, backlog : Nat, oldest : Nat]]
  BY <1>1, <1>3, CountsAndOldest, BuiltStatistics
<1>5. /\ board' \in Call /\ board'.stage = "done" /\ board'.stats = ss
      /\ board'.groups = board.groups /\ board'.counts = board.counts
      /\ board'.bars = board.bars /\ board'.listed = board.listed
  BY <1>2, <1>4 DEF Call, Stage
<1> QED
  BY <1>1, <1>3, <1>5

-----------------------------------------------------------------------------
(* Days. *)

\* Division of a time by the length of a day.
LEMMA DivFacts ==
    ASSUME NEW n \in Nat, NEW d \in Nat \ {0}
    PROVE  n \div d \in Nat /\ (n \div d) * d <= n /\ n < (n \div d) * d + d
OBVIOUS

\* Multiplication by it.
LEMMA MulFacts ==
    ASSUME NEW a \in Int, NEW b \in Int, NEW d \in Nat \ {0}
    PROVE  /\ a * d \in Int /\ (a + b) * d = a * d + b * d
           /\ a * d = b * d => a = b
           /\ a <= b => a * d <= b * d
OBVIOUS

\* A multiple of it.
LEMMA ModFacts ==
    ASSUME NEW n \in Nat, NEW d \in Nat \ {0}
    PROVE  (n * d) % d = 0
OBVIOUS

\* The rows of R that the third statement, sent at time n, counts for group g on
\* the day that begins at t, and those a bar of day e is to show.
Counted(R, g, n, t) ==
    {r \in R : /\ QueueOf[r[1]] \in g
               /\ r[2] >= n - ActivityDays * DayLength
               /\ DayOf(r[2]) = t}

OnDay(R, g, e) == {r \in R : QueueOf[r[1]] \in g /\ r[2] \div DayLength = e}

\* The window of the statement holds every day of the chart whole, if the chart
\* is made no earlier.
LEMMA WindowIsWideEnough ==
    ASSUME NEW R \in SUBSET (Job \X Time), NEW g, NEW n \in Time, NEW m \in Time,
           n <= m, NEW k \in 1 .. ActivityDays, NEW e \in Int,
           e = (m \div DayLength) - (ActivityDays - k)
    PROVE  /\ e * DayLength \in Day =>
                Counted(R, g, n, e * DayLength) = OnDay(R, g, e)
           /\ e * DayLength \notin Day => OnDay(R, g, e) = {}
<1>1. /\ DayLength \in Nat \ {0} /\ ActivityDays \in Nat \ {0} /\ MaxNow \in Nat
      /\ n \in Nat /\ m \in Nat /\ m <= MaxNow
  BY BoardAssumption DEF Time
<1>2. PICK q \in Nat : q = m \div DayLength
  BY <1>1, DivFacts
<1>3. m < q * DayLength + DayLength
  BY <1>1, <1>2, DivFacts
<1>4. n - ActivityDays * DayLength <= e * DayLength
  <2>1. q + 1 <= e + ActivityDays
    BY <1>1, <1>2
  <2>2. (q + 1) * DayLength <= (e + ActivityDays) * DayLength
    BY <1>1, <2>1, MulFacts
  <2>3. /\ (q + 1) * DayLength = q * DayLength + DayLength
        /\ (e + ActivityDays) * DayLength = e * DayLength + ActivityDays * DayLength
        /\ q * DayLength \in Int /\ e * DayLength \in Int
        /\ ActivityDays * DayLength \in Int
    BY <1>1, MulFacts
  <2> QED
    BY <1>1, <1>3, <2>2, <2>3
<1>5. ASSUME NEW r \in R
      PROVE  /\ r[2] \in Nat /\ r[2] <= MaxNow
             /\ DayOf(r[2]) = e * DayLength <=> r[2] \div DayLength = e
             /\ r[2] \div DayLength = e =>
                  /\ r[2] >= n - ActivityDays * DayLength
                  /\ e * DayLength \in Day
  <2>1. r[2] \in Nat /\ r[2] <= MaxNow
    BY <1>1 DEF Time
  <2>2. PICK x \in Nat : x = r[2]
    BY <2>1
  <2>3. PICK y \in Nat : y = x \div DayLength
    BY <1>1, DivFacts
  <2>4. y * DayLength <= x /\ DayOf(r[2]) = y * DayLength
    BY <1>1, <2>2, <2>3, DivFacts DEF DayOf
  <2>5. y * DayLength = e * DayLength <=> y = e
    BY <1>1, MulFacts
  <2>6. ASSUME y = e
        PROVE  x >= n - ActivityDays * DayLength /\ e * DayLength \in Day
    <3>1. (e * DayLength) % DayLength = 0
      BY <1>1, <2>6, ModFacts
    <3>2. e * DayLength \in Nat /\ e * DayLength <= x
      BY <1>1, <2>4, <2>6, MulFacts
    <3>3. n - ActivityDays * DayLength \in Int
      BY <1>1, MulFacts
    <3>4. x >= n - ActivityDays * DayLength
      BY <1>4, <3>2, <3>3
    <3>5. e * DayLength \in Time
      BY <1>1, <2>1, <2>2, <3>2 DEF Time
    <3> QED
      BY <3>1, <3>4, <3>5 DEF Day
  <2> QED
    BY <2>1, <2>2, <2>3, <2>4, <2>5, <2>6
<1> QED
  BY <1>5 DEF Counted, OnDay

\* Each bar is the number of the rows of its day.
LEMMA BarsCountDays ==
    ASSUME NEW R \in SUBSET (Job \X Time), NEW g, NEW n \in Time, NEW m \in Time,
           n <= m, NEW act \in [Day -> Nat],
           \A t \in Day : act[t] = Cardinality(Counted(R, g, n, t)),
           NEW k \in 1 .. ActivityDays
    PROVE  BarsOf(act, m \div DayLength)[k] =
             Cardinality(OnDay(R, g, (m \div DayLength) - (ActivityDays - k)))
<1>1. PICK q \in Nat : q = m \div DayLength
  BY BoardAssumption, DivFacts DEF Time
<1>2. PICK e \in Int : e = q - (ActivityDays - k)
  BY <1>1, BoardAssumption
<1>3. BarsOf(act, q)[k] = IF e * DayLength \in Day THEN act[e * DayLength] ELSE 0
  BY <1>2 DEF BarsOf
<1>4. /\ e * DayLength \in Day => Counted(R, g, n, e * DayLength) = OnDay(R, g, e)
      /\ e * DayLength \notin Day => OnDay(R, g, e) = {}
  BY <1>1, <1>2, WindowIsWideEnough
<1> QED
  BY <1>1, <1>2, <1>3, <1>4, FS_EmptySet

\* A chart has a bar for each day, none of them higher than the answer.
LEMMA BarsType ==
    ASSUME NEW act \in [Day -> Nat], NEW today
    PROVE  /\ BarsOf(act, today) \in [1 .. ActivityDays -> Nat]
           /\ \A N \in Nat : (\A t \in Day : act[t] <= N) =>
                \A k \in 1 .. ActivityDays : BarsOf(act, today)[k] <= N
<1>1. ASSUME NEW k \in 1 .. ActivityDays
      PROVE  /\ BarsOf(act, today)[k] \in Nat
             /\ \A N \in Nat : (\A t \in Day : act[t] <= N) => BarsOf(act, today)[k] <= N
  BY DEF BarsOf
<1>2. BarsOf(act, today) = [k \in 1 .. ActivityDays |-> BarsOf(act, today)[k]]
  BY DEF BarsOf
<1> QED
  BY <1>1, <1>2

\* The third statement counts the rows that done_rows remembers.
LEMMA ActivityCounts ==
    ASSUME done_at \in [Job -> MaybeTime], NEW g, NEW t \in Day, ReadActivity
    PROVE  ActivityOf(g)[t] = Cardinality(Counted(done_rows', g, now, t))
<1>1. PICK D \in SUBSET Job : D = {j \in WithStatus(g, "Done") :
                                     InWindow(j) /\ DayOf(done_at[j]) = t}
  BY DEF WithStatus, RowsOf
<1>2. ActivityOf(g)[t] = Cardinality(D)
  BY <1>1 DEF ActivityOf
<1>3. PICK T : T = Counted(done_rows', g, now, t)
  OBVIOUS
<1>4. PICK f : f = [j \in D |-> <<j, done_at[j]>>]
  OBVIOUS
<1>5. ASSUME NEW j \in D PROVE f[j] \in T
  <2>1. /\ j \in Job /\ j \in WithStatus(g, "Done") /\ InWindow(j)
        /\ DayOf(done_at[j]) = t
    BY <1>1
  <2>2. j \in WithStatus(Queue, "Done") /\ QueueOf[j] \in g
    BY <2>1, BoardAssumption DEF WithStatus, RowsOf
  <2>3. f[j] = <<j, done_at[j]>> /\ f[j] \in done_rows'
    BY <1>4, <2>2 DEF ReadActivity
  <2> QED
    BY <1>3, <2>1, <2>2, <2>3 DEF Counted, InWindow
<1>6. ASSUME NEW r \in T PROVE \E j \in D : f[j] = r
  <2>1. /\ r \in done_rows' /\ QueueOf[r[1]] \in g
        /\ r[2] >= now - ActivityDays * DayLength /\ DayOf(r[2]) = t
    BY <1>3 DEF Counted
  <2>2. PICK j \in WithStatus(Queue, "Done") : r = <<j, done_at[j]>>
    BY <2>1 DEF ReadActivity
  <2>3. j \in WithStatus(g, "Done")
    BY <2>1, <2>2 DEF WithStatus, RowsOf
  <2>4. j \in D
    BY <1>1, <2>1, <2>2, <2>3 DEF InWindow
  <2> QED
    BY <1>4, <2>2, <2>4
<1>7. f \in Surjection(D, T) /\ f \in Injection(D, T)
  BY <1>4, <1>5, <1>6 DEF Surjection, Injection, IsInjective
<1>8. IsFiniteSet(D)
  BY BoardAssumption, FS_Subset
<1>9. Cardinality(T) = Cardinality(D)
  BY <1>7, <1>8, FS_Surjection
<1> QED
  BY <1>2, <1>3, <1>9

\* The client puts the answers together.
LEMMA Assembled ==
    ASSUME board \in Call, now \in Time, Assemble
    PROVE  /\ board' \in Call /\ board'.stage = "done"
           /\ board'.groups = board.groups /\ board'.counts = board.counts
           /\ board'.today = now \div DayLength
           /\ \A g \in Group :
                IF g \in board.groups /\ board.counts[g].total > 0
                THEN /\ board'.stats[g] = BuildStatistics(board.counts[g], board.oldest[g])
                     /\ board'.bars[g] = BarsOf(board.activity[g], now \div DayLength)
                ELSE /\ board'.stats[g] = BuildStatistics(NoCounts, NoTime)
                     /\ board'.bars[g] = NoBars
<1>1. PICK today \in Nat : today = now \div DayLength
  BY BoardAssumption, DivFacts DEF Time
<1>2. PICK known \in SUBSET Group :
         known = {g \in board.groups : board.counts[g].total > 0}
  BY DEF Call
<1>3. PICK ss : ss = [g \in Group |-> IF g \in known
                        THEN BuildStatistics(board.counts[g], board.oldest[g])
                        ELSE BuildStatistics(NoCounts, NoTime)]
  OBVIOUS
<1>4. PICK bs : bs = [g \in Group |-> IF g \in known
                                      THEN BarsOf(board.activity[g], today)
                                      ELSE NoBars]
  OBVIOUS
<1>5. PICK staffed \in SUBSET PerQueue :
         board' = [board EXCEPT !.listed = known \cup staffed, !.stats = ss,
                                !.bars = bs, !.today = today, !.stage = "done"]
  BY <1>1, <1>2, <1>3, <1>4 DEF Assemble
<1>6. known \cup staffed \in SUBSET Group
  BY DEF Group
<1>7. /\ board.counts \in [Group -> [total : Nat, done : Nat, backlog : Nat]]
      /\ board.oldest \in [Group -> Nat \cup {NoTime}]
      /\ board.activity \in [Group -> [Day -> Nat]]
  BY DEF Call
<1>8. ss \in [Group -> [done : Nat, backlog : Nat, oldest : Nat]]
  <2>1. NoCounts \in [total : Nat, done : Nat, backlog : Nat]
    BY DEF NoCounts
  <2> QED
    BY <1>3, <1>7, <2>1, BuiltStatistics
<1>9. bs \in [Group -> [1 .. ActivityDays -> Nat]]
  <2>1. NoBars \in [1 .. ActivityDays -> Nat]
    BY DEF NoBars
  <2> QED
    BY <1>4, <1>7, <2>1, BarsType
<1>10. /\ board' \in Call /\ board'.stage = "done" /\ board'.stats = ss
       /\ board'.groups = board.groups /\ board'.counts = board.counts
       /\ board'.bars = bs /\ board'.today = today
  BY <1>5, <1>6, <1>8, <1>9 DEF Call, Stage
<1> QED
  BY <1>1, <1>2, <1>3, <1>4, <1>10

-----------------------------------------------------------------------------
(* The calls of the board. *)

\* As long as a call is undisturbed, what it has read is what its statements
\* would answer now.
AnswersStand ==
    quiet =>
        /\ board.stage \in {"oldest", "activity", "assemble"} =>
             \A g \in board.groups : board.counts[g] = CountsOf(g)
        /\ board.stage \in {"activity", "assemble"} =>
             \A g \in board.groups : board.oldest[g] = OldestOf(g)
        /\ board.stage = "assemble" =>
             \A g \in board.groups : board.activity[g] = ActivityOf(g)

\* The activity was counted at some time n until now.
ActivityStands ==
    board.stage = "assemble" =>
        \E n \in Time :
            /\ n <= now
            /\ \A g \in board.groups, t \in Day :
                 board.activity[g][t] = Cardinality(Counted(done_rows, g, n, t))

\* Nothing is said of other groups, and nothing is shown before the end.
NothingElse ==
    /\ board.stage # "counts" =>
         \A g \in Group \ board.groups : board.counts[g] = NoCounts
    /\ board.stage # "done" =>
         board.listed = {} /\ \A g \in Group : board.bars[g] = NoBars

BoardInv ==
    /\ AnswersStand /\ ActivityStands /\ NothingElse
    /\ QuietBoardAgrees /\ BarsAreWholeDays

\* The rows remembered have times.
LEMMA DoneRowsType ==
    ASSUME TypeOK, StampInv, client = "list_queues", ReadActivity
    PROVE  done_rows' \in SUBSET (Job \X Time)
<1>1. /\ done_at \in [Job -> MaybeTime]
      /\ done_rows' = {<<j, done_at[j]>> : j \in WithStatus(Queue, "Done")}
  BY DEF TypeOK, BoardTypeOK, ReadActivity
<1>2. ASSUME NEW j \in WithStatus(Queue, "Done")
      PROVE  j \in Job /\ done_at[j] \in Time
  <2>1. j \in Job /\ life[j].status = "Done"
    BY DEF WithStatus, RowsOf
  <2> QED
    BY <1>1, <2>1 DEF StampInv, MaybeTime
<1> QED
  BY <1>1, <1>2

\* Nothing is read and nothing has changed.
LEMMA BoardRests ==
    ASSUME BoardInv, UNCHANGED <<life, timeVars, boardVars>>
    PROVE  BoardInv'
<1>1. UNCHANGED <<now, board, quiet, done_rows>>
  BY DEF timeVars, boardVars
<1>2. AnswersStand'
  BY <1>1, SameAnswers DEF BoardInv, AnswersStand
<1>3. ActivityStands' /\ NothingElse'
  BY <1>1 DEF BoardInv, ActivityStands, NothingElse
<1>4. QuietBoardAgrees' /\ BarsAreWholeDays'
  BY <1>1 DEF BoardInv, QuietBoardAgrees, BarsAreWholeDays
<1> QED
  BY <1>2, <1>3, <1>4 DEF BoardInv

\* The table or the clock has moved on.
LEMMA BoardDisturbed ==
    ASSUME BoardInv, Disturbed, now \in Time, now' \in Time, now <= now'
    PROVE  BoardInv'
<1>1. UNCHANGED <<board, done_rows>> /\ quiet' = (board.stage = "counts")
  BY DEF Disturbed
<1>2. AnswersStand' /\ QuietBoardAgrees'
  BY <1>1 DEF AnswersStand, QuietBoardAgrees
<1>3. NothingElse' /\ BarsAreWholeDays'
  BY <1>1 DEF BoardInv, NothingElse, BarsAreWholeDays
<1>4. ActivityStands'
  <2>1. ASSUME board.stage = "assemble", NEW n \in Time, n <= now
        PROVE  n <= now'
    BY <2>1 DEF Time
  <2> QED
    BY <1>1, <2>1 DEF BoardInv, ActivityStands
<1> QED
  BY <1>2, <1>3, <1>4 DEF BoardInv

\* A statement that is not the last.
LEMMA StatementRead ==
    ASSUME TypeOK, StampInv, BoardInv, UNCHANGED <<life, timeVars>>,
           \/ \E groups \in SUBSET Group : ReadCounts(groups)
           \/ ReadOldest
           \/ ReadActivity /\ client = "list_queues"
    PROVE  board' \in Call /\ done_rows' \in SUBSET (Job \X Time) /\ BoardInv'
<1>0. /\ board \in Call /\ now \in Time /\ done_at \in [Job -> MaybeTime]
      /\ done_rows \in SUBSET (Job \X Time) /\ UNCHANGED now
  BY DEF TypeOK, BoardTypeOK, timeVars
<1>1. ASSUME NEW groups \in SUBSET Group, ReadCounts(groups)
      PROVE  board' \in Call /\ done_rows' \in SUBSET (Job \X Time) /\ BoardInv'
  <2>1. UNCHANGED <<quiet, done_rows>> /\ board.stage = "counts"
    BY <1>1 DEF ReadCounts
  <2>2. /\ board' \in Call /\ board'.groups = groups /\ board'.stage = "oldest"
        /\ \A g \in groups : board'.counts[g] = CountsOf(g)
        /\ \A g \in Group \ groups : board'.counts[g] = NoCounts
        /\ board'.bars = board.bars /\ board'.listed = board.listed
    BY <1>0, <1>1, CountsRead
  <2>3. AnswersStand'
    BY <2>2, SameAnswers DEF AnswersStand
  <2>4. NothingElse'
    BY <2>1, <2>2 DEF BoardInv, NothingElse
  <2>5. ActivityStands' /\ QuietBoardAgrees' /\ BarsAreWholeDays'
    BY <2>2 DEF ActivityStands, QuietBoardAgrees, BarsAreWholeDays
  <2> QED
    BY <1>0, <2>1, <2>2, <2>3, <2>4, <2>5 DEF BoardInv
<1>2. ASSUME ReadOldest
      PROVE  board' \in Call /\ done_rows' \in SUBSET (Job \X Time) /\ BoardInv'
  <2>1. UNCHANGED <<quiet, done_rows>> /\ board.stage = "oldest"
    BY <1>2 DEF ReadOldest
  <2>2. /\ board' \in Call /\ board'.stage = "activity"
        /\ \A g \in board.groups : board'.oldest[g] = OldestOf(g)
        /\ board'.groups = board.groups /\ board'.counts = board.counts
        /\ board'.bars = board.bars /\ board'.listed = board.listed
    BY <1>0, <1>2, OldestRead
  <2>3. AnswersStand'
    BY <2>1, <2>2, SameAnswers DEF BoardInv, AnswersStand
  <2>4. NothingElse'
    BY <2>1, <2>2 DEF BoardInv, NothingElse
  <2>5. ActivityStands' /\ QuietBoardAgrees' /\ BarsAreWholeDays'
    BY <2>2 DEF ActivityStands, QuietBoardAgrees, BarsAreWholeDays
  <2> QED
    BY <1>0, <2>1, <2>2, <2>3, <2>4, <2>5 DEF BoardInv
<1>3. ASSUME ReadActivity, client = "list_queues"
      PROVE  board' \in Call /\ done_rows' \in SUBSET (Job \X Time) /\ BoardInv'
  <2>1. UNCHANGED quiet /\ board.stage = "activity"
    BY <1>3 DEF ReadActivity
  <2>2. /\ board' \in Call /\ board'.stage = "assemble"
        /\ \A g \in board.groups : board'.activity[g] = ActivityOf(g)
        /\ board'.groups = board.groups /\ board'.counts = board.counts
        /\ board'.oldest = board.oldest
        /\ board'.bars = board.bars /\ board'.listed = board.listed
    BY <1>0, <1>3, ActivityRead
  <2>3. AnswersStand'
    BY <2>1, <2>2, SameAnswers DEF BoardInv, AnswersStand
  <2>4. NothingElse'
    BY <2>1, <2>2 DEF BoardInv, NothingElse
  <2>5. QuietBoardAgrees' /\ BarsAreWholeDays'
    BY <2>2 DEF QuietBoardAgrees, BarsAreWholeDays
  <2>6. ActivityStands'
    <3>1. now \in Time /\ now <= now' /\ now' = now
      BY <1>0 DEF Time
    <3>2. ASSUME NEW g \in board.groups, NEW t \in Day
          PROVE  board'.activity[g][t] = Cardinality(Counted(done_rows', g, now, t))
      BY <1>0, <1>3, <2>2, ActivityCounts
    <3> QED
      BY <2>2, <3>1, <3>2 DEF ActivityStands
  <2>7. done_rows' \in SUBSET (Job \X Time)
    BY <1>3, DoneRowsType
  <2> QED
    BY <2>2, <2>3, <2>4, <2>5, <2>6, <2>7 DEF BoardInv
<1> QED
  BY <1>1, <1>2, <1>3

\* global and fetch_by_queue end: an oldest job belongs to a backlog.
LEMMA MetricsRead ==
    ASSUME TypeOK, BoardInv, UNCHANGED <<life, timeVars>>, ReadOldestAndEnd
    PROVE  board' \in Call /\ done_rows' \in SUBSET (Job \X Time) /\ BoardInv'
<1>0. board \in Call /\ done_rows \in SUBSET (Job \X Time)
  BY DEF TypeOK, BoardTypeOK
<1>1. UNCHANGED <<quiet, done_rows>> /\ board.stage = "oldest"
  BY DEF ReadOldestAndEnd
<1>2. /\ board' \in Call /\ board'.stage = "done"
      /\ \A g \in board.groups :
           board'.stats[g] = BuildStatistics(board.counts[g], OldestOf(g))
      /\ board'.groups = board.groups /\ board'.counts = board.counts
      /\ board'.bars = board.bars /\ board'.listed = board.listed
  BY <1>0, MetricsEnd
<1>3. AnswersStand' /\ ActivityStands'
  BY <1>2 DEF AnswersStand, ActivityStands
<1>4. NothingElse' /\ BarsAreWholeDays'
  BY <1>1, <1>2 DEF BoardInv, NothingElse, BarsAreWholeDays
<1>5. ASSUME quiet, NEW g \in board.groups
      PROVE  /\ board'.stats[g].backlog > 0 <=> board'.stats[g].oldest # 0
             /\ \A k \in 1 .. ActivityDays : board'.bars[g][k] <= board'.stats[g].done
  <2>1. g \in Group /\ board.counts[g] = CountsOf(g) /\ board.bars[g] = NoBars
    BY <1>0, <1>1, <1>5 DEF BoardInv, AnswersStand, NothingElse, Call
  <2>2. PICK c \in [total : Nat, done : Nat, backlog : Nat] : c = CountsOf(g)
    BY CountsAndOldest
  <2>3. PICK o \in (Nat \ {0}) \cup {NoTime} : o = OldestOf(g)
    BY CountsAndOldest
  <2>4. c.backlog > 0 <=> o # NoTime
    BY <2>2, <2>3, CountsAndOldest
  <2>5. /\ board'.stats[g].done = c.done /\ board'.stats[g].backlog = c.backlog
        /\ board'.stats[g].oldest = IF o = NoTime THEN 0 ELSE o
    BY <1>2, <2>1, <2>2, <2>3, BuiltStatistics
  <2>6. \A k \in 1 .. ActivityDays : board'.bars[g][k] = 0
    BY <1>2, <2>1 DEF NoBars
  <2> QED
    BY <2>2, <2>3, <2>4, <2>5, <2>6
<1>6. QuietBoardAgrees'
  BY <1>1, <1>2, <1>5 DEF QuietBoardAgrees
<1> QED
  BY <1>0, <1>1, <1>2, <1>3, <1>4, <1>6 DEF BoardInv

\* list_queues ends: its bars count whole days, and agree with its statistics.
LEMMA QueuesRead ==
    ASSUME TypeOK, BoardInv, UNCHANGED <<life, timeVars>>, Assemble
    PROVE  board' \in Call /\ done_rows' \in SUBSET (Job \X Time) /\ BoardInv'
<1>0. /\ board \in Call /\ done_rows \in SUBSET (Job \X Time) /\ now \in Time
      /\ board.groups \subseteq Group
      /\ board.counts \in [Group -> [total : Nat, done : Nat, backlog : Nat]]
      /\ board.activity \in [Group -> [Day -> Nat]]
  BY DEF TypeOK, BoardTypeOK, Call
<1>1. UNCHANGED <<quiet, done_rows>> /\ board.stage = "assemble"
  BY DEF Assemble
<1>2. /\ board' \in Call /\ board'.stage = "done"
      /\ board'.groups = board.groups /\ board'.counts = board.counts
      /\ board'.today = now \div DayLength
      /\ \A g \in Group :
           IF g \in board.groups /\ board.counts[g].total > 0
           THEN /\ board'.stats[g] = BuildStatistics(board.counts[g], board.oldest[g])
                /\ board'.bars[g] = BarsOf(board.activity[g], now \div DayLength)
           ELSE /\ board'.stats[g] = BuildStatistics(NoCounts, NoTime)
                /\ board'.bars[g] = NoBars
  BY <1>0, Assembled
<1>3. AnswersStand' /\ ActivityStands'
  BY <1>2 DEF AnswersStand, ActivityStands
<1>4. NothingElse'
  BY <1>1, <1>2 DEF BoardInv, NothingElse
<1>5. ASSUME quiet, NEW g \in board.groups
      PROVE  /\ board'.stats[g].backlog > 0 <=> board'.stats[g].oldest # 0
             /\ \A k \in 1 .. ActivityDays : board'.bars[g][k] <= board'.stats[g].done
  <2>1. /\ g \in Group /\ board.counts[g] = CountsOf(g)
        /\ board.oldest[g] = OldestOf(g) /\ board.activity[g] = ActivityOf(g)
    BY <1>0, <1>1, <1>5 DEF BoardInv, AnswersStand
  <2>2. PICK c \in [total : Nat, done : Nat, backlog : Nat] : c = CountsOf(g)
    BY CountsAndOldest
  <2>3. CASE c.total > 0
    <3>1. PICK o \in (Nat \ {0}) \cup {NoTime} : o = OldestOf(g)
      BY CountsAndOldest
    <3>2. c.backlog > 0 <=> o # NoTime
      BY <2>2, <3>1, CountsAndOldest
    <3>3. board'.stats[g] = BuildStatistics(c, o)
      BY <1>2, <2>1, <2>2, <2>3, <3>1
    <3>4. /\ board'.stats[g].done = c.done /\ board'.stats[g].backlog = c.backlog
          /\ board'.stats[g].oldest = IF o = NoTime THEN 0 ELSE o
      BY <3>3, BuiltStatistics
    <3>5. board'.bars[g] = BarsOf(ActivityOf(g), now \div DayLength)
      BY <1>2, <2>1, <2>2, <2>3
    <3>6. /\ ActivityOf(g) \in [Day -> Nat]
          /\ \A t \in Day : ActivityOf(g)[t] <= c.done
      BY <2>2, ActivityFacts
    <3>7. \A k \in 1 .. ActivityDays :
            BarsOf(ActivityOf(g), now \div DayLength)[k] <= c.done
      BY <2>2, <3>6, BarsType
    <3> QED
      BY <2>2, <3>1, <3>2, <3>4, <3>5, <3>7
  <2>4. CASE ~(c.total > 0)
    <3>1. /\ board'.stats[g] = BuildStatistics(NoCounts, NoTime)
          /\ board'.bars[g] = NoBars
      BY <1>2, <2>1, <2>2, <2>4
    <3> QED
      BY <3>1 DEF BuildStatistics, NoCounts, NoBars
  <2> QED
    BY <2>3, <2>4
<1>6. QuietBoardAgrees'
  BY <1>1, <1>2, <1>5 DEF QuietBoardAgrees
<1>7. BarsAreWholeDays'
  <2>1. PICK n \in Time :
           /\ n <= now
           /\ \A g \in board.groups, t \in Day :
                board.activity[g][t] = Cardinality(Counted(done_rows, g, n, t))
    BY <1>1 DEF BoardInv, ActivityStands
  <2>2. PICK today : today = now \div DayLength
    OBVIOUS
  <2>3. ASSUME NEW g \in Group, NEW k \in 1 .. ActivityDays
        PROVE  board'.bars[g][k] =
                 IF board.counts[g].total = 0 THEN 0
                 ELSE Cardinality(OnDay(done_rows, g, today - (ActivityDays - k)))
    <3>1. CASE g \in board.groups /\ board.counts[g].total > 0
      <4>1. board'.bars[g] = BarsOf(board.activity[g], today)
        BY <1>2, <2>2, <3>1
      <4>2. PICK act \in [Day -> Nat] : act = board.activity[g]
        BY <1>0
      <4>3. \A t \in Day : act[t] = Cardinality(Counted(done_rows, g, n, t))
        BY <2>1, <3>1, <4>2
      <4>4. BarsOf(act, now \div DayLength)[k] =
              Cardinality(OnDay(done_rows, g, (now \div DayLength) - (ActivityDays - k)))
        BY <1>0, <2>1, <4>3, BarsCountDays
      <4>5. board.counts[g].total # 0
        BY <3>1
      <4> QED
        BY <2>2, <4>1, <4>2, <4>4, <4>5
    <3>2. CASE ~(g \in board.groups /\ board.counts[g].total > 0)
      <4>1. board.counts[g].total = 0
        <5>1. CASE g \in board.groups
          <6>1. board.counts[g].total \in Nat
            BY <1>0
          <6> QED
            BY <3>2, <5>1, <6>1
        <5>2. CASE g \notin board.groups
          BY <1>1, <5>2 DEF BoardInv, NothingElse, NoCounts
        <5> QED
          BY <5>1, <5>2
      <4>2. board'.bars[g] = NoBars
        BY <1>2, <3>2
      <4> QED
        BY <4>1, <4>2 DEF NoBars
    <3> QED
      BY <3>1, <3>2
  <2>4. board'.listed \subseteq Group
    BY <1>2 DEF Call
  <2>5. ASSUME NEW g \in board'.listed, NEW k \in 1 .. ActivityDays
        PROVE  board'.bars[g][k] =
                 IF board'.counts[g].total = 0 THEN 0
                 ELSE Cardinality({r \in done_rows' :
                        /\ QueueOf[r[1]] \in g
                        /\ r[2] \div DayLength = board'.today - (ActivityDays - k)})
    <3>1. /\ g \in Group /\ board'.counts = board.counts /\ done_rows' = done_rows
          /\ board'.today = today
      BY <1>1, <1>2, <2>2, <2>4
    <3>2. OnDay(done_rows, g, today - (ActivityDays - k)) =
            {r \in done_rows' :
                        /\ QueueOf[r[1]] \in g
                        /\ r[2] \div DayLength = board'.today - (ActivityDays - k)}
      BY <3>1 DEF OnDay
    <3> QED
      BY <2>3, <3>1, <3>2, Zenon
  <2> QED
    BY <2>5, Zenon DEF BarsAreWholeDays
<1> QED
  BY <1>0, <1>1, <1>2, <1>3, <1>4, <1>6, <1>7 DEF BoardInv

\* Every step keeps BoardInv, and the types of the board.
LEMMA BoardStep ==
    ASSUME TypeOK, StampInv, BoardInv, [ReadersNext]_vars
    PROVE  BoardTypeOK' /\ BoardInv'
<1>0. /\ BoardTypeOK /\ now \in Time /\ now' \in Time /\ now <= now'
      /\ done_at' \in [Job -> MaybeTime] /\ lock_at' \in [Job -> LockOrder]
  BY StampStep DEF TypeOK, BoardTypeOK
<1>1. CASE UNCHANGED <<life, timeVars, boardVars>>
  BY <1>0, <1>1, BoardRests DEF BoardTypeOK, boardVars
<1>2. CASE Disturbed
  <2>1. UNCHANGED <<board, done_rows>> /\ quiet' \in BOOLEAN
    BY <1>2 DEF Disturbed
  <2> QED
    BY <1>0, <1>2, <2>1, BoardDisturbed DEF BoardTypeOK
<1>3. CASE Read
  <2>1. UNCHANGED <<life, timeVars>>
    BY <1>3 DEF Read
  <2>2. UNCHANGED quiet
    BY <1>3 DEF Read, MetricsStep, ListQueuesStep, ReadCounts, ReadOldest,
                ReadOldestAndEnd, ReadActivity, Assemble
  <2>3. \/ \E groups \in SUBSET Group : ReadCounts(groups)
        \/ ReadOldest
        \/ ReadActivity /\ client = "list_queues"
        \/ ReadOldestAndEnd
        \/ Assemble
    <3>1. ASSUME NEW g \in Group, ReadCounts({g})
          PROVE  \E groups \in SUBSET Group : ReadCounts(groups)
      BY <3>1
    <3>2. PerQueue \in SUBSET Group
      BY DEF Group
    <3> QED
      BY <1>3, <3>1, <3>2 DEF Read, MetricsStep, ListQueuesStep
  <2>4. board' \in Call /\ done_rows' \in SUBSET (Job \X Time) /\ BoardInv'
    BY <2>1, <2>3, StatementRead, MetricsRead, QueuesRead
  <2> QED
    BY <1>0, <2>2, <2>4 DEF BoardTypeOK
<1> QED
  BY <1>1, <1>2, <1>3, BoardSteps

-----------------------------------------------------------------------------
(* Pages of tasks. *)

\* The rows of a listing that come before row x.
Ahead(x, S) == {y \in S : Before(y, x)}

\* run_at and id order the rows: two rows are never in the same place.
LEMMA BeforeIsTotal ==
    ASSUME NEW x \in Job, NEW y \in Job
    PROVE  /\ ~Before(x, x)
           /\ Before(x, y) => ~Before(y, x)
           /\ x # y /\ ~Before(y, x) => Before(x, y)
<1>1. RunAt[x] \in Nat /\ RunAt[y] \in Nat /\ x \in Nat /\ y \in Nat
  BY BoardAssumption, ListingAssumption
<1> QED
  BY <1>1 DEF Before

\* In a sorted listing every row has its place, after the rows before it.
LEMMA SortedPlaces ==
    ASSUME NEW S \in SUBSET Job, NEW s \in Sorted(S)
    PROVE  /\ Cardinality(S) \in Nat
           /\ s \in [1 .. Cardinality(S) -> S]
           /\ \A x \in S : \E i \in 1 .. Cardinality(S) : s[i] = x
           /\ \A i, k \in 1 .. Cardinality(S) : s[i] = s[k] => i = k
           /\ \A i \in 1 .. Cardinality(S) : Cardinality(Ahead(s[i], S)) = i - 1
<1>1. IsFiniteSet(S)
  BY BoardAssumption, FS_Subset
<1>2. PICK n \in Nat : n = Cardinality(S)
  BY <1>1, FS_CardinalityType
<1>3. /\ s \in [1 .. n -> S]
      /\ \A x, y \in 1 .. n : x < y => s[x] # s[y] /\ ~Before(s[y], s[x])
  BY <1>2 DEF Sorted
<1>4. \A i, k \in 1 .. n : s[i] = s[k] => i = k
  <2>1. ASSUME NEW i \in 1 .. n, NEW k \in 1 .. n, s[i] = s[k] PROVE i = k
    <3>1. ~(i < k) /\ ~(k < i)
      BY <1>3, <2>1
    <3> QED
      BY <3>1
  <2> QED
    BY <2>1
<1>5. \A x \in S : \E i \in 1 .. n : s[i] = x
  <2>1. Items(s) = S
    BY <1>1, <1>2, <1>3, <1>4, AllRowsCome
  <2> QED
    BY <1>3, <2>1 DEF Items
<1>6. ASSUME NEW i \in 1 .. n, NEW k \in 1 .. n
      PROVE  Before(s[k], s[i]) <=> k < i
  <2>1. s[i] \in Job /\ s[k] \in Job
    BY <1>3
  <2>2. k < i \/ k = i \/ i < k
    OBVIOUS
  <2> QED
    BY <1>3, <2>1, <2>2, BeforeIsTotal
<1>7. ASSUME NEW i \in 1 .. n PROVE Cardinality(Ahead(s[i], S)) = i - 1
  <2>1. PICK A : A = Ahead(s[i], S)
    OBVIOUS
  <2>2. PICK m \in Nat : m = i - 1
    OBVIOUS
  <2>3. IsFiniteSet(1 .. m) /\ Cardinality(1 .. m) = m
    <3>1. IsFiniteSet(1 .. m) /\ Cardinality(1 .. m) = IF 1 > m THEN 0 ELSE m - 1 + 1
      BY FS_Interval
    <3> QED
      BY <3>1
  <2>4. PICK f : f = [k \in 1 .. m |-> s[k]]
    OBVIOUS
  <2>5. ASSUME NEW k \in 1 .. m PROVE f[k] \in A
    <3>1. k \in 1 .. n /\ k < i
      BY <2>2
    <3> QED
      BY <1>3, <1>6, <2>1, <2>4, <3>1 DEF Ahead
  <2>6. ASSUME NEW y \in A PROVE \E k \in 1 .. m : f[k] = y
    <3>1. y \in S /\ Before(y, s[i])
      BY <2>1 DEF Ahead
    <3>2. PICK k \in 1 .. n : s[k] = y
      BY <1>5, <3>1
    <3>3. k \in 1 .. m
      BY <1>6, <2>2, <3>1, <3>2
    <3> QED
      BY <2>4, <3>2, <3>3
  <2>7. \A k, l \in 1 .. m : f[k] = f[l] => k = l
    <3>1. 1 .. m \subseteq 1 .. n
      BY <2>2
    <3> QED
      BY <1>4, <2>4, <3>1
  <2>8. f \in Surjection(1 .. m, A) /\ f \in Injection(1 .. m, A)
    BY <2>4, <2>5, <2>6, <2>7 DEF Surjection, Injection, IsInjective
  <2> QED
    BY <2>1, <2>2, <2>3, <2>8, FS_Surjection
<1> QED
  BY <1>2, <1>3, <1>4, <1>5, <1>7

\* More rows in the listing, more rows before each.
LEMMA AheadGrows ==
    ASSUME NEW T \in SUBSET Job, NEW S \in SUBSET T, NEW x
    PROVE  /\ Cardinality(Ahead(x, S)) \in Nat /\ Cardinality(Ahead(x, T)) \in Nat
           /\ Cardinality(Ahead(x, S)) <= Cardinality(Ahead(x, T))
<1>1. PICK A : A = Ahead(x, T)
  OBVIOUS
<1>2. PICK B \in SUBSET A : B = Ahead(x, S)
  BY <1>1 DEF Ahead
<1>3. A \subseteq Job
  BY <1>1 DEF Ahead
<1>4. IsFiniteSet(A)
  BY <1>3, BoardAssumption, FS_Subset
<1>5. IsFiniteSet(B) /\ Cardinality(B) <= Cardinality(A)
  BY <1>4, FS_Subset
<1> QED
  BY <1>1, <1>2, <1>4, <1>5, FS_CardinalityType

\* The rows of a listing s of n rows, from the offset on, as far as a page goes.
IsPage(page, S, s, n, offset) ==
    \E m \in 0 .. PageSize :
        /\ page \in Seq(S) /\ Len(page) = m
        /\ m < PageSize => n < offset + PageSize
        /\ \A i \in 1 .. n : offset < i /\ i <= offset + PageSize => i - offset \in 1 .. m
        /\ \A x \in 1 .. m : offset + x \in 1 .. n /\ page[x] = s[offset + x]

\* LIMIT and START cut out such a part, at the end of the listing possibly none.
LEMMA PageFacts ==
    ASSUME NEW S, NEW n \in Nat, NEW s \in [1 .. n -> S], NEW offset \in Nat
    PROVE  IsPage(PageOf(s, offset), S, s, n, offset)
<1>1. PageSize \in Nat \ {0} /\ s \in Seq(S) /\ Len(s) = n
  BY ListingAssumption, FunctionIsSeq
<1>2. PICK h \in Nat : h = IF n < offset + PageSize THEN n ELSE offset + PageSize
  BY <1>1
<1>3. PICK m \in 0 .. PageSize : m = IF offset < h THEN h - offset ELSE 0
  <2>1. CASE offset < h
    <3>1. h - offset \in 0 .. PageSize
      BY <1>1, <1>2, <2>1
    <3> QED
      BY <2>1, <3>1
  <2>2. CASE ~(offset < h)
    <3>1. 0 \in 0 .. PageSize
      BY <1>1
    <3> QED
      BY <2>2, <3>1
  <2> QED
    BY <2>1, <2>2
<1>4. PICK page : page = PageOf(s, offset)
  OBVIOUS
<1>5. page = [i \in 1 .. (h - (offset + 1) + 1) |-> s[i + (offset + 1) - 1]]
  BY <1>1, <1>2, <1>4 DEF PageOf
<1>6. 1 .. (h - (offset + 1) + 1) = 1 .. m
  BY <1>2, <1>3
<1>7. ASSUME NEW x \in 1 .. m
      PROVE  offset + x \in 1 .. n /\ page[x] = s[offset + x]
  <2>1. offset + x \in 1 .. n
    BY <1>1, <1>2, <1>3
  <2>2. x + (offset + 1) - 1 = offset + x
    OBVIOUS
  <2> QED
    BY <1>5, <1>6, <2>1, <2>2
<1>8. page \in [1 .. m -> S]
  <2>1. ASSUME NEW x \in 1 .. m PROVE page[x] \in S
    BY <1>7
  <2>2. page = [x \in 1 .. m |-> page[x]]
    BY <1>5, <1>6
  <2> QED
    BY <2>1, <2>2
<1>9. page \in Seq(S) /\ Len(page) = m
  BY <1>8, FunctionIsSeq
<1>10. m < PageSize => n < offset + PageSize
  BY <1>1, <1>2, <1>3
<1>11. \A i \in 1 .. n : offset < i /\ i <= offset + PageSize => i - offset \in 1 .. m
  BY <1>1, <1>2, <1>3
<1> QED
  BY <1>4, <1>7, <1>9, <1>10, <1>11 DEF IsPage

\* A list without repetitions.
Distinct(s) == \A x, y \in DOMAIN s : s[x] = s[y] => x = y

\* Two of them without a common item make one.
LEMMA DistinctConcat ==
    ASSUME NEW S, NEW s \in Seq(S), NEW t \in Seq(S), Distinct(s), Distinct(t),
           Elements(s) \cap Elements(t) = {}
    PROVE  Distinct(s \o t)
<1>1. PICK k \in Nat : k = Len(s)
  OBVIOUS
<1>2. PICK n \in Nat : n = Len(t)
  OBVIOUS
<1>3. PICK u : u = s \o t
  OBVIOUS
<1>4. /\ DOMAIN s = 1 .. k /\ DOMAIN t = 1 .. n /\ DOMAIN u = 1 .. k + n
      /\ \A x \in 1 .. k : u[x] = s[x]
      /\ \A x \in k + 1 .. k + n : u[x] = t[x - k]
  BY <1>1, <1>2, <1>3
<1>5. ASSUME NEW x \in 1 .. k, NEW y \in k + 1 .. k + n PROVE u[x] # u[y]
  <2>1. y - k \in 1 .. n
    OBVIOUS
  <2>2. u[x] \in Elements(s) /\ u[y] \in Elements(t)
    BY <1>4, <2>1 DEF Elements
  <2> QED
    BY <2>2
<1>6. ASSUME NEW x \in k + 1 .. k + n, NEW y \in k + 1 .. k + n, u[x] = u[y]
      PROVE  x = y
  <2>1. x - k \in 1 .. n /\ y - k \in 1 .. n
    OBVIOUS
  <2>2. x - k = y - k
    <3>1. \A a, b \in 1 .. n : t[a] = t[b] => a = b
      BY <1>4, Zenon DEF Distinct
    <3>2. t[x - k] = t[y - k]
      BY <1>4, <1>6
    <3> QED
      BY <2>1, <3>1, <3>2
  <2> QED
    BY <2>2
<1>7. \A x \in 1 .. k + n : x \in 1 .. k \/ x \in k + 1 .. k + n
  OBVIOUS
<1>8. ASSUME NEW x \in 1 .. k + n, NEW y \in 1 .. k + n, u[x] = u[y] PROVE x = y
  BY <1>4, <1>5, <1>6, <1>7, <1>8 DEF Distinct
<1> QED
  BY <1>3, <1>4, <1>8 DEF Distinct

\* As long as no task leaves the listing, those of the first page's time that
\* have not been read are at the offset or after it; as long as none joins it,
\* those that have been read are before it.
NoneSkipped(p) ==
    ~left =>
        /\ p.first \subseteq Listing(p)
        /\ \A x \in p.first \ Elements(p.got) : p.offset <= Cardinality(Ahead(x, Listing(p)))

NoneTwice(p) ==
    ~joined =>
        /\ \A x, y \in DOMAIN p.got : p.got[x] = p.got[y] => x = y
        /\ \A x \in Elements(p.got) \cap Listing(p) :
             Cardinality(Ahead(x, Listing(p))) < p.offset

PagesInv ==
    /\ client # "list_tasks" => paging.offset = 0 /\ paging.end = "no"
    /\ paging.end = "no" /\ paging.offset = 0 => paging.got = <<>> /\ paging.first = {}
    /\ paging.end = "no" => NoneSkipped(paging) /\ NoneTwice(paging)
    /\ PagesAddUp

\* The next page: what it holds, by the places of the rows.
LEMMA PageRead ==
    ASSUME NEW p \in Paging, ReadPage(p), UNCHANGED life
    PROVE  /\ paging' \in Paging
           /\ \/ paging'.end = "error"
              \/ \E page \in Seq(Listing(p)) :
                   /\ paging'.got = p.got \o page /\ paging'.first = p.first
                   /\ paging'.offset = p.offset + PageSize
                   /\ Listing(paging)' = Listing(p)
                   /\ \A x, y \in DOMAIN page : page[x] = page[y] => x = y
                   /\ \A x \in Elements(page) :
                        /\ p.offset <= Cardinality(Ahead(x, Listing(p)))
                        /\ Cardinality(Ahead(x, Listing(p))) < p.offset + PageSize
                   /\ \A x \in Listing(p) :
                        p.offset <= Cardinality(Ahead(x, Listing(p))) =>
                          \/ x \in Elements(page)
                          \/ /\ paging'.end = "no"
                             /\ p.offset + PageSize <= Cardinality(Ahead(x, Listing(p)))
                   /\ paging'.end \in {"no", "last_page"}
<1>0. PageSize \in Nat \ {0} /\ p.offset \in Nat /\ p.got \in Seq(Job)
  BY ListingAssumption DEF Paging
<1>1. PICK L \in SUBSET Job : L = Listing(p)
  BY DEF Listing, WithStatus, RowsOf
<1>2. PICK s \in Sorted(L) :
         LET page == PageOf(s, p.offset) IN
         IF p.typed /\ Elements(page) \cap BadArgs # {}
         THEN paging' = [p EXCEPT !.end = "error"]
         ELSE paging' = [p EXCEPT
                !.got = p.got \o page,
                !.offset = p.offset + PageSize,
                !.end = IF Len(page) < PageSize THEN "last_page" ELSE "no"]
  BY <1>1 DEF ReadPage
<1>page. PICK page : page = PageOf(s, p.offset)
  OBVIOUS
<1>3. CASE p.typed /\ Elements(page) \cap BadArgs # {}
  <2>1. paging' = [p EXCEPT !.end = "error"]
    BY <1>2, <1>page, <1>3
  <2> QED
    BY <2>1 DEF Paging
<1>4. CASE ~(p.typed /\ Elements(page) \cap BadArgs # {})
  <2>1. PICK n \in Nat : n = Cardinality(L)
    BY SortedPlaces
  <2>2. /\ s \in [1 .. n -> L]
        /\ \A x \in L : \E i \in 1 .. n : s[i] = x
        /\ \A i, k \in 1 .. n : s[i] = s[k] => i = k
        /\ \A i \in 1 .. n : Cardinality(Ahead(s[i], L)) = i - 1
    BY <2>1, SortedPlaces
  <2>3. PICK at \in Nat : at = p.offset
    BY <1>0
  <2>4. PICK m \in 0 .. PageSize :
           /\ page \in Seq(L) /\ Len(page) = m
           /\ m < PageSize => n < at + PageSize
           /\ \A i \in 1 .. n : at < i /\ i <= at + PageSize => i - at \in 1 .. m
           /\ \A x \in 1 .. m : at + x \in 1 .. n /\ page[x] = s[at + x]
    <3>1. IsPage(PageOf(s, at), L, s, n, at)
      BY <2>2, PageFacts
    <3>2. page = PageOf(s, at)
      BY <1>page, <2>3
    <3> QED
      BY <3>1, <3>2 DEF IsPage
  <2>5. DOMAIN page = 1 .. m
    BY <2>4
  <2>6. PICK end \in {"no", "last_page"} :
           end = IF m < PageSize THEN "last_page" ELSE "no"
    OBVIOUS
  <2>7. PICK got \in Seq(Job) : got = p.got \o page
    <3>1. page \in Seq(Job)
      BY <2>4
    <3> QED
      BY <1>0, <3>1, ConcatProperties
  <2>8. paging' = [p EXCEPT !.got = got, !.offset = at + PageSize, !.end = end]
    BY <1>2, <1>page, <1>4, <2>3, <2>4, <2>6, <2>7
  <2>9. /\ paging' \in Paging
        /\ paging'.got = got /\ paging'.offset = at + PageSize /\ paging'.end = end
        /\ paging'.first = p.first /\ paging'.queues = p.queues
        /\ paging'.status = p.status
    <3>1. at + PageSize \in Nat
      BY <1>0
    <3> QED
      BY <2>8, <3>1 DEF Paging
  <2>10. Listing(paging)' = L
    BY <1>1, <2>9 DEF Listing, WithStatus, RowsOf, Row
  <2>11. \A x, y \in DOMAIN page : page[x] = page[y] => x = y
    <3>1. ASSUME NEW x \in 1 .. m, NEW y \in 1 .. m, page[x] = page[y] PROVE x = y
      <4>1. at + x = at + y
        BY <2>2, <2>4, <3>1
      <4> QED
        BY <4>1
    <3> QED
      BY <2>5, <3>1
  <2>12. ASSUME NEW x \in Elements(page)
         PROVE  /\ at <= Cardinality(Ahead(x, L))
                /\ Cardinality(Ahead(x, L)) < at + PageSize
    <3>1. PICK y \in 1 .. m : x = page[y]
      BY <2>5 DEF Elements
    <3>2. Cardinality(Ahead(x, L)) = (at + y) - 1
      BY <2>2, <2>4, <3>1
    <3> QED
      BY <1>0, <3>2
  <2>13. ASSUME NEW x \in L, at <= Cardinality(Ahead(x, L)), x \notin Elements(page)
         PROVE  end = "no" /\ at + PageSize <= Cardinality(Ahead(x, L))
    <3>1. PICK i \in 1 .. n : s[i] = x
      BY <2>2
    <3>2. Cardinality(Ahead(x, L)) = i - 1
      BY <2>2, <3>1
    <3>3. at + PageSize < i
      <4>1. SUFFICES ASSUME i <= at + PageSize PROVE FALSE
        BY <1>0
      <4>2. at < i
        BY <2>13, <3>2
      <4>3. i - at \in 1 .. m /\ at + (i - at) = i
        BY <2>4, <4>1, <4>2
      <4>4. page[i - at] = x
        BY <2>4, <3>1, <4>3
      <4> QED
        BY <2>5, <2>13, <4>3, <4>4 DEF Elements
    <3>4. ~(m < PageSize)
      BY <1>0, <2>4, <3>3
    <3> QED
      BY <1>0, <2>6, <3>2, <3>3, <3>4
  <2> QED
    BY <1>1, <2>3, <2>4, <2>6, <2>7, <2>9, <2>10, <2>11, <2>12, <2>13
<1> QED
  BY <1>3, <1>4

\* Reading a page skips none and repeats none.
LEMMA PageKeeps ==
    ASSUME NEW p \in Paging, ReadPage(p), UNCHANGED life, NoneSkipped(p), NoneTwice(p)
    PROVE  /\ paging' \in Paging /\ PagesAddUp'
           /\ paging'.end = "no" =>
                paging'.offset # 0 /\ NoneSkipped(paging)' /\ NoneTwice(paging)'
<1>0. UNCHANGED <<left, joined>> /\ paging' \in Paging
  BY PageRead DEF ReadPage
<1>1. CASE paging'.end = "error"
  BY <1>0, <1>1 DEF PagesAddUp
<1>2. ASSUME paging'.end # "error"
      PROVE  /\ PagesAddUp' /\ paging'.offset # 0
             /\ paging'.end = "no" => NoneSkipped(paging)' /\ NoneTwice(paging)'
  <2>1. PICK L \in SUBSET Job : L = Listing(p)
    BY DEF Listing, WithStatus, RowsOf
  <2>2. PICK page \in Seq(L) :
           /\ paging'.got = p.got \o page /\ paging'.first = p.first
           /\ paging'.offset = p.offset + PageSize
           /\ Listing(paging)' = L
           /\ \A x, y \in DOMAIN page : page[x] = page[y] => x = y
           /\ \A x \in Elements(page) :
                /\ p.offset <= Cardinality(Ahead(x, L))
                /\ Cardinality(Ahead(x, L)) < p.offset + PageSize
           /\ \A x \in L :
                p.offset <= Cardinality(Ahead(x, L)) =>
                  \/ x \in Elements(page)
                  \/ /\ paging'.end = "no"
                     /\ p.offset + PageSize <= Cardinality(Ahead(x, L))
    BY <1>2, <2>1, PageRead
  <2>3. PICK at \in Nat : at = p.offset
    BY DEF Paging
  <2>4. PICK old \in Seq(Job) : old = p.got
    BY DEF Paging
  <2>5. page \in Seq(Job) /\ Elements(page) \subseteq L
    BY <2>2 DEF Elements
  <2>new. PICK new \in Seq(Job) : new = page
    BY <2>5
  <2>6. PICK got \in Seq(Job) : got = old \o new
    BY ConcatProperties
  <2>7. paging'.got = got /\ Elements(got) = Elements(old) \cup Elements(page)
    <3>1. Items(got) = Items(old) \cup Items(new)
      BY <2>6, ItemsOfConcat, Zenon
    <3>2. \A s : Items(s) = Elements(s)
      BY DEF Items, Elements
    <3>3. paging'.got = got
      BY <2>2, <2>4, <2>6, <2>new, Zenon
    <3> QED
      BY <2>new, <3>1, <3>2, <3>3, Zenon
  <2>8. PageSize \in Nat \ {0} /\ paging'.offset = at + PageSize /\ at + PageSize # 0
    BY <2>2, <2>3, ListingAssumption
  <2>9. \A x \in L : Cardinality(Ahead(x, L)) \in Nat
    BY AheadGrows
  <2>10. ASSUME ~left
         PROVE  /\ p.first \subseteq L
                /\ \A x \in p.first \ Elements(got) :
                     /\ paging'.end = "no"
                     /\ at + PageSize <= Cardinality(Ahead(x, L))
    <3>1. /\ p.first \subseteq L
          /\ \A x \in p.first \ Elements(old) : at <= Cardinality(Ahead(x, L))
      BY <2>1, <2>3, <2>4, <2>10 DEF NoneSkipped
    <3>2. ASSUME NEW x \in p.first \ Elements(got)
          PROVE  paging'.end = "no" /\ at + PageSize <= Cardinality(Ahead(x, L))
      <4>1. /\ x \in L /\ x \notin Elements(page)
            /\ at <= Cardinality(Ahead(x, L))
        BY <2>7, <3>1
      <4> QED
        BY <2>2, <2>3, <4>1
    <3> QED
      BY <3>1, <3>2
  <2>11. ASSUME ~joined
         PROVE  /\ \A x, y \in DOMAIN got : got[x] = got[y] => x = y
                /\ \A x \in Elements(got) \cap L : Cardinality(Ahead(x, L)) < at + PageSize
    <3>1. /\ \A x, y \in DOMAIN old : old[x] = old[y] => x = y
          /\ \A x \in Elements(old) \cap L : Cardinality(Ahead(x, L)) < at
      BY <2>1, <2>3, <2>4, <2>11 DEF NoneTwice
    <3>2. Elements(old) \cap Elements(page) = {}
      <4>1. ASSUME NEW x \in Elements(old), x \in Elements(page) PROVE FALSE
        <5>1. x \in L /\ Cardinality(Ahead(x, L)) < at /\ at <= Cardinality(Ahead(x, L))
          BY <2>2, <2>3, <2>5, <3>1, <4>1
        <5> QED
          BY <2>9, <5>1
      <4> QED
        BY <4>1
    <3>3. \A x, y \in DOMAIN got : got[x] = got[y] => x = y
      <4>1. Distinct(new) /\ Distinct(old)
        BY <2>2, <2>new, <3>1, Zenon DEF Distinct
      <4>2. Distinct(old \o new)
        BY <2>new, <3>2, <4>1, DistinctConcat
      <4> QED
        BY <2>6, <4>2, Zenon DEF Distinct
    <3>4. ASSUME NEW x \in Elements(got) \cap L
          PROVE  Cardinality(Ahead(x, L)) < at + PageSize
      <4>1. CASE x \in Elements(page)
        BY <2>2, <2>3, <4>1
      <4>2. CASE x \in Elements(old)
        <5>1. Cardinality(Ahead(x, L)) < at /\ Cardinality(Ahead(x, L)) \in Nat
          BY <2>9, <3>1, <4>2
        <5> QED
          BY <2>8, <5>1
      <4> QED
        BY <2>7, <4>1, <4>2
    <3> QED
      BY <3>3, <3>4
  <2>12. PagesAddUp'
    <3>1. paging'.end = "last_page" /\ ~left' => paging'.first \subseteq Elements(paging'.got)
      BY <1>0, <2>2, <2>7, <2>10
    <3>2. ~joined' => \A x, y \in DOMAIN paging'.got :
                        paging'.got[x] = paging'.got[y] => x = y
      BY <1>0, <2>7, <2>11
    <3> QED
      BY <3>1, <3>2, Zenon DEF PagesAddUp
  <2>13. ASSUME paging'.end = "no" PROVE NoneSkipped(paging)'
    <3>1. ~left' => /\ paging'.first \subseteq Listing(paging)'
                    /\ \A x \in paging'.first \ Elements(paging'.got) :
                         paging'.offset <= Cardinality(Ahead(x, Listing(paging)'))
      BY <1>0, <2>2, <2>7, <2>8, <2>10
    <3> QED
      BY <3>1, Zenon DEF NoneSkipped, Ahead
  <2>14. NoneTwice(paging)'
    <3>1. ~joined' => /\ \A x, y \in DOMAIN paging'.got :
                           paging'.got[x] = paging'.got[y] => x = y
                      /\ \A x \in Elements(paging'.got) \cap Listing(paging)' :
                           Cardinality(Ahead(x, Listing(paging)')) < paging'.offset
      BY <1>0, <2>2, <2>7, <2>8, <2>11
    <3> QED
      BY <3>1, Zenon DEF NoneTwice, Ahead
  <2> QED
    BY <2>8, <2>12, <2>13, <2>14
<1> QED
  BY <1>0, <1>1, <1>2

\* The table moves on under a reader of pages.
LEMMA PagesUnderway ==
    ASSUME paging \in Paging, Moved, NoneSkipped(paging), NoneTwice(paging)
    PROVE  NoneSkipped(paging)' /\ NoneTwice(paging)'
<1>1. PICK p \in Paging : p = paging /\ p = paging'
  BY DEF Moved
<1>2. PICK L \in SUBSET Job : L = Listing(paging)
  BY DEF Listing, WithStatus, RowsOf
<1>3. PICK M \in SUBSET Job : M = Listing(paging)'
  BY DEF Listing, WithStatus, RowsOf
<1>4. PICK at \in Nat : at = p.offset
  BY DEF Paging
<1>5. /\ ~left' => ~left /\ L \subseteq M
      /\ ~joined' => ~joined /\ M \subseteq L
  BY <1>2, <1>3 DEF Moved
<1>6. ~left' => /\ p.first \subseteq M
                /\ \A x \in p.first \ Elements(p.got) : at <= Cardinality(Ahead(x, M))
  <2>1. SUFFICES ASSUME ~left'
                 PROVE  /\ p.first \subseteq M
                        /\ \A x \in p.first \ Elements(p.got) :
                             at <= Cardinality(Ahead(x, M))
    OBVIOUS
  <2>2. /\ p.first \subseteq L /\ L \subseteq M
        /\ \A x \in p.first \ Elements(p.got) : at <= Cardinality(Ahead(x, L))
    BY <1>1, <1>2, <1>4, <1>5, <2>1 DEF NoneSkipped
  <2>3. ASSUME NEW x \in p.first \ Elements(p.got)
        PROVE  at <= Cardinality(Ahead(x, M))
    <3>1. /\ Cardinality(Ahead(x, L)) \in Nat /\ Cardinality(Ahead(x, M)) \in Nat
          /\ Cardinality(Ahead(x, L)) <= Cardinality(Ahead(x, M))
      BY <2>2, AheadGrows
    <3> QED
      BY <2>2, <3>1
  <2> QED
    BY <2>2, <2>3
<1>7. ~joined' => /\ \A x, y \in DOMAIN p.got : p.got[x] = p.got[y] => x = y
                  /\ \A x \in Elements(p.got) \cap M : Cardinality(Ahead(x, M)) < at
  <2>1. SUFFICES ASSUME ~joined'
                 PROVE  /\ \A x, y \in DOMAIN p.got : p.got[x] = p.got[y] => x = y
                        /\ \A x \in Elements(p.got) \cap M :
                             Cardinality(Ahead(x, M)) < at
    OBVIOUS
  <2>2. /\ M \subseteq L
        /\ \A x, y \in DOMAIN p.got : p.got[x] = p.got[y] => x = y
        /\ \A x \in Elements(p.got) \cap L : Cardinality(Ahead(x, L)) < at
    BY <1>1, <1>2, <1>4, <1>5, <2>1 DEF NoneTwice
  <2>3. ASSUME NEW x \in Elements(p.got) \cap M
        PROVE  Cardinality(Ahead(x, M)) < at
    <3>1. /\ Cardinality(Ahead(x, L)) \in Nat /\ Cardinality(Ahead(x, M)) \in Nat
          /\ Cardinality(Ahead(x, M)) <= Cardinality(Ahead(x, L))
      BY <2>2, AheadGrows
    <3> QED
      BY <2>2, <3>1
  <2> QED
    BY <2>2, <2>3
<1>8. /\ ~left' => /\ paging'.first \subseteq Listing(paging)'
                   /\ \A x \in paging'.first \ Elements(paging'.got) :
                        paging'.offset <= Cardinality(Ahead(x, Listing(paging)'))
      /\ ~joined' => /\ \A x, y \in DOMAIN paging'.got :
                          paging'.got[x] = paging'.got[y] => x = y
                     /\ \A x \in Elements(paging'.got) \cap Listing(paging)' :
                          Cardinality(Ahead(x, Listing(paging)')) < paging'.offset
  BY <1>1, <1>3, <1>4, <1>6, <1>7
<1>9. NoneSkipped(paging)'
  BY <1>8, Zenon DEF NoneSkipped, Ahead
<1>10. NoneTwice(paging)'
  BY <1>8, Zenon DEF NoneTwice, Ahead
<1> QED
  BY <1>9, <1>10

\* The call for the first page: nothing has been read, and all is to come.
LEMMA FirstCall ==
    ASSUME paging \in Paging, FirstPage, paging.got = <<>>
    PROVE  \E p \in Paging : ReadPage(p) /\ NoneSkipped(p) /\ NoneTwice(p)
<1>1. PICK call \in {<<TRUE, {q}>> : q \in Queue} \cup {<<FALSE, Queue>>},
           status \in JobStatus :
         LET p == [paging EXCEPT !.typed = call[1], !.queues = call[2],
                                 !.status = status]
         IN ReadPage([p EXCEPT !.first = Listing(p)])
  BY DEF FirstPage
<1>2. call[1] \in BOOLEAN /\ call[2] \in SUBSET Queue
  <2>1. CASE call = <<FALSE, Queue>>
    BY <2>1
  <2>2. ASSUME NEW q \in Queue, call = <<TRUE, {q}>>
        PROVE  call[1] \in BOOLEAN /\ call[2] \in SUBSET Queue
    BY <2>2
  <2> QED
    BY <2>1, <2>2
<1>3. PICK old \in Paging : old = paging
  OBVIOUS
<1>4. PICK c : c = [old EXCEPT !.typed = call[1], !.queues = call[2], !.status = status]
  OBVIOUS
<1>5. /\ c \in Paging /\ c.got = <<>> /\ c.offset = 0
  BY <1>2, <1>3, <1>4 DEF Paging, FirstPage
<1>6. PICK L \in SUBSET Job : L = Listing(c)
  BY DEF Listing, WithStatus, RowsOf
<1>7. PICK p : p = [c EXCEPT !.first = L]
  OBVIOUS
<1>8. /\ p \in Paging /\ p.got = <<>> /\ p.offset = 0 /\ p.first = L
      /\ p.queues = c.queues /\ p.status = c.status
  BY <1>5, <1>7 DEF Paging
<1>9. Listing(p) = L
  BY <1>6, <1>8 DEF Listing
<1>10. ReadPage(p)
  BY <1>1, <1>3, <1>4, <1>6, <1>7, Zenon
<1>11. NoneSkipped(p) /\ NoneTwice(p)
  <2>1. \A x : Cardinality(Ahead(x, L)) \in Nat
    BY AheadGrows
  <2>2. Elements(p.got) = {} /\ DOMAIN p.got = {}
    BY <1>8 DEF Elements
  <2> QED
    BY <1>8, <1>9, <2>1, <2>2 DEF NoneSkipped, NoneTwice
<1> QED
  BY <1>8, <1>10, <1>11

\* A reader who has not begun has skipped none and has none twice.
LEMMA NothingRead ==
    ASSUME paging' \in Paging, paging'.got = <<>>, paging'.first = {}
    PROVE  NoneSkipped(paging)' /\ NoneTwice(paging)'
<1>1. Elements(paging'.got) = {} /\ DOMAIN paging'.got = {}
  BY DEF Elements
<1> QED
  BY <1>1 DEF NoneSkipped, NoneTwice, Elements

\* Every step keeps PagesInv, and the types of the listings.
LEMMA PagesStep ==
    ASSUME TypeOK, PagesInv, [ReadersNext]_vars
    PROVE  ListTypeOK' /\ PagesInv'
<1>0. /\ paging \in Paging /\ left \in BOOLEAN /\ joined \in BOOLEAN
      /\ last_seen \in [Worker -> MaybeTime] /\ now \in MaybeTime /\ NoTime \in MaybeTime
      /\ client' = client
  BY SameClient DEF TypeOK, ListTypeOK, BoardTypeOK, MaybeTime
<1>1. CASE UNCHANGED <<life, paging, left, joined>>
           /\ last_seen' \in [Worker -> MaybeTime]
  <2>1. ListTypeOK'
    BY <1>0, <1>1 DEF ListTypeOK
  <2>2. NoneSkipped(paging)' <=> NoneSkipped(paging)
    BY <1>1 DEF NoneSkipped, Listing, WithStatus, RowsOf, Row
  <2>3. NoneTwice(paging)' <=> NoneTwice(paging)
    BY <1>1 DEF NoneTwice, Listing, WithStatus, RowsOf, Row
  <2>4. PagesAddUp' <=> PagesAddUp
    BY <1>1 DEF PagesAddUp
  <2> QED
    BY <1>0, <1>1, <2>1, <2>2, <2>3, <2>4 DEF PagesInv
<1>2. CASE JobsMove
  <2>1. /\ UNCHANGED <<paging, last_seen>> /\ left' \in BOOLEAN /\ joined' \in BOOLEAN
        /\ Moved
    BY <1>2 DEF JobsMove, Moved
  <2>2. paging.end = "no"
    BY <1>2 DEF JobsMove, PagesInv
  <2>3. NoneSkipped(paging)' /\ NoneTwice(paging)'
    BY <1>0, <2>1, <2>2, PagesUnderway DEF PagesInv
  <2>4. PagesAddUp'
    BY <2>1, <2>2 DEF PagesAddUp
  <2> QED
    BY <1>0, <2>1, <2>3, <2>4 DEF ListTypeOK, PagesInv
<1>3. CASE StampedJobsMove
  <2>1. UNCHANGED <<paging, left, joined, last_seen>> /\ client = "list_queues"
    BY <1>3 DEF StampedJobsMove, listVars
  <2>2. /\ paging.end = "no" /\ paging.offset = 0 /\ paging.got = <<>>
        /\ paging.first = {}
    BY <2>1 DEF PagesInv
  <2>3. NoneSkipped(paging)' /\ NoneTwice(paging)'
    BY <1>0, <2>1, <2>2, NothingRead
  <2>4. PagesAddUp'
    BY <2>1, <2>2 DEF PagesAddUp
  <2> QED
    BY <1>0, <2>1, <2>2, <2>3, <2>4 DEF ListTypeOK, PagesInv
<1>4. CASE TimePasses \/ Wait \/ WaitFails \/ Read
  <2>1. UNCHANGED <<life, paging, left, joined, last_seen>>
    BY <1>4 DEF TimePasses, Wait, WaitFails, Read, listVars
  <2> QED
    BY <1>0, <1>1, <2>1
<1>5. CASE WorkersMove
  <2>1. UNCHANGED <<life, paging, left, joined>>
    BY <1>5 DEF WorkersMove, Beat, PurgeWorkers
  <2>2. last_seen' \in [Worker -> MaybeTime]
    <3>1. ASSUME NEW w \in Worker, Beat(w) PROVE last_seen' \in [Worker -> MaybeTime]
      BY <1>0, <3>1 DEF Beat
    <3>2. ASSUME NEW q \in Queue, PurgeWorkers(q)
          PROVE  last_seen' \in [Worker -> MaybeTime]
      BY <1>0, <3>2 DEF PurgeWorkers
    <3> QED
      BY <1>5, <3>1, <3>2 DEF WorkersMove
  <2> QED
    BY <1>1, <2>1, <2>2
<1>6. CASE List
  <2>1. UNCHANGED life /\ client = "list_tasks" /\ (FirstPage \/ NextPage)
    BY <1>6 DEF List
  <2>2. \E p \in Paging : ReadPage(p) /\ NoneSkipped(p) /\ NoneTwice(p)
    <3>1. CASE FirstPage
      BY <1>0, <3>1, FirstCall DEF FirstPage, PagesInv
    <3>2. CASE NextPage
      <4>1. paging.end = "no" /\ ReadPage(paging)
        BY <3>2 DEF NextPage
      <4> QED
        BY <1>0, <4>1 DEF PagesInv
    <3> QED
      BY <2>1, <3>1, <3>2
  <2>3. PICK p \in Paging : ReadPage(p) /\ NoneSkipped(p) /\ NoneTwice(p)
    BY <2>2
  <2>4. UNCHANGED <<left, joined, last_seen>>
    BY <2>3 DEF ReadPage
  <2>5. /\ paging' \in Paging /\ PagesAddUp'
        /\ paging'.end = "no" =>
             paging'.offset # 0 /\ NoneSkipped(paging)' /\ NoneTwice(paging)'
    BY <2>1, <2>3, PageKeeps
  <2> QED
    BY <1>0, <2>1, <2>4, <2>5 DEF ListTypeOK, PagesInv
<1>7. CASE UNCHANGED vars
  <2>1. UNCHANGED <<life, paging, left, joined, last_seen>>
    BY <1>7 DEF vars, listVars
  <2> QED
    BY <1>0, <1>1, <2>1
<1> QED
  BY <1>2, <1>3, <1>4, <1>5, <1>6, <1>7 DEF ReadersNext

-----------------------------------------------------------------------------
(* Workers. *)

\* Whichever rows list_workers returns, a live worker is among them while no
\* more are live than it may return: one that is missing was seen no later than
\* each of those returned, so these are live too, and with it too many.
LEMMA LiveWorkers ==
    ASSUME TypeOK
    PROVE  LiveWorkersAreListed
<1>1. now \in Int /\ Window \in Int /\ WorkerLimit \in Nat
      /\ \A w \in Worker : last_seen[w] \in Int
  BY BoardAssumption, ListingAssumption
     DEF TypeOK, BoardTypeOK, ListTypeOK, Time, MaybeTime, NoTime
<1>2. SUFFICES ASSUME NEW g \in Group, NEW live,
                      live = {w \in WorkersOf(g) : last_seen[w] >= now - Window},
                      Cardinality(live) <= WorkerLimit,
                      NEW r \in ListWorkers(g), NEW w \in live, w \notin r
               PROVE  FALSE
  BY DEF LiveWorkersAreListed
<1>3. PICK W \in SUBSET Worker : W = WorkersOf(g)
  BY DEF WorkersOf
<1>4. /\ r \in SUBSET W /\ Cardinality(r) <= WorkerLimit
      /\ Cardinality(r) < WorkerLimit => r = W
      /\ \A v \in r, u \in W \ r : last_seen[v] >= last_seen[u]
  BY <1>3 DEF ListWorkers, SeenLast
<1>5. w \in W \ r /\ last_seen[w] >= now - Window
  BY <1>2, <1>3
<1>6. ASSUME NEW v \in r PROVE v \in live
  <2>1. v \in W /\ last_seen[v] >= last_seen[w]
    BY <1>4, <1>5
  <2>2. last_seen[v] \in Int /\ last_seen[w] \in Int
    BY <1>1, <1>3, <1>5, <2>1
  <2>3. last_seen[v] >= now - Window
    BY <1>1, <1>5, <2>1, <2>2
  <2> QED
    BY <1>2, <1>3, <2>1, <2>3
<1>7. IsFiniteSet(live) /\ IsFiniteSet(r)
  <2>1. live \in SUBSET Worker /\ r \in SUBSET Worker
    BY <1>2, <1>3, <1>4
  <2> QED
    BY <2>1, ListingAssumption, FS_Subset
<1>8. Cardinality(r) \in Nat /\ Cardinality(live) \in Nat
  BY <1>7, FS_CardinalityType
<1>9. Cardinality(r \cup {w}) = Cardinality(r) + 1
  BY <1>2, <1>7, FS_AddElement
<1>10. r \cup {w} \in SUBSET live
  BY <1>2, <1>6
<1>11. Cardinality(r \cup {w}) <= Cardinality(live)
  BY <1>7, <1>10, FS_Subset
<1>12. Cardinality(r) < WorkerLimit
  BY <1>1, <1>2, <1>8, <1>9, <1>11
<1> QED
  BY <1>4, <1>5, <1>12

-----------------------------------------------------------------------------
(* All of it. *)

IInv == TypeOK /\ WaitInv /\ StampInv /\ BoardInv /\ PagesInv

\* The tables are empty and nobody has read anything.
LEMMA ReadersBegin ==
    ASSUME ReadersInit
    PROVE  IInv
<1>1. /\ life = [j \in Job |-> At("Unborn")] /\ client \in Client
      /\ WaitInit /\ BoardInit /\ ListInit
  BY DEF ReadersInit, Init
<1>2. life \in [Job -> Life]
  BY <1>1 DEF At, Life
<1>3. WaitTypeOK /\ WaitInv
  <2>1. remaining = Asked /\ items = <<>> /\ errors = 0 /\ ended = FALSE
    BY <1>1 DEF WaitInit
  <2>2. Reported = {} /\ DOMAIN items = {}
    BY <2>1 DEF Reported
  <2>3. WaitTypeOK
    <3>1. <<>> \in Seq(Asked \X {"Ok", "Err"}) /\ 0 \in Nat
      BY EmptySeq
    <3> QED
      BY <2>1, <3>1, Zenon DEF WaitTypeOK
  <2>4. ReportedOnceAndFinal
    BY <2>2 DEF ReportedOnceAndFinal
  <2> QED
    BY <2>1, <2>2, <2>3, <2>4 DEF WaitInv
<1>4. /\ now \in Time /\ done_at \in [Job -> MaybeTime] /\ lock_at \in [Job -> LockOrder]
      /\ quiet \in BOOLEAN /\ done_rows \subseteq Job \X Time
  BY <1>1, BoardAssumption DEF BoardInit, Time, MaybeTime, LockOrder
<1>5. StampInv
  BY <1>1 DEF StampInv, BoardInit, At
<1>6. /\ board \in Call /\ board.stage = "counts" /\ board.listed = {}
      /\ \A g \in Group : board.bars[g] = NoBars
  <2>1. board = NoCall
    BY <1>1 DEF BoardInit
  <2>2. NoCounts \in [total : Nat, done : Nat, backlog : Nat]
    BY DEF NoCounts
  <2>3. BuildStatistics(NoCounts, NoTime) \in [done : Nat, backlog : Nat, oldest : Nat]
    BY <2>2, BuiltStatistics
  <2>4. NoBars \in [1 .. ActivityDays -> Nat]
    BY DEF NoBars
  <2>5. /\ [g \in Group |-> NoCounts]
             \in [Group -> [total : Nat, done : Nat, backlog : Nat]]
        /\ [g \in Group |-> NoTime] \in [Group -> Nat \cup {NoTime}]
        /\ [g \in Group |-> BuildStatistics(NoCounts, NoTime)]
             \in [Group -> [done : Nat, backlog : Nat, oldest : Nat]]
        /\ [g \in Group |-> [t \in Day |-> 0]] \in [Group -> [Day -> Nat]]
        /\ [g \in Group |-> NoBars] \in [Group -> [1 .. ActivityDays -> Nat]]
    BY <2>2, <2>3, <2>4
  <2>6. NoCall \in Call
    BY <2>5 DEF NoCall, Call, Stage
  <2> QED
    BY <2>1, <2>6 DEF NoCall
<1>7. BoardTypeOK /\ BoardInv
  BY <1>4, <1>6 DEF BoardTypeOK, BoardInv, AnswersStand, ActivityStands, NothingElse,
                    QuietBoardAgrees, BarsAreWholeDays
<1>8. /\ paging.offset = 0 /\ paging.end = "no" /\ paging.got = <<>>
      /\ paging.first = {} /\ paging \in Paging
      /\ left \in BOOLEAN /\ joined \in BOOLEAN /\ last_seen \in [Worker -> MaybeTime]
  <2>1. <<>> \in Seq(Job) /\ NoTime \in MaybeTime
    BY EmptySeq DEF MaybeTime
  <2>2. paging = [typed |-> FALSE, queues |-> {}, status |-> "Pending",
                  offset |-> 0, got |-> <<>>, first |-> {}, end |-> "no"]
    BY <1>1 DEF ListInit
  <2>3. /\ paging.offset = 0 /\ paging.end = "no" /\ paging.got = <<>>
        /\ paging.first = {} /\ paging \in Paging
    BY <2>1, <2>2 DEF Paging, JobStatus
  <2>4. left \in BOOLEAN /\ joined \in BOOLEAN /\ last_seen \in [Worker -> MaybeTime]
    BY <1>1, <2>1 DEF ListInit
  <2> QED
    BY <2>3, <2>4
<1>9. NoneSkipped(paging) /\ NoneTwice(paging)
  <2>1. Elements(paging.got) = {} /\ DOMAIN paging.got = {}
    BY <1>8 DEF Elements
  <2> QED
    BY <1>8, <2>1 DEF NoneSkipped, NoneTwice
<1>10. ListTypeOK /\ PagesInv
  BY <1>8, <1>9 DEF ListTypeOK, PagesInv, PagesAddUp
<1> QED
  BY <1>1, <1>2, <1>3, <1>5, <1>7, <1>10 DEF IInv, TypeOK

\* Every step of a reader, of the jobs, of the workers or of the clock keeps the
\* invariant.
LEMMA ReadersStep ==
    ASSUME IInv, [ReadersNext]_vars
    PROVE  IInv'
<1>1. TypeOK /\ WaitInv /\ StampInv /\ BoardInv /\ PagesInv
  BY DEF IInv
<1>2. WaitTypeOK' /\ WaitInv'
  BY <1>1, WaitStep
<1>3. StampInv'
  BY <1>1, StampStep
<1>4. BoardTypeOK' /\ BoardInv'
  BY <1>1, BoardStep
<1>5. ListTypeOK' /\ PagesInv'
  BY <1>1, PagesStep
<1>6. life' \in [Job -> Life] /\ client' \in Client
  BY <1>1, LifeType, SameClient DEF TypeOK
<1> QED
  BY <1>2, <1>3, <1>4, <1>5, <1>6 DEF IInv, TypeOK

\* The invariant of the readers holds throughout.
THEOREM ReadersCorrect == ReadersSpec => []IInv
<1>1. ReadersInit => IInv
  BY ReadersBegin
<1>2. IInv /\ [ReadersNext]_vars => IInv'
  BY ReadersStep
<1> QED
  BY <1>1, <1>2, PTL DEF ReadersSpec

\* The rows, the calls under way and what they have read keep their types.
THEOREM ReadersTypeCorrect == ReadersSpec => []TypeOK
<1>1. IInv => TypeOK
  BY DEF IInv
<1> QED
  BY <1>1, ReadersCorrect, PTL

\* wait_for reports each task at most once, and only when it will not run again.
THEOREM ReportedOnceHolds == ReadersSpec => []ReportedOnceAndFinal
<1>1. IInv => ReportedOnceAndFinal
  BY DEF IInv, WaitInv
<1> QED
  BY <1>1, ReadersCorrect, PTL

\* The stream of wait_for ends only when every task has been reported, or after
\* an error: whatever the order of the rows, and of the polls and the workers.
THEOREM EndIsCompleteHolds == ReadersSpec => []EndIsComplete
<1>1. IInv => EndIsComplete
  <2>1. SUFFICES ASSUME IInv, ended, ~(errors > 0) PROVE Reported = Asked
    BY DEF EndIsComplete
  <2>2. errors \in Nat
    BY <2>1 DEF IInv, TypeOK, WaitTypeOK
  <2>3. errors = 0
    BY <2>1, <2>2
  <2> QED
    BY <2>1, <2>3, Zenon DEF IInv, WaitInv
<1> QED
  BY <1>1, ReadersCorrect, PTL

\* A duration summed up by the statistics is never negative.
THEOREM NoNegativeDurationHolds == ReadersSpec => []NoNegativeDuration
<1>1. IInv => NoNegativeDuration
  BY DEF IInv, StampInv, NoNegativeDuration, Finished
<1> QED
  BY <1>1, ReadersCorrect, PTL

\* The bars of the activity chart count whole days, for every length of a day
\* and of the chart, and whenever the clocks are read.
THEOREM BarsAreWholeDaysHolds == ReadersSpec => []BarsAreWholeDays
<1>1. IInv => BarsAreWholeDays
  BY DEF IInv, BoardInv
<1> QED
  BY <1>1, ReadersCorrect, PTL

\* The statistics of an undisturbed call agree with each other.
THEOREM QuietBoardAgreesHolds == ReadersSpec => []QuietBoardAgrees
<1>1. IInv => QuietBoardAgrees
  BY DEF IInv, BoardInv
<1> QED
  BY <1>1, ReadersCorrect, PTL

\* As long as no task leaves the listing a reader of pages skips none, and as long
\* as none joins it there is none twice, for every page size.
THEOREM PagesAddUpHolds == ReadersSpec => []PagesAddUp
<1>1. IInv => PagesAddUp
  BY DEF IInv, PagesInv
<1> QED
  BY <1>1, ReadersCorrect, PTL

\* While no more workers are live than list_workers returns, each is listed.
THEOREM LiveWorkersListedHolds == ReadersSpec => []LiveWorkersAreListed
<1>1. IInv => LiveWorkersAreListed
  BY LiveWorkers DEF IInv
<1> QED
  BY <1>1, ReadersCorrect, PTL

=============================================================================
