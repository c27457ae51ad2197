------------------------- MODULE LiveStorageProofs -------------------------
(***************************************************************************)
(* Proofs about LiveStorage, for every finite set of tasks, every batch    *)
(* size, every base and cap of the backoff, and every bound.               *)
(***************************************************************************)
EXTENDS LiveStorage, SequenceFacts

-----------------------------------------------------------------------------
(* The inductive invariant. *)

\* Nobody has heard of a task that has not been created.
NothingForeseen == coming \cap (later \cup Announced \cup missed) = {}

\* WakesCoverDue as the steps keep it.  A task that is announced and missed (its
\* run_at passed before its notification was delivered) counts once, and one
\* whose run_at lies ahead not at all: its announcement is spent before it is due.
DueIsCovered ==
    Cardinality(due) <= wakes + Cardinality((Announced \cup missed) \ later)

IInv == TypeOK /\ BackoffIsDoubled /\ NothingForeseen /\ DueIsCovered

-----------------------------------------------------------------------------
(* The backoff. *)

\* One doubling, up to the cap.
Step == [n \in Nat |-> [x \in 0 .. BackoffCap |->
            IF 2 * x < BackoffCap THEN 2 * x ELSE BackoffCap]]

\* Doubled is the base for no failure, and one doubling more for each failure.
LEMMA DoubledFacts ==
    /\ Doubled \in [Nat -> 0 .. BackoffCap]
    /\ Doubled[0] = BackoffBase
    /\ \A n \in Nat : Doubled[n + 1] = IF 2 * Doubled[n] < BackoffCap
                                       THEN 2 * Doubled[n] ELSE BackoffCap
<1> DEFINE S == 0 .. BackoffCap
           IsDoubled(d) == d = [n \in Nat |->
               IF n = 0 THEN BackoffBase
               ELSE IF 2 * d[n - 1] < BackoffCap THEN 2 * d[n - 1]
               ELSE BackoffCap]
<1>1. BackoffBase \in S /\ Step \in [Nat -> [S -> S]]
  BY LiveAssumption DEF Step
<1>2. PICK f \in [Nat -> S] :
        f[0] = BackoffBase /\ \A n \in Nat : f[n + 1] = Step[n][f[n]]
  <2>1. \E f : Iterates(f, S, BackoffBase, Step)
    BY <1>1, Iterate
  <2> QED
    BY <2>1 DEF Iterates
<1>3. ASSUME NEW n \in Nat, n # 0
      PROVE  f[n] = IF 2 * f[n - 1] < BackoffCap THEN 2 * f[n - 1]
                    ELSE BackoffCap
  <2>1. n - 1 \in Nat /\ (n - 1) + 1 = n
    BY <1>3
  <2>2. f[n - 1] \in S /\ f[n] = Step[n - 1][f[n - 1]]
    BY <1>2, <2>1
  <2> QED
    BY <2>1, <2>2 DEF Step
<1>4. IsDoubled(f)
  BY <1>2, <1>3
<1>5. IsDoubled(Doubled)
  <2>1. Doubled = CHOOSE d : IsDoubled(d)
    BY DEF Doubled
  <2> HIDE DEF IsDoubled
  <2> QED
    BY <1>4, <2>1
<1>6. ASSUME NEW n \in Nat
      PROVE  Doubled[n] = IF n = 0 THEN BackoffBase
                          ELSE IF 2 * Doubled[n - 1] < BackoffCap
                               THEN 2 * Doubled[n - 1] ELSE BackoffCap
  BY <1>5
<1>7. \A n \in Nat : Doubled[n] = f[n]
  <2> DEFINE Bad == {n \in Nat : Doubled[n] # f[n]}
  <2>1. ASSUME Bad # {} PROVE FALSE
    <3>1. PICK n \in Bad : \A m \in Bad : n <= m
      BY <2>1, NatMin
    <3>2. n \in Nat /\ n # 0
      BY <1>2, <1>6
    <3>3. n - 1 \in Nat /\ n - 1 \notin Bad
      BY <3>1, <3>2
    <3>4. Doubled[n - 1] = f[n - 1]
      BY <3>3
    <3>5. f[n] = IF 2 * f[n - 1] < BackoffCap THEN 2 * f[n - 1]
                 ELSE BackoffCap
      BY <1>3, <3>2
    <3> QED
      BY <3>2, <3>4, <3>5, <1>6
  <2> QED
    BY <2>1
<1>8. Doubled \in [Nat -> S]
  <2>1. \A n \in Nat : Doubled[n] \in S
    BY <1>2, <1>7
  <2>2. Doubled = [n \in Nat |-> Doubled[n]]
    BY <1>5
  <2> QED
    BY <2>1, <2>2
<1>9. ASSUME NEW n \in Nat
      PROVE  Doubled[n + 1] = IF 2 * Doubled[n] < BackoffCap
                              THEN 2 * Doubled[n] ELSE BackoffCap
  <2>1. n + 1 \in Nat /\ n + 1 # 0 /\ (n + 1) - 1 = n
    OBVIOUS
  <2> QED
    BY <2>1, <1>6
<1> QED
  BY <1>8, <1>6, <1>9

-----------------------------------------------------------------------------
(* Counting tasks. *)

\* How many tasks a set holds when it loses or gains one.
LEMMA Counts ==
    ASSUME NEW S \in SUBSET Task, NEW T \in SUBSET Task
    PROVE  /\ IsFiniteSet(S) /\ Cardinality(S) \in Nat
           /\ S \subseteq T => Cardinality(S) <= Cardinality(T)
           /\ \A x : T \subseteq S \cup {x} => Cardinality(T) <= Cardinality(S) + 1
           /\ \A x \in T : x \notin S /\ S \subseteq T
                            => Cardinality(S) + 1 <= Cardinality(T)
           /\ Cardinality(S \cup T) <= Cardinality(S) + Cardinality(T)
           /\ S \subseteq T => Cardinality(T \ S) = Cardinality(T) - Cardinality(S)
<1>1. IsFiniteSet(S) /\ IsFiniteSet(T)
  BY LiveAssumption, FS_Subset
<1>2. Cardinality(S) \in Nat /\ Cardinality(T) \in Nat
  BY <1>1, FS_CardinalityType
<1>3. ASSUME S \subseteq T PROVE Cardinality(S) <= Cardinality(T)
  BY <1>1, <1>3, FS_Subset
<1>4. ASSUME NEW x, T \subseteq S \cup {x}
      PROVE  Cardinality(T) <= Cardinality(S) + 1
  <2>1. /\ IsFiniteSet(S \cup {x})
        /\ \/ Cardinality(S \cup {x}) = Cardinality(S)
           \/ Cardinality(S \cup {x}) = Cardinality(S) + 1
    <3>1. /\ IsFiniteSet(S \cup {x})
          /\ Cardinality(S \cup {x})
                = IF x \in S THEN Cardinality(S) ELSE Cardinality(S) + 1
      BY <1>1, FS_AddElement
    <3> QED
      BY <3>1
  <2>2. Cardinality(T) <= Cardinality(S \cup {x})
    BY <1>4, <2>1, FS_Subset
  <2>3. Cardinality(S \cup {x}) \in Nat
    BY <2>1, FS_CardinalityType
  <2> QED
    BY <1>2, <2>1, <2>2, <2>3
<1>5. ASSUME NEW x \in T, x \notin S, S \subseteq T
      PROVE  Cardinality(S) + 1 <= Cardinality(T)
  <2>1. IsFiniteSet(S \cup {x}) /\ Cardinality(S \cup {x}) = Cardinality(S) + 1
    BY <1>1, <1>5, FS_AddElement
  <2>2. S \cup {x} \subseteq T
    BY <1>5
  <2> QED
    BY <1>1, <2>1, <2>2, FS_Subset
<1>6. Cardinality(S \cup T) <= Cardinality(S) + Cardinality(T)
  <2>1. /\ Cardinality(S \cup T)
              = Cardinality(S) + Cardinality(T) - Cardinality(S \cap T)
        /\ IsFiniteSet(S \cap T)
    BY <1>1, FS_Union, FS_Intersection
  <2>2. Cardinality(S \cap T) \in Nat
    BY <2>1, FS_CardinalityType
  <2> QED
    BY <1>2, <2>1, <2>2
<1>7. ASSUME S \subseteq T
      PROVE  Cardinality(T \ S) = Cardinality(T) - Cardinality(S)
  <2>1. T \cap S = S
    BY <1>7
  <2> QED
    BY <1>1, <2>1, FS_Difference
<1> QED
  BY <1>1, <1>2, <1>3, <1>4, <1>5, <1>6, <1>7

-----------------------------------------------------------------------------
(* The notifications. *)

\* The tasks announced, before and after a notification is sent, delivered or
\* lost.
LEMMA AnnouncedFacts ==
    ASSUME notes \in Seq(Note)
    PROVE  /\ Announced \subseteq Task
           /\ notes' = notes => Announced' = Announced
           /\ notes' = <<>> => Announced' = {}
           /\ notes # <<>> =>
                /\ Head(notes) \in Note /\ Tail(notes) \in Seq(Note)
                /\ notes' = Tail(notes) =>
                     /\ Announced' \subseteq Announced
                     /\ Announced \subseteq Announced' \cup {Head(notes)}
                     /\ Head(notes) \notin Task => Announced' = Announced
           /\ \A a \in Note :
                /\ Append(notes, a) \in Seq(Note)
                /\ notes' = Append(notes, a) =>
                     /\ a \in Task => Announced' = Announced \cup {a}
                     /\ a \notin Task => Announced' = Announced
<1>1. Announced = Items(notes) \cap Task /\ Announced' = Items(notes') \cap Task
  BY DEF Announced, Items
<1>2. Items(<<>>) = {}
  BY DEF Items
<1>3. notes # <<>> => /\ Head(notes) \in Note /\ Tail(notes) \in Seq(Note)
                      /\ Items(notes) = {Head(notes)} \cup Items(Tail(notes))
  BY ItemsOfTail
<1>4. \A a \in Note : /\ Append(notes, a) \in Seq(Note)
                      /\ Items(Append(notes, a)) = Items(notes) \cup {a}
  BY ItemsOfAppend
<1> QED
  BY <1>1, <1>2, <1>3, <1>4

-----------------------------------------------------------------------------
(* The invariant. *)

\* Nothing is due, announced or missed at the start.
LEMMA InitIInv == Init => IInv
<1> SUFFICES ASSUME Init PROVE IInv
  OBVIOUS
<1>1. Announced = {} /\ missed = {} /\ later = {} /\ due = {}
  BY DEF Init, Announced
<1>2. TypeOK
  BY LiveAssumption DEF Init, TypeOK, Half
<1>3. DueIsCovered
  BY <1>1, FS_EmptySet DEF Init, DueIsCovered
<1> QED
  BY <1>1, <1>2, <1>3, DoubledFacts
     DEF Init, IInv, NothingForeseen, BackoffIsDoubled

\* A failure of the live query doubles the backoff once.
LEMMA BackOffFacts ==
    ASSUME IInv, BackOff
    PROVE  /\ backoff' \in 0 .. BackoffCap /\ delay' \in 0 .. BackoffCap
           /\ fails' \in 0 .. MaxFails /\ state' = "Backoff"
           /\ BackoffIsDoubled'
<1>1. /\ backoff \in 0 .. BackoffCap /\ fails \in 0 .. MaxFails
      /\ backoff = Doubled[fails]
  BY DEF IInv, TypeOK, BackoffIsDoubled
<1>2. fails \in Nat /\ fails' = fails + 1 /\ fails' \in 0 .. MaxFails
  BY <1>1, LiveAssumption DEF BackOff
<1>3. backoff' \in 0 .. BackoffCap
  BY <1>1, LiveAssumption DEF BackOff
<1>4. backoff' = Doubled[fails + 1]
  BY <1>1, <1>2, DoubledFacts DEF BackOff
<1> QED
  BY <1>1, <1>2, <1>3, <1>4 DEF BackOff, BackoffIsDoubled

\* A claim covers as many due tasks as the wake-ups it answers.
LEMMA ClaimFacts ==
    ASSUME TypeOK, NEW S \in SUBSET due, Claim(S)
    PROVE  /\ due' \subseteq due
           /\ Cardinality(due') <= Cardinality(due)
           /\ \/ Cardinality(due') = 0
              \/ Cardinality(due') = Cardinality(due) - BatchSize
<1>1. /\ S = due \/ Cardinality(S) = BatchSize
      /\ due' = due \ S
  BY DEF Claim
<1>2. due \subseteq Task /\ S \subseteq Task /\ due' \subseteq due
  BY <1>1 DEF TypeOK
<1>3. /\ Cardinality(due') = Cardinality(due) - Cardinality(S)
      /\ Cardinality(due') <= Cardinality(due)
  BY <1>1, <1>2, Counts
<1>4. S = due => Cardinality(due') = 0
  BY <1>1, FS_EmptySet
<1> QED
  BY <1>1, <1>2, <1>3, <1>4

\* A fetch_next claims only what is due, whether it succeeds or fails.
LEMMA OnlyDueClaimed ==
    LazyAnswer \/ LazyFails \/ EagerAnswer \/ EagerFails => due' \subseteq due
BY DEF LazyAnswer, LazyFails, EagerAnswer, EagerFails, ClaimFails, Claim

\* Every step keeps the types and the backoff.
LEMMA NextTypes == IInv /\ [Next]_vars => TypeOK' /\ BackoffIsDoubled'
<1> SUFFICES ASSUME IInv, [Next]_vars PROVE TypeOK' /\ BackoffIsDoubled'
  OBVIOUS
<1> USE LiveAssumption DEF table, live, lazyVars, eagerVars, stream
<1>1. TypeOK /\ notes \in Seq(Note) /\ BackoffIsDoubled
  BY DEF IInv, TypeOK
<1>2. ASSUME NEW t \in Task, Create(t) PROVE TypeOK' /\ BackoffIsDoubled'
  <2>1. notes' \in Seq(Note)
    <3>1. t \in Note
      BY DEF Note
    <3> QED
      BY <1>1, <1>2, <3>1, AnnouncedFacts DEF Create, Notify
  <2> QED
    BY <1>1, <1>2, <2>1 DEF Create, TypeOK, BackoffIsDoubled
<1>3. ASSUME NEW t \in Task, BecomesDue(t) \/ TakenElsewhere(t)
      PROVE  TypeOK' /\ BackoffIsDoubled'
  BY <1>1, <1>3 DEF BecomesDue, TakenElsewhere, TypeOK, BackoffIsDoubled
<1>4. CASE OtherNotification
  <2>1. notes' \in Seq(Note)
    BY <1>1, <1>4, AnnouncedFacts DEF OtherNotification, Notify
  <2> QED
    BY <1>1, <1>4, <2>1 DEF OtherNotification, TypeOK, BackoffIsDoubled
<1>5. CASE Subscribe \/ Subscribed \/ BackoffOver
  BY <1>1, <1>5 DEF Subscribe, Subscribed, BackoffOver, TypeOK, BackoffIsDoubled
<1>6. CASE SubscribeFails
  BY <1>1, <1>6, BackOffFacts DEF SubscribeFails, TypeOK
<1>7. CASE StreamEnds
  <2>1. Announced \subseteq Task
    BY DEF Announced
  <2> QED
    BY <1>1, <1>7, <2>1, BackOffFacts DEF StreamEnds, TypeOK
<1>8. CASE Notified
  <2>1. Tail(notes) \in Seq(Note)
    BY <1>1, <1>8, AnnouncedFacts DEF Notified
  <2>2. TypeOK'
    BY <1>1, <1>8, <2>1 DEF Notified, Listening, Room, TypeOK
  <2>3. BackoffIsDoubled'
    BY <1>1, <1>8, DoubledFacts DEF Notified, ResetsBackoff, BackoffIsDoubled
  <2> QED
    BY <2>2, <2>3
<1>9. CASE LazyStarts \/ LazyAnswer \/ LazyFails
  BY <1>1, <1>9, OnlyDueClaimed
     DEF LazyStarts, LazyAnswer, LazyFails, TypeOK, BackoffIsDoubled
<1>10. CASE EagerAnswer \/ EagerFails \/ DelayOver
  BY <1>1, <1>10, OnlyDueClaimed
     DEF EagerAnswer, EagerFails, DelayOver, TypeOK, BackoffIsDoubled
<1>11. CASE PollStream
  <2>1. lazyHeld' \subseteq lazyHeld /\ eagerHeld' \subseteq eagerHeld
    BY <1>11 DEF PollStream, LazyPolled, EagerPolled
  <2>2. eager' \in {"Ready", "Fetch", "Delay", "Buffered", "Failed", "Empty"}
    BY <1>1, <1>11 DEF PollStream, EagerPolled, TypeOK
  <2>3. running' \in BOOLEAN /\ turn' \in Half
    BY <1>11 DEF PollStream, Half
  <2> QED
    BY <1>1, <1>11, <2>1, <2>2, <2>3 DEF PollStream, TypeOK, BackoffIsDoubled
<1>12. CASE UNCHANGED vars
  BY <1>1, <1>12 DEF vars, TypeOK, BackoffIsDoubled
<1> QED
  BY <1>2, <1>3, <1>4, <1>5, <1>6, <1>7, <1>8, <1>9, <1>10, <1>11, <1>12
     DEF Next, LiveStep

\* Every step keeps due tasks covered by what is on its way.
LEMMA NextCovered == IInv /\ [Next]_vars => NothingForeseen' /\ DueIsCovered'
<1> SUFFICES ASSUME IInv, [Next]_vars PROVE NothingForeseen' /\ DueIsCovered'
  OBVIOUS
<1> USE LiveAssumption DEF table, live, lazyVars, eagerVars, stream
<1> DEFINE Cover == (Announced \cup missed) \ later
<1>1. /\ coming \subseteq Task /\ later \subseteq Task /\ due \subseteq Task
      /\ missed \subseteq Task /\ notes \in Seq(Note) /\ wakes \in Nat
      /\ Announced \subseteq Task
  BY DEF IInv, TypeOK, Announced
<1>2. /\ due' \subseteq Task /\ missed' \subseteq Task /\ wakes' \in Nat
      /\ Announced' \subseteq Task
  BY NextTypes DEF TypeOK, Announced
<1>3. Cover \in SUBSET Task /\ Cover' \in SUBSET Task
  BY <1>1, <1>2
<1>4. /\ Cardinality(due) \in Nat /\ Cardinality(due') \in Nat
      /\ Cardinality(Cover) \in Nat /\ Cardinality(Cover') \in Nat
  BY <1>1, <1>2, <1>3, Counts
<1>5. /\ Cardinality(due) <= wakes + Cardinality(Cover)
      /\ coming \cap (later \cup Announced \cup missed) = {}
  BY DEF IInv, DueIsCovered, NothingForeseen
<1>6. SUFFICES /\ Cardinality(due') <= wakes' + Cardinality(Cover')
               /\ coming' \cap (later' \cup Announced' \cup missed') = {}
  BY DEF DueIsCovered, NothingForeseen
<1>7. ASSUME Cover \subseteq Cover', wakes' = wakes, due' \subseteq due
      PROVE  Cardinality(due') <= wakes' + Cardinality(Cover')
  <2>1. Cardinality(Cover) <= Cardinality(Cover')
    BY <1>3, <1>7, Counts
  <2>2. Cardinality(due') <= Cardinality(due)
    BY <1>1, <1>2, <1>7, Counts
  <2> HIDE DEF Cover
  <2> QED
    BY <1>1, <1>4, <1>5, <1>7, <2>1, <2>2
<1>8. ASSUME NEW t \in Task, t \in Cover', t \notin Cover, Cover \subseteq Cover',
             wakes' = wakes, due' = due \cup {t}
      PROVE  Cardinality(due') <= wakes' + Cardinality(Cover')
  <2>1. Cardinality(Cover) + 1 <= Cardinality(Cover')
    BY <1>3, <1>8, Counts
  <2>2. Cardinality(due') <= Cardinality(due) + 1
    BY <1>1, <1>2, <1>8, Counts
  <2> HIDE DEF Cover
  <2> QED
    BY <1>1, <1>4, <1>5, <1>8, <2>1, <2>2
<1>9. ASSUME NEW t \in Task, Create(t)
      PROVE  /\ Cardinality(due') <= wakes' + Cardinality(Cover')
             /\ coming' \cap (later' \cup Announced' \cup missed') = {}
  <2>1. \/ state = "Active" /\ Announced' = Announced \cup {t}
        \/ state # "Active" /\ Announced' = Announced
    BY <1>1, <1>9, AnnouncedFacts DEF Create, Notify, Note
  <2>2. t \in coming /\ coming' = coming \ {t} /\ wakes' = wakes
    BY <1>9 DEF Create
  <2>3. CASE due' = due \cup {t} /\ later' = later
                /\ missed' = IF state = "Active" THEN missed ELSE missed \cup {t}
    <3>1. t \in Cover' /\ t \notin Cover /\ Cover \subseteq Cover'
      BY <1>5, <2>1, <2>2, <2>3
    <3>2. Cardinality(due') <= wakes' + Cardinality(Cover')
      BY <1>8, <2>2, <2>3, <3>1
    <3> QED
      BY <1>5, <2>1, <2>2, <2>3, <3>2
  <2>4. CASE later' = later \cup {t} /\ due' = due /\ missed' = missed
    <3>1. Cover \subseteq Cover'
      BY <1>5, <2>1, <2>2, <2>4
    <3>2. Cardinality(due') <= wakes' + Cardinality(Cover')
      BY <1>7, <2>2, <2>4, <3>1
    <3> QED
      BY <1>5, <2>1, <2>2, <2>4, <3>2
  <2> QED
    BY <1>9, <2>3, <2>4 DEF Create
<1>10. ASSUME NEW t \in Task, BecomesDue(t)
       PROVE  /\ Cardinality(due') <= wakes' + Cardinality(Cover')
              /\ coming' \cap (later' \cup Announced' \cup missed') = {}
  <2>1. /\ t \in later /\ later' = later \ {t} /\ due' = due \cup {t}
        /\ missed' = missed \cup {t} /\ wakes' = wakes /\ coming' = coming
        /\ Announced' = Announced
    BY <1>10 DEF BecomesDue, Announced
  <2>2. t \in Cover' /\ t \notin Cover /\ Cover \subseteq Cover'
    BY <2>1
  <2> QED
    BY <1>5, <1>8, <2>1, <2>2
<1>11. CASE /\ wakes' = wakes /\ due' \subseteq due /\ coming' = coming
            /\ later' = later
            /\ Announced' \cup missed' = Announced \cup missed
  BY <1>5, <1>7, <1>11
<1>12. CASE OtherNotification
  <2>1. Announced' = Announced
    BY <1>1, <1>12, AnnouncedFacts DEF OtherNotification, Notify
  <2> QED
    BY <1>11, <1>12, <2>1 DEF OtherNotification
<1>13. CASE StreamEnds
  <2>1. Announced' = {}
    BY <1>13 DEF StreamEnds, Announced
  <2> QED
    BY <1>11, <1>13, <2>1 DEF StreamEnds
<1>14. CASE Notified
  <2>1. notes # <<>> /\ notes' = Tail(notes) /\ missed' = missed
        /\ due' = due /\ coming' = coming /\ later' = later
    BY <1>14 DEF Notified
  <2>2. /\ Announced' \subseteq Announced
        /\ Announced \subseteq Announced' \cup {Head(notes)}
        /\ Head(notes) \notin Task => Announced' = Announced
    BY <1>1, <2>1, AnnouncedFacts
  <2>3. coming' \cap (later' \cup Announced' \cup missed') = {}
    BY <1>5, <2>1, <2>2
  <2>4. CASE Head(notes) \in Task
    <3>1. wakes' = wakes + 1
      BY <1>14, <2>4 DEF Notified
    <3>2. Cover \subseteq Cover' \cup {Head(notes)}
      BY <2>1, <2>2
    <3>3. Cardinality(Cover) <= Cardinality(Cover') + 1
      BY <1>3, <3>2, Counts
    <3>4. Cardinality(due') = Cardinality(due)
      BY <2>1
    <3> HIDE DEF Cover
    <3> QED
      BY <1>1, <1>4, <1>5, <2>3, <3>1, <3>3, <3>4
  <2>5. CASE Head(notes) \notin Task
    <3>1. wakes' = wakes \/ wakes' = wakes + 1
      BY <1>14 DEF Notified
    <3>2. Cover' = Cover /\ due' = due
      BY <2>1, <2>2, <2>5
    <3> HIDE DEF Cover
    <3> QED
      BY <1>1, <1>4, <1>5, <2>3, <3>1, <3>2
  <2> QED
    BY <2>4, <2>5
<1>15. CASE LazyAnswer
  <2>1. /\ Cardinality(due') <= Cardinality(due)
        /\ \/ Cardinality(due') = 0
           \/ Cardinality(due') = Cardinality(due) - BatchSize
    BY <1>15, ClaimFacts DEF LazyAnswer, IInv
  <2>2. /\ coming' = coming /\ later' = later /\ missed' = missed
        /\ Announced' = Announced /\ Cover' = Cover
    BY <1>15 DEF LazyAnswer, Announced
  <2>3. wakes \in 0 .. BatchSize /\ wakes' = 0
    BY <1>15 DEF LazyAnswer, IInv, TypeOK
  <2>4. Cardinality(due') <= wakes' + Cardinality(Cover')
    <3> HIDE DEF Cover
    <3> QED
      BY <1>4, <1>5, <2>1, <2>2, <2>3
  <2> QED
    BY <1>5, <2>2, <2>4
<1>16. CASE LazyFails \/ EagerAnswer \/ EagerFails
  BY <1>11, <1>16, OnlyDueClaimed DEF LazyFails, EagerAnswer, EagerFails, Announced
<1>17. CASE LazyStarts \/ DelayOver \/ PollStream
  BY <1>11, <1>17 DEF LazyStarts, DelayOver, PollStream, Announced
<1>18. CASE \E t \in Task : TakenElsewhere(t)
  BY <1>11, <1>18 DEF TakenElsewhere, Announced
<1>19. CASE Subscribe \/ Subscribed \/ SubscribeFails \/ BackoffOver
  BY <1>11, <1>19
     DEF Subscribe, Subscribed, SubscribeFails, BackoffOver, Announced
<1>20. CASE UNCHANGED vars
  BY <1>11, <1>20 DEF vars, Announced
<1> QED
  BY <1>9, <1>10, <1>12, <1>13, <1>14, <1>15, <1>16, <1>17, <1>18, <1>19, <1>20
     DEF Next, LiveStep

\* The live storage keeps the invariant in every reachable state.
THEOREM LiveCorrect == Spec => []IInv
<1>1. IInv /\ [Next]_vars => IInv'
  BY NextTypes, NextCovered DEF IInv
<1> QED
  BY <1>1, InitIInv, PTL DEF Spec

\* The live fetcher, its backoff and its delay keep their types and ranges.
THEOREM LiveTypeCorrect == Spec => []TypeOK
<1>1. IInv => TypeOK
  BY DEF IInv
<1> QED
  BY <1>1, LiveCorrect, PTL

\* The next wait is the base doubled once for each failure since the stream
\* last delivered something, up to the cap.
THEOREM BackoffHolds == Spec => []BackoffIsDoubled
<1>1. IInv => BackoffIsDoubled
  BY DEF IInv
<1> QED
  BY <1>1, LiveCorrect, PTL

\* Coalescing the wake-ups leaves no announced task behind.
THEOREM WakesHold == Spec => []WakesCoverDue
<1>1. IInv => WakesCoverDue
  <2> SUFFICES ASSUME IInv PROVE WakesCoverDue
    OBVIOUS
  <2> DEFINE Cover == (Announced \cup missed) \ later
  <2>1. /\ Announced \in SUBSET Task /\ missed \in SUBSET Task
        /\ due \in SUBSET Task /\ wakes \in Nat
        /\ Cardinality(due) <= wakes + Cardinality(Cover)
    BY DEF IInv, TypeOK, DueIsCovered, Announced
  <2>2. Cover \in SUBSET Task /\ Announced \cup missed \in SUBSET Task
        /\ Cover \subseteq Announced \cup missed
    BY <2>1
  <2>3. /\ Cardinality(Cover) <= Cardinality(Announced \cup missed)
        /\ Cardinality(Announced \cup missed)
              <= Cardinality(Announced) + Cardinality(missed)
        /\ Cardinality(Cover) \in Nat /\ Cardinality(Announced) \in Nat
        /\ Cardinality(missed) \in Nat /\ Cardinality(due) \in Nat
        /\ Cardinality(Announced \cup missed) \in Nat
    <3> HIDE DEF Cover
    <3> QED
      BY <2>1, <2>2, Counts
  <2> HIDE DEF Cover
  <2> QED
    BY <2>1, <2>3 DEF WakesCoverDue
<1> QED
  BY <1>1, LiveCorrect, PTL
=============================================================================
