------------------------- MODULE PollFetcherProofs -------------------------
(***************************************************************************)
(* Proofs about PollFetcher, for every set of tasks, every batch size and  *)
(* every retry bound.                                                      *)
(***************************************************************************)
EXTENDS PollFetcher, SequenceFacts

-----------------------------------------------------------------------------
(* The inductive invariant. *)

\* A fetch_next that runs has an attempt left; none of its attempts is counted
\* once it has returned.
AttemptLeft ==
    /\ state = "Fetch" => tries < MaxTxRetries
    /\ state # "Fetch" => tries = 0

\* The stream that has yielded an error is over.
ErrorEnds == errors > 0 => state = "Empty"

\* A task is in the table, in the buffer or handed on, and in one place only.
OnePlace ==
    /\ \A x, y \in DOMAIN buffer : buffer[x] = buffer[y] => x = y
    /\ due \cap coming = {}
    /\ (due \cup coming) \cap Elems(buffer) = {}
    /\ (due \cup coming) \cap Elems(out) = {}
    /\ Elems(buffer) \cap Elems(out) = {}

IInv == TypeOK /\ ClaimsOnlyWhenDrained /\ AttemptLeft /\ ErrorEnds /\ OnePlace

-----------------------------------------------------------------------------
(* The claim. *)

\* The elements of a sequence, under the name the shared facts use.
LEMMA ElemsAreItems == \A s : Elems(s) = Items(s)
BY DEF Elems, Items

\* A claim returns at most BatchSize due tasks, each once, and decoding leaves
\* some of them, in the same order.
LEMMA ClaimFacts ==
    ASSUME TypeOK, NEW b \in Batches, NEW got \in ReadableRows(b)
    PROVE  /\ Elems(b) \subseteq due
           /\ got \in Seq(Task) /\ Len(got) <= BatchSize
           /\ Elems(got) \subseteq Elems(b)
           /\ \A x, y \in DOMAIN got : got[x] = got[y] => x = y
<1>1. PICK n \in 0 .. BatchSize : b \in [1 .. n -> due]
  BY DEF Batches
<1>2. b \in Seq(due) /\ Len(b) = n
  BY <1>1, FetcherAssumption
<1>3. Elems(b) \subseteq due
  BY <1>1 DEF Elems
<1>4. PICK m \in 0 .. Len(b) : got \in [1 .. m -> Elems(b)]
  BY DEF ReadableRows
<1>5. got \in Seq(Task) /\ Len(got) = m /\ DOMAIN got = 1 .. m
  <2>1. m \in Nat
    BY <1>2, FetcherAssumption
  <2>2. got \in [1 .. m -> Task]
    BY <1>3, <1>4 DEF TypeOK
  <2> QED
    BY <2>1, <2>2, FunctionIsSeq
<1>6. Elems(got) \subseteq Elems(b)
  BY <1>4 DEF Elems
<1>7. \A x, y \in DOMAIN got : got[x] = got[y] => x = y
  <2>1. \A x, y \in 1 .. m : x < y => got[x] < got[y]
    BY <1>5 DEF ReadableRows, Ascending
  <2>2. \A x \in 1 .. m : got[x] \in Nat
    <3>1. ASSUME NEW x \in 1 .. m PROVE got[x] \in Elems(b)
      BY <1>4
    <3> QED
      BY <3>1, <1>3, FetcherAssumption DEF TypeOK
  <2>3. m \in Nat
    BY <1>2, <1>4, FetcherAssumption
  <2> QED
    BY <2>1, <2>2, <2>3, <1>5
<1> QED
  BY <1>2, <1>3, <1>4, <1>5, <1>6, <1>7, FetcherAssumption

\* The retry loop goes round again only below its bound.
LEMMA VerdictFacts ==
    ASSUME NEW e, NEW n \in Nat, Verdict(e, n) = "again"
    PROVE  n < MaxTxRetries
BY DEF Verdict, Classify

-----------------------------------------------------------------------------
(* The invariant. *)

\* The stream starts with an empty buffer and every task in the table.
LEMMA InitIInv == Init => IInv
<1> SUFFICES ASSUME Init PROVE IInv
  OBVIOUS
<1>1. Elems(<<>>) = {}
  BY DEF Elems
<1> QED
  BY <1>1, RetriesAssumption, FetcherAssumption
     DEF Init, IInv, TypeOK, State, ClaimsOnlyWhenDrained, AttemptLeft,
         ErrorEnds, OnePlace

\* Every action of the fetcher and of the table keeps the invariant.
LEMMA NextIInv == IInv /\ [Next]_vars => IInv'
<1> SUFFICES ASSUME IInv, [Next]_vars PROVE IInv'
  OBVIOUS
<1> USE RetriesAssumption, FetcherAssumption
<1>1. /\ TypeOK /\ buffer \in Seq(Task) /\ out \in Seq(Task)
      /\ tries \in Nat /\ errors \in Nat /\ Len(buffer) \in Nat
      /\ Elems(<<>>) = {}
  BY DEF IInv, TypeOK, Elems
<1>2. CASE \E t \in Task : BecomesDue(t)
  BY <1>1, <1>2
     DEF BecomesDue, IInv, TypeOK, ClaimsOnlyWhenDrained, AttemptLeft,
         ErrorEnds, OnePlace
<1>3. CASE StartFetch
  BY <1>1, <1>3
     DEF StartFetch, IInv, TypeOK, State, ClaimsOnlyWhenDrained, AttemptLeft,
         ErrorEnds, OnePlace
<1>4. CASE FetchOk
  <2>0. PICK b \in Batches : \E got \in ReadableRows(b) :
          /\ due' = due \ Elems(b)
          /\ buffer' = got
          /\ prev_count' = Len(got)
          /\ state' = IF got = <<>> THEN "Delay" ELSE "Buffered"
    BY <1>4 DEF FetchOk
  <2>1. PICK got \in ReadableRows(b) :
          /\ due' = due \ Elems(b)
          /\ buffer' = got
          /\ prev_count' = Len(got)
          /\ state' = IF got = <<>> THEN "Delay" ELSE "Buffered"
    BY <2>0
  <2>2. /\ Elems(b) \subseteq due
        /\ got \in Seq(Task) /\ Len(got) <= BatchSize
        /\ Elems(got) \subseteq Elems(b)
        /\ \A x, y \in DOMAIN got : got[x] = got[y] => x = y
    BY <1>1, ClaimFacts
  <2>3. state = "Fetch" /\ tries' = 0 /\ UNCHANGED <<coming, out, errors>>
    BY <1>4 DEF FetchOk
  <2>4. TypeOK'
    <3>1. Len(got) \in Nat
      BY <2>2
    <3>2. due' \subseteq Task /\ state' \in State
      BY <1>1, <2>1 DEF TypeOK, State
    <3> QED
      BY <1>1, <2>1, <2>2, <2>3, <3>1, <3>2 DEF TypeOK
  <2>5. ClaimsOnlyWhenDrained' /\ AttemptLeft' /\ ErrorEnds'
    BY <1>1, <2>1, <2>2, <2>3
       DEF IInv, ClaimsOnlyWhenDrained, AttemptLeft, ErrorEnds
  <2>6. OnePlace'
    BY <1>1, <2>1, <2>2, <2>3 DEF IInv, OnePlace
  <2> QED
    BY <2>4, <2>5, <2>6 DEF IInv
<1>5. CASE FetchConflict
  <2>1. /\ state = "Fetch" /\ buffer = <<>> /\ buffer' = buffer
        /\ UNCHANGED <<due, coming, prev_count, out>>
    BY <1>5 DEF FetchConflict, Failed, IInv, ClaimsOnlyWhenDrained
  <2>2. \/ /\ tries' = tries + 1 /\ tries + 1 < MaxTxRetries
           /\ state' = "Fetch" /\ errors' = errors
        \/ tries' = 0 /\ state' = "Empty" /\ errors' = errors + 1
    <3>1. PICK e \in Failures("conflict") :
            \/ /\ Verdict(e, tries + 1) = "again"
               /\ tries' = tries + 1
               /\ UNCHANGED <<state, buffer, prev_count, out, errors>>
            \/ Verdict(e, tries + 1) = "fail" /\ Failed
      BY <1>5 DEF FetchConflict
    <3>2. Verdict(e, tries + 1) = "again" => tries + 1 < MaxTxRetries
      BY <1>1, VerdictFacts
    <3> QED
      BY <3>1, <3>2, <2>1 DEF Failed
  <2> QED
    BY <1>1, <2>1, <2>2
       DEF IInv, TypeOK, State, ClaimsOnlyWhenDrained, AttemptLeft, ErrorEnds,
           OnePlace
<1>6. CASE FetchErr
  <2>1. due' \subseteq due
    BY <1>6 DEF FetchErr
  <2> QED
    BY <1>1, <1>6, <2>1
       DEF FetchErr, Failed, IInv, TypeOK, State, ClaimsOnlyWhenDrained,
           AttemptLeft, ErrorEnds, OnePlace
<1>7. CASE DelayOver
  BY <1>1, <1>7
     DEF DelayOver, IInv, TypeOK, State, ClaimsOnlyWhenDrained, AttemptLeft,
         ErrorEnds, OnePlace
<1>8. CASE Yield
  <2>1. /\ Head(buffer) \in Task /\ Tail(buffer) \in Seq(Task)
        /\ Len(Tail(buffer)) = Len(buffer) - 1
        /\ Head(buffer) = buffer[1]
        /\ \A x \in 1 .. Len(Tail(buffer)) : Tail(buffer)[x] = buffer[x + 1]
        /\ Elems(buffer) = {Head(buffer)} \cup Elems(Tail(buffer))
    BY <1>1, <1>8, ItemsOfTail, ElemsAreItems DEF Yield
  <2>2. /\ Append(out, Head(buffer)) \in Seq(Task)
        /\ Elems(Append(out, Head(buffer))) = Elems(out) \cup {Head(buffer)}
    BY <1>1, <2>1, ItemsOfAppend, ElemsAreItems
  <2>3. TypeOK'
    BY <1>1, <1>8, <2>1, <2>2 DEF Yield, TypeOK, State
  <2>4. ClaimsOnlyWhenDrained' /\ AttemptLeft' /\ ErrorEnds'
    BY <1>1, <1>8, <2>1
       DEF Yield, IInv, ClaimsOnlyWhenDrained, AttemptLeft, ErrorEnds
  <2>5. /\ Head(buffer) \notin Elems(Tail(buffer))
        /\ \A x, y \in DOMAIN Tail(buffer) :
               Tail(buffer)[x] = Tail(buffer)[y] => x = y
    <3>1. /\ DOMAIN buffer = 1 .. Len(buffer)
          /\ DOMAIN Tail(buffer) = 1 .. Len(Tail(buffer))
      BY <1>1, <2>1
    <3>2. \A x, y \in 1 .. Len(buffer) : buffer[x] = buffer[y] => x = y
      BY <3>1 DEF IInv, OnePlace
    <3>3. \A x \in 1 .. Len(Tail(buffer)) :
            x + 1 \in 1 .. Len(buffer) /\ 1 \in 1 .. Len(buffer) /\ x + 1 # 1
      BY <1>1, <2>1
    <3>4. \A x \in 1 .. Len(Tail(buffer)) : Tail(buffer)[x] # buffer[1]
      BY <2>1, <3>2, <3>3
    <3>5. \A x, y \in 1 .. Len(Tail(buffer)) :
            Tail(buffer)[x] = Tail(buffer)[y] => x = y
      BY <2>1, <3>2, <3>3
    <3> QED
      BY <2>1, <3>1, <3>4, <3>5 DEF Elems
  <2>6. OnePlace'
    BY <1>1, <1>8, <2>1, <2>2, <2>5 DEF Yield, IInv, OnePlace
  <2> QED
    BY <2>3, <2>4, <2>6 DEF IInv
<1>9. CASE YieldNothing
  BY <1>1, <1>9
     DEF YieldNothing, IInv, TypeOK, State, ClaimsOnlyWhenDrained, AttemptLeft,
         ErrorEnds, OnePlace
<1>10. CASE TakePending
  <2>1. /\ out \o buffer \in Seq(Task)
        /\ Elems(out \o buffer) = Elems(out) \cup Elems(buffer)
    BY <1>1, ItemsOfConcat, ElemsAreItems
  <2> QED
    BY <1>1, <1>10, <2>1
       DEF TakePending, IInv, TypeOK, State, ClaimsOnlyWhenDrained,
           AttemptLeft, ErrorEnds, OnePlace
<1>11. CASE UNCHANGED vars
  BY <1>11
     DEF vars, IInv, TypeOK, ClaimsOnlyWhenDrained, AttemptLeft, ErrorEnds,
         OnePlace
<1> QED
  BY <1>2, <1>3, <1>4, <1>5, <1>6, <1>7, <1>8, <1>9, <1>10, <1>11
     DEF Next, Poll

\* The fetcher keeps the invariant in every reachable state.
THEOREM FetcherCorrect == Spec => []IInv
BY InitIInv, NextIInv, PTL DEF Spec

\* The stream and its sequences keep their types.
THEOREM FetcherTypeCorrect == Spec => []TypeOK
<1>1. IInv => TypeOK
  BY DEF IInv
<1> QED
  BY <1>1, FetcherCorrect, PTL

\* The stream claims only when it has nothing left to hand on, and never sits
\* on more than one batch.
THEOREM DrainedHolds == Spec => []ClaimsOnlyWhenDrained
<1>1. IInv => ClaimsOnlyWhenDrained
  BY DEF IInv
<1> QED
  BY <1>1, FetcherCorrect, PTL

\* After an error has been yielded no step of the stream claims a task.
THEOREM ErrorHolds == Spec => NothingClaimedAfterError
<1>1. IInv /\ [Next]_vars => [errors > 0 => due \subseteq due']_vars
  <2> SUFFICES ASSUME IInv, Next, errors > 0 PROVE due \subseteq due'
    BY DEF vars
  <2>1. state = "Empty"
    BY DEF IInv, ErrorEnds
  <2> QED
    BY <2>1
       DEF Next, BecomesDue, Poll, StartFetch, FetchOk, FetchConflict, FetchErr,
           DelayOver, Yield, YieldNothing, TakePending
<1> QED
  BY <1>1, FetcherCorrect, PTL DEF Spec, NothingClaimedAfterError

-----------------------------------------------------------------------------
(* The line of claimed tasks. *)

\* A claim puts what it read at the end of a line that is empty.
LEMMA FetchOkIsClaim == ASSUME IInv, FetchOk PROVE Line!Claim
<1>1. buffer = <<>> /\ out' = out /\ TypeOK
  BY DEF IInv, ClaimsOnlyWhenDrained, FetchOk
<1>2. PICK b \in Batches :
        \E got \in ReadableRows(b) : due' = due \ Elems(b) /\ buffer' = got
  BY DEF FetchOk
<1>3. PICK got \in ReadableRows(b) : due' = due \ Elems(b) /\ buffer' = got
  BY <1>2
<1>4. /\ Elems(b) \subseteq due
      /\ got \in Seq(Task)
      /\ Elems(got) \subseteq Elems(b)
      /\ \A x, y \in DOMAIN got : got[x] = got[y] => x = y
  BY <1>1, ClaimFacts
<1>5. /\ SubSeq(got, Len(<<>>) + 1, Len(got)) = got
      /\ <<>> \o got = got
  BY <1>4
<1>6. \A x \in DOMAIN got : got[x] \in due \ due' /\ got[x] \in Task
  BY <1>1, <1>3, <1>4 DEF Elems, TypeOK
<1>7. Elems(got) \cap Elems(out) = {}
  BY <1>4 DEF IInv, OnePlace
<1>8. due' \subseteq due
  BY <1>3
<1> QED
  BY <1>1, <1>3, <1>4, <1>5, <1>6, <1>7, <1>8
     DEF Line!Claim, Line!From, Line!Members, Elems

\* poll_next hands on the first of the line.
LEMMA YieldIsHand ==
    ASSUME IInv, Yield
    PROVE  1 \in 1 .. Len(buffer) /\ Line!Hand("queue", 1)
<1>1. buffer \in Seq(Task) /\ out \in Seq(Task) /\ buffer # <<>>
  BY DEF IInv, TypeOK, Yield
<1>2. 1 \in 1 .. Len(buffer) /\ Len(buffer) \in Nat
  BY <1>1
<1>3. /\ out' = Append(out, Head(buffer)) /\ buffer' = Tail(buffer)
      /\ due' = due
  BY DEF Yield
<1>4. Tail(buffer) = SubSeq(buffer, 1 + 1, Len(buffer))
  BY <1>1
<1>5. SubSeq(buffer, 1, 1) = <<Head(buffer)>>
  BY <1>1, FirstAndRest
<1>6. {<<Head(buffer)>>[x] : x \in DOMAIN <<Head(buffer)>>} = {Head(buffer)}
  OBVIOUS
<1>7. Elems(out') = Elems(out) \cup {Head(buffer)}
  BY <1>1, <1>3, ItemsOfAppend, ElemsAreItems
<1> QED
  BY <1>2, <1>3, <1>4, <1>5, <1>6, <1>7 DEF Line!Hand, Line!From, Line!Members

\* take_pending hands on the whole line.
LEMMA TakePendingIsHand ==
    ASSUME IInv, TakePending, buffer # <<>>
    PROVE  /\ Len(buffer) \in 1 .. Len(buffer)
           /\ Line!Hand("queue", Len(buffer))
<1>1. buffer \in Seq(Task) /\ out \in Seq(Task)
  BY DEF IInv, TypeOK
<1>2. Len(buffer) \in 1 .. Len(buffer) /\ Len(buffer) \in Nat
  BY <1>1
<1>3. out' = out \o buffer /\ buffer' = <<>> /\ due' = due
  BY DEF TakePending, IInv, ClaimsOnlyWhenDrained, TypeOK, State
<1>4. SubSeq(buffer, Len(buffer) + 1, Len(buffer)) = <<>>
  BY <1>1, <1>2
<1>5. SubSeq(buffer, 1, Len(buffer)) = buffer
  BY <1>1, <1>2
<1>6. Elems(out') = Elems(out) \cup Elems(buffer)
  BY <1>1, <1>3, ItemsOfConcat, ElemsAreItems
<1> QED
  BY <1>2, <1>3, <1>4, <1>5, <1>6
     DEF Line!Hand, Line!From, Line!Members, Elems

\* The fetcher implements the line of claimed tasks: what it claimed is handed
\* on in order, at most once, and none of it is left out.
THEOREM FetcherImplementsLine == Spec => HandsOnInOrder
<1>1. Init => Line!LineInit
  BY DEF Init, Line!LineInit, Elems
<1>2. IInv /\ [Next]_vars => [Line!LineNext]_<<due, [q \in {"queue"} |-> buffer], Elems(out)>>
  <2> SUFFICES ASSUME IInv, [Next]_vars
               PROVE  \/ Line!LineNext
                      \/ UNCHANGED <<due, buffer, out>>
    BY DEF Elems
  <2>1. CASE \E t \in Task : BecomesDue(t)
    <3>1. Line!Return
      BY <2>1
         DEF BecomesDue, IInv, OnePlace, Elems, Line!Return, Line!InLine,
             Line!Members
    <3> QED
      BY <3>1 DEF Line!LineNext
  <2>2. CASE FetchOk
    BY <2>2, FetchOkIsClaim DEF Line!LineNext
  <2>3. CASE FetchErr
    <3>1. buffer = <<>> /\ buffer' = buffer /\ out' = out /\ due' \subseteq due
      BY <2>3 DEF FetchErr, Failed, IInv, ClaimsOnlyWhenDrained
    <3>2. SubSeq(<<>>, Len(<<>>) + 1, Len(<<>>)) = <<>> /\ <<>> \o <<>> = <<>>
      OBVIOUS
    <3>3. Line!Claim
      BY <3>1, <3>2 DEF Line!Claim, Line!From, Line!Members, Elems
    <3> QED
      BY <3>3 DEF Line!LineNext
  <2>4. CASE Yield
    <3>1. 1 \in 1 .. Len(buffer) /\ Line!Hand("queue", 1)
      BY <2>4, YieldIsHand
    <3> QED
      BY <3>1 DEF Line!LineNext
  <2>5. CASE TakePending /\ buffer # <<>>
    <3>1. Len(buffer) \in 1 .. Len(buffer) /\ Line!Hand("queue", Len(buffer))
      BY <2>5, TakePendingIsHand
    <3> QED
      BY <3>1 DEF Line!LineNext
  <2>6. CASE TakePending /\ buffer = <<>>
    BY <2>6 DEF TakePending, IInv, TypeOK
  <2>7. CASE StartFetch \/ FetchConflict \/ DelayOver \/ YieldNothing
    BY <2>7 DEF StartFetch, FetchConflict, Failed, DelayOver, YieldNothing
  <2>8. CASE UNCHANGED vars
    BY <2>8 DEF vars
  <2> QED
    BY <2>1, <2>2, <2>3, <2>4, <2>5, <2>6, <2>7, <2>8 DEF Next, Poll
<1> QED
  BY <1>1, <1>2, FetcherCorrect, PTL DEF Spec, HandsOnInOrder, Line!LineSpec
=============================================================================
