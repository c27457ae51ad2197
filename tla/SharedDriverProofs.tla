------------------------- MODULE SharedDriverProofs -------------------------
(***************************************************************************)
(* Proofs about SharedDriver, for every set of queues, every finite set of *)
(* tasks and every buffer size and limit.                                  *)
(***************************************************************************)
EXTENDS SharedDriver, SequenceFacts

-----------------------------------------------------------------------------
(* The inductive invariant. *)

Distinct(s) == \A x, y \in DOMAIN s : s[x] = s[y] => x = y

\* The driver holds a batch only while it holds the lock, of tasks of queues
\* that are registered.
BatchIsLocked ==
    /\ pc \notin {"send", "flush"} => batch = <<>>
    /\ queues \subseteq registry
    /\ \A t \in Elems(batch) : TaskQueue[t] \in queues
    /\ Distinct(batch)

\* A channel holds tasks of its own queue, once each, and only while there is a
\* receiver; the registry knows every queue whose storage was made.
ChannelsAreOwn ==
    /\ \A q \in Queue : Elems(channel[q]) \subseteq TasksOf(q)
    /\ \A q \in Queue : Distinct(channel[q])
    /\ \A q \in Queue : channel[q] # <<>> => backend[q] \in {"idle", "polling"}
    /\ \A q \in Queue : backend[q] = "none" <=> q \notin registry
    /\ \A q \in Queue : backend[q] = "gone" => q \in Mortal

InChannel(t) == t \in Elems(channel[TaskQueue[t]])

\* Every task is in one place, and in one only.
OnePlace ==
    \A t \in Task :
        /\ t \in due \/ t \in Elems(batch) \/ InChannel(t) \/ t \in received
           \/ t \in dropped
        /\ t \in due => ~(t \in Elems(batch) \/ InChannel(t) \/ t \in received
                          \/ t \in dropped)
        /\ t \in Elems(batch) => ~(InChannel(t) \/ t \in received \/ t \in dropped)
        /\ InChannel(t) => ~(t \in received \/ t \in dropped)
        /\ t \in received => t \notin dropped

IInv == TypeOK /\ BatchIsLocked /\ ChannelsAreOwn /\ ChannelsAreBounded /\ OnePlace

-----------------------------------------------------------------------------
(* The claim. *)

\* The elements of a sequence, under the name the shared facts use.
LEMMA ElemsAreItems == \A s : Elems(s) = Items(s)
BY DEF Elems, Items

\* A sequence without repetitions, its first item and the rest.
LEMMA HeadAndTail ==
    ASSUME NEW s \in Seq(Task), s # <<>>, Distinct(s)
    PROVE  /\ Head(s) \in Task /\ Tail(s) \in Seq(Task)
           /\ Len(Tail(s)) = Len(s) - 1 /\ Len(s) \in Nat
           /\ Elems(s) = {Head(s)} \cup Elems(Tail(s))
           /\ Head(s) \notin Elems(Tail(s))
           /\ Distinct(Tail(s))
<1>1. /\ Head(s) \in Task /\ Tail(s) \in Seq(Task)
      /\ Len(Tail(s)) = Len(s) - 1
      /\ Head(s) = s[1] /\ \A x \in 1 .. Len(Tail(s)) : Tail(s)[x] = s[x + 1]
      /\ Elems(s) = {Head(s)} \cup Elems(Tail(s))
  BY ItemsOfTail, ElemsAreItems
<1>2. /\ DOMAIN s = 1 .. Len(s) /\ Len(s) \in Nat
      /\ DOMAIN Tail(s) = 1 .. Len(Tail(s))
  BY <1>1
<1>3. \A x, y \in 1 .. Len(s) : s[x] = s[y] => x = y
  BY <1>2 DEF Distinct
<1>4. \A x \in 1 .. Len(Tail(s)) :
        x + 1 \in 1 .. Len(s) /\ 1 \in 1 .. Len(s) /\ x + 1 # 1
  BY <1>1, <1>2
<1>5. \A x \in 1 .. Len(Tail(s)) : Tail(s)[x] # s[1]
  BY <1>1, <1>3, <1>4
<1>6. \A x, y \in 1 .. Len(Tail(s)) : Tail(s)[x] = Tail(s)[y] => x = y
  BY <1>1, <1>3, <1>4
<1> QED
  BY <1>1, <1>2, <1>5, <1>6 DEF Elems, Distinct

\* An item that is new goes to the end.
LEMMA AppendFacts ==
    ASSUME NEW s \in Seq(Task), NEW t \in Task, t \notin Elems(s), Distinct(s)
    PROVE  /\ Append(s, t) \in Seq(Task) /\ Len(Append(s, t)) = Len(s) + 1
           /\ Elems(Append(s, t)) = Elems(s) \cup {t}
           /\ Distinct(Append(s, t))
<1>1. /\ Append(s, t) \in Seq(Task) /\ Len(Append(s, t)) = Len(s) + 1
      /\ Len(s) \in Nat /\ DOMAIN s = 1 .. Len(s)
      /\ DOMAIN Append(s, t) = 1 .. Len(s) + 1
      /\ \A x \in 1 .. Len(s) : Append(s, t)[x] = s[x]
      /\ Append(s, t)[Len(s) + 1] = t
  OBVIOUS
<1>2. Elems(Append(s, t)) = Elems(s) \cup {t}
  BY ItemsOfAppend, ElemsAreItems
<1>3. \A x \in 1 .. Len(s) : s[x] # t
  BY <1>1 DEF Elems
<1>4. \A x, y \in 1 .. Len(s) : s[x] = s[y] => x = y
  BY <1>1 DEF Distinct
<1>5. \A x \in 1 .. Len(s) + 1 : x \in 1 .. Len(s) \/ x = Len(s) + 1
  BY <1>1
<1>6. Distinct(Append(s, t))
  BY <1>1, <1>3, <1>4, <1>5 DEF Distinct
<1> QED
  BY <1>1, <1>2, <1>6

\* A claim takes due tasks of the queues read, and returns at most Limit of them,
\* those that can be read, each once.
LEMMA ClaimFacts ==
    ASSUME TypeOK, NEW S \in Claims
    PROVE  /\ S \subseteq due /\ \A t \in S : TaskQueue[t] \in queues
           /\ \A s \in Orders(S \ Unreadable) :
                /\ s \in Seq(Task) /\ Len(s) <= Limit /\ Distinct(s)
                /\ Elems(s) = S \ Unreadable
<1>1. Claimable \in SUBSET Task /\ Claimable \subseteq due
      /\ \A t \in Claimable : TaskQueue[t] \in queues
  BY DEF Claimable, TypeOK
<1>2. Cardinality(Claimable) \in Nat
  BY <1>1, DriverAssumption, FS_Subset, FS_CardinalityType
<1>3. S \subseteq Claimable /\ Cardinality(S) <= Limit
  BY <1>2, DriverAssumption DEF Claims
<1> DEFINE R == S \ Unreadable
           n == Cardinality(R)
<1>4. n \in Nat /\ n <= Limit
  <2>1. IsFiniteSet(S) /\ R \subseteq S
    BY <1>1, <1>3, DriverAssumption, FS_Subset
  <2>2. IsFiniteSet(R) /\ n <= Cardinality(S)
    BY <2>1, FS_Subset
  <2>3. n \in Nat /\ Cardinality(S) \in Nat
    BY <2>1, <2>2, FS_CardinalityType
  <2> HIDE DEF n
  <2> QED
    BY <1>3, <2>2, <2>3, DriverAssumption
<1>5. ASSUME NEW s \in Orders(R)
      PROVE  /\ s \in Seq(Task) /\ Len(s) <= Limit /\ Distinct(s)
             /\ Elems(s) = R
  <2>1. s \in [1 .. n -> R] /\ Elems(s) = R /\ Distinct(s)
    BY DEF Orders, Distinct
  <2>2. R \subseteq Task
    BY <1>1, <1>3
  <2> HIDE DEF n, R
  <2>3. s \in [1 .. n -> Task]
    BY <2>1, <2>2
  <2>4. s \in Seq(Task) /\ Len(s) = n
    BY <1>4, <2>3, FunctionIsSeq
  <2> QED
    BY <1>4, <2>1, <2>4
<1> QED
  BY <1>1, <1>3, <1>5

-----------------------------------------------------------------------------
(* The invariant. *)

\* Nothing is claimed before the first storage is made.
LEMMA InitIInv == Init => IInv
<1> SUFFICES ASSUME Init PROVE IInv
  OBVIOUS
<1>1. Elems(<<>>) = {} /\ Distinct(<<>>)
  BY DEF Elems, Distinct
<1>2. target \in Queue
  BY DriverAssumption DEF Init
<1>3. \A q \in Queue : channel[q] = <<>> /\ backend[q] = "none"
  BY DEF Init
<1>4. TypeOK
  BY <1>2, DriverAssumption DEF Init, TypeOK, BackendState
<1>5. BatchIsLocked /\ ChannelsAreOwn
  BY <1>1, <1>3 DEF Init, BatchIsLocked, ChannelsAreOwn
<1>6. ChannelsAreBounded
  BY <1>3, DriverAssumption DEF Init, ChannelsAreBounded
<1>7. OnePlace
  BY <1>1, <1>3, DriverAssumption DEF Init, OnePlace, InChannel
<1> QED
  BY <1>4, <1>5, <1>6, <1>7 DEF IInv

\* make_shared makes a channel for a queue that has none.
LEMMA MakeSharedIInv == ASSUME IInv, NEW q \in Queue, MakeShared(q) PROVE IInv'
<1>1. TypeOK /\ channel \in [Queue -> Seq(Task)] /\ backend \in [Queue -> BackendState]
  BY DEF IInv, TypeOK
<1>2. channel[q] = <<>>
  BY DEF IInv, ChannelsAreOwn, MakeShared
<1>3. channel' = channel
  BY <1>1, <1>2 DEF MakeShared
<1>4. \A k \in Queue : backend'[k] = IF k = q THEN "idle" ELSE backend[k]
  BY <1>1 DEF MakeShared
<1>5. TypeOK'
  BY <1>1, <1>3 DEF MakeShared, TypeOK, BackendState
<1>6. BatchIsLocked'
  BY DEF MakeShared, IInv, BatchIsLocked
<1>7. ChannelsAreOwn'
  BY <1>3, <1>4 DEF MakeShared, IInv, ChannelsAreOwn
<1>8. ChannelsAreBounded'
  BY <1>3 DEF MakeShared, IInv, ChannelsAreBounded
<1>9. OnePlace'
  BY <1>3 DEF MakeShared, IInv, OnePlace, InChannel
<1> QED
  BY <1>5, <1>6, <1>7, <1>8, <1>9 DEF IInv

\* A worker starts.
LEMMA StartWorkerIInv == ASSUME IInv, NEW q \in Queue, StartWorker(q) PROVE IInv'
<1>1. TypeOK /\ backend \in [Queue -> BackendState]
  BY DEF IInv, TypeOK
<1>2. \A k \in Queue : backend'[k] = IF k = q THEN "polling" ELSE backend[k]
  BY <1>1 DEF StartWorker
<1>3. TypeOK'
  BY <1>1 DEF StartWorker, TypeOK, BackendState
<1>4. BatchIsLocked' /\ ChannelsAreBounded'
  BY DEF StartWorker, IInv, BatchIsLocked, ChannelsAreBounded
<1>5. ChannelsAreOwn'
  BY <1>2 DEF StartWorker, IInv, ChannelsAreOwn
<1>6. OnePlace'
  BY DEF StartWorker, IInv, OnePlace, InChannel
<1> QED
  BY <1>3, <1>4, <1>5, <1>6 DEF IInv

\* A worker ends, and its channel is dropped.
LEMMA StopWorkerIInv == ASSUME IInv, NEW q \in Queue, StopWorker(q) PROVE IInv'
<1>1. /\ TypeOK /\ channel \in [Queue -> Seq(Task)]
      /\ backend \in [Queue -> BackendState]
  BY DEF IInv, TypeOK
<1>2. /\ \A k \in Queue : backend'[k] = IF k = q THEN "gone" ELSE backend[k]
      /\ \A k \in Queue : channel'[k] = IF k = q THEN <<>> ELSE channel[k]
      /\ dropped' = dropped \cup Elems(channel[q])
      /\ q \in Mortal /\ backend[q] \in {"idle", "polling"}
  BY <1>1 DEF StopWorker, Elems
<1>3. Elems(<<>>) = {} /\ Distinct(<<>>)
  BY DEF Elems, Distinct
<1>4. Elems(channel[q]) \subseteq TasksOf(q)
  BY DEF IInv, ChannelsAreOwn
<1>5. TypeOK'
  <2>1. dropped' \subseteq Task
    BY <1>1, <1>2, <1>4 DEF TasksOf, TypeOK
  <2>2. channel' \in [Queue -> Seq(Task)]
    <3>1. <<>> \in Seq(Task)
      OBVIOUS
    <3>2. channel' = [channel EXCEPT ![q] = <<>>]
      BY DEF StopWorker
    <3> QED
      BY <1>1, <3>1, <3>2
  <2>3. backend' \in [Queue -> BackendState]
    BY <1>1 DEF StopWorker, BackendState
  <2> QED
    BY <1>1, <2>1, <2>2, <2>3 DEF StopWorker, TypeOK
<1>6. BatchIsLocked'
  BY DEF StopWorker, IInv, BatchIsLocked
<1>7. ChannelsAreOwn'
  BY <1>2, <1>3 DEF StopWorker, IInv, ChannelsAreOwn
<1>8. ChannelsAreBounded'
  BY <1>2, DriverAssumption DEF StopWorker, IInv, ChannelsAreBounded
<1>9. OnePlace'
  <2>1. \A t \in Task : InChannel(t)' <=> InChannel(t) /\ TaskQueue[t] # q
    BY <1>2, <1>3, DriverAssumption DEF InChannel, StopWorker
  <2>2. \A t \in Task :
          t \in dropped' <=> t \in dropped \/ (InChannel(t) /\ TaskQueue[t] = q)
    BY <1>2, <1>4 DEF TasksOf, InChannel
  <2> QED
    BY <2>1, <2>2 DEF StopWorker, IInv, OnePlace
<1> QED
  BY <1>5, <1>6, <1>7, <1>8, <1>9 DEF IInv

\* A worker takes the first task of its channel.
LEMMA ReceiveIInv == ASSUME IInv, NEW q \in Queue, Receive(q) PROVE IInv'
<1>1. /\ TypeOK /\ channel \in [Queue -> Seq(Task)] /\ channel[q] \in Seq(Task)
      /\ channel[q] # <<>> /\ Distinct(channel[q])
  BY DEF IInv, TypeOK, ChannelsAreOwn, Receive
<1> DEFINE h == Head(channel[q])
           r == Tail(channel[q])
<1>2. /\ h \in Task /\ r \in Seq(Task) /\ Len(r) = Len(channel[q]) - 1
      /\ Len(channel[q]) \in Nat
      /\ Elems(channel[q]) = {h} \cup Elems(r)
      /\ h \notin Elems(r) /\ Distinct(r)
  BY <1>1, HeadAndTail
<1>3. /\ \A k \in Queue : channel'[k] = IF k = q THEN r ELSE channel[k]
      /\ received' = received \cup {h}
      /\ backend[q] = "polling"
      /\ UNCHANGED <<registry, backend, pc, queues, batch, target, due, dropped>>
  BY <1>1 DEF Receive
<1>4. h \in TasksOf(q) /\ Elems(r) \subseteq TasksOf(q)
  BY <1>2 DEF IInv, ChannelsAreOwn
<1>5. TypeOK'
  <2>1. channel' \in [Queue -> Seq(Task)]
    BY <1>1, <1>2 DEF Receive
  <2>2. received' \subseteq Task
    BY <1>1, <1>2, <1>3 DEF TypeOK
  <2> QED
    BY <1>1, <1>3, <2>1, <2>2 DEF TypeOK
<1> HIDE DEF h, r
<1>6. BatchIsLocked'
  BY <1>3 DEF IInv, BatchIsLocked
<1>7. ChannelsAreOwn'
  BY <1>2, <1>3, <1>4 DEF IInv, ChannelsAreOwn, TasksOf
<1>8. ChannelsAreBounded'
  <2>1. \A k \in Queue : Len(channel'[k]) <= Len(channel[k])
                         /\ Len(channel'[k]) \in Nat /\ Len(channel[k]) \in Nat
    BY <1>1, <1>2, <1>3
  <2> QED
    BY <1>3, <2>1, DriverAssumption DEF IInv, ChannelsAreBounded
<1>9. OnePlace'
  <2>1. \A t \in Task : InChannel(t)' <=> InChannel(t) /\ t # h
    BY <1>2, <1>3, <1>4, DriverAssumption DEF InChannel, TasksOf
  <2>2. InChannel(h)
    BY <1>2, <1>4 DEF InChannel, TasksOf
  <2> QED
    BY <1>3, <2>1, <2>2 DEF IInv, OnePlace
<1> QED
  BY <1>5, <1>6, <1>7, <1>8, <1>9 DEF IInv

\* The poll fetcher of a queue takes a task past the driver.
LEMMA EagerFetchIInv == ASSUME IInv, NEW q \in Queue, EagerFetch(q) PROVE IInv'
<1>1. PICK t \in due :
        /\ due' = due \ {t}
        /\ \/ received' = received \cup {t} /\ dropped' = dropped
           \/ received' = received /\ dropped' = dropped \cup {t}
  BY DEF EagerFetch
<1>2. TypeOK'
  BY <1>1 DEF EagerFetch, IInv, TypeOK
<1>3. BatchIsLocked' /\ ChannelsAreOwn' /\ ChannelsAreBounded'
  BY DEF EagerFetch, IInv, BatchIsLocked, ChannelsAreOwn, ChannelsAreBounded
<1>4. OnePlace'
  BY <1>1 DEF EagerFetch, IInv, OnePlace, InChannel
<1> QED
  BY <1>2, <1>3, <1>4 DEF IInv

\* The driver wakes up, reads the keys, fails to claim, or has sent everything.
LEMMA IdleIInv ==
    ASSUME IInv, Wake \/ ReadKeys \/ FetchFails \/ Sent PROVE IInv'
<1>1. /\ pc' \in {"wait", "keys", "fetch"} /\ queues' \in {queues, registry}
      /\ pc # "flush" /\ batch = <<>>
      /\ UNCHANGED <<registry, backend, channel, batch, target, due, received,
                     dropped>>
  BY DEF Wake, ReadKeys, FetchFails, Sent, IInv, BatchIsLocked
<1>2. TypeOK'
  BY <1>1 DEF IInv, TypeOK
<1>3. BatchIsLocked'
  BY <1>1 DEF IInv, BatchIsLocked, Elems
<1>4. ChannelsAreOwn' /\ ChannelsAreBounded'
  BY <1>1 DEF IInv, ChannelsAreOwn, ChannelsAreBounded
<1>5. OnePlace'
  BY <1>1 DEF IInv, OnePlace, InChannel
<1> QED
  BY <1>2, <1>3, <1>4, <1>5 DEF IInv

\* A claim, and its batch or its loss.
LEMMA FetchIInv == ASSUME IInv, Fetch \/ FetchLost PROVE IInv'
<1>1. /\ pc = "fetch" /\ batch = <<>> /\ pc' \in {"send", "wait"}
      /\ UNCHANGED <<registry, backend, channel, queues, target, received>>
  BY DEF Fetch, FetchLost, IInv, BatchIsLocked
<1>2. PICK S \in Claims :
        /\ due' = due \ S
        /\ \/ /\ batch' \in Orders(S \ Unreadable)
              /\ dropped' = dropped \cup (S \cap Unreadable) /\ pc' = "send"
           \/ batch' = batch /\ dropped' = dropped \cup S
  BY DEF Fetch, FetchLost
<1>3. /\ S \subseteq due /\ \A t \in S : TaskQueue[t] \in queues
      /\ batch' \in Orders(S \ Unreadable) =>
           /\ batch' \in Seq(Task) /\ Len(batch') <= Limit /\ Distinct(batch')
           /\ Elems(batch') = S \ Unreadable
  BY ClaimFacts DEF IInv
<1>4. Elems(<<>>) = {} /\ Distinct(<<>>)
  BY DEF Elems, Distinct
<1>5. TypeOK'
  <2>1. due' \subseteq Task /\ dropped' \subseteq Task
    BY <1>2, <1>3 DEF IInv, TypeOK
  <2>2. batch' \in Seq(Task) /\ Len(batch') <= Limit
    BY <1>2, <1>3 DEF IInv, TypeOK
  <2> QED
    BY <1>1, <2>1, <2>2 DEF IInv, TypeOK
<1>6. BatchIsLocked'
  BY <1>1, <1>2, <1>3, <1>4 DEF IInv, BatchIsLocked
<1>7. ChannelsAreOwn' /\ ChannelsAreBounded'
  BY <1>1 DEF IInv, ChannelsAreOwn, ChannelsAreBounded
<1>8. OnePlace'
  BY <1>1, <1>2, <1>3, <1>4 DEF IInv, OnePlace, InChannel
<1> QED
  BY <1>5, <1>6, <1>7, <1>8 DEF IInv

\* The first task of the batch goes into its channel, or is dropped.
LEMMA SendIInv == ASSUME IInv, Send PROVE IInv'
<1> DEFINE t == Head(batch)
           q == TaskQueue[t]
<1>1. /\ TypeOK /\ channel \in [Queue -> Seq(Task)] /\ batch \in Seq(Task)
      /\ batch # <<>> /\ Distinct(batch) /\ pc = "send" /\ Len(batch) <= Limit
      /\ batch' = Tail(batch)
      /\ UNCHANGED <<registry, backend, queues, due, received>>
  BY DEF IInv, TypeOK, BatchIsLocked, Send
<1>2. /\ t \in Task /\ Tail(batch) \in Seq(Task)
      /\ Len(Tail(batch)) = Len(batch) - 1 /\ Len(batch) \in Nat
      /\ Elems(batch) = {t} \cup Elems(Tail(batch))
      /\ t \notin Elems(Tail(batch)) /\ Distinct(Tail(batch))
  BY <1>1, HeadAndTail
<1>3. q \in Queue /\ channel[q] \in Seq(Task) /\ q \in registry
  BY <1>1, <1>2, DriverAssumption DEF IInv, BatchIsLocked
<1>4. t \notin Elems(channel[q]) /\ Distinct(channel[q])
  BY <1>2, <1>3 DEF IInv, OnePlace, InChannel, ChannelsAreOwn
<1>5. BatchIsLocked'
  BY <1>1, <1>2 DEF Send, IInv, BatchIsLocked
<1>6. CASE /\ HasReceiver(q)
           /\ channel' = [channel EXCEPT ![q] = Append(@, t)]
           /\ target' = q /\ pc' = "flush" /\ dropped' = dropped
  <2> DEFINE c == Append(channel[q], t)
  <2>1. /\ c \in Seq(Task) /\ Len(c) = Len(channel[q]) + 1
        /\ Elems(c) = Elems(channel[q]) \cup {t} /\ Distinct(c)
    BY <1>2, <1>3, <1>4, AppendFacts
  <2>2. /\ \A k \in Queue : channel'[k] = IF k = q THEN c ELSE channel[k]
        /\ channel' = [channel EXCEPT ![q] = c]
    BY <1>1, <1>6
  <2> HIDE DEF c
  <2>3. TypeOK'
    <3>1. channel' \in [Queue -> Seq(Task)]
      BY <1>1, <2>1, <2>2
    <3> HIDE DEF t, q
    <3>2. batch' \in Seq(Task) /\ Len(batch') <= Limit
      BY <1>1, <1>2, DriverAssumption
    <3> QED
      BY <1>1, <1>3, <1>6, <3>1, <3>2 DEF TypeOK
  <2>4. backend[q] \in {"idle", "polling"}
    BY <1>1, <1>3, <1>6 DEF HasReceiver, IInv, ChannelsAreOwn, TypeOK, BackendState
  <2>5. ChannelsAreOwn'
    <3> HIDE DEF t
    <3> QED
      BY <1>1, <1>2, <2>1, <2>2, <2>4 DEF IInv, ChannelsAreOwn, TasksOf
  <2>6. ChannelsAreBounded'
    <3>1. \A k \in Queue : Len(channel[k]) <= BufferSize /\ Len(channel[k]) \in Nat
      BY <1>1, DriverAssumption DEF IInv, ChannelsAreBounded
    <3> HIDE DEF q
    <3> QED
      BY <1>3, <1>6, <2>1, <2>2, <3>1, DriverAssumption DEF ChannelsAreBounded
  <2>7. OnePlace'
    <3>1. \A u \in Task : InChannel(u)' <=> InChannel(u) \/ u = t
      BY <1>2, <1>3, <2>1, <2>2, DriverAssumption DEF InChannel
    <3> HIDE DEF t
    <3> QED
      BY <1>1, <1>2, <1>6, <3>1 DEF IInv, OnePlace
  <2> QED
    BY <1>5, <2>3, <2>5, <2>6, <2>7 DEF IInv
<1>7. CASE /\ ~HasReceiver(q)
           /\ dropped' = dropped \cup {t}
           /\ UNCHANGED <<channel, target, pc>>
  <2> HIDE DEF t, q
  <2>1. TypeOK'
    <3>1. batch' \in Seq(Task) /\ Len(batch') <= Limit
      BY <1>1, <1>2, DriverAssumption
    <3>2. dropped' \subseteq Task
      BY <1>1, <1>2, <1>7 DEF TypeOK
    <3> QED
      BY <1>1, <1>7, <3>1, <3>2 DEF TypeOK
  <2>2. ChannelsAreOwn' /\ ChannelsAreBounded'
    BY <1>1, <1>7 DEF IInv, ChannelsAreOwn, ChannelsAreBounded
  <2>3. OnePlace'
    BY <1>1, <1>2, <1>7 DEF IInv, OnePlace, InChannel
  <2> QED
    BY <1>5, <2>1, <2>2, <2>3 DEF IInv
<1> QED
  BY <1>6, <1>7 DEF Send

\* send returns.
LEMMA FlushIInv == ASSUME IInv, Flush PROVE IInv'
<1>1. /\ pc = "flush" /\ pc' = "send"
      /\ backend[target] = "gone" \/ Len(channel[target]) <= BufferSize
      /\ UNCHANGED <<registry, backend, channel, queues, batch, target, due,
                     received, dropped>>
  BY DEF Flush
<1>2. TypeOK'
  BY <1>1 DEF IInv, TypeOK
<1>3. BatchIsLocked' /\ ChannelsAreOwn'
  BY <1>1 DEF IInv, BatchIsLocked, ChannelsAreOwn
<1>4. ChannelsAreBounded'
  <2>1. target \in Queue
    BY DEF IInv, TypeOK
  <2>2. Len(channel[target]) <= BufferSize
    <3>1. backend[target] = "gone" => channel[target] = <<>>
      BY <2>1 DEF IInv, ChannelsAreOwn
    <3> QED
      BY <1>1, <3>1, DriverAssumption
  <2> QED
    BY <1>1, <2>1, <2>2, DriverAssumption DEF IInv, ChannelsAreBounded
<1>5. OnePlace'
  BY <1>1 DEF IInv, OnePlace, InChannel
<1> QED
  BY <1>2, <1>3, <1>4, <1>5 DEF IInv

\* A claim nobody holds is returned.
LEMMA ReenqueueIInv == ASSUME IInv, NEW t \in Task, Reenqueue(t) PROVE IInv'
<1>1. TypeOK'
  BY DEF Reenqueue, IInv, TypeOK
<1>2. BatchIsLocked' /\ ChannelsAreOwn' /\ ChannelsAreBounded'
  BY DEF Reenqueue, IInv, BatchIsLocked, ChannelsAreOwn, ChannelsAreBounded
<1>3. OnePlace'
  BY DEF Reenqueue, IInv, OnePlace, InChannel
<1> QED
  BY <1>1, <1>2, <1>3 DEF IInv

\* The shared driver, its workers and the reclaimer keep the invariant.
THEOREM DriverCorrect == Spec => []IInv
<1>1. IInv /\ [Next]_vars => IInv'
  <2> SUFFICES ASSUME IInv, [Next]_vars PROVE IInv'
    OBVIOUS
  <2>1. CASE UNCHANGED vars
    BY <2>1
       DEF vars, IInv, TypeOK, BatchIsLocked, ChannelsAreOwn,
           ChannelsAreBounded, OnePlace, InChannel
  <2> QED
    BY <2>1, MakeSharedIInv, StartWorkerIInv, StopWorkerIInv, ReceiveIInv,
       EagerFetchIInv, IdleIInv, FetchIInv, SendIInv, FlushIInv, ReenqueueIInv
       DEF Next, DriveStep
<1> QED
  BY <1>1, InitIInv, PTL DEF Spec

\* Registry, channels and the driver's locals keep their types, and a batch
\* stays within the limit of the claim.
THEOREM DriverTypeCorrect == Spec => []TypeOK
<1>1. IInv => TypeOK
  BY DEF IInv
<1> QED
  BY <1>1, DriverCorrect, PTL

\* A channel never holds more than its buffer and the task being sent.
THEOREM ChannelBoundHolds == Spec => []ChannelsAreBounded
<1>1. IInv => ChannelsAreBounded
  BY DEF IInv
<1> QED
  BY <1>1, DriverCorrect, PTL

\* Every task is in exactly one place, whatever make_shared, workers that end,
\* lost answers and the reclaimer do.
THEOREM ClaimsAccountedHolds == Spec => []ClaimsAreAccountedFor
<1>1. IInv => ClaimsAreAccountedFor
  <2> SUFFICES ASSUME IInv, NEW t \in Task PROVE Cardinality(Places(t)) = 1
    BY DEF ClaimsAreAccountedFor
  <2>1. \/ Places(t) = {"due"} \/ Places(t) = {"batch"}
        \/ Places(t) = {"channel"} \/ Places(t) = {"received"}
        \/ Places(t) = {"dropped"}
    BY DEF IInv, OnePlace, InChannel, Places
  <2> QED
    BY <2>1, FS_Singleton
<1> QED
  BY <1>1, DriverCorrect, PTL

-----------------------------------------------------------------------------
(* The tasks of one queue in a batch. *)

Kept(f, s, K) ==
    /\ f \in [0 .. Len(s) -> Seq(Task)]
    /\ f[0] = <<>>
    /\ \A n \in 0 .. Len(s) - 1 :
         f[n + 1] = IF s[n + 1] \in K THEN Append(f[n], s[n + 1]) ELSE f[n]

\* Keep goes through its sequence from the front.
LEMMA KeepIsKept ==
    ASSUME NEW s \in Seq(Task), NEW K
    PROVE  \E f : Kept(f, s, K) /\ Keep(s, K) = f[Len(s)]
<1> DEFINE S == Seq(Task)
           G == [n \in Nat |-> [a \in S |->
                   IF n + 1 \in DOMAIN s /\ s[n + 1] \in K THEN Append(a, s[n + 1])
                   ELSE a]]
           Is(k) == k = [n \in 0 .. Len(s) |->
                           IF n = 0 THEN <<>>
                           ELSE IF s[n] \in K THEN Append(k[n - 1], s[n])
                           ELSE k[n - 1]]
<1>1. <<>> \in S /\ G \in [Nat -> [S -> S]] /\ Len(s) \in Nat
      /\ DOMAIN s = 1 .. Len(s)
  <2>1. \A n \in 1 .. Len(s) : s[n] \in Task
    OBVIOUS
  <2>2. ASSUME NEW n \in Nat, NEW a \in S PROVE G[n][a] \in S
    BY <2>1
  <2> QED
    BY <2>2
<1>2. PICK g : Iterates(g, S, <<>>, G)
  <2> HIDE DEF S, G
  <2> QED
    BY <1>1, Iterate
<1>3. /\ g \in [Nat -> S] /\ g[0] = <<>>
      /\ \A n \in 0 .. Len(s) - 1 :
           g[n + 1] = IF s[n + 1] \in K THEN Append(g[n], s[n + 1]) ELSE g[n]
  <2>1. /\ g \in [Nat -> S] /\ g[0] = <<>>
        /\ \A n \in Nat : g[n + 1] = G[n][g[n]]
    BY <1>2 DEF Iterates
  <2>2. ASSUME NEW n \in 0 .. Len(s) - 1
        PROVE  g[n + 1] = IF s[n + 1] \in K THEN Append(g[n], s[n + 1]) ELSE g[n]
    <3>1. n \in Nat /\ n + 1 \in DOMAIN s /\ g[n] \in S
      BY <1>1, <2>1
    <3>2. g[n + 1] = G[n][g[n]]
      BY <2>1, <3>1
    <3> QED
      BY <3>1, <3>2
  <2> QED
    BY <2>1, <2>2
<1> DEFINE f == [n \in 0 .. Len(s) |-> g[n]]
<1>4. Kept(f, s, K)
  <2>1. \A n \in 0 .. Len(s) : f[n] = g[n] /\ g[n] \in S
    BY <1>1, <1>3
  <2>2. f \in [0 .. Len(s) -> S]
    BY <2>1
  <2> HIDE DEF f, G
  <2>3. \A n \in 0 .. Len(s) - 1 : n \in 0 .. Len(s) /\ n + 1 \in 0 .. Len(s)
    BY <1>1
  <2>4. 0 \in 0 .. Len(s)
    BY <1>1
  <2>5. \A n \in 0 .. Len(s) - 1 :
          f[n + 1] = IF s[n + 1] \in K THEN Append(f[n], s[n + 1]) ELSE f[n]
    BY <1>3, <2>1, <2>3
  <2> QED
    BY <1>3, <2>1, <2>2, <2>4, <2>5 DEF Kept
<1>5. Is(f)
  <2>1. ASSUME NEW n \in 0 .. Len(s), n # 0
        PROVE  f[n] = IF s[n] \in K THEN Append(f[n - 1], s[n]) ELSE f[n - 1]
    <3>1. n - 1 \in 0 .. Len(s) - 1 /\ n - 1 \in 0 .. Len(s) /\ (n - 1) + 1 = n
      BY <1>1, <2>1
    <3>2. g[n] = IF s[n] \in K THEN Append(g[n - 1], s[n]) ELSE g[n - 1]
      BY <1>3, <3>1
    <3> QED
      BY <3>1, <3>2
  <2>2. f[0] = <<>>
    BY <1>1, <1>3
  <2> QED
    BY <2>1, <2>2
<1> DEFINE k == CHOOSE k : Is(k)
<1>6. Is(k)
  <2> HIDE DEF Is, f
  <2> QED
    BY <1>5
<1>7. Keep(s, K) = k[Len(s)]
  BY Zenon DEF Keep
<1> HIDE DEF k
<1>8. ASSUME NEW n \in 0 .. Len(s)
      PROVE  k[n] = IF n = 0 THEN <<>>
                    ELSE IF s[n] \in K THEN Append(k[n - 1], s[n]) ELSE k[n - 1]
  BY <1>6
<1>9. ASSUME NEW n \in 0 .. Len(s)
      PROVE  f[n] = IF n = 0 THEN <<>>
                    ELSE IF s[n] \in K THEN Append(f[n - 1], s[n]) ELSE f[n - 1]
  <2> HIDE DEF f
  <2> QED
    BY <1>5
<1>10. \A n \in 0 .. Len(s) : k[n] = f[n]
  <2> HIDE DEF f, Is
  <2> DEFINE Bad == {n \in 0 .. Len(s) : k[n] # f[n]}
  <2>1. ASSUME Bad # {} PROVE FALSE
    <3>1. PICK n \in Bad : \A m \in Bad : n <= m
      <4>1. Bad \in SUBSET Nat
        BY <1>1
      <4> HIDE DEF Bad
      <4> QED
        BY <2>1, <4>1, NatMin
    <3>2. n \in 0 .. Len(s) /\ n # 0
      BY <1>8, <1>9
    <3>3. n - 1 \in 0 .. Len(s) /\ n - 1 \notin Bad
      BY <1>1, <3>1, <3>2
    <3>4. k[n - 1] = f[n - 1]
      BY <3>3
    <3> QED
      BY <3>2, <3>4, <1>8, <1>9
  <2> QED
    BY <2>1
<1>11. k = f
  <2>1. k = [n \in 0 .. Len(s) |-> k[n]]
    BY <1>6
  <2>2. f = [n \in 0 .. Len(s) |-> f[n]]
    OBVIOUS
  <2> HIDE DEF f
  <2> QED
    BY <1>10, <2>1, <2>2
<1> QED
  BY <1>4, <1>7, <1>11

\* Keep returns the items of s that are in K, each as often as s has it.
LEMMA KeepItems ==
    ASSUME NEW s \in Seq(Task), NEW K
    PROVE  /\ Keep(s, K) \in Seq(Task)
           /\ Elems(Keep(s, K)) = Elems(s) \cap K
           /\ Distinct(s) => Distinct(Keep(s, K))
<1>1. PICK f : Kept(f, s, K) /\ Keep(s, K) = f[Len(s)]
  BY KeepIsKept
<1>2. /\ f \in [0 .. Len(s) -> Seq(Task)] /\ f[0] = <<>>
      /\ \A n \in 0 .. Len(s) - 1 :
           f[n + 1] = IF s[n + 1] \in K THEN Append(f[n], s[n + 1]) ELSE f[n]
      /\ Len(s) \in Nat /\ DOMAIN s = 1 .. Len(s)
      /\ \A n \in 1 .. Len(s) : s[n] \in Task
  BY <1>1 DEF Kept
<1> DEFINE Front(n) == {s[x] : x \in 1 .. n}
           Good(n) == /\ Elems(f[n]) = Front(n) \cap K
                      /\ Distinct(s) => Distinct(f[n])
<1>3. Good(0)
  BY <1>2 DEF Elems, Distinct
<1>4. ASSUME NEW n \in 0 .. Len(s) - 1, Good(n) PROVE Good(n + 1)
  <2>1. /\ n \in Nat /\ n + 1 \in 1 .. Len(s) /\ s[n + 1] \in Task
        /\ f[n] \in Seq(Task) /\ Front(n + 1) = Front(n) \cup {s[n + 1]}
    <3>1. n \in Nat /\ n + 1 \in 1 .. Len(s) /\ n \in 0 .. Len(s)
      BY <1>2
    <3>2. 1 .. n + 1 = 1 .. n \cup {n + 1}
      BY <3>1
    <3> QED
      BY <1>2, <3>1, <3>2
  <2>2. CASE s[n + 1] \in K
    <3>1. f[n + 1] = Append(f[n], s[n + 1])
      BY <1>2, <2>2
    <3>2. Elems(f[n + 1]) = Elems(f[n]) \cup {s[n + 1]}
      BY <2>1, <3>1, ItemsOfAppend, ElemsAreItems
    <3>3. ASSUME Distinct(s) PROVE Distinct(f[n + 1])
      <4>1. s[n + 1] \notin Elems(f[n])
        <5>1. \A x \in 1 .. n : x \in 1 .. Len(s) /\ x # n + 1
          BY <1>2, <2>1
        <5>2. \A x \in 1 .. n : s[x] # s[n + 1]
          BY <1>2, <2>1, <3>3, <5>1 DEF Distinct
        <5> QED
          BY <1>4, <5>2
      <4> QED
        BY <1>4, <2>1, <3>1, <3>3, <4>1, AppendFacts
    <3> QED
      BY <1>4, <2>1, <2>2, <3>2, <3>3
  <2>3. CASE s[n + 1] \notin K
    BY <1>2, <1>4, <2>1, <2>3
  <2> QED
    BY <2>2, <2>3
<1>5. Good(Len(s))
  <2> DEFINE Bad == {n \in 0 .. Len(s) : ~Good(n)}
  <2> HIDE DEF Good
  <2>1. ASSUME Bad # {} PROVE FALSE
    <3>1. PICK n \in Bad : \A m \in Bad : n <= m
      <4>1. Bad \in SUBSET Nat
        BY <1>2
      <4> HIDE DEF Bad
      <4> QED
        BY <2>1, <4>1, NatMin
    <3>2. n \in 0 .. Len(s) /\ n # 0
      BY <1>3
    <3>3. n - 1 \in 0 .. Len(s) - 1 /\ n - 1 \notin Bad /\ (n - 1) + 1 = n
      BY <1>2, <3>1, <3>2
    <3>4. Good(n - 1)
      BY <3>3
    <3> QED
      BY <3>3, <3>4, <1>4
  <2> QED
    BY <1>2, <2>1
<1>6. Front(Len(s)) = Elems(s)
  BY <1>2 DEF Elems
<1> QED
  BY <1>1, <1>2, <1>5, <1>6

\* Keep, item by item from the front.
LEMMA KeepHead ==
    ASSUME NEW s \in Seq(Task), s # <<>>, NEW K
    PROVE  /\ Head(s) \in K => Keep(s, K) = <<Head(s)>> \o Keep(Tail(s), K)
           /\ Head(s) \notin K => Keep(s, K) = Keep(Tail(s), K)
<1> DEFINE t == Tail(s)
           pre == IF Head(s) \in K THEN <<Head(s)>> ELSE <<>>
<1>1. PICK f : Kept(f, s, K) /\ Keep(s, K) = f[Len(s)]
  BY KeepIsKept
<1>2. /\ t \in Seq(Task) /\ Len(t) = Len(s) - 1 /\ Len(s) \in Nat /\ Len(t) \in Nat
      /\ Head(s) = s[1] /\ Head(s) \in Task
      /\ \A x \in 1 .. Len(t) : t[x] = s[x + 1] /\ t[x] \in Task
      /\ pre \in Seq(Task)
  OBVIOUS
<1> HIDE DEF t
<1>3. PICK g : Kept(g, t, K) /\ Keep(t, K) = g[Len(t)]
  BY <1>2, KeepIsKept
<1>4. /\ f \in [0 .. Len(s) -> Seq(Task)] /\ f[0] = <<>>
      /\ \A n \in 0 .. Len(s) - 1 :
           f[n + 1] = IF s[n + 1] \in K THEN Append(f[n], s[n + 1]) ELSE f[n]
  BY <1>1 DEF Kept
<1>5. /\ g \in [0 .. Len(t) -> Seq(Task)] /\ g[0] = <<>>
      /\ \A n \in 0 .. Len(t) - 1 :
           g[n + 1] = IF t[n + 1] \in K THEN Append(g[n], t[n + 1]) ELSE g[n]
  BY <1>3 DEF Kept
<1> DEFINE Good(n) == f[n + 1] = pre \o g[n]
<1>6. Good(0)
  <2>1. 0 \in 0 .. Len(s) - 1 /\ 0 + 1 = 1
    BY <1>2
  <2>2. f[1] = IF s[1] \in K THEN Append(<<>>, s[1]) ELSE <<>>
    BY <1>4, <2>1
  <2>3. Append(<<>>, s[1]) = <<s[1]>>
    OBVIOUS
  <2>4. pre \o <<>> = pre
    BY <1>2
  <2>5. f[1] = pre
    BY <1>2, <2>2, <2>3
  <2> HIDE DEF pre
  <2> QED
    BY <1>5, <2>1, <2>4, <2>5
<1> HIDE DEF pre
<1>7. ASSUME NEW n \in 0 .. Len(t) - 1, Good(n) PROVE Good(n + 1)
  <2>1. /\ n \in Nat /\ n + 1 \in 1 .. Len(t) /\ n + 1 \in 0 .. Len(s) - 1
        /\ n \in 0 .. Len(t)
    BY <1>2
  <2>2. t[n + 1] = s[(n + 1) + 1] /\ t[n + 1] \in Task /\ g[n] \in Seq(Task)
    BY <1>2, <1>5, <2>1
  <2>3. f[(n + 1) + 1] = IF t[n + 1] \in K THEN Append(pre \o g[n], t[n + 1])
                         ELSE pre \o g[n]
    BY <1>4, <1>7, <2>1, <2>2
  <2>4. g[n + 1] = IF t[n + 1] \in K THEN Append(g[n], t[n + 1]) ELSE g[n]
    BY <1>5, <2>1
  <2>5. Append(pre \o g[n], t[n + 1]) = pre \o Append(g[n], t[n + 1])
    <3> DEFINE a == t[n + 1]
               b == g[n]
    <3>1. pre \in Seq(Task) /\ a \in Task /\ b \in Seq(Task)
      BY <1>2, <2>2
    <3> HIDE DEF a, b
    <3>2. Append(pre \o b, a) = pre \o Append(b, a)
      BY <3>1, AppendOfConcat
    <3> QED
      BY <3>2 DEF a, b
  <2> QED
    BY <2>3, <2>4, <2>5
<1>8. Good(Len(t))
  <2> DEFINE Bad == {n \in 0 .. Len(t) : ~Good(n)}
  <2> HIDE DEF Good
  <2>1. ASSUME Bad # {} PROVE FALSE
    <3>1. PICK n \in Bad : \A m \in Bad : n <= m
      <4>1. Bad \in SUBSET Nat
        BY <1>2
      <4> HIDE DEF Bad
      <4> QED
        BY <2>1, <4>1, NatMin
    <3>2. n \in 0 .. Len(t) /\ n # 0
      BY <1>6
    <3>3. n - 1 \in 0 .. Len(t) - 1 /\ n - 1 \notin Bad /\ (n - 1) + 1 = n
      BY <1>2, <3>1, <3>2
    <3>4. Good(n - 1)
      BY <3>3
    <3> QED
      BY <3>3, <3>4, <1>7
  <2> QED
    BY <1>2, <2>1
<1>9. Keep(s, K) = pre \o Keep(t, K)
  <2>1. Len(t) + 1 = Len(s)
    BY <1>2
  <2> QED
    BY <1>1, <1>3, <1>8, <2>1
<1>10. Keep(t, K) \in Seq(Task)
  BY <1>2, KeepItems
<1>11. <<>> \o Keep(t, K) = Keep(t, K)
  BY <1>10
<1> QED
  BY <1>9, <1>11 DEF pre, t

-----------------------------------------------------------------------------
(* The line of each queue. *)

\* What a queue waits for: its channel, and its tasks in the batch.
LEMMA WaitingFacts ==
    ASSUME TypeOK, NEW q \in Queue
    PROVE  /\ Waiting(q) \in Seq(Task)
           /\ channel[q] \in Seq(Task) /\ Keep(batch, TasksOf(q)) \in Seq(Task)
           /\ Elems(Waiting(q)) = Elems(channel[q]) \cup (Elems(batch) \cap TasksOf(q))
           /\ batch = <<>> => /\ Keep(batch, TasksOf(q)) = <<>>
                              /\ Waiting(q) = channel[q]
<1>1. channel[q] \in Seq(Task) /\ batch \in Seq(Task)
  BY DEF TypeOK
<1>2. /\ Keep(batch, TasksOf(q)) \in Seq(Task)
      /\ Elems(Keep(batch, TasksOf(q))) = Elems(batch) \cap TasksOf(q)
  BY <1>1, KeepItems
<1>3. /\ Waiting(q) \in Seq(Task)
      /\ Elems(Waiting(q)) = Elems(channel[q]) \cup Elems(Keep(batch, TasksOf(q)))
  BY <1>1, <1>2, ItemsOfConcat, ElemsAreItems DEF Waiting
<1>4. ASSUME batch = <<>> PROVE Keep(batch, TasksOf(q)) = <<>>
  <2>1. Elems(batch) = {}
    BY <1>4 DEF Elems
  <2>2. Elems(Keep(batch, TasksOf(q))) = {}
    BY <1>2, <2>1
  <2> QED
    BY <1>2, <2>2, ItemsType, ElemsAreItems
<1>5. channel[q] \o <<>> = channel[q]
  BY <1>1
<1> QED
  BY <1>1, <1>2, <1>3, <1>4, <1>5 DEF Waiting

\* A step that adds to the end of each line what the queue's new claims are is
\* a claim of the line.
LEMMA LineClaim ==
    ASSUME TypeOK, TypeOK', due' \subseteq due, received \subseteq received',
           received' \ received \subseteq due \ due',
           NEW new, \A q \in Queue :
             /\ new[q] \in Seq(Task) /\ Waiting(q)' = Waiting(q) \o new[q]
             /\ Elems(new[q]) \subseteq (due \ due') \cap TasksOf(q)
             /\ Distinct(new[q]) /\ Elems(new[q]) \cap received' = {}
    PROVE  Line!Claim
<1>1. ASSUME NEW q \in Queue
      PROVE  SubSeq(Waiting(q)', Len(Waiting(q)) + 1, Len(Waiting(q)')) = new[q]
  <2>1. Waiting(q) \in Seq(Task) /\ new[q] \in Seq(Task)
    BY WaitingFacts
  <2>2. SubSeq(Waiting(q) \o new[q], Len(Waiting(q)) + 1,
               Len(Waiting(q) \o new[q])) = new[q]
    BY <2>1, PartsOfConcat
  <2> QED
    BY <2>2
<1>2. ASSUME NEW q \in Queue
      PROVE  /\ \A x \in DOMAIN new[q] : /\ new[q][x] \in due \ due'
                                         /\ TaskQueue[new[q][x]] = q
             /\ \A x, y \in DOMAIN new[q] : new[q][x] = new[q][y] => x = y
             /\ {new[q][x] : x \in DOMAIN new[q]} \cap received' = {}
  BY DEF Elems, TasksOf, Distinct
<1>3. \A q \in Queue :
        LET n == Line!From(Waiting(q)', Len(Waiting(q)) + 1) IN
        /\ Waiting(q)' = Waiting(q) \o n
        /\ \A x \in DOMAIN n : n[x] \in due \ due' /\ TaskQueue[n[x]] = q
        /\ \A x, y \in DOMAIN n : n[x] = n[y] => x = y
        /\ Line!Members(n) \cap received' = {}
  <2> SUFFICES ASSUME NEW q \in Queue
               PROVE  LET n == Line!From(Waiting(q)', Len(Waiting(q)) + 1) IN
                      /\ Waiting(q)' = Waiting(q) \o n
                      /\ \A x \in DOMAIN n : n[x] \in due \ due' /\ TaskQueue[n[x]] = q
                      /\ \A x, y \in DOMAIN n : n[x] = n[y] => x = y
                      /\ Line!Members(n) \cap received' = {}
    OBVIOUS
  <2>1. Line!From(Waiting(q)', Len(Waiting(q)) + 1) = new[q]
    BY <1>1 DEF Line!From
  <2>2. Line!Members(new[q]) \cap received' = {}
    BY <1>2 DEF Line!Members
  <2> QED
    BY <1>2, <2>1, <2>2, Zenon
<1>4. \A q \in Queue :
        /\ [k \in Queue |-> Waiting(k)][q] = Waiting(q)
        /\ ([k \in Queue |-> Waiting(k)]')[q] = Waiting(q)'
  OBVIOUS
<1> QED
  BY <1>3, <1>4 DEF Line!Claim

\* A step that shortens one line from the front.
LEMMA LineFront ==
    ASSUME NEW q \in Queue, NEW n,
           Waiting(q)' = SubSeq(Waiting(q), n + 1, Len(Waiting(q))),
           \A k \in Queue \ {q} : Waiting(k)' = Waiting(k)
    PROVE  [k \in Queue |-> Waiting(k)]'
             = [[k \in Queue |-> Waiting(k)] EXCEPT
                  ![q] = Line!From(@, n + 1)]
BY DEF Line!From

\* A worker that ends strands what is in its channel, from the front of its line.
LEMMA StopWorkerIsStrand ==
    ASSUME IInv, NEW q \in Queue, StopWorker(q)
    PROVE  \/ \E n \in 1 .. Len(Waiting(q)) : Line!Strand(q, n)
           \/ /\ \A k \in Queue : Waiting(k)' = Waiting(k)
              /\ due' = due /\ received' = received
<1>1. /\ channel \in [Queue -> Seq(Task)] /\ TypeOK
      /\ channel' = [channel EXCEPT ![q] = <<>>]
      /\ batch' = batch /\ due' = due /\ received' = received /\ q \in Mortal
  BY DEF IInv, TypeOK, StopWorker
<1>2. PICK c \in Seq(Task), w \in Seq(Task) :
        c = channel[q] /\ w = Keep(batch, TasksOf(q))
  BY <1>1, WaitingFacts
<1>3. /\ \A k \in Queue \ {q} : Waiting(k)' = Waiting(k)
      /\ Waiting(q) = c \o w /\ Waiting(q)' = <<>> \o w
  BY <1>1, <1>2 DEF Waiting
<1>4. <<>> \o w = w
  OBVIOUS
<1>5. CASE c = <<>>
  BY <1>1, <1>3, <1>5
<1>6. CASE c # <<>>
  <2>1. Waiting(q)' = SubSeq(Waiting(q), Len(c) + 1, Len(Waiting(q)))
    BY <1>3, <1>4, PartsOfConcat
  <2>2. Len(c) \in 1 .. Len(Waiting(q))
    <3>1. /\ Len(Waiting(q)) = Len(c) + Len(w) /\ Len(w) \in Nat
          /\ Len(c) \in Nat /\ Len(c) # 0
      BY <1>3, <1>6
    <3> QED
      BY <3>1
  <2>3. Line!Strand(q, Len(c))
    BY <1>1, <1>3, <2>1, LineFront DEF Line!Strand
  <2> QED
    BY <2>2, <2>3
<1> QED
  BY <1>5, <1>6

\* A worker is handed the first of its line.
LEMMA ReceiveIsHand ==
    ASSUME IInv, NEW q \in Queue, Receive(q)
    PROVE  1 \in 1 .. Len(Waiting(q)) /\ Line!Hand(q, 1)
<1>1. /\ channel \in [Queue -> Seq(Task)] /\ TypeOK
      /\ channel' = [channel EXCEPT ![q] = Tail(channel[q])]
      /\ channel[q] # <<>> /\ batch' = batch /\ due' = due
      /\ received' = received \cup {Head(channel[q])}
  BY DEF IInv, TypeOK, Receive
<1>2. PICK w \in Seq(Task) : w = Keep(batch, TasksOf(q))
  BY <1>1, WaitingFacts
<1>3. PICK h \in Task, r \in Seq(Task) :
        h = Head(channel[q]) /\ r = Tail(channel[q]) /\ channel[q] = <<h>> \o r
  <2>1. PICK c \in Seq(Task) : c = channel[q]
    BY <1>1
  <2>2. /\ c # <<>> /\ Head(c) \in Task /\ Tail(c) \in Seq(Task)
        /\ c = <<Head(c)>> \o Tail(c)
    BY <1>1, <2>1
  <2> QED
    BY <2>1, <2>2
<1>4. /\ \A k \in Queue \ {q} : Waiting(k)' = Waiting(k)
      /\ Waiting(q) = (<<h>> \o r) \o w /\ Waiting(q)' = r \o w
  BY <1>1, <1>2, <1>3 DEF Waiting
<1>5. PICK v \in Seq(Task) : v = r \o w /\ (<<h>> \o r) \o w = <<h>> \o v
  <2>1. <<h>> \in Seq(Task) /\ r \o w \in Seq(Task)
    OBVIOUS
  <2>2. (<<h>> \o r) \o w = <<h>> \o (r \o w)
    BY <2>1, ConcatAssociative
  <2> QED
    BY <2>1, <2>2
<1>6. /\ <<h>> \in Seq(Task) /\ Len(<<h>>) = 1
      /\ SubSeq(<<h>> \o v, 1, 1) = <<h>>
      /\ SubSeq(<<h>> \o v, 1 + 1, Len(<<h>> \o v)) = v
      /\ 1 \in 1 .. Len(<<h>> \o v)
  BY FrontOf
<1>7. Line!Members(<<h>>) = {h}
  BY DEF Line!Members
<1>8. Line!Hand(q, 1)
  <2>1. Waiting(q)' = SubSeq(Waiting(q), 1 + 1, Len(Waiting(q)))
    BY <1>4, <1>5, <1>6
  <2>2. Line!Members(SubSeq(Waiting(q), 1, 1)) = {h}
    BY <1>4, <1>5, <1>6, <1>7
  <2> QED
    BY <1>1, <1>3, <1>4, <2>1, <2>2, LineFront DEF Line!Hand
<1> QED
  BY <1>4, <1>5, <1>6, <1>8

\* A task nobody can receive is stranded, from the front of its line; one that
\* goes into its channel keeps its place in the line.
LEMMA SendKeepsLines ==
    ASSUME IInv, Send
    PROVE  \/ \E q \in Queue : 1 \in 1 .. Len(Waiting(q)) /\ Line!Strand(q, 1)
           \/ /\ \A k \in Queue : Waiting(k)' = Waiting(k)
              /\ due' = due /\ received' = received
<1>1. /\ channel \in [Queue -> Seq(Task)] /\ TypeOK
      /\ batch \in Seq(Task) /\ batch # <<>> /\ batch' = Tail(batch)
      /\ due' = due /\ received' = received
  BY DEF IInv, TypeOK, Send
<1>2. PICK t \in Task : t = Head(batch) /\ t \in Elems(batch)
  BY <1>1, HeadAndTail DEF IInv, BatchIsLocked
<1>3. PICK q \in Queue : q = TaskQueue[t] /\ q \in registry
  BY <1>2, DriverAssumption DEF IInv, BatchIsLocked
<1>4. PICK w \in Seq(Task) : w = Keep(Tail(batch), TasksOf(q))
  <2>1. Tail(batch) \in Seq(Task)
    BY <1>1
  <2> QED
    BY <2>1, KeepItems
<1>5. /\ Keep(batch, TasksOf(q)) = <<t>> \o w
      /\ \A k \in Queue \ {q} :
           Keep(batch, TasksOf(k)) = Keep(Tail(batch), TasksOf(k))
  BY <1>1, <1>2, <1>3, <1>4, KeepHead DEF TasksOf
<1>6. PICK c \in Seq(Task) : c = channel[q]
  BY <1>1
<1>7. Waiting(q) = c \o (<<t>> \o w)
  BY <1>5, <1>6 DEF Waiting
<1>8. CASE channel' = [channel EXCEPT ![q] = Append(channel[q], t)]
  <2>1. \A k \in Queue \ {q} : Waiting(k)' = Waiting(k)
    BY <1>1, <1>5, <1>8 DEF Waiting
  <2>2. Waiting(q)' = Append(c, t) \o w
    BY <1>1, <1>4, <1>6, <1>8 DEF Waiting
  <2>3. Append(c, t) \o w = c \o (<<t>> \o w)
    BY AppendOfConcat
  <2> QED
    BY <1>1, <1>7, <2>1, <2>2, <2>3
<1>9. CASE ~HasReceiver(q) /\ channel' = channel
  <2>1. backend[q] = "gone" /\ q \in Mortal /\ channel[q] = <<>>
    BY <1>3, <1>9 DEF HasReceiver, IInv, ChannelsAreOwn
  <2>2. \A k \in Queue \ {q} : Waiting(k)' = Waiting(k)
    BY <1>1, <1>5, <1>9 DEF Waiting
  <2>3. Waiting(q) = <<t>> \o w /\ Waiting(q)' = w
    <3>1. Waiting(q)' = <<>> \o w
      BY <1>1, <1>4, <1>9, <2>1 DEF Waiting
    <3>2. <<>> \o w = w /\ <<>> \o (<<t>> \o w) = <<t>> \o w
      OBVIOUS
    <3> QED
      BY <1>6, <1>7, <2>1, <3>1, <3>2
  <2>4. /\ SubSeq(<<t>> \o w, 1 + 1, Len(<<t>> \o w)) = w
        /\ 1 \in 1 .. Len(<<t>> \o w)
    BY FrontOf
  <2>5. /\ Waiting(q)' = SubSeq(Waiting(q), 1 + 1, Len(Waiting(q)))
        /\ 1 \in 1 .. Len(Waiting(q))
    BY <2>3, <2>4
  <2>6. Line!Strand(q, 1)
    BY <1>1, <2>1, <2>2, <2>5, LineFront DEF Line!Strand
  <2> QED
    BY <2>5, <2>6
<1> QED
  BY <1>2, <1>3, <1>8, <1>9 DEF Send

\* A claim that commits adds to each line what it brought for its queue.
LEMMA FetchIsClaim == ASSUME IInv, IInv', Fetch PROVE Line!Claim
<1>1. /\ TypeOK /\ TypeOK' /\ batch = <<>> /\ channel' = channel
      /\ received' = received
  BY DEF IInv, Fetch, BatchIsLocked
<1>2. PICK S \in Claims : \E s \in Orders(S \ Unreadable) :
        due' = due \ S /\ batch' = s
  BY DEF Fetch
<1>3. PICK s \in Orders(S \ Unreadable) : due' = due \ S /\ batch' = s
  BY <1>2
<1>4. /\ s \in Seq(Task) /\ Distinct(s)
      /\ Elems(s) = S \ Unreadable /\ S \subseteq due
  BY <1>1, ClaimFacts
<1> DEFINE new == [q \in Queue |-> Keep(s, TasksOf(q))]
<1>5. ASSUME NEW q \in Queue
      PROVE  /\ new[q] \in Seq(Task) /\ Waiting(q)' = Waiting(q) \o new[q]
             /\ Elems(new[q]) \subseteq (due \ due') \cap TasksOf(q)
             /\ Distinct(new[q]) /\ Elems(new[q]) \cap received' = {}
  <2>1. /\ new[q] \in Seq(Task) /\ Distinct(new[q])
        /\ Elems(new[q]) = Elems(s) \cap TasksOf(q)
    BY <1>4, KeepItems
  <2>2. Waiting(q)' = Waiting(q) \o new[q]
    <3>1. Waiting(q) = channel[q]
      BY <1>1, WaitingFacts
    <3> QED
      BY <1>1, <1>3, <3>1 DEF Waiting
  <2>3. Elems(s) \cap received = {}
    BY <1>4 DEF IInv, OnePlace, TypeOK
  <2> HIDE DEF new
  <2> QED
    BY <1>1, <1>3, <1>4, <2>1, <2>2, <2>3
<1>6. due' \subseteq due
  BY <1>3
<1> HIDE DEF new
<1> QED
  BY <1>1, <1>5, <1>6, LineClaim

\* A claim that is lost, or that goes to a worker past the driver, leaves the
\* lines as they are.
LEMMA PassedIsClaim ==
    ASSUME IInv, IInv', FetchLost \/ \E q \in Queue : EagerFetch(q)
    PROVE  Line!Claim
<1>1. /\ TypeOK /\ TypeOK' /\ channel' = channel /\ batch' = batch
      /\ due' \subseteq due /\ received \subseteq received'
      /\ received' \ received \subseteq due \ due'
  BY DEF IInv, FetchLost, EagerFetch
<1> DEFINE new == [q \in Queue |-> <<>>]
<1>2. Elems(<<>>) = {} /\ Distinct(<<>>) /\ <<>> \in Seq(Task)
  BY DEF Elems, Distinct
<1>3. ASSUME NEW q \in Queue
      PROVE  /\ new[q] \in Seq(Task) /\ Waiting(q)' = Waiting(q) \o new[q]
             /\ Elems(new[q]) \subseteq (due \ due') \cap TasksOf(q)
             /\ Distinct(new[q]) /\ Elems(new[q]) \cap received' = {}
  <2>1. Waiting(q)' = Waiting(q) /\ Waiting(q) \in Seq(Task)
    BY <1>1, WaitingFacts DEF Waiting
  <2>2. Waiting(q) \o <<>> = Waiting(q)
    BY <2>1
  <2> QED
    BY <1>2, <2>1, <2>2
<1> HIDE DEF new
<1> QED
  BY <1>1, <1>3, LineClaim

\* A claim nobody holds becomes due again.
LEMMA ReenqueueIsReturn ==
    ASSUME IInv, NEW t \in Task, Reenqueue(t) PROVE Line!Return
<1>1. /\ TypeOK /\ t \in dropped /\ due' = due \cup {t}
      /\ channel' = channel /\ batch' = batch /\ received' = received
  BY DEF IInv, Reenqueue
<1>2. PICK q \in Queue : q = TaskQueue[t]
  BY DriverAssumption
<1>3. t \notin Elems(Waiting(q)) /\ t \notin received
  <2>1. Elems(Waiting(q)) = Elems(channel[q]) \cup (Elems(batch) \cap TasksOf(q))
    BY <1>1, WaitingFacts
  <2> QED
    BY <1>1, <1>2, <2>1 DEF IInv, OnePlace, InChannel
<1>4. [k \in Queue |-> Waiting(k)]' = [k \in Queue |-> Waiting(k)]
  BY <1>1 DEF Waiting
<1>5. Line!InLine(q) = Elems(Waiting(q))
  BY DEF Line!InLine, Line!Members, Elems
<1> QED
  BY <1>1, <1>2, <1>3, <1>4, <1>5 DEF Line!Return

\* The shared driver implements one line per queue: each worker is handed the
\* tasks of its own queue in the order of the claims, each once, and none is
\* lost from a line while its worker lives.
THEOREM DriverImplementsLines == Spec => QueuesAreLines
<1> DEFINE line == [q \in Queue |-> Waiting(q)]
<1>1. Init => Line!LineInit
  <2> SUFFICES ASSUME Init PROVE Line!LineInit
    OBVIOUS
  <2>1. IInv /\ batch = <<>> /\ \A q \in Queue : channel[q] = <<>>
    BY InitIInv DEF Init
  <2>2. \A q \in Queue : Waiting(q) = <<>>
    BY <2>1, WaitingFacts DEF IInv
  <2> QED
    BY <2>2 DEF Init, Line!LineInit
<1>2. IInv /\ IInv' /\ [Next]_vars => [Line!LineNext]_<<due, line, received>>
  <2> SUFFICES ASSUME IInv, IInv', [Next]_vars
               PROVE  \/ Line!LineNext
                      \/ /\ \A k \in Queue : Waiting(k)' = Waiting(k)
                         /\ due' = due /\ received' = received
    OBVIOUS
  <2>1. \A q \in Queue : line[q] = Waiting(q)
    OBVIOUS
  <2>2. CASE \E q \in Queue : StopWorker(q)
    BY <2>1, <2>2, StopWorkerIsStrand DEF Line!LineNext
  <2>3. CASE \E q \in Queue : Receive(q)
    BY <2>1, <2>3, ReceiveIsHand DEF Line!LineNext
  <2>4. CASE FetchLost \/ \E q \in Queue : EagerFetch(q)
    BY <2>4, PassedIsClaim DEF Line!LineNext
  <2>5. CASE Fetch
    BY <2>5, FetchIsClaim DEF Line!LineNext
  <2>6. CASE Send
    BY <2>1, <2>6, SendKeepsLines DEF Line!LineNext
  <2>7. CASE \E t \in Task : Reenqueue(t)
    BY <2>7, ReenqueueIsReturn DEF Line!LineNext
  <2>8. CASE \E q \in Queue : MakeShared(q)
    <3>1. PICK q \in Queue : MakeShared(q)
      BY <2>8
    <3>2. channel \in [Queue -> Seq(Task)] /\ channel[q] = <<>>
      BY <3>1 DEF MakeShared, IInv, TypeOK, ChannelsAreOwn
    <3>3. /\ channel' = channel /\ batch' = batch
          /\ due' = due /\ received' = received
      BY <3>1, <3>2 DEF MakeShared
    <3> QED
      BY <3>3 DEF Waiting
  <2>9. CASE \/ \E q \in Queue : StartWorker(q)
             \/ Wake \/ ReadKeys \/ FetchFails \/ Flush \/ Sent
             \/ UNCHANGED vars
    <3>1. /\ channel' = channel /\ batch' = batch
          /\ due' = due /\ received' = received
      BY <2>9 DEF StartWorker, Wake, ReadKeys, FetchFails, Flush, Sent, vars
    <3> QED
      BY <3>1 DEF Waiting
  <2> QED
    BY <2>2, <2>3, <2>4, <2>5, <2>6, <2>7, <2>8, <2>9 DEF Next, DriveStep
<1> QED
  BY <1>1, <1>2, DriverCorrect, PTL DEF Spec, QueuesAreLines, Line!LineSpec
=============================================================================
