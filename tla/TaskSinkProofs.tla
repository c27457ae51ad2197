--------------------------- MODULE TaskSinkProofs ---------------------------
(***************************************************************************)
(* Proofs about TaskSink, for every set of sinks, tasks, keys and record   *)
(* ids and every retry bound.                                              *)
(***************************************************************************)
EXTENDS TaskSink, SequenceFacts

-----------------------------------------------------------------------------
(* The inductive invariant. *)

\* Without a push_tasks there is no batch, and one that is about to send a
\* transaction has an attempt left.
FutureOK ==
    \A p \in Sink :
        /\ flush[p].stage = "none" => flush[p] = NoFlush
        /\ flush[p].stage = "send" => flush[p].tries < MaxTxRetries

\* An answer is an empty one, or tells of one error.
AnswersAreWellFormed ==
    \A p \in Sink :
        flush[p].reply.errors \in
            {NoErrors} \cup Failures("real") \cup Failures("conflict")

\* An answer without an error says that the batch has been stored.
AnswersAreTrue ==
    \A p \in Sink :
        flush[p].stage = "read" /\ ~flush[p].reply.io
            /\ flush[p].reply.errors = NoErrors
        => \A m \in Elems(flush[p].batch) : Stored(m)

IInv ==
    /\ TypeOK /\ FutureOK /\ AnswersAreWellFormed /\ AnswersAreTrue
    /\ NothingForgotten /\ KeysAreUnique

-----------------------------------------------------------------------------
(* Answers and verdicts. *)

\* Every answer of the server is a function from slots to kinds of errors.
LEMMA AnswerTypes ==
    ASSUME NEW kind \in ErrorKind, NEW e \in Failures(kind)
    PROVE  /\ e \in UNION {[S -> ErrorKind] : S \in SUBSET Slot}
           /\ \E s \in DOMAIN e : e[s] = kind
           /\ \A s \in DOMAIN e : e[s] \in {kind, "not_executed"}
<1>1. PICK S \in SUBSET Slot :
        e \in {[s \in S |-> IF s = x THEN kind ELSE "not_executed"] : x \in S}
  BY DEF Failures
<1>2. PICK x \in S : e = [s \in S |-> IF s = x THEN kind ELSE "not_executed"]
  BY <1>1
<1>3. e \in [S -> ErrorKind]
  BY <1>2 DEF ErrorKind
<1>4. e[x] = kind /\ DOMAIN e = S /\ \A s \in S : e[s] \in {kind, "not_executed"}
  BY <1>2
<1> QED
  BY <1>3, <1>4

\* An answer without errors is one as well.
LEMMA NoErrorsType ==
    /\ NoErrors \in UNION {[S -> ErrorKind] : S \in SUBSET Slot}
    /\ DOMAIN NoErrors = {}
<1>1. DOMAIN NoErrors = {}
  BY DEF NoErrors
<1>2. NoErrors \in [{} -> ErrorKind]
  BY DEF NoErrors
<1> QED
  BY <1>1, <1>2

\* push_tasks goes round again only below its bound and without a real error,
\* and returns Ok only upon an answer without errors; upon a conflict it gives up
\* at the bound only.
LEMMA VerdictFacts ==
    ASSUME NEW e \in {NoErrors} \cup Failures("real") \cup Failures("conflict"),
           NEW n \in 0 .. MaxTxRetries
    PROVE  /\ Verdict(e, n) = "again" =>
                n < MaxTxRetries /\ \A s \in DOMAIN e : e[s] # "real"
           /\ Verdict(e, n) = "ok" => e = NoErrors
           /\ /\ Verdict(e, n) = "fail"
              /\ \A s \in DOMAIN e : e[s] # "real"
              => n = MaxTxRetries
<1> DEFINE kinds == {e[s] : s \in DOMAIN e}
<1>1. CASE e = NoErrors
  <2>1. kinds = {}
    BY <1>1, NoErrorsType
  <2> QED
    BY <2>1, <1>1 DEF Verdict, Classify
<1>2. CASE e \in Failures("real")
  <2>1. PICK s \in DOMAIN e : e[s] = "real"
    BY <1>2, AnswerTypes DEF ErrorKind
  <2>2. kinds # {} /\ "real" \in kinds
    BY <2>1
  <2>3. Classify(e) = "fail"
    BY <2>2 DEF Classify
  <2> QED
    BY <2>1, <2>3 DEF Verdict
<1>3. CASE e \in Failures("conflict")
  <2>1. /\ \E s \in DOMAIN e : e[s] = "conflict"
        /\ \A s \in DOMAIN e : e[s] \in {"conflict", "not_executed"}
    BY <1>3, AnswerTypes DEF ErrorKind
  <2>2. kinds # {} /\ "conflict" \in kinds /\ "real" \notin kinds
    BY <2>1
  <2>3. Classify(e) = "retry"
    BY <2>2 DEF Classify
  <2>4. \A s \in DOMAIN e : e[s] # "real"
    BY <2>1
  <2>5. Verdict(e, n) = IF n < MaxTxRetries THEN "again" ELSE "fail"
    BY <2>3 DEF Verdict
  <2> QED
    BY <2>4, <2>5, RetriesAssumption
<1> QED
  BY <1>1, <1>2, <1>3

-----------------------------------------------------------------------------
(* What push_tasks.surql creates. *)

\* Having the same key is symmetric and transitive.
LEMMA SameKeyRelates ==
    /\ \A m, k : SameKey(m, k) => SameKey(k, m)
    /\ \A m, k, n : SameKey(m, k) /\ SameKey(k, n) => SameKey(m, n)
BY DEF SameKey

\* The tasks for which rows are created are of the batch, and neither two of
\* them nor one of them and a row have the same key.
LEMMA FreshIsUnique ==
    ASSUME NEW b \in Seq(Msg)
    PROVE  /\ Fresh(b) \subseteq Elems(b) /\ Fresh(b) \subseteq Msg
           /\ \A m \in Fresh(b), k \in rows : ~SameKey(k, m)
           /\ \A m, k \in Fresh(b) : SameKey(m, k) => m = k
<1>1. /\ Len(b) \in Nat /\ DOMAIN b = 1 .. Len(b)
      /\ \A x \in DOMAIN b : b[x] \in Msg
  OBVIOUS
<1>2. ASSUME NEW m \in Fresh(b), NEW k \in Fresh(b), SameKey(m, k)
      PROVE  m = k
  <2>1. PICK y \in DOMAIN b : m = b[y] /\ ~\E z \in 1 .. y - 1 : SameKey(b[z], b[y])
    BY DEF Fresh
  <2>2. PICK x \in DOMAIN b : k = b[x] /\ ~\E z \in 1 .. x - 1 : SameKey(b[z], b[x])
    BY DEF Fresh
  <2>3. ~(y < x) /\ ~(x < y)
    BY <1>1, <1>2, <2>1, <2>2, SameKeyRelates
  <2> QED
    BY <1>1, <2>1, <2>2, <2>3
<1>3. Fresh(b) \subseteq Elems(b) /\ \A m \in Fresh(b), k \in rows : ~SameKey(k, m)
  BY DEF Fresh, Elems
<1>4. Elems(b) \subseteq Msg
  BY <1>1 DEF Elems
<1> QED
  BY <1>2, <1>3, <1>4

\* Every task of the batch has a row then, or its key has: of the tasks of the
\* batch with its key the first one is created, unless a row has the key.
LEMMA FreshCovers ==
    ASSUME NEW b \in Seq(Msg), NEW m \in Elems(b)
    PROVE  m \in Fresh(b) \/ \E k \in rows \cup Fresh(b) : SameKey(k, m)
<1>1. Len(b) \in Nat /\ DOMAIN b = 1 .. Len(b)
  OBVIOUS
<1>2. PICK y \in DOMAIN b : m = b[y]
  BY DEF Elems
<1> DEFINE S == {z \in 1 .. y - 1 : SameKey(b[z], m)}
<1>3. CASE S = {}
  BY <1>2, <1>3 DEF Fresh
<1>4. CASE S # {}
  <2>1. S \in SUBSET Nat
    BY <1>1
  <2>2. PICK z \in S : \A x \in S : z <= x
    BY <2>1, <1>4, NatMin
  <2>3. z \in DOMAIN b /\ SameKey(b[z], m)
    BY <1>1
  <2>4. ~\E x \in 1 .. z - 1 : SameKey(b[x], b[z])
    <3> SUFFICES ASSUME NEW x \in 1 .. z - 1, SameKey(b[x], b[z])
                 PROVE  FALSE
      OBVIOUS
    <3>1. x \in S /\ x < z
      BY <1>1, <2>3, SameKeyRelates
    <3> QED
      BY <3>1, <2>2, <1>1
  <2>5. CASE \E k \in rows : SameKey(k, b[z])
    BY <2>3, <2>5, SameKeyRelates
  <2>6. CASE ~\E k \in rows : SameKey(k, b[z])
    <3>1. b[z] \in Fresh(b)
      BY <2>3, <2>4, <2>6 DEF Fresh
    <3> QED
      BY <3>1, <2>3
  <2> QED
    BY <2>5, <2>6
<1> QED
  BY <1>3, <1>4

-----------------------------------------------------------------------------
(* The steps. *)

\* What is stored stays so: vacuum deletes rows, but they have been created.
LEMMA StoredStays ==
    ASSUME created \subseteq created', NEW m, Stored(m)
    PROVE  Stored(m)'
BY DEF Stored

\* The elements of a sequence, under the name the shared facts use.
LEMMA ElemsAreItems == \A s : Elems(s) = Items(s)
BY DEF Elems, Items

\* A future is as the invariant wants it.
GoodFlush(f) ==
    /\ f \in Flush
    /\ f.stage = "none" => f = NoFlush
    /\ f.stage = "send" => f.tries < MaxTxRetries
    /\ f.reply.errors \in {NoErrors} \cup Failures("real") \cup Failures("conflict")

\* What a future's answer promises.
Promises(f, m) ==
    /\ f.stage = "read" /\ ~f.reply.io /\ f.reply.errors = NoErrors
    /\ m \in Elems(f.batch)

\* There is a future as wanted before anything is sent.
LEMMA NoFlushIsGood ==
    GoodFlush(NoFlush) /\ \A m : ~Promises(NoFlush, m)
<1>1. NoReply \in [io : BOOLEAN,
                   errors : UNION {[S -> ErrorKind] : S \in SUBSET Slot}]
  BY NoErrorsType DEF NoReply
<1>2. 0 \in 0 .. MaxTxRetries /\ <<>> \in Seq(Msg)
  BY RetriesAssumption
<1>3. NoFlush \in Flush
  BY <1>1, <1>2 DEF NoFlush, Flush
<1>4. NoFlush.reply.errors = NoErrors /\ NoFlush.stage = "none"
  BY DEF NoFlush, NoReply
<1> QED
  BY <1>3, <1>4 DEF GoodFlush, Promises

\* The first state satisfies the invariant.
LEMMA InitIInv == Init => IInv
<1> SUFFICES ASSUME Init PROVE IInv
  OBVIOUS
<1> USE DEF Init
<1>1. TypeOK
  BY NoFlushIsGood, SinkAssumption DEF TypeOK, GoodFlush
<1>2. FutureOK
  BY DEF FutureOK, NoFlush
<1>3. AnswersAreWellFormed /\ AnswersAreTrue
  BY DEF AnswersAreWellFormed, AnswersAreTrue, NoFlush, NoReply
<1>4. NothingForgotten
  BY DEF NothingForgotten, Stored
<1>5. KeysAreUnique
  BY PresentAssumption DEF KeysAreUnique
<1> QED
  BY <1>1, <1>2, <1>3, <1>4, <1>5 DEF IInv

\* What the invariant says of one sink.
LEMMA FlushesAreGood ==
    ASSUME IInv, NEW p \in Sink
    PROVE  /\ GoodFlush(flush[p]) /\ flush[p].batch \in Seq(Msg)
           /\ buffer[p] \in Seq(Msg)
           /\ \A m : Promises(flush[p], m) => Stored(m)
BY DEF IInv, TypeOK, FutureOK, AnswersAreWellFormed, AnswersAreTrue, GoodFlush,
       Promises, Flush

\* A step that replaces the future of one sink by a good one keeps what the
\* invariant says of all of them.
LEMMA FlushReplaced ==
    ASSUME IInv, NEW p \in Sink, NEW f, GoodFlush(f),
           flush' = [flush EXCEPT ![p] = f],
           created \subseteq created',
           \A m : Promises(f, m) => Stored(m)'
    PROVE  /\ flush' \in [Sink -> Flush]
           /\ FutureOK' /\ AnswersAreWellFormed' /\ AnswersAreTrue'
<1>1. flush \in [Sink -> Flush] /\ f \in Flush
  BY DEF IInv, TypeOK, GoodFlush
<1>2. flush' \in [Sink -> Flush] /\ flush'[p] = f
  BY <1>1
<1>3. \A r \in Sink : r # p => flush'[r] = flush[r]
  BY <1>1
<1>4. \A r \in Sink : GoodFlush(flush'[r])
  BY <1>2, <1>3, FlushesAreGood
<1>5. FutureOK' /\ AnswersAreWellFormed'
  BY <1>4 DEF FutureOK, AnswersAreWellFormed, GoodFlush
<1>6. \A r \in Sink : \A m : Promises(flush'[r], m) => Stored(m)'
  BY <1>2, <1>3, FlushesAreGood, StoredStays
<1>7. AnswersAreTrue'
  BY <1>6 DEF AnswersAreTrue, Promises
<1> QED
  BY <1>2, <1>5, <1>7

\* A step that leaves the futures alone does so too.
LEMMA FlushUnchanged ==
    ASSUME IInv, UNCHANGED flush, created \subseteq created'
    PROVE  /\ flush' \in [Sink -> Flush]
           /\ FutureOK' /\ AnswersAreWellFormed' /\ AnswersAreTrue'
<1>1. flush' \in [Sink -> Flush] /\ FutureOK' /\ AnswersAreWellFormed'
  BY DEF IInv, TypeOK, FutureOK, AnswersAreWellFormed
<1>2. AnswersAreTrue'
  BY StoredStays DEF IInv, AnswersAreTrue
<1> QED
  BY <1>1, <1>2

\* A task stays in its sink or leaves it stored or with an error told.
LEMMA NothingForgottenStays ==
    ASSUME IInv, created \subseteq created', told \subseteq told',
           \A m \in Msg \ unsent' :
               m \in unsent \/ Held(m) => Held(m)' \/ Stored(m)' \/ m \in told'
    PROVE  NothingForgotten'
<1> SUFFICES ASSUME NEW m \in Msg \ unsent' PROVE Held(m)' \/ Stored(m)' \/ m \in told'
  BY DEF NothingForgotten
<1>1. m \in unsent \/ Held(m) \/ Stored(m) \/ m \in told
  BY DEF IInv, NothingForgotten
<1> QED
  BY <1>1, StoredStays

\* start_send.
LEMMA StartSendKeeps ==
    ASSUME IInv, NEW p \in Sink, NEW n \in Msg, StartSend(p, n)
    PROVE  IInv'
<1> USE DEF StartSend
<1>1. buffer[p] \in Seq(Msg) /\ buffer \in [Sink -> Seq(Msg)]
  BY DEF IInv, TypeOK
<1>2. Append(buffer[p], n) \in Seq(Msg)
  BY <1>1, ItemsOfAppend
<1>3. Elems(Append(buffer[p], n)) = Elems(buffer[p]) \cup {n}
  BY <1>1, ItemsOfAppend, ElemsAreItems
<1>4. buffer' \in [Sink -> Seq(Msg)] /\ buffer'[p] = Append(buffer[p], n)
  BY <1>1, <1>2
<1>5. TypeOK'
  BY <1>4, FlushUnchanged DEF IInv, TypeOK
<1>6. NothingForgotten'
  <2>1. ASSUME NEW m \in Msg \ unsent', m \in unsent PROVE Held(m)'
    <3>1. m = n
      BY <2>1
    <3> QED
      BY <3>1, <1>3, <1>4 DEF Held
  <2>2. ASSUME NEW m \in Msg, Held(m) PROVE Held(m)'
    <3>1. SinkOf[m] \in Sink
      BY SinkAssumption
    <3>2. Elems(buffer[SinkOf[m]]) \subseteq Elems(buffer'[SinkOf[m]])
      BY <3>1, <1>1, <1>3, <1>4
    <3> QED
      BY <2>2, <3>2 DEF Held
  <2> QED
    BY <2>1, <2>2, NothingForgottenStays
<1> QED
  BY <1>5, <1>6, FlushUnchanged DEF IInv, KeysAreUnique

\* The caller polls poll_flush, or drops it, or has got its Ok.
LEMMA PollingKeeps ==
    ASSUME IInv, polling' \subseteq Sink,
           UNCHANGED <<unsent, buffer, flush, told, created, rows>>
    PROVE  IInv'
<1>1. TypeOK'
  BY FlushUnchanged DEF IInv, TypeOK
<1>2. NothingForgotten'
  <2>1. \A m : Held(m) => Held(m)'
    BY DEF Held
  <2> QED
    BY <2>1, NothingForgottenStays
<1> QED
  BY <1>1, <1>2, FlushUnchanged DEF IInv, KeysAreUnique

\* poll_flush takes the buffer.
LEMMA TakeBufferKeeps ==
    ASSUME IInv, NEW p \in Sink, TakeBuffer(p)
    PROVE  IInv'
<1> USE DEF TakeBuffer
<1> DEFINE f == [NoFlush EXCEPT !.stage = "send", !.batch = buffer[p]]
<1>1. /\ buffer[p] \in Seq(Msg) /\ buffer \in [Sink -> Seq(Msg)] /\ <<>> \in Seq(Msg)
      /\ flush \in [Sink -> Flush]
  BY DEF IInv, TypeOK
<1>2. /\ f.stage = "send" /\ f.batch = buffer[p] /\ f.tries = 0
      /\ f.reply = NoFlush.reply
  BY DEF NoFlush
<1>3. GoodFlush(f) /\ \A m : ~Promises(f, m)
  <2>1. NoFlush \in Flush
    BY NoFlushIsGood DEF GoodFlush
  <2>2. f \in Flush
    BY <2>1, <1>1 DEF Flush
  <2> HIDE DEF f
  <2> QED
    BY <2>2, <1>2, NoFlushIsGood, RetriesAssumption DEF GoodFlush, Promises
<1>4. flush' = [flush EXCEPT ![p] = f] /\ f.batch = buffer[p]
  BY <1>2
<1> HIDE DEF f
<1>5. /\ flush' \in [Sink -> Flush]
      /\ FutureOK' /\ AnswersAreWellFormed' /\ AnswersAreTrue'
  BY <1>3, <1>4, FlushReplaced
<1>6. TypeOK'
  BY <1>1, <1>5 DEF IInv, TypeOK
<1>7. NothingForgotten'
  <2>1. flush[p].batch = <<>>
    BY DEF IInv, FutureOK, NoFlush
  <2>2. ASSUME NEW m \in Msg, Held(m) PROVE Held(m)'
    <3>1. SinkOf[m] \in Sink
      BY SinkAssumption
    <3>2. CASE SinkOf[m] = p
      <4>1. m \in Elems(buffer[p])
        BY <2>1, <2>2, <3>2 DEF Held, Elems
      <4>2. flush'[p].batch = buffer[p]
        BY <1>1, <1>4
      <4> QED
        BY <4>1, <4>2, <3>2 DEF Held
    <3>3. CASE SinkOf[m] # p
      BY <2>2, <3>1, <3>3, <1>1, <1>4 DEF Held
    <3> QED
      BY <3>2, <3>3
  <2> QED
    BY <2>2, NothingForgottenStays
<1> QED
  BY <1>5, <1>6, <1>7 DEF IInv, KeysAreUnique

\* A step that replaces a future and keeps its batch, creates rows or not.
LEMMA AnswerKeeps ==
    ASSUME IInv, NEW p \in Sink, NEW f, GoodFlush(f), f.batch = flush[p].batch,
           flush' = [flush EXCEPT ![p] = f],
           created \subseteq created',
           \A m : Promises(f, m) => Stored(m)',
           created' \subseteq Msg, rows' \subseteq created', KeysAreUnique',
           UNCHANGED <<unsent, buffer, polling, told>>
    PROVE  IInv'
<1>1. flush \in [Sink -> Flush] /\ flush'[p] = f
  BY DEF IInv, TypeOK
<1>2. \A r \in Sink : flush'[r].batch = flush[r].batch
  BY <1>1
<1>3. /\ flush' \in [Sink -> Flush]
      /\ FutureOK' /\ AnswersAreWellFormed' /\ AnswersAreTrue'
  BY FlushReplaced
<1>4. TypeOK'
  BY <1>3 DEF IInv, TypeOK
<1>5. NothingForgotten'
  <2>1. \A m \in Msg : Held(m) => Held(m)'
    BY <1>2, SinkAssumption DEF Held
  <2> QED
    BY <2>1, NothingForgottenStays
<1> QED
  BY <1>3, <1>4, <1>5 DEF IInv

\* The answer to a transaction is there.
LEMMA SendFacts ==
    ASSUME IInv, NEW p \in Sink, flush[p].stage = "send",
           NEW io \in BOOLEAN,
           NEW e \in {NoErrors} \cup Failures("real") \cup Failures("conflict"),
           Send(p, io, e)
    PROVE  \E f : /\ GoodFlush(f) /\ f.batch = flush[p].batch
                  /\ f.reply.io = io /\ f.reply.errors = e
                  /\ flush' = [flush EXCEPT ![p] = f]
<1> DEFINE f == [flush[p] EXCEPT !.stage = "read", !.tries = @ + 1,
                                 !.reply = [io |-> io, errors |-> e]]
<1>1. flush \in [Sink -> Flush] /\ flush[p] \in Flush
  BY DEF IInv, TypeOK
<1>2. flush[p].tries + 1 \in 0 .. MaxTxRetries
  BY <1>1, RetriesAssumption DEF IInv, FutureOK, Flush
<1>3. e \in UNION {[S -> ErrorKind] : S \in SUBSET Slot}
  BY NoErrorsType, AnswerTypes DEF ErrorKind
<1>4. f \in Flush
  BY <1>1, <1>2, <1>3 DEF Flush
<1>5. /\ f.stage = "read" /\ f.batch = flush[p].batch
      /\ f.reply = [io |-> io, errors |-> e]
  BY <1>1 DEF Flush
<1>6. flush' = [flush EXCEPT ![p] = f]
  BY <1>1, Zenon DEF Send
<1> HIDE DEF f
<1>7. GoodFlush(f)
  BY <1>4, <1>5 DEF GoodFlush
<1>8. f.reply.io = io /\ f.reply.errors = e
  BY <1>5
<1> QED
  BY <1>5, <1>6, <1>7, <1>8, Zenon

\* The transaction commits.
LEMMA CommitKeeps ==
    ASSUME IInv, NEW p \in Sink, flush[p].stage = "send", NEW io \in BOOLEAN,
           Send(p, io, NoErrors),
           rows' = rows \cup Fresh(flush[p].batch),
           created' = created \cup Fresh(flush[p].batch),
           UNCHANGED <<unsent, buffer, polling, told>>
    PROVE  IInv'
<1>1. PICK b \in Seq(Msg) : b = flush[p].batch
  BY FlushesAreGood
<1>2. PICK new \in SUBSET Msg : new = Fresh(b)
  BY FreshIsUnique
<1>3. rows' = rows \cup new /\ created' = created \cup new
  BY <1>1, <1>2
<1>4. PICK f : /\ GoodFlush(f) /\ f.batch = b
               /\ flush' = [flush EXCEPT ![p] = f]
  BY <1>1, SendFacts
<1>5. ASSUME NEW m \in Elems(b) PROVE Stored(m)'
  BY <1>2, <1>3, FreshCovers DEF Stored, IInv, TypeOK
<1>6. \A m : Promises(f, m) => Stored(m)'
  BY <1>4, <1>5 DEF Promises
<1>7. KeysAreUnique'
  <2> SUFFICES ASSUME NEW m \in rows \cup new, NEW k \in rows \cup new, SameKey(m, k)
               PROVE  m = k
    BY <1>3 DEF KeysAreUnique
  <2>1. CASE m \in rows /\ k \in rows
    BY <2>1 DEF IInv, KeysAreUnique
  <2>2. CASE m \in new /\ k \in new
    BY <2>2, <1>2, FreshIsUnique
  <2>3. CASE m \in rows /\ k \in new
    BY <2>3, <1>2, FreshIsUnique
  <2>4. CASE m \in new /\ k \in rows
    BY <2>4, <1>2, FreshIsUnique, SameKeyRelates
  <2> QED
    BY <2>1, <2>2, <2>3, <2>4
<1>8. created \subseteq created' /\ created' \subseteq Msg /\ rows' \subseteq created'
  BY <1>3 DEF IInv, TypeOK
<1> QED
  BY <1>1, <1>4, <1>6, <1>7, <1>8, AnswerKeeps

\* The transaction does not commit.
LEMMA NoCommitKeeps ==
    ASSUME IInv, NEW p \in Sink, flush[p].stage = "send",
           NEW io \in BOOLEAN,
           NEW e \in {NoErrors} \cup Failures("real") \cup Failures("conflict"),
           io \/ e # NoErrors,
           Send(p, io, e),
           UNCHANGED <<unsent, buffer, polling, told, created, rows>>
    PROVE  IInv'
<1>1. PICK f : /\ GoodFlush(f) /\ f.batch = flush[p].batch
               /\ f.reply.io = io /\ f.reply.errors = e
               /\ flush' = [flush EXCEPT ![p] = f]
  BY SendFacts
<1>2. \A m : ~Promises(f, m)
  BY <1>1 DEF Promises
<1>3. KeysAreUnique' /\ created' \subseteq Msg /\ rows' \subseteq created'
  BY DEF IInv, KeysAreUnique, TypeOK
<1> QED
  BY <1>1, <1>2, <1>3, AnswerKeeps

\* The transaction runs, conflicts, or does not reach the server.
LEMMA TransactionKeeps ==
    ASSUME IInv, NEW p \in Sink,
           Transaction(p) \/ TransactionConflicts(p) \/ TransactionLost(p)
    PROVE  IInv'
<1>1. ASSUME NEW kind \in {"real", "conflict"}, NEW e \in Failures(kind)
      PROVE  e # NoErrors
  BY <1>1, AnswerTypes, NoErrorsType DEF ErrorKind
<1>2. CASE Transaction(p)
  <2> DEFINE new == Fresh(flush[p].batch)
  <2>1. CASE ~IdTaken(new)
    <3>1. PICK io \in BOOLEAN : Send(p, io, NoErrors)
      BY <1>2, <2>1 DEF Transaction
    <3> QED
      BY <1>2, <2>1, <3>1, CommitKeeps DEF Transaction
  <2>2. CASE IdTaken(new)
    <3>1. PICK e \in Failures("real") : Send(p, FALSE, e)
      BY <1>2, <2>2 DEF Transaction
    <3>2. UNCHANGED <<unsent, buffer, polling, told, created, rows>>
      BY <1>2, <2>2 DEF Transaction
    <3> QED
      BY <1>1, <1>2, <3>1, <3>2, NoCommitKeeps DEF Transaction
  <2> QED
    BY <2>1, <2>2
<1>3. CASE TransactionConflicts(p)
  <2>1. PICK e \in Failures("conflict") : Send(p, FALSE, e)
    BY <1>3 DEF TransactionConflicts
  <2> QED
    BY <1>1, <1>3, <2>1, NoCommitKeeps DEF TransactionConflicts
<1>4. CASE TransactionLost(p)
  BY <1>4, NoCommitKeeps DEF TransactionLost
<1> QED
  BY <1>2, <1>3, <1>4

\* push_tasks goes round again.
LEMMA RetryKeeps ==
    ASSUME IInv, NEW p \in Sink, Retry(p)
    PROVE  IInv'
<1> DEFINE f == [flush[p] EXCEPT !.stage = "send", !.reply = NoReply]
<1>1. flush \in [Sink -> Flush] /\ flush[p] \in Flush /\ GoodFlush(flush[p])
  BY FlushesAreGood DEF IInv, TypeOK
<1>2. flush[p].tries \in 0 .. MaxTxRetries
  BY <1>1 DEF Flush
<1>3. Verdict(flush[p].reply.errors, flush[p].tries) = "again"
  BY DEF Retry, PushVerdict
<1>4. flush[p].tries < MaxTxRetries
  BY <1>1, <1>2, <1>3, VerdictFacts DEF GoodFlush
<1>5. NoReply = NoFlush.reply /\ NoFlush \in Flush
  BY NoFlushIsGood DEF NoFlush, GoodFlush
<1>6. f \in Flush
  BY <1>1, <1>5 DEF Flush
<1>7. /\ f.stage = "send" /\ f.batch = flush[p].batch /\ f.tries = flush[p].tries
      /\ f.reply = NoReply
  BY <1>1 DEF Flush
<1>8. flush' = [flush EXCEPT ![p] = f]
  BY <1>1, Zenon DEF Retry
<1> HIDE DEF f
<1>9. GoodFlush(f) /\ \A m : ~Promises(f, m)
  BY <1>4, <1>5, <1>6, <1>7, NoFlushIsGood DEF GoodFlush, Promises
<1>10. KeysAreUnique' /\ created' \subseteq Msg /\ rows' \subseteq created'
  BY DEF IInv, KeysAreUnique, TypeOK, Retry
<1> QED
  BY <1>7, <1>8, <1>9, <1>10, AnswerKeeps DEF Retry

\* push_tasks returns: what it had in hand is stored, or told of.
LEMMA ReturnKeeps ==
    ASSUME IInv, NEW p \in Sink, PushOk(p) \/ PushErr(p)
    PROVE  IInv'
<1>1. flush \in [Sink -> Flush] /\ flush[p] \in Flush /\ GoodFlush(flush[p])
  BY FlushesAreGood DEF IInv, TypeOK
<1>2. /\ flush' = [flush EXCEPT ![p] = NoFlush] /\ UNCHANGED <<unsent, buffer, created, rows>>
      /\ told \subseteq told' /\ polling' \subseteq polling
  BY DEF PushOk, PushErr
<1>3. /\ flush' \in [Sink -> Flush]
      /\ FutureOK' /\ AnswersAreWellFormed' /\ AnswersAreTrue'
  BY <1>2, NoFlushIsGood, FlushReplaced
<1>4. \A m \in Elems(flush[p].batch) : Stored(m) \/ m \in told'
  <2>1. CASE PushOk(p)
    <3>1. /\ ~flush[p].reply.io
          /\ Verdict(flush[p].reply.errors, flush[p].tries) = "ok"
      BY <2>1 DEF PushOk, PushVerdict
    <3>2. flush[p].tries \in 0 .. MaxTxRetries
      BY <1>1 DEF Flush
    <3>3. flush[p].reply.errors = NoErrors
      BY <1>1, <3>1, <3>2, VerdictFacts DEF GoodFlush
    <3> QED
      BY <2>1, <3>1, <3>3, FlushesAreGood DEF PushOk, Promises
  <2>2. CASE PushErr(p)
    BY <2>2 DEF PushErr, Elems
  <2> QED
    BY <2>1, <2>2
<1>5. TypeOK'
  <2>1. told' \subseteq Msg
    <3>1. Elems(flush[p].batch) \subseteq Msg
      BY FlushesAreGood, ItemsType, ElemsAreItems
    <3> QED
      BY <3>1 DEF PushOk, PushErr, IInv, TypeOK, Elems
  <2> QED
    BY <2>1, <1>2, <1>3 DEF IInv, TypeOK
<1>6. NothingForgotten'
  <2>1. ASSUME NEW m \in Msg, Held(m) PROVE Held(m)' \/ Stored(m)' \/ m \in told'
    <3>1. SinkOf[m] \in Sink
      BY SinkAssumption
    <3>2. CASE SinkOf[m] = p /\ m \in Elems(flush[p].batch)
      BY <3>2, <1>2, <1>4, StoredStays
    <3>3. CASE m \in Elems(buffer[SinkOf[m]])
      BY <3>3, <1>2 DEF Held
    <3>4. CASE SinkOf[m] # p
      BY <2>1, <3>1, <3>4, <1>1, <1>2 DEF Held
    <3> QED
      BY <2>1, <3>2, <3>3, <3>4 DEF Held
  <2> QED
    BY <2>1, <1>2, NothingForgottenStays
<1> QED
  BY <1>2, <1>3, <1>5, <1>6 DEF IInv, KeysAreUnique

\* A row is vacuumed.
LEMMA VacuumKeeps ==
    ASSUME IInv, NEW n \in Msg, Vacuum(n)
    PROVE  IInv'
<1> USE DEF Vacuum
<1>1. TypeOK'
  BY FlushUnchanged DEF IInv, TypeOK
<1>2. NothingForgotten'
  <2>1. \A m : Held(m) => Held(m)'
    BY DEF Held
  <2> QED
    BY <2>1, NothingForgottenStays
<1> QED
  BY <1>1, <1>2, FlushUnchanged DEF IInv, KeysAreUnique

\* Every step keeps the invariant.
LEMMA StepIInv == IInv /\ [Next]_vars => IInv'
<1> SUFFICES ASSUME IInv, [Next]_vars PROVE IInv'
  OBVIOUS
<1>1. ASSUME NEW p \in Sink, NEW m \in Msg, StartSend(p, m) PROVE IInv'
  BY <1>1, StartSendKeeps
<1>2. ASSUME NEW p \in Sink, CallFlush(p) \/ DropFlush(p) \/ FlushOk(p) PROVE IInv'
  <2>1. polling' \subseteq Sink
    BY <1>2 DEF CallFlush, DropFlush, FlushOk, IInv, TypeOK
  <2> QED
    BY <1>2, <2>1, PollingKeeps DEF CallFlush, DropFlush, FlushOk
<1>3. ASSUME NEW p \in Sink, FlushStep(p) PROVE IInv'
  BY <1>3, TakeBufferKeeps, TransactionKeeps, RetryKeeps, ReturnKeeps DEF FlushStep
<1>4. ASSUME NEW m \in Msg, Vacuum(m) PROVE IInv'
  BY <1>4, VacuumKeeps
<1>5. CASE UNCHANGED vars
  <2>1. polling' \subseteq Sink
    BY <1>5 DEF vars, IInv, TypeOK
  <2> QED
    BY <1>5, <2>1, PollingKeeps DEF vars
<1> QED
  BY <1>1, <1>2, <1>3, <1>4, <1>5 DEF Next

-----------------------------------------------------------------------------
(* The theorems. *)

\* The inductive invariant holds in every state of every behaviour of the
\* sinks, push_tasks and vacuum.
THEOREM SinkCorrect == Spec => []IInv
BY InitIInv, StepIInv, PTL DEF Spec

\* The sinks, their futures and the table keep their types: no push_tasks sends
\* more than MAX_TX_RETRIES transactions.
THEOREM SinkTypeCorrect == Spec => []TypeOK
<1>1. IInv => TypeOK
  BY DEF IInv
<1> QED
  BY <1>1, SinkCorrect, PTL

\* A task that was sent is in its sink, stored, or in a batch whose error
\* poll_flush has returned, however flushes are dropped, transactions conflict,
\* answers are lost and rows vacuumed.
THEOREM NothingForgottenHolds == Spec => []NothingForgotten
<1>1. IInv => NothingForgotten
  BY DEF IInv
<1> QED
  BY <1>1, SinkCorrect, PTL

\* At most one row of a queue carries an idempotency key, whichever sinks push
\* it and however often a batch is sent again.
THEOREM KeysAreUniqueHolds == Spec => []KeysAreUnique
<1>1. IInv => KeysAreUnique
  BY DEF IInv
<1> QED
  BY <1>1, SinkCorrect, PTL

\* A batch fails for conflicts only when push_tasks has sent its last try, and
\* is not sent again after any other error.
THEOREM ConflictsRetriedHolds == Spec => ConflictsAreRetried
<1> DEFINE Step == \A p \in Sink :
                     /\ /\ PushErr(p) /\ ~flush[p].reply.io /\ ~Refused(p)
                        => flush[p].tries = MaxTxRetries
                     /\ Retry(p) => ~flush[p].reply.io /\ ~Refused(p)
<1>1. IInv => Step
  <2> SUFFICES ASSUME IInv, NEW p \in Sink
               PROVE  /\ /\ PushErr(p) /\ ~flush[p].reply.io /\ ~Refused(p)
                         => flush[p].tries = MaxTxRetries
                      /\ Retry(p) => ~flush[p].reply.io /\ ~Refused(p)
    OBVIOUS
  <2>1. PICK n \in 0 .. MaxTxRetries : n = flush[p].tries
    BY FlushesAreGood DEF GoodFlush, Flush
  <2>2. PICK e \in {NoErrors} \cup Failures("real") \cup Failures("conflict") :
          e = flush[p].reply.errors
    BY FlushesAreGood DEF GoodFlush
  <2>3. Refused(p) <=> \E s \in DOMAIN e : e[s] = "real"
    BY <2>2 DEF Refused
  <2>4. PushErr(p) /\ ~flush[p].reply.io => Verdict(e, n) = "fail"
    BY <2>1, <2>2 DEF PushErr, PushVerdict
  <2>5. Retry(p) => ~flush[p].reply.io /\ Verdict(e, n) = "again"
    BY <2>1, <2>2 DEF Retry, PushVerdict
  <2>6. /\ Verdict(e, n) = "again" => \A s \in DOMAIN e : e[s] # "real"
        /\ /\ Verdict(e, n) = "fail" /\ \A s \in DOMAIN e : e[s] # "real"
           => n = MaxTxRetries
    BY VerdictFacts
  <2> QED
    BY <2>1, <2>3, <2>4, <2>5, <2>6
<1>2. IInv /\ [Next]_vars => [Step]_vars
  BY <1>1
<1>3. ConflictsAreRetried <=> [][Step]_vars
  BY PTL DEF ConflictsAreRetried
<1> QED
  BY <1>2, <1>3, SinkCorrect, PTL DEF Spec

=============================================================================
