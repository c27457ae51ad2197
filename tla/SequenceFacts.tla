--------------------------- MODULE SequenceFacts ---------------------------
(***************************************************************************)
(* Facts about sequences, sets and numbers that the proofs of the          *)
(* components share.  Nothing here mentions the state of a component.      *)
(***************************************************************************)
EXTENDS Integers, Sequences, FiniteSets, SequenceTheorems, FiniteSetTheorems,
        WellFoundedInduction, TLAPS

Items(s) == {s[x] : x \in DOMAIN s}

-----------------------------------------------------------------------------
(* Sequences. *)

\* A function on 1 .. n is a sequence of length n.
LEMMA FunctionIsSeq ==
    ASSUME NEW S, NEW n \in Nat, NEW f \in [1 .. n -> S]
    PROVE  f \in Seq(S) /\ Len(f) = n /\ DOMAIN f = 1 .. n
OBVIOUS

\* The items of a sequence are from its set, and the empty one has none.
LEMMA ItemsType ==
    ASSUME NEW S, NEW s \in Seq(S)
    PROVE  /\ DOMAIN s = 1 .. Len(s) /\ Len(s) \in Nat
           /\ Items(s) \subseteq S
           /\ Items(s) = {} <=> s = <<>>
<1>1. /\ DOMAIN s = 1 .. Len(s) /\ Len(s) \in Nat
      /\ \A x \in 1 .. Len(s) : s[x] \in S
  OBVIOUS
<1>2. Items(s) \subseteq S
  BY <1>1 DEF Items
<1>3. ASSUME s # <<>> PROVE s[1] \in Items(s)
  <2>1. 1 \in 1 .. Len(s)
    BY <1>1, <1>3
  <2> QED
    BY <2>1, <1>1 DEF Items
<1>4. Items(<<>>) = {}
  BY DEF Items
<1> QED
  BY <1>1, <1>2, <1>3, <1>4

\* The items of a concatenation.
LEMMA ItemsOfConcat ==
    ASSUME NEW S, NEW s \in Seq(S), NEW t \in Seq(S)
    PROVE  s \o t \in Seq(S) /\ Items(s \o t) = Items(s) \cup Items(t)
<1>1. s \o t \in Seq(S)
  OBVIOUS
<1>2. Range(s \o t) = Range(s) \cup Range(t)
  BY RangeConcatenation
<1> QED
  BY <1>1, <1>2 DEF Range, Items

\* The items after an append.
LEMMA ItemsOfAppend ==
    ASSUME NEW S, NEW s \in Seq(S), NEW a \in S
    PROVE  Append(s, a) \in Seq(S) /\ Items(Append(s, a)) = Items(s) \cup {a}
<1>1. Append(s, a) = s \o <<a>> /\ <<a>> \in Seq(S)
  OBVIOUS
<1>2. Items(<<a>>) = {a}
  BY DEF Items
<1>3. s \o <<a>> \in Seq(S) /\ Items(s \o <<a>>) = Items(s) \cup Items(<<a>>)
  BY <1>1, ItemsOfConcat
<1> QED
  BY <1>1, <1>2, <1>3, Zenon

\* An append to a concatenation is an append to its second part.
LEMMA AppendOfConcat ==
    ASSUME NEW S, NEW s \in Seq(S), NEW t \in Seq(S), NEW a \in S
    PROVE  /\ Append(s \o t, a) = s \o Append(t, a)
           /\ Append(s, a) \o t = s \o (<<a>> \o t)
<1>1. /\ s \o t \in Seq(S) /\ <<a>> \in Seq(S)
      /\ Append(s \o t, a) = (s \o t) \o <<a>>
      /\ Append(t, a) = t \o <<a>> /\ Append(s, a) = s \o <<a>>
  OBVIOUS
<1>2. /\ (s \o t) \o <<a>> = s \o (t \o <<a>>)
      /\ (s \o <<a>>) \o t = s \o (<<a>> \o t)
  BY <1>1, ConcatAssociative
<1> QED
  BY <1>1, <1>2, Zenon

\* The first item of a sequence and the items of the rest.
LEMMA ItemsOfTail ==
    ASSUME NEW S, NEW s \in Seq(S), s # <<>>
    PROVE  /\ Head(s) \in S /\ Tail(s) \in Seq(S)
           /\ Len(Tail(s)) = Len(s) - 1
           /\ Head(s) = s[1] /\ \A x \in 1 .. Len(Tail(s)) : Tail(s)[x] = s[x + 1]
           /\ Items(s) = {Head(s)} \cup Items(Tail(s))
<1>1. Head(s) \in S /\ Tail(s) \in Seq(S) /\ <<Head(s)>> \in Seq(S)
  OBVIOUS
<1>2. s = <<Head(s)>> \o Tail(s)
  OBVIOUS
<1>3. Items(<<Head(s)>>) = {Head(s)}
  BY DEF Items
<1>4. Items(<<Head(s)>> \o Tail(s)) = Items(<<Head(s)>>) \cup Items(Tail(s))
  BY <1>1, ItemsOfConcat
<1>5. /\ Len(Tail(s)) = Len(s) - 1 /\ Head(s) = s[1]
      /\ \A x \in 1 .. Len(Tail(s)) : Tail(s)[x] = s[x + 1]
  OBVIOUS
<1> QED
  BY <1>1, <1>2, <1>3, <1>4, <1>5, Zenon

\* The first item on its own, and what follows it.
LEMMA FirstAndRest ==
    ASSUME NEW S, NEW s \in Seq(S), s # <<>>
    PROVE  /\ 1 \in 1 .. Len(s)
           /\ SubSeq(s, 1, 1) = <<Head(s)>>
           /\ SubSeq(s, 2, Len(s)) = Tail(s)
<1>1. Len(s) \in Nat \ {0} /\ Head(s) = s[1] /\ Head(s) \in S
  OBVIOUS
<1> DEFINE f == SubSeq(s, 1, 1)
           h == <<Head(s)>>
<1>2. f \in Seq(S) /\ Len(f) = 1 /\ f[1] = s[1]
  BY <1>1
<1>3. f = h
  <2>1. h \in Seq(S) /\ Len(h) = 1 /\ h[1] = s[1]
    BY <1>1
  <2> HIDE DEF f, h
  <2>2. \A x \in 1 .. Len(f) : f[x] = h[x]
    BY <1>2, <2>1
  <2> QED
    BY <1>2, <2>1, <2>2, SeqEqual
<1> QED
  BY <1>1, <1>3

\* A concatenation falls apart into its two parts.
LEMMA PartsOfConcat ==
    ASSUME NEW S, NEW s \in Seq(S), NEW t \in Seq(S)
    PROVE  /\ SubSeq(s \o t, 1, Len(s)) = s
           /\ SubSeq(s \o t, Len(s) + 1, Len(s \o t)) = t
           /\ Len(s \o t) = Len(s) + Len(t)
<1> DEFINE a == SubSeq(s \o t, 1, Len(s))
           b == SubSeq(s \o t, Len(s) + 1, Len(s \o t))
<1>1. /\ s \o t \in Seq(S) /\ Len(s \o t) = Len(s) + Len(t)
      /\ Len(s) \in Nat /\ Len(t) \in Nat
  OBVIOUS
<1>2. a \in Seq(S) /\ Len(a) = Len(s) /\ \A x \in 1 .. Len(s) : a[x] = s[x]
  BY <1>1
<1>3. b \in Seq(S) /\ Len(b) = Len(t) /\ \A x \in 1 .. Len(t) : b[x] = t[x]
  BY <1>1
<1> HIDE DEF a, b
<1>4. a = s
  BY <1>2, SeqEqual
<1>5. b = t
  BY <1>3, SeqEqual
<1> QED
  BY <1>1, <1>4, <1>5 DEF a, b

\* The first item of a sequence that is put together with one.
LEMMA FrontOf ==
    ASSUME NEW S, NEW a \in S, NEW t \in Seq(S)
    PROVE  /\ SubSeq(<<a>> \o t, 1, 1) = <<a>>
           /\ SubSeq(<<a>> \o t, 1 + 1, Len(<<a>> \o t)) = t
           /\ 1 \in 1 .. Len(<<a>> \o t)
<1>1. <<a>> \in Seq(S) /\ Len(<<a>>) = 1 /\ Len(t) \in Nat
  OBVIOUS
<1>2. PICK s \in Seq(S) : s = <<a>>
  BY <1>1
<1>3. /\ SubSeq(s \o t, 1, Len(s)) = s
      /\ SubSeq(s \o t, Len(s) + 1, Len(s \o t)) = t
      /\ Len(s \o t) = Len(s) + Len(t)
  BY PartsOfConcat
<1>4. Len(s) = 1 /\ 1 \in 1 .. 1 + Len(t)
  BY <1>1, <1>2
<1> QED
  BY <1>2, <1>3, <1>4, Zenon

-----------------------------------------------------------------------------
(* Numbers. *)

\* A set of numbers that is not empty has a least one: the induction principle
\* of this project, as a fact about sets.
LEMMA NatMin ==
    ASSUME NEW S \in SUBSET Nat, S # {}
    PROVE  \E n \in S : \A m \in S : n <= m
<1>1. PICK n \in S : \A m \in S : ~(<<m, n>> \in OpToRel(<, Nat))
  BY WFMin, NatLessThanWellFounded, Zenon
<1>2. \A m \in S : ~(m < n)
  BY <1>1, Zenon DEF OpToRel
<1> QED
  BY <1>2

Iterates(f, S, x0, G) ==
    /\ f \in [Nat -> S]
    /\ f[0] = x0
    /\ \A n \in Nat : f[n + 1] = G[n][f[n]]

\* What a recursive function of a number computes exists: a start, and a step
\* from the number and the value so far, have a function that iterates them.
LEMMA Iterate ==
    ASSUME NEW S, NEW x0 \in S, NEW G \in [Nat -> [S -> S]]
    PROVE  \E f : Iterates(f, S, x0, G)
<1> DEFINE Upto(n) == {g \in [0 .. n -> S] :
                         g[0] = x0 /\ \A k \in 0 .. n - 1 : g[k + 1] = G[k][g[k]]}
<1>1. \A n \in Nat : Upto(n) # {}
  <2> DEFINE Bad == {n \in Nat : Upto(n) = {}}
  <2>1. [k \in 0 .. 0 |-> x0] \in Upto(0)
    OBVIOUS
  <2>2. ASSUME NEW n \in Nat, NEW g \in Upto(n)
        PROVE  Upto(n + 1) # {}
    <3> DEFINE h == [k \in 0 .. n + 1 |-> IF k = n + 1 THEN G[n][g[n]] ELSE g[k]]
    <3>1. g[n] \in S
      OBVIOUS
    <3>2. h \in [0 .. n + 1 -> S]
      BY <3>1
    <3>3. h[0] = x0
      OBVIOUS
    <3>4. ASSUME NEW k \in 0 .. (n + 1) - 1 PROVE h[k + 1] = G[k][h[k]]
      <4>1. k \in 0 .. n + 1 /\ k + 1 \in 0 .. n + 1 /\ k # n + 1
        OBVIOUS
      <4>2. h[k] = g[k]
        BY <4>1
      <4>3. CASE k = n
        BY <4>1, <4>2, <4>3
      <4>4. CASE k # n
        <5>1. k \in 0 .. n - 1 /\ k + 1 # n + 1
          BY <4>4
        <5> QED
          BY <4>1, <4>2, <5>1
      <4> QED
        BY <4>3, <4>4
    <3> QED
      BY <3>2, <3>3, <3>4
  <2>3. ASSUME Bad # {} PROVE FALSE
    <3>0. Bad \subseteq Nat
      OBVIOUS
    <3>1. PICK n \in Bad : \A m \in Bad : n <= m
      BY <2>3, NatMin
    <3>2. n # 0
      BY <2>1
    <3>3. n - 1 \in Nat /\ n - 1 \notin Bad
      <4> HIDE DEF Bad
      <4> QED
        BY <3>0, <3>1, <3>2
    <3>4. Upto((n - 1) + 1) # {}
      BY <3>3, <2>2
    <3> QED
      BY <3>1, <3>4
  <2> QED
    BY <2>3
<1>2. ASSUME NEW m \in Nat, NEW n \in Nat, NEW g \in Upto(m), NEW h \in Upto(n)
      PROVE  \A k \in Nat : k <= m /\ k <= n => g[k] = h[k]
  <2> DEFINE Bad == {k \in Nat : k <= m /\ k <= n /\ g[k] # h[k]}
  <2>1. ASSUME Bad # {} PROVE FALSE
    <3>1. PICK k \in Bad : \A l \in Bad : k <= l
      BY <2>1, NatMin
    <3>2. k # 0
      OBVIOUS
    <3>3. k - 1 \in Nat /\ k - 1 \notin Bad
      BY <3>1, <3>2
    <3>4. /\ g[k - 1] = h[k - 1]
          /\ g[(k - 1) + 1] = G[k - 1][g[k - 1]]
          /\ h[(k - 1) + 1] = G[k - 1][h[k - 1]]
      BY <3>3
    <3> QED
      BY <3>4
  <2> QED
    BY <2>1
<1> DEFINE f == [n \in Nat |-> (CHOOSE g : g \in Upto(n))[n]]
<1> HIDE DEF Upto
<1>3. \A n \in Nat : (CHOOSE g : g \in Upto(n)) \in Upto(n)
  BY <1>1
<1>4. \A n \in Nat : f[n] = (CHOOSE g : g \in Upto(n))[n]
  OBVIOUS
<1> HIDE DEF f
<1>5. \A n \in Nat : \E g \in Upto(n) : f[n] = g[n]
  BY <1>3, <1>4
<1>6. \A n \in Nat : f[n] \in S
  BY <1>5 DEF Upto
<1>7. f \in [Nat -> S]
  BY <1>6 DEF f
<1>8. f[0] = x0
  BY <1>5 DEF Upto
<1>9. ASSUME NEW n \in Nat PROVE f[n + 1] = G[n][f[n]]
  <2>1. PICK g \in Upto(n) : f[n] = g[n]
    BY <1>5
  <2>2. PICK h \in Upto(n + 1) : f[n + 1] = h[n + 1]
    BY <1>5
  <2>3. g[n] = h[n]
    BY <1>2
  <2>4. h[n + 1] = G[n][h[n]]
    BY DEF Upto
  <2> QED
    BY <2>1, <2>2, <2>3, <2>4
<1> QED
  BY <1>7, <1>8, <1>9 DEF Iterates
=============================================================================
