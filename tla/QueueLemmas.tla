----------------------------- MODULE QueueLemmas -----------------------------
(***************************************************************************)
(* What the queue operations of the models do to the elements of a queue:  *)
(* Contains says which elements it has, IsInjective that none is repeated. *)
(***************************************************************************)
EXTENDS Naturals, SequencesExt, SequenceTheorems, TLAPS

\* An empty queue has no element, and none twice.
LEMMA EmptyQueue ==
    ASSUME NEW x
    PROVE  /\ ~Contains(<<>>, x)
           /\ IsInjective(<<>>)
  BY DEF Contains, IsInjective

\* put(): the new element joins the others; a new one does not repeat any.
LEMMA AppendQueue ==
    ASSUME NEW S, NEW q \in Seq(S), NEW x \in S
    PROVE  /\ Append(q, x) \in Seq(S)
           /\ \A y : Contains(Append(q, x), y) <=> Contains(q, y) \/ y = x
           /\ IsInjective(q) /\ ~Contains(q, x) => IsInjective(Append(q, x))
  <1>1. /\ Append(q, x) \in Seq(S)
        /\ Len(Append(q, x)) = Len(q) + 1
        /\ DOMAIN Append(q, x) = 1 .. Len(q) + 1
        /\ \A i \in 1 .. Len(q) : Append(q, x)[i] = q[i]
        /\ Append(q, x)[Len(q) + 1] = x
        /\ Len(q) \in Nat
        /\ DOMAIN q = 1 .. Len(q)
    BY AppendProperties, LenProperties
  <1>2. ASSUME NEW y PROVE Contains(Append(q, x), y) <=> Contains(q, y) \/ y = x
    BY <1>1 DEF Contains
  <1>3. IsInjective(q) /\ ~Contains(q, x) => IsInjective(Append(q, x))
    BY <1>1 DEF Contains, IsInjective
  <1> QED BY <1>1, <1>2, <1>3

\* get(): the head leaves, the others stay.
LEMMA TailQueue ==
    ASSUME NEW S, NEW q \in Seq(S), q # <<>>
    PROVE  /\ Tail(q) \in Seq(S)
           /\ Head(q) \in S
           /\ Contains(q, Head(q))
           /\ \A y : Contains(Tail(q), y) => Contains(q, y)
           /\ \A y : Contains(q, y) => Contains(Tail(q), y) \/ y = Head(q)
           /\ IsInjective(q) => IsInjective(Tail(q)) /\ ~Contains(Tail(q), Head(q))
  <1>1. /\ Tail(q) \in Seq(S)
        /\ Head(q) = q[1]
        /\ Len(q) \in Nat /\ Len(q) > 0
        /\ Len(Tail(q)) = Len(q) - 1
        /\ DOMAIN Tail(q) = 1 .. Len(q) - 1
        /\ \A i \in 1 .. Len(q) - 1 : Tail(q)[i] = q[i + 1]
        /\ DOMAIN q = 1 .. Len(q)
        /\ \A i \in 1 .. Len(q) : q[i] \in S
    BY HeadTailProperties, LenProperties, EmptySeq, ElementOfSeq
  <1>2. Head(q) \in S /\ Contains(q, Head(q))
    BY <1>1 DEF Contains
  <1>3. ASSUME NEW y, Contains(Tail(q), y) PROVE Contains(q, y)
    BY <1>1, <1>3 DEF Contains
  <1>4. ASSUME NEW y, Contains(q, y) PROVE Contains(Tail(q), y) \/ y = Head(q)
    <2>1. PICK i \in 1 .. Len(q) : q[i] = y
      BY <1>4 DEF Contains
    <2>2. CASE i = 1
      BY <1>1, <2>1, <2>2
    <2>3. CASE i # 1
      <3>1. i - 1 \in 1 .. Len(q) - 1 /\ Tail(q)[i - 1] = y
        BY <1>1, <2>1, <2>3
      <3> QED BY <1>1, <3>1 DEF Contains
    <2> QED BY <2>2, <2>3
  <1>5. ASSUME IsInjective(q) PROVE IsInjective(Tail(q)) /\ ~Contains(Tail(q), Head(q))
    BY <1>1, <1>5 DEF Contains, IsInjective
  <1> QED BY <1>1, <1>2, <1>3, <1>4, <1>5

\* Leftovers put behind a queue that has none of them.
LEMMA ConcatQueue ==
    ASSUME NEW S, NEW p \in Seq(S), NEW q \in Seq(S)
    PROVE  /\ p \o q \in Seq(S)
           /\ \A y : Contains(p \o q, y) <=> Contains(p, y) \/ Contains(q, y)
           /\ /\ IsInjective(p) /\ IsInjective(q)
              /\ \A y : ~(Contains(p, y) /\ Contains(q, y))
              => IsInjective(p \o q)
  <1>1. /\ p \o q \in Seq(S)
        /\ Len(p) \in Nat /\ Len(q) \in Nat
        /\ Len(p \o q) = Len(p) + Len(q)
        /\ DOMAIN p = 1 .. Len(p) /\ DOMAIN q = 1 .. Len(q)
        /\ DOMAIN (p \o q) = 1 .. Len(p) + Len(q)
        /\ \A i \in 1 .. Len(p) + Len(q) :
              (p \o q)[i] = IF i <= Len(p) THEN p[i] ELSE q[i - Len(p)]
    BY ConcatProperties, LenProperties
  <1>2. ASSUME NEW y PROVE Contains(p \o q, y) <=> Contains(p, y) \/ Contains(q, y)
    <2>1. ASSUME Contains(p \o q, y) PROVE Contains(p, y) \/ Contains(q, y)
      BY <1>1, <2>1 DEF Contains
    <2>2. ASSUME Contains(p, y) PROVE Contains(p \o q, y)
      BY <1>1, <2>2 DEF Contains
    <2>3. ASSUME Contains(q, y) PROVE Contains(p \o q, y)
      <3>1. PICK i \in 1 .. Len(q) : q[i] = y
        BY <2>3 DEF Contains
      <3>2. i + Len(p) \in 1 .. Len(p) + Len(q) /\ (p \o q)[i + Len(p)] = y
        BY <1>1, <3>1
      <3> QED BY <1>1, <3>2 DEF Contains
    <2> QED BY <2>1, <2>2, <2>3
  <1>3. ASSUME IsInjective(p), IsInjective(q), \A y : ~(Contains(p, y) /\ Contains(q, y))
        PROVE  IsInjective(p \o q)
    <2>1. SUFFICES ASSUME NEW a \in 1 .. Len(p) + Len(q), NEW b \in 1 .. Len(p) + Len(q),
                          (p \o q)[a] = (p \o q)[b]
                   PROVE  a = b
      BY <1>1 DEF IsInjective
    <2>2. \A i \in 1 .. Len(p) : Contains(p, p[i])
      BY DEF Contains
    <2>3. \A i \in 1 .. Len(q) : Contains(q, q[i])
      BY DEF Contains
    <2>4. CASE a <= Len(p) /\ b <= Len(p)
      BY <1>1, <1>3, <2>1, <2>4 DEF IsInjective
    <2>5. CASE a > Len(p) /\ b > Len(p)
      <3>1. /\ a - Len(p) \in 1 .. Len(q) /\ b - Len(p) \in 1 .. Len(q)
            /\ q[a - Len(p)] = q[b - Len(p)]
        BY <1>1, <2>1, <2>5
      <3> QED BY <1>1, <1>3, <3>1 DEF IsInjective
    <2>6. CASE a <= Len(p) /\ b > Len(p)
      <3>1. a \in 1 .. Len(p) /\ b - Len(p) \in 1 .. Len(q) /\ p[a] = q[b - Len(p)]
        BY <1>1, <2>1, <2>6
      <3> QED BY <1>3, <2>2, <2>3, <3>1
    <2>7. CASE a > Len(p) /\ b <= Len(p)
      <3>1. b \in 1 .. Len(p) /\ a - Len(p) \in 1 .. Len(q) /\ p[b] = q[a - Len(p)]
        BY <1>1, <2>1, <2>7
      <3> QED BY <1>3, <2>2, <2>3, <3>1
    <2> QED BY <1>1, <2>4, <2>5, <2>6, <2>7
  <1> QED BY <1>1, <1>2, <1>3

\* Taking the first k elements of a queue: each element is either taken or kept.
LEMMA DropFirst ==
    ASSUME NEW S, NEW q \in Seq(S), NEW k \in 0 .. Len(q)
    PROVE  /\ SubSeq(q, k + 1, Len(q)) \in Seq(S)
           /\ \A y : Contains(SubSeq(q, k + 1, Len(q)), y) => Contains(q, y)
           /\ \A y : Contains(q, y) =>
                 \/ Contains(SubSeq(q, k + 1, Len(q)), y)
                 \/ \E i \in 1 .. k : y = q[i]
           /\ \A i \in 1 .. k : Contains(q, q[i])
           /\ IsInjective(q) =>
                 /\ IsInjective(SubSeq(q, k + 1, Len(q)))
                 /\ \A i \in 1 .. k : ~Contains(SubSeq(q, k + 1, Len(q)), q[i])
  <1> DEFINE r == SubSeq(q, k + 1, Len(q))
  <1>1. /\ r \in Seq(S)
        /\ Len(q) \in Nat
        /\ k \in Nat /\ k <= Len(q)
        /\ Len(r) = Len(q) - k
        /\ DOMAIN r = 1 .. Len(q) - k
        /\ \A i \in 1 .. Len(q) - k : r[i] = q[i + k]
        /\ DOMAIN q = 1 .. Len(q)
    <2>1. Len(q) \in Nat /\ DOMAIN q = 1 .. Len(q)
      BY LenProperties
    <2>2. /\ k + 1 \in Int /\ Len(q) \in Int
          /\ \A i \in k + 1 .. Len(q) : q[i] \in S
      BY <2>1, ElementOfSeq
    <2>3. /\ r \in Seq(S)
          /\ Len(r) = IF k + 1 <= Len(q) THEN Len(q) - (k + 1) + 1 ELSE 0
          /\ \A i \in 1 .. Len(q) - (k + 1) + 1 : r[i] = q[k + 1 + i - 1]
      BY <2>2, SubSeqProperties
    <2> HIDE DEF r
    <2>4. k \in Nat /\ k <= Len(q)
      BY <2>1
    <2>6. Len(r) = Len(q) - k
      <3>1. CASE k = Len(q)
        <4>1. ~(k + 1 <= Len(q)) /\ Len(q) - k = 0
          BY <2>1, <3>1
        <4> QED BY <2>3, <4>1
      <3>2. CASE k < Len(q)
        <4>1. k + 1 <= Len(q) /\ Len(q) - (k + 1) + 1 = Len(q) - k
          BY <2>1, <2>4, <3>2
        <4> QED BY <2>3, <4>1
      <3>3. k = Len(q) \/ k < Len(q)
        <4>1. \A a, b \in Nat : a <= b => a = b \/ a < b
          OBVIOUS
        <4> QED BY <2>1, <2>4, <4>1
      <3> QED BY <3>1, <3>2, <3>3
    <2>7. ASSUME NEW i \in 1 .. Len(q) - k PROVE r[i] = q[i + k]
      <3>1. i \in 1 .. Len(q) - (k + 1) + 1 /\ k + 1 + i - 1 = i + k
        BY <2>1, <2>4
      <3> QED BY <2>3, <3>1
    <2>5. DOMAIN r = 1 .. Len(r)
      BY <2>3, LenProperties
    <2> QED BY <2>1, <2>3, <2>4, <2>5, <2>6, <2>7
  <1> HIDE DEF r
  <1>2. ASSUME NEW y, Contains(r, y) PROVE Contains(q, y)
    <2>1. PICK i \in 1 .. Len(r) : r[i] = y
      BY <1>2 DEF Contains
    <2>2. i + k \in 1 .. Len(q) /\ q[i + k] = y
      BY <1>1, <2>1
    <2> QED BY <2>2 DEF Contains
  <1>3. ASSUME NEW y, Contains(q, y) PROVE Contains(r, y) \/ \E i \in 1 .. k : y = q[i]
    <2>1. PICK i \in 1 .. Len(q) : q[i] = y
      BY <1>3 DEF Contains
    <2>2. CASE i <= k
      BY <1>1, <2>1, <2>2
    <2>3. CASE i > k
      <3>1. i - k \in 1 .. Len(r) /\ r[i - k] = y
        BY <1>1, <2>1, <2>3
      <3> QED BY <3>1 DEF Contains
    <2> QED BY <1>1, <2>2, <2>3
  <1>4. \A i \in 1 .. k : Contains(q, q[i])
    BY <1>1 DEF Contains
  <1>5. ASSUME IsInjective(q)
        PROVE  IsInjective(r) /\ \A i \in 1 .. k : ~Contains(r, q[i])
    <2>1. ASSUME NEW a \in 1 .. Len(q) - k, NEW b \in 1 .. Len(q) - k, r[a] = r[b]
          PROVE  a = b
      <3>1. a + k \in DOMAIN q /\ b + k \in DOMAIN q /\ q[a + k] = q[b + k]
        BY <1>1, <2>1
      <3>2. a + k = b + k
        BY <1>5, <3>1 DEF IsInjective
      <3> QED BY <1>1, <3>2
    <2>2. ASSUME NEW i \in 1 .. k, NEW j \in 1 .. Len(r) PROVE r[j] # q[i]
      <3>1. j + k \in DOMAIN q /\ i \in DOMAIN q /\ j + k # i /\ r[j] = q[j + k]
        BY <1>1
      <3> QED BY <1>5, <3>1 DEF IsInjective
    <2> QED BY <1>1, <2>1, <2>2 DEF Contains, IsInjective
  <1> QED BY <1>1, <1>2, <1>3, <1>4, <1>5 DEF r

\* A waiter leaves a queue from wherever it stands.
LEMMA RemoveAtQueue ==
    ASSUME NEW S, NEW q \in Seq(S), NEW i \in DOMAIN q
    PROVE  RemoveAt(q, i) \in Seq(S)
  <1>1. /\ Len(q) \in Nat /\ DOMAIN q = 1 .. Len(q)
        /\ \A j \in 1 .. Len(q) : q[j] \in S
    BY LenProperties, ElementOfSeq
  <1>2. i - 1 \in Int /\ i + 1 \in Int /\ Len(q) \in Int /\ 1 \in Int
    BY <1>1
  <1>3. (\A j \in 1 .. i - 1 : q[j] \in S) /\ (\A j \in i + 1 .. Len(q) : q[j] \in S)
    BY <1>1
  <1>4. SubSeq(q, 1, i - 1) \in Seq(S)
    BY <1>2, <1>3, SubSeqProperties
  <1>5. SubSeq(q, i + 1, Len(q)) \in Seq(S)
    BY <1>2, <1>3, SubSeqProperties
  <1> QED BY <1>4, <1>5, ConcatProperties DEF RemoveAt
=============================================================================
