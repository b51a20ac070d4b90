------------------------- MODULE SessionMemoryProofs -------------------------
(***************************************************************************)
(* As long as nobody writes around the consolidation lock, every message   *)
(* is remembered or archived, once, and the cache is the file.  First,     *)
(* what the model's operators do to the rows of a session; then the        *)
(* objects, the line for the lock, and the messages; then the theorems.    *)
(***************************************************************************)
EXTENDS SessionMemory, QueueLemmas, FiniteSetTheorems

Value == [rows : Seq(Nat), lc : Nat]

Stretch(rows, a, b) == {rows[i] : i \in a .. b}

\* A part of a list of rows has the rows at its places, none repeated.
LEMMA SubRows ==
    ASSUME NEW rows \in Seq(Nat), NEW a \in Nat \ {0}, NEW b \in 0 .. Len(rows)
    PROVE  LET part == SubSeq(rows, a, b)
           IN  /\ part \in Seq(Nat)
               /\ Len(part) = IF a <= b THEN b - a + 1 ELSE 0
               /\ \A i \in 1 .. Len(part) : part[i] = rows[a + i - 1]
               /\ Range(part) = Stretch(rows, a, b)
               /\ part = <<>> <=> b < a
               /\ IsInjective(rows) => IsInjective(part)
  <1> DEFINE part == SubSeq(rows, a, b)
  <1>1. /\ Len(rows) \in Nat /\ b \in Nat /\ b <= Len(rows) /\ a >= 1
        /\ a \in Int /\ b \in Int
        /\ DOMAIN rows = 1 .. Len(rows)
        /\ \A i \in 1 .. Len(rows) : rows[i] \in Nat
    BY LenProperties, ElementOfSeq
  <1>2. /\ part \in Seq(Nat)
        /\ Len(part) = IF a <= b THEN b - a + 1 ELSE 0
        /\ \A i \in 1 .. b - a + 1 : part[i] = rows[a + i - 1]
    <2>1. \A i \in a .. b : rows[i] \in Nat
      BY <1>1
    <2> QED BY <1>1, <2>1, SubSeqProperties, SMTT(60)
  <1>3. DOMAIN part = 1 .. Len(part)
    BY <1>2, LenProperties
  <1> HIDE DEF part
  <1>4. \A i \in 1 .. Len(part) : a + i - 1 \in a .. b /\ part[i] = rows[a + i - 1]
    BY <1>1, <1>2
  <1>5. \A j \in a .. b : j - a + 1 \in 1 .. Len(part) /\ part[j - a + 1] = rows[j]
    <2>1. SUFFICES ASSUME NEW j \in a .. b
                   PROVE  j - a + 1 \in 1 .. Len(part) /\ part[j - a + 1] = rows[j]
      OBVIOUS
    <2>2. a <= b /\ j - a + 1 \in 1 .. b - a + 1 /\ a + (j - a + 1) - 1 = j
      BY <1>1
    <2> QED BY <1>2, <2>2
  <1>6. Range(part) = Stretch(rows, a, b)
    <2>1. ASSUME NEW x \in Range(part) PROVE x \in Stretch(rows, a, b)
      BY <1>3, <1>4 DEF Range, Stretch
    <2>2. ASSUME NEW x \in Stretch(rows, a, b) PROVE x \in Range(part)
      BY <1>3, <1>5 DEF Range, Stretch
    <2> QED BY <2>1, <2>2
  <1>7. part = <<>> <=> b < a
    <2>1. ASSUME part = <<>> PROVE b < a
      <3>1. Len(part) = 0
        BY <2>1
      <3> QED BY <1>1, <1>2, <3>1
    <2>2. ASSUME b < a PROVE part = <<>>
      BY <1>1, <2>2, SubSeqEmpty DEF part
    <2> QED BY <2>1, <2>2
  <1>8. ASSUME IsInjective(rows), NEW i \in 1 .. Len(part), NEW j \in 1 .. Len(part),
               part[i] = part[j]
        PROVE  i = j
    <2>1. /\ a + i - 1 \in DOMAIN rows /\ a + j - 1 \in DOMAIN rows
          /\ rows[a + i - 1] = rows[a + j - 1]
      BY <1>1, <1>4, <1>8
    <2>2. a + i - 1 = a + j - 1
      BY <1>8, <2>1 DEF IsInjective
    <2> QED BY <1>1, <1>2, <2>2
  <1>9. IsInjective(rows) => IsInjective(part)
    BY <1>3, <1>8 DEF IsInjective
  <1> QED BY <1>2, <1>4, <1>6, <1>7, <1>9 DEF part

\* The rows of a list, and those of one that is longer by one.
LEMMA AppendRows ==
    ASSUME NEW rows \in Seq(Nat), NEW n \in Nat, NEW a \in 1 .. Len(rows) + 1
    PROVE  /\ Append(rows, n) \in Seq(Nat)
           /\ Len(Append(rows, n)) = Len(rows) + 1
           /\ Range(Append(rows, n)) = Range(rows) \cup {n}
           /\ Stretch(Append(rows, n), a, Len(rows) + 1) =
                Stretch(rows, a, Len(rows)) \cup {n}
           /\ \A b \in 0 .. Len(rows) : SubSeq(Append(rows, n), a, b) = SubSeq(rows, a, b)
           /\ IsInjective(rows) /\ n \notin Range(rows) => IsInjective(Append(rows, n))
  <1> DEFINE more == Append(rows, n)
  <1>1. /\ more \in Seq(Nat) /\ Len(more) = Len(rows) + 1
        /\ \A i \in 1 .. Len(rows) : more[i] = rows[i]
        /\ more[Len(rows) + 1] = n
        /\ Len(rows) \in Nat /\ DOMAIN rows = 1 .. Len(rows)
        /\ DOMAIN more = 1 .. Len(rows) + 1
    BY AppendProperties, LenProperties
  <1> HIDE DEF more
  <1>2. Range(more) = Range(rows) \cup {n}
    BY <1>1 DEF Range
  <1>3. Stretch(more, a, Len(rows) + 1) = Stretch(rows, a, Len(rows)) \cup {n}
    <2>1. ASSUME NEW x \in Stretch(more, a, Len(rows) + 1)
          PROVE  x \in Stretch(rows, a, Len(rows)) \cup {n}
      <3>1. PICK i \in a .. Len(rows) + 1 : x = more[i]
        BY <2>1 DEF Stretch
      <3>2. CASE i = Len(rows) + 1
        BY <1>1, <3>1, <3>2
      <3>3. CASE i # Len(rows) + 1
        <4>1. i \in a .. Len(rows) /\ i \in 1 .. Len(rows)
          BY <1>1, <3>3
        <4> QED BY <1>1, <3>1, <4>1 DEF Stretch
      <3> QED BY <3>2, <3>3
    <2>2. ASSUME NEW x \in Stretch(rows, a, Len(rows)) \cup {n}
          PROVE  x \in Stretch(more, a, Len(rows) + 1)
      <3>1. CASE x = n
        <4>1. Len(rows) + 1 \in a .. Len(rows) + 1
          BY <1>1
        <4> QED BY <1>1, <3>1, <4>1 DEF Stretch
      <3>2. CASE x # n
        <4>1. PICK i \in a .. Len(rows) : x = rows[i]
          BY <2>2, <3>2 DEF Stretch
        <4>2. i \in a .. Len(rows) + 1 /\ i \in 1 .. Len(rows)
          BY <1>1
        <4> QED BY <1>1, <4>1, <4>2 DEF Stretch
      <3> QED BY <3>1, <3>2
    <2> QED BY <2>1, <2>2
  <1>4. ASSUME NEW b \in 0 .. Len(rows) PROVE SubSeq(more, a, b) = SubSeq(rows, a, b)
    <2> DEFINE p == SubSeq(more, a, b)
               q == SubSeq(rows, a, b)
    <2>1. a \in Nat \ {0} /\ b \in 0 .. Len(more) /\ b <= Len(rows) /\ b \in Nat
      BY <1>1
    <2>2. /\ p \in Seq(Nat) /\ q \in Seq(Nat) /\ Len(p) = Len(q)
          /\ Len(q) = IF a <= b THEN b - a + 1 ELSE 0
          /\ \A i \in 1 .. Len(p) : p[i] = more[a + i - 1]
          /\ \A i \in 1 .. Len(p) : q[i] = rows[a + i - 1]
      BY <1>1, <2>1, SubRows
    <2> HIDE DEF p, q
    <2>3. ASSUME NEW i \in 1 .. Len(p) PROVE a + i - 1 \in 1 .. Len(rows)
      <3>1. a <= b /\ i \in 1 .. b - a + 1
        BY <2>1, <2>2
      <3> QED BY <1>1, <2>1, <3>1
    <2>4. \A i \in 1 .. Len(p) : p[i] = q[i]
      BY <1>1, <2>2, <2>3
    <2> QED BY <2>2, <2>4, SeqEqual DEF p, q
  <1>5. IsInjective(rows) /\ n \notin Range(rows) => IsInjective(more)
    BY <1>1 DEF IsInjective, Range
  <1> QED BY <1>1, <1>2, <1>3, <1>4, <1>5 DEF more

\* What is not consolidated.
LEMMA LiveRows ==
    ASSUME NEW v \in Value
    PROVE  /\ Unconsolidated(v) \in Seq(Nat)
           /\ Live(v) = Stretch(v.rows, v.lc + 1, Len(v.rows))
           /\ Unconsolidated(v) = <<>> <=> Live(v) = {}
           /\ Live(v) \subseteq Range(v.rows)
           /\ IsInjective(v.rows) => IsInjective(Unconsolidated(v))
  <1>1. /\ v.rows \in Seq(Nat) /\ v.lc \in Nat /\ v.lc + 1 \in Nat \ {0}
        /\ Len(v.rows) \in Nat /\ Len(v.rows) \in 0 .. Len(v.rows)
        /\ DOMAIN v.rows = 1 .. Len(v.rows)
    BY LenProperties DEF Value
  <1>2. /\ Unconsolidated(v) \in Seq(Nat)
        /\ Live(v) = Stretch(v.rows, v.lc + 1, Len(v.rows))
        /\ IsInjective(v.rows) => IsInjective(Unconsolidated(v))
        /\ Unconsolidated(v) = <<>> <=> Len(v.rows) < v.lc + 1
    BY <1>1, SubRows DEF Unconsolidated, Live
  <1>3. Len(v.rows) < v.lc + 1 <=> Live(v) = {}
    <2>1. ASSUME Len(v.rows) < v.lc + 1 PROVE Live(v) = {}
      BY <1>1, <1>2, <2>1 DEF Stretch
    <2>2. ASSUME ~(Len(v.rows) < v.lc + 1) PROVE Live(v) # {}
      <3>1. Len(v.rows) \in v.lc + 1 .. Len(v.rows)
        BY <1>1, <2>2
      <3> QED BY <1>2, <3>1 DEF Stretch
    <2> QED BY <2>1, <2>2
  <1>4. Live(v) \subseteq Range(v.rows)
    <2>1. \A i \in v.lc + 1 .. Len(v.rows) : i \in DOMAIN v.rows
      BY <1>1
    <2> QED BY <1>2, <2>1 DEF Stretch, Range
  <1> QED BY <1>2, <1>3, <1>4

LEMMA JoinedRows ==
    ASSUME NEW p \in Seq(Nat), NEW q \in Seq(Nat)
    PROVE  p \o q \in Seq(Nat) /\ Range(p \o q) = Range(p) \cup Range(q)
  <1>1. /\ p \o q \in Seq(Nat)
        /\ DOMAIN p = 1 .. Len(p) /\ DOMAIN q = 1 .. Len(q)
        /\ DOMAIN (p \o q) = 1 .. Len(p \o q)
    BY ConcatProperties, LenProperties
  <1>2. \A x : x \in Range(p) <=> Contains(p, x)
    BY <1>1 DEF Range, Contains
  <1>3. \A x : x \in Range(q) <=> Contains(q, x)
    BY <1>1 DEF Range, Contains
  <1>4. \A x : x \in Range(p \o q) <=> Contains(p \o q, x)
    BY <1>1 DEF Range, Contains
  <1>5. \A x : Contains(p \o q, x) <=> Contains(p, x) \/ Contains(q, x)
    BY ConcatQueue
  <1> QED BY <1>1, <1>2, <1>3, <1>4, <1>5

LEMMA MinMax ==
    ASSUME NEW m \in Nat, NEW n \in Nat
    PROVE  /\ Min({m, n}) = IF m <= n THEN m ELSE n
           /\ Max({m, n}) = IF m <= n THEN n ELSE m
  <1>1. CASE m <= n
    <2>1. /\ m \in {m, n} /\ \A y \in {m, n} : m <= y
          /\ \A x \in {m, n} : (\A y \in {m, n} : x <= y) => x = m
      BY <1>1
    <2>2. /\ n \in {m, n} /\ \A y \in {m, n} : n >= y
          /\ \A x \in {m, n} : (\A y \in {m, n} : x >= y) => x = n
      BY <1>1
    <2>3. Min({m, n}) = m
      BY <2>1 DEF Min
    <2>4. Max({m, n}) = n
      BY <2>2 DEF Max
    <2> QED BY <1>1, <2>3, <2>4
  <1>2. CASE n < m
    <2>1. /\ n \in {m, n} /\ \A y \in {m, n} : n <= y
          /\ \A x \in {m, n} : (\A y \in {m, n} : x <= y) => x = n
      BY <1>2
    <2>2. /\ m \in {m, n} /\ \A y \in {m, n} : m >= y
          /\ \A x \in {m, n} : (\A y \in {m, n} : x >= y) => x = m
      BY <1>2
    <2>3. Min({m, n}) = n
      BY <2>1 DEF Min
    <2>4. Max({m, n}) = m
      BY <2>2 DEF Max
    <2> QED BY <1>2, <2>3, <2>4
  <1> QED BY <1>1, <1>2

\* Of the places up to lc, those from a to b.
LEMMA Counted ==
    ASSUME NEW lc \in Nat, NEW a \in Nat \ {0}, NEW b \in Nat, a <= b + 1
    PROVE  Cardinality((1 .. lc) \cap (a .. b)) =
             IF lc < a THEN 0 ELSE IF lc <= b THEN lc - a + 1 ELSE b - a + 1
  <1>1. CASE lc <= b
    <2>1. (1 .. lc) \cap (a .. b) = a .. lc
      BY <1>1
    <2>2. Cardinality(a .. lc) = IF a > lc THEN 0 ELSE lc - a + 1
      BY FS_Interval
    <2> QED BY <1>1, <2>1, <2>2
  <1>2. CASE b < lc
    <2>1. (1 .. lc) \cap (a .. b) = a .. b
      BY <1>2
    <2>2. Cardinality(a .. b) = IF a > b THEN 0 ELSE b - a + 1
      BY FS_Interval
    <2>3. a > b => b - a + 1 = 0
      OBVIOUS
    <2>4. lc < a => a > b
      BY <1>2
    <2>5. Cardinality(a .. b) = b - a + 1
      BY <2>2, <2>3
    <2>6. lc < a => b - a + 1 = 0
      BY <2>3, <2>4
    <2>7. Cardinality((1 .. lc) \cap (a .. b)) = b - a + 1
      BY <2>1, <2>5, Zenon
    <2> QED BY <1>2, <2>6, <2>7
  <1> QED BY <1>1, <1>2

\* enforce_file_cap keeps the rows from a to b; what was not consolidated is still
\* not, and was dumped if it was not kept.
LEMMA CappedRows ==
    ASSUME NEW v \in Value, v.lc <= Len(v.rows), v.rows # <<>>, IsInjective(v.rows),
           NEW s \in Stretches(v)
    PROVE  /\ Capped(v, s) \in Value
           /\ Capped(v, s).lc <= Len(Capped(v, s).rows)
           /\ IsInjective(Capped(v, s).rows)
           /\ Range(Capped(v, s).rows) \subseteq Range(v.rows)
           /\ Dropped(v, s) \in Seq(Nat)
           /\ Range(Dropped(v, s)) \subseteq Live(v)
           /\ Live(Capped(v, s)) = Live(v) \ Range(Dropped(v, s))
  <1> DEFINE rows == v.rows
             n == Len(rows)
             lc == v.lc
             a == s[1]
             b == s[2]
             kept == SubSeq(rows, a, b)
             c == Cardinality((1 .. lc) \cap (a .. b))
             before == SubSeq(rows, lc + 1, a - 1)
             after == SubSeq(rows, Max({lc, b}) + 1, n)
  <1>1. /\ rows \in Seq(Nat) /\ lc \in Nat /\ lc <= n
        /\ n \in Nat /\ n > 0 /\ DOMAIN rows = 1 .. n
    <2>1. v.rows \in Seq(Nat) /\ v.lc \in Nat
      BY DEF Value
    <2> QED BY <2>1, LenProperties, EmptySeq
  <1>2. a \in 1 .. n /\ b \in 0 .. n /\ a <= b + 1
    <2>1. CASE n <= FileCap
      BY <1>1, <2>1 DEF Stretches
    <2>2. CASE ~(n <= FileCap)
      BY <1>1, <2>2, MemoryAssumption DEF Stretches
    <2> QED BY <2>1, <2>2
  <1>3. Capped(v, s) = [rows |-> kept, lc |-> c] /\ Dropped(v, s) = before \o after
    BY DEF Capped, Dropped
  <1> HIDE DEF n, lc, a, b, rows
  <1>0. /\ n = Len(rows) /\ a \in Nat \ {0} /\ a - 1 \in 0 .. n /\ b \in Nat /\ b <= n
        /\ lc + 1 \in Nat \ {0} /\ n \in 0 .. n
    BY <1>1, <1>2 DEF n
  <1>4. /\ kept \in Seq(Nat)
        /\ Len(kept) = b - a + 1
        /\ \A i \in 1 .. Len(kept) : kept[i] = rows[a + i - 1]
        /\ Range(kept) = Stretch(rows, a, b)
        /\ IsInjective(kept)
    <2>1. IsInjective(rows)
      BY DEF rows
    <2>2. /\ kept \in Seq(Nat)
          /\ Len(kept) = IF a <= b THEN b - a + 1 ELSE 0
          /\ \A i \in 1 .. Len(kept) : kept[i] = rows[a + i - 1]
          /\ Range(kept) = Stretch(rows, a, b)
          /\ IsInjective(kept)
      BY <1>0, <1>1, <1>2, <2>1, SubRows
    <2> QED BY <1>0, <1>2, <2>2
  <1>5. Max({lc, b}) = IF lc <= b THEN b ELSE lc
    BY <1>0, <1>1, MinMax
  <1>6. c = IF lc < a THEN 0 ELSE IF lc <= b THEN lc - a + 1 ELSE b - a + 1
    BY <1>0, <1>1, <1>2, Counted
  <1>7. before \in Seq(Nat) /\ Range(before) = Stretch(rows, lc + 1, a - 1)
    BY <1>0, <1>1, SubRows
  <1>8. after \in Seq(Nat) /\ Range(after) = Stretch(rows, Max({lc, b}) + 1, n)
    <2>1. Max({lc, b}) + 1 \in Nat \ {0}
      BY <1>0, <1>1, <1>5
    <2> QED BY <1>0, <1>1, <2>1, SubRows
  <1>9. /\ before \o after \in Seq(Nat)
        /\ Range(before \o after) = Range(before) \cup Range(after)
    BY <1>7, <1>8, JoinedRows
  <1> HIDE DEF kept, c, before, after
  <1> DEFINE f == [rows |-> kept, lc |-> c]
  <1>10. f \in Value /\ f.lc <= Len(f.rows) /\ f.rows = kept /\ f.lc = c
    <2>1. c \in Nat /\ c <= b - a + 1
      BY <1>0, <1>1, <1>2, <1>6
    <2> QED BY <1>4, <2>1 DEF Value
  <1>11. Range(kept) \subseteq Range(rows)
    <2>1. \A i \in a .. b : i \in DOMAIN rows
      BY <1>0, <1>1
    <2> QED BY <1>4, <2>1 DEF Stretch, Range
  <1>12. Live(v) = Stretch(rows, lc + 1, n)
    BY LiveRows DEF rows, lc, n
  <1>13. Range(before \o after) \subseteq Live(v)
    <2>1. Stretch(rows, lc + 1, a - 1) \subseteq Stretch(rows, lc + 1, n)
      BY <1>1, <1>2 DEF Stretch
    <2>2. Stretch(rows, Max({lc, b}) + 1, n) \subseteq Stretch(rows, lc + 1, n)
      BY <1>1, <1>2, <1>5 DEF Stretch
    <2> QED BY <1>7, <1>8, <1>9, <1>12, <2>1, <2>2
  <1>14. Live(f) = Stretch(kept, c + 1, b - a + 1)
    <2>1. Live(f) = Stretch(f.rows, f.lc + 1, Len(f.rows))
      BY <1>10, LiveRows
    <2> QED BY <1>4, <1>10, <2>1
  <1>15. ASSUME NEW i \in c + 1 .. b - a + 1
         PROVE  a + i - 1 \in a .. b /\ a + i - 1 > lc /\ kept[i] = rows[a + i - 1]
    <2>2. c \in Nat
      BY <1>10 DEF Value
    <2>3. i \in 1 .. b - a + 1
      BY <1>0, <2>2
    <2>4. CASE lc < a
      BY <1>0, <1>1, <1>4, <2>3, <2>4
    <2>5. CASE a <= lc /\ lc <= b
      <3>1. c = lc - a + 1
        BY <1>0, <1>1, <1>6, <2>5
      <3> QED BY <1>0, <1>1, <1>4, <2>3, <2>5, <3>1
    <2>6. CASE a <= lc /\ b < lc
      <3>1. c = b - a + 1
        BY <1>0, <1>1, <1>6, <2>6
      <3> QED BY <1>0, <1>1, <2>3, <3>1
    <2> QED BY <1>0, <1>1, <2>4, <2>5, <2>6
  <1>16. \A j \in a .. b : j > lc =>
            /\ j - a + 1 \in c + 1 .. b - a + 1 /\ kept[j - a + 1] = rows[j]
    <2>1. SUFFICES ASSUME NEW j \in a .. b, j > lc
                   PROVE  /\ j - a + 1 \in c + 1 .. b - a + 1
                          /\ kept[j - a + 1] = rows[j]
      OBVIOUS
    <2>2. j - a + 1 \in c + 1 .. b - a + 1 /\ j - a + 1 \in 1 .. b - a + 1
      BY <1>1, <1>2, <1>6, <2>1
    <2>3. a + (j - a + 1) - 1 = j
      BY <1>1, <1>2
    <2> QED BY <1>4, <2>2, <2>3
  <1>17. ASSUME NEW x \in Live(f) PROVE x \in Live(v) \ Range(before \o after)
    <2>1. PICK i \in c + 1 .. b - a + 1 : x = kept[i]
      BY <1>14, <1>17 DEF Stretch
    <2>2. PICK j \in a .. b : j > lc /\ x = rows[j]
      BY <1>15, <2>1
    <2>3. x \in Live(v)
      <3>1. j \in lc + 1 .. n
        BY <1>1, <1>2, <2>2
      <3> QED BY <1>12, <2>2, <3>1 DEF Stretch
    <2>4. x \notin Range(before)
      <3>1. \A k \in lc + 1 .. a - 1 : k \in 1 .. n /\ j \in 1 .. n /\ k # j
        BY <1>1, <1>2
      <3>2. \A k \in lc + 1 .. a - 1 : rows[k] # rows[j]
        BY <1>1, <3>1 DEF IsInjective, rows
      <3> QED BY <1>7, <2>2, <3>2 DEF Stretch
    <2>5. x \notin Range(after)
      <3>1. \A k \in Max({lc, b}) + 1 .. n : k \in 1 .. n /\ j \in 1 .. n /\ k # j
        BY <1>1, <1>2, <1>5
      <3>2. \A k \in Max({lc, b}) + 1 .. n : rows[k] # rows[j]
        BY <1>1, <3>1 DEF IsInjective, rows
      <3> QED BY <1>8, <2>2, <3>2 DEF Stretch
    <2> QED BY <1>9, <2>3, <2>4, <2>5
  <1>18. ASSUME NEW x \in Live(v) \ Range(before \o after) PROVE x \in Live(f)
    <2>1. PICK j \in lc + 1 .. n : x = rows[j]
      BY <1>12, <1>18 DEF Stretch
    <2>2. j \notin lc + 1 .. a - 1
      BY <1>7, <1>9, <1>18, <2>1 DEF Stretch
    <2>3. j \notin Max({lc, b}) + 1 .. n
      BY <1>8, <1>9, <1>18, <2>1 DEF Stretch
    <2>4. j \in a .. b /\ j > lc
      BY <1>1, <1>2, <1>5, <2>2, <2>3
    <2> QED BY <1>14, <1>16, <2>1, <2>4 DEF Stretch
  <1> QED
    BY <1>3, <1>4, <1>9, <1>10, <1>11, <1>13, <1>17, <1>18 DEF rows

-----------------------------------------------------------------------------
(* Session objects *)

LEMMA NotNone ==
    /\ \A p \in Party : p # None
    /\ \A o \in Object : o # None
  BY MemoryAssumption

ObjectInv ==
    /\ TypeOK
    /\ \A o \in Holders : obj[o] \in Value
    /\ file \in Value

LEMMA BlankValue == Blank \in Value /\ Blank.rows = <<>> /\ Blank.lc = 0
  BY EmptySeq DEF Blank, Value

\* Three can hold objects, and there are four.
LEMMA FreshObject ==
    ASSUME TypeOK
    PROVE  Fresh \in Object /\ Fresh \notin Holders
  <1>1. \E o \in Object : o \notin Holders
    <2>1. 1 \in Object /\ 2 \in Object /\ 3 \in Object /\ 4 \in Object
      BY DEF Object
    <2>2. \A x \in Holders : x = cache \/ x = held \/ x = inner
      BY DEF Holders
    <2>3. ~({1, 2, 3, 4} \subseteq Holders)
      BY <2>2, SMT
    <2> QED BY <2>1, <2>3
  <1> QED BY <1>1 DEF Fresh

LEMMA LoadValue ==
    ASSUME file \in Value
    PROVE  Load \in Value /\ Load.lc <= Len(Load.rows) /\ Load.rows = file.rows
  <1>1. file.rows \in Seq(Nat) /\ file.lc \in Nat /\ Len(file.rows) \in Nat
    BY LenProperties DEF Value
  <1> QED BY <1>1 DEF Load, Value

LEMMA GotObject ==
    ASSUME ObjectInv
    PROVE  /\ Got \in Object /\ GotValue \in Value
           /\ cache # None => Got = cache /\ GotValue = obj[cache]
           /\ cache = None => Got = Fresh /\ GotValue = Load
  <1>1. CASE cache = None
    BY <1>1, FreshObject, LoadValue DEF ObjectInv, Got, GotValue
  <1>2. CASE cache # None
    BY <1>2 DEF ObjectInv, TypeOK, Got, GotValue, Holders
  <1> QED BY <1>1, <1>2

LEMMA KeepObjects ==
    ASSUME ObjectInv, NEW o \in Object \cup {None}, NEW v \in Value, Keeping(o, v),
           {cache', held', inner'} \subseteq {cache, held, inner, o, None},
           file' \in Value, lock' # None <=> inner' # None, lock' \in Party \cup {None},
           written' \in 0 .. MaxRows
    PROVE  ObjectInv'
  <1>1. \A x \in Holders' : x # o => x \in Holders
    BY DEF Holders
  <1>2. DOMAIN obj' = Holders' /\ \A x \in Holders' : obj'[x] = IF x = o THEN v ELSE obj[x]
    BY DEF Keeping, Holders
  <1>3. \A x \in Holders' : obj'[x] \in Value
    BY <1>1, <1>2 DEF ObjectInv
  <1>4. {cache', held', inner'} \subseteq Object \cup {None}
    BY DEF ObjectInv, TypeOK
  <1> QED BY <1>2, <1>3, <1>4 DEF ObjectInv, TypeOK

LEMMA RowValue ==
    ASSUME NEW v \in Value, written \in Nat
    PROVE  /\ WithRow(v) \in Value
           /\ WithRow(v).rows = Append(v.rows, written + 1)
           /\ WithRow(v).lc = v.lc
           /\ WithRow(v).rows # <<>>
  <1>1. v.rows \in Seq(Nat) /\ written + 1 \in Nat
    BY DEF Value
  <1>2. Append(v.rows, written + 1) \in Seq(Nat) /\ Append(v.rows, written + 1) # <<>>
    BY <1>1, AppendProperties
  <1>3. WithRow(v) = [v EXCEPT !.rows = Append(v.rows, written + 1)]
    BY DEF WithRow
  <1> QED BY <1>2, <1>3 DEF Value

\* Whatever the offset is.
LEMMA CappedValue ==
    ASSUME NEW v \in Value, v.rows # <<>>, NEW s \in Stretches(v)
    PROVE  Capped(v, s) \in Value
  <1>1. v.rows \in Seq(Nat) /\ v.lc \in Nat /\ Len(v.rows) \in Nat \ {0}
    BY LenProperties, EmptySeq DEF Value
  <1>2. s[1] \in Nat \ {0} /\ s[2] \in 0 .. Len(v.rows)
    <2>1. CASE Len(v.rows) <= FileCap
      BY <1>1, <2>1 DEF Stretches
    <2>2. CASE ~(Len(v.rows) <= FileCap)
      BY <1>1, <2>2 DEF Stretches
    <2> QED BY <2>1, <2>2
  <1>3. SubSeq(v.rows, s[1], s[2]) \in Seq(Nat)
    <2>1. \A rows \in Seq(Nat) : \A a \in Nat \ {0}, b \in 0 .. Len(rows) :
             SubSeq(rows, a, b) \in Seq(Nat)
      BY SubRows
    <2> QED BY <1>1, <1>2, <2>1
  <1>4. Cardinality((1 .. v.lc) \cap (s[1] .. s[2])) \in Nat
    <2>1. IsFiniteSet(1 .. v.lc)
      <3>1. 1 \in Int /\ v.lc \in Int
        BY <1>1
      <3> QED BY <3>1, FS_Interval
    <2>2. IsFiniteSet((1 .. v.lc) \cap (s[1] .. s[2]))
      BY <2>1, FS_Subset
    <2> QED BY <2>2, FS_CardinalityType
  <1> QED BY <1>3, <1>4 DEF Capped, Value

Place == {"off", "restore", "compact", "wait", "archive", "ready", "run"}
Queued == {"turn", "back", "idle"}

Ahead(q) == \A i, j \in DOMAIN q : q[i] = "turn" /\ q[j] = "back" => j < i

\* Who is in the lock and who in the line for it: each party once, the turn behind
\* the consolidation that the turn before it left.
LineInv ==
    /\ pc \in [Party -> Place]
    /\ pc["back"] \in {"off", "wait", "archive"}
    /\ pc["idle"] \in {"off", "wait", "archive"}
    /\ lock \in Queued \cup {None}
    /\ waiters \in Seq(Queued)
    /\ \A p \in Queued : pc[p] = "archive" <=> lock = p
    /\ \A p \in Queued : pc[p] = "wait" <=> Contains(waiters, p)
    /\ IsInjective(waiters) /\ Ahead(waiters)
    /\ pc["turn"] \in {"archive", "ready", "run"} => pc["back"] = "off"
    /\ held = None <=> pc["turn"] = "off"
    /\ pc["new"] # "archive" => snapshot = <<>>

RowsInv ==
    /\ history \in [1 .. MaxRows -> 0 .. 2]
    /\ chunk \in Seq(Nat) /\ snapshot \in Seq(Nat)
    /\ rest \in Value

-----------------------------------------------------------------------------

LEMMA FetchObjects ==
    ASSUME ObjectInv, Fetch, {held', inner'} \subseteq {held, inner, Got, None},
           lock' # None <=> inner' # None, lock' \in Party \cup {None}, written' = written
    PROVE  ObjectInv'
  <1>1. Got \in Object /\ GotValue \in Value
    BY GotObject
  <1>2. /\ cache' = Got /\ Keeping(Got, GotValue) /\ file' \in Value
        /\ written' \in 0 .. MaxRows
    BY DEF Fetch, ObjectInv, TypeOK
  <1> QED BY <1>1, <1>2, KeepObjects

LEMMA SaveObjects ==
    ASSUME ObjectInv, NEW o \in Object \cup {None}, NEW v \in Value, Save(o, v),
           {held', inner'} \subseteq {held, inner, o, None},
           lock' # None <=> inner' # None, lock' \in Party \cup {None},
           written' \in 0 .. MaxRows
    PROVE  ObjectInv'
  BY KeepObjects DEF Save

LEMMA WriteObjects ==
    ASSUME ObjectInv, LineInv, NEW v \in Value, Writes(v), held' \in {held, None},
           UNCHANGED lock
    PROVE  ObjectInv'
  <1>1. held \in Object \cup {None} /\ lock' \in Party \cup {None}
        /\ (lock' # None <=> inner' # None)
    BY DEF ObjectInv, TypeOK, Writes
  <1>2. written' \in 0 .. MaxRows
    BY MemoryAssumption DEF ObjectInv, TypeOK, Writes
  <1> QED BY <1>1, <1>2, SaveObjects DEF Writes

LEMMA HeldValue ==
    ASSUME ObjectInv, LineInv, pc["turn"] # "off"
    PROVE  held \in Object /\ obj[held] \in Value
  BY DEF ObjectInv, LineInv, TypeOK, Holders

LEMMA InnerValue ==
    ASSUME ObjectInv, lock # None
    PROVE  inner \in Object /\ obj[inner] \in Value
  BY DEF ObjectInv, TypeOK, Holders

LEMMA WrittenNat == TypeOK => written \in Nat
  BY MemoryAssumption DEF TypeOK

\* Every step leaves typed objects, and nobody with one that is gone.
LEMMA TurnObjects ==
    ASSUME ObjectInv, LineInv,
           \/ \E d \in BOOLEAN : Begin(d)
           \/ RestoreRow \/ Compact \/ Shortcut \/ Persist \/ Checkpoint \/ SaveTurn
           \/ CheckExpired
    PROVE  ObjectInv'
  <1>1. /\ lock # None <=> inner # None
        /\ lock \in Party \cup {None} /\ held \in Object \cup {None}
        /\ written \in Nat /\ written \in 0 .. MaxRows
    BY WrittenNat DEF ObjectInv, TypeOK
  <1>2. ASSUME NEW d \in BOOLEAN, Begin(d) PROVE ObjectInv'
    BY <1>1, <1>2, FetchObjects DEF Begin, section
  <1>3. ASSUME pc["turn"] # "off", Writes(WithRow(obj[held])), held' \in {held, None},
               UNCHANGED lock
        PROVE  ObjectInv'
    <2>1. WithRow(obj[held]) \in Value
      BY <1>1, <1>3, HeldValue, RowValue
    <2> QED BY <1>3, <2>1, WriteObjects
  <1>4. CASE RestoreRow
    BY <1>3, <1>4 DEF RestoreRow, TurnGoesOn, OutsideTurn, section
  <1>5. CASE Compact
    <2>1. CASE held' = Got /\ Fetch
      BY <1>1, <1>5, <2>1, FetchObjects DEF Compact
    <2>2. CASE UNCHANGED <<held, objects>>
      BY <1>5, <2>2 DEF Compact, objects, ObjectInv, TypeOK, Holders
    <2> QED BY <1>5, <2>1, <2>2 DEF Compact
  <1>6. CASE Shortcut
    BY <1>3, <1>6 DEF Shortcut, EndTurn, OutsideTurn, section
  <1>7. CASE Persist
    BY <1>3, <1>7 DEF Persist, TurnGoesOn, OutsideTurn, section
  <1>8. CASE Checkpoint
    <2>1. held \in Object /\ obj[held] \in Value
      BY <1>8, HeldValue DEF Checkpoint
    <2> QED BY <1>1, <1>8, <2>1, SaveObjects DEF Checkpoint, OutsideTurn, section
  <1>9. CASE SaveTurn
    <2> DEFINE v == WithRow(obj[held])
    <2>1. v \in Value /\ v.rows # <<>>
      BY <1>1, <1>9, HeldValue, RowValue DEF SaveTurn
    <2> HIDE DEF v
    <2>2. PICK s \in Stretches(v) : Writes(Capped(v, s))
      BY <1>9 DEF SaveTurn, v
    <2>3. Capped(v, s) \in Value
      BY <2>1, CappedValue
    <2> QED BY <1>9, <2>2, <2>3, WriteObjects DEF SaveTurn, EndTurn
  <1>10. CASE CheckExpired
    BY <1>1, <1>10, FetchObjects DEF CheckExpired
  <1> QED
    BY <1>2, <1>4, <1>5, <1>6, <1>7, <1>8, <1>9, <1>10

\* Whether a party stays in the lock or leaves it.
LEMMA LeaveOrStay ==
    ASSUME NEW p \in Queued, NEW o \in Object, NEW v, ConsolidateOrLeave(p, o, v)
    PROVE  /\ inner' \in {o, None}
           /\ lock' # None <=> inner' # None
           /\ lock' \in Party \cup {None}
  BY NotNone DEF ConsolidateOrLeave, Enter, Release, Queued, Party

LEMMA CompactIdleCases ==
    ASSUME ObjectInv, CompactIdle
    PROVE  LET tail == Unconsolidated(Load)
               kept(cut) == [rows |-> SubSeq(tail, cut + 1, Len(tail)), lc |-> 0]
           IN  /\ tail \in Seq(Nat) /\ Load \in Value
               /\ \E cut \in 0 .. Len(tail) :
                     /\ kept(cut) \in Value
                     /\ \/ /\ cut = 0 /\ Release("idle")
                           /\ Save(Fresh, IF tail = <<>> THEN Load ELSE kept(0))
                        \/ /\ cut > 0
                           /\ Enter("idle", Fresh, SubSeq(tail, 1, cut), kept(cut))
                           /\ cache' = Fresh /\ Keeping(Fresh, Load) /\ UNCHANGED file
  <1> DEFINE tail == Unconsolidated(Load)
             kept(cut) == [rows |-> SubSeq(tail, cut + 1, Len(tail)), lc |-> 0]
  <1>1. Load \in Value /\ tail \in Seq(Nat)
    BY LoadValue, LiveRows DEF ObjectInv
  <1>2. Len(tail) \in Nat
    BY <1>1, LenProperties
  <1>3. PICK cut \in Cuts(tail) :
           \/ /\ cut = 0 /\ Release("idle")
              /\ Save(Fresh, IF tail = <<>> THEN Load ELSE kept(cut))
           \/ /\ cut > 0
              /\ Enter("idle", Fresh, SubSeq(tail, 1, cut), kept(cut))
              /\ cache' = Fresh /\ Keeping(Fresh, Load) /\ UNCHANGED file
    BY DEF CompactIdle
  <1> HIDE DEF tail
  <1>4. cut \in 0 .. Len(tail)
    BY <1>2, <1>3 DEF Cuts
  <1>5. SubSeq(tail, cut + 1, Len(tail)) \in Seq(Nat)
    <2>1. \A a \in Nat \ {0}, b \in 0 .. Len(tail) : SubSeq(tail, a, b) \in Seq(Nat)
      BY <1>1, SubRows
    <2> QED BY <1>2, <1>4, <2>1
  <1>6. kept(cut) \in Value
    BY <1>5 DEF Value
  <1> QED BY <1>1, <1>3, <1>4, <1>6 DEF tail

LEMMA OtherObjects ==
    ASSUME ObjectInv, LineInv, RowsInv, LockStep \/ Stop \/ New \/ NewArchived \/ Crash
    PROVE  ObjectInv'
  <1>1. /\ lock # None <=> inner # None
        /\ lock \in Party \cup {None} /\ held \in Object \cup {None}
        /\ written \in Nat /\ written \in 0 .. MaxRows
    BY WrittenNat DEF ObjectInv, TypeOK
  <1>2. ASSUME NEW p \in {"turn", "back"}, Consolidate(p) PROVE ObjectInv'
    <2>1. Got \in Object
      BY GotObject
    <2>2. ConsolidateOrLeave(p, Got, GotValue) /\ p \in Queued
      BY <1>2 DEF Consolidate, Queued
    <2>3. inner' \in {Got, None} /\ (lock' # None <=> inner' # None)
          /\ lock' \in Party \cup {None}
      BY <2>1, <2>2, LeaveOrStay
    <2> QED BY <1>2, <2>3, FetchObjects DEF Consolidate
  <1>3. ASSUME NEW p \in {"turn", "back"}, Consolidated(p) PROVE ObjectInv'
    <2> DEFINE v == Advanced(obj[inner])
    <2>1. p \in Queued /\ lock = p /\ lock # None
      BY <1>3, NotNone DEF Consolidated, LineInv, Queued, Party
    <2>2. inner \in Object /\ v \in Value
      BY <2>1, InnerValue DEF Advanced, Value, RowsInv
    <2>3. inner' \in {inner, None} /\ (lock' # None <=> inner' # None)
          /\ lock' \in Party \cup {None}
      <3>1. ConsolidateOrLeave(p, inner, v)
        BY <1>3 DEF Consolidated
      <3> QED BY <2>1, <2>2, <3>1, LeaveOrStay
    <2>4. Save(inner, v)
      BY <1>3 DEF Consolidated
    <2> HIDE DEF v
    <2> QED BY <1>1, <1>3, <2>2, <2>3, <2>4, SaveObjects DEF Consolidated
  <1>4. CASE CompactIdle
    <2> DEFINE tail == Unconsolidated(Load)
               kept(cut) == [rows |-> SubSeq(tail, cut + 1, Len(tail)), lc |-> 0]
    <2>1. Load \in Value /\ Fresh \in Object /\ "idle" \in Party
      BY CompactIdleCases, <1>4, FreshObject DEF ObjectInv, Party
    <2>2. PICK cut \in 0 .. Len(tail) :
             /\ kept(cut) \in Value
             /\ \/ /\ cut = 0 /\ Release("idle")
                   /\ Save(Fresh, IF tail = <<>> THEN Load ELSE kept(0))
                \/ /\ cut > 0
                   /\ Enter("idle", Fresh, SubSeq(tail, 1, cut), kept(cut))
                   /\ cache' = Fresh /\ Keeping(Fresh, Load) /\ UNCHANGED file
      BY <1>4, CompactIdleCases
    <2>3. CASE cut = 0 /\ Release("idle") /\ Save(Fresh, IF tail = <<>> THEN Load ELSE kept(0))
      <3>1. (IF tail = <<>> THEN Load ELSE kept(0)) \in Value
        BY <2>1, <2>2, <2>3
      <3> HIDE DEF tail, kept
      <3>2. inner' = None /\ lock' = None /\ UNCHANGED <<held, written>>
        BY <1>4, <2>3 DEF Release, CompactIdle
      <3> QED BY <1>1, <2>1, <2>3, <3>1, <3>2, SaveObjects
    <2>4. CASE /\ Enter("idle", Fresh, SubSeq(tail, 1, cut), kept(cut))
               /\ cache' = Fresh /\ Keeping(Fresh, Load) /\ UNCHANGED file
      <3> HIDE DEF tail, kept
      <3>1. inner' = Fresh /\ lock' = "idle" /\ UNCHANGED <<held, written>>
        BY <1>4, <2>4 DEF Enter, CompactIdle
      <3>2. lock' # None /\ inner' # None
        BY <2>1, <3>1, NotNone
      <3>3. file' \in Value
        BY <2>4 DEF ObjectInv
      <3> QED BY <1>1, <2>1, <2>4, <3>1, <3>2, <3>3, KeepObjects
    <2> QED BY <2>2, <2>3, <2>4
  <1>5. CASE Compacted
    <2>1. lock = "idle" /\ lock # None /\ rest \in Value
      BY <1>5, NotNone DEF Compacted, LineInv, RowsInv, Queued, Party
    <2>2. inner \in Object /\ Save(inner, rest) /\ inner' = None /\ lock' = None
      BY <1>5, <2>1, InnerValue DEF Compacted, Release
    <2> QED BY <1>1, <1>5, <2>1, <2>2, SaveObjects DEF Compacted
  <1>6. CASE Stop
    <2>1. held' = None /\ (lock' # None <=> inner' # None) /\ lock' \in {lock, None}
          /\ inner' \in {inner, None}
      BY <1>1, <1>6 DEF Stop, EndTurn, LeaveLock
    <2>2. CASE written < MaxRows /\ written' = written + 1 /\ Save(Got, WithRow(GotValue))
      <3>1. Got \in Object /\ WithRow(GotValue) \in Value
        BY <1>1, GotObject, RowValue
      <3>2. written' \in 0 .. MaxRows
        BY <1>1, <2>2, MemoryAssumption
      <3> QED BY <1>1, <2>1, <2>2, <3>1, <3>2, SaveObjects
    <2>3. CASE Fetch /\ UNCHANGED <<written, around>>
      BY <1>1, <2>1, <2>3, FetchObjects
    <2> QED BY <1>6, <2>2, <2>3 DEF Stop
  <1>7. CASE New
    <2>1. /\ Keeping(Got, Blank) /\ file' = Blank /\ cache' = None
          /\ UNCHANGED <<held, inner, lock, written>>
      BY <1>7 DEF New
    <2>2. Got \in Object
      BY GotObject
    <2> QED BY <1>1, <2>1, <2>2, KeepObjects, BlankValue
  <1>8. CASE NewArchived
    BY <1>8 DEF NewArchived, ObjectInv, objects, section, TypeOK, Holders
  <1>9. CASE Crash
    <2>1. Holders' = {} /\ DOMAIN obj' = {}
      BY <1>9 DEF Crash, Holders
    <2> QED BY <1>1, <1>9, <2>1 DEF Crash, ObjectInv, TypeOK
  <1> QED BY <1>2, <1>3, <1>4, <1>5, <1>6, <1>7, <1>8, <1>9 DEF LockStep

-----------------------------------------------------------------------------
(* The line for the lock *)

LEMMA AppendLine ==
    ASSUME NEW q \in Seq(Queued), NEW p \in Queued, IsInjective(q), Ahead(q),
           ~Contains(q, p), p = "back" => ~Contains(q, "turn")
    PROVE  /\ Append(q, p) \in Seq(Queued)
           /\ \A y : Contains(Append(q, p), y) <=> Contains(q, y) \/ y = p
           /\ IsInjective(Append(q, p)) /\ Ahead(Append(q, p))
  <1>1. /\ Append(q, p) \in Seq(Queued)
        /\ \A y : Contains(Append(q, p), y) <=> Contains(q, y) \/ y = p
        /\ IsInjective(Append(q, p))
    BY AppendQueue
  <1>2. /\ Len(q) \in Nat /\ DOMAIN q = 1 .. Len(q)
        /\ DOMAIN Append(q, p) = 1 .. Len(q) + 1
        /\ \A i \in 1 .. Len(q) : Append(q, p)[i] = q[i]
        /\ Append(q, p)[Len(q) + 1] = p
    BY AppendProperties, LenProperties
  <1>3. \A i \in 1 .. Len(q) : Contains(q, q[i])
    BY DEF Contains
  <1>4. Ahead(Append(q, p))
    BY <1>2, <1>3 DEF Ahead
  <1> QED BY <1>1, <1>4

LEMMA TailLine ==
    ASSUME NEW q \in Seq(Queued), IsInjective(q), Ahead(q), q # <<>>
    PROVE  /\ Tail(q) \in Seq(Queued)
           /\ \A y : Contains(Tail(q), y) <=> Contains(q, y) /\ y # Head(q)
           /\ IsInjective(Tail(q)) /\ Ahead(Tail(q))
           /\ Head(q) = "turn" => ~Contains(q, "back")
  <1>1. /\ Tail(q) \in Seq(Queued) /\ IsInjective(Tail(q))
        /\ \A y : Contains(Tail(q), y) <=> Contains(q, y) /\ y # Head(q)
    BY TailQueue
  <1>2. /\ Len(q) \in Nat \ {0} /\ DOMAIN q = 1 .. Len(q)
        /\ DOMAIN Tail(q) = 1 .. Len(q) - 1
        /\ \A i \in 1 .. Len(q) - 1 : Tail(q)[i] = q[i + 1]
        /\ Head(q) = q[1]
    BY HeadTailProperties, LenProperties, EmptySeq
  <1>3. Ahead(Tail(q))
    BY <1>2 DEF Ahead
  <1>4. Head(q) = "turn" => ~Contains(q, "back")
    BY <1>2 DEF Ahead, Contains
  <1> QED BY <1>1, <1>3, <1>4

LEMMA RemoveLine ==
    ASSUME NEW q \in Seq(Queued), IsInjective(q), NEW i \in DOMAIN q, q[i] = "turn"
    PROVE  LET r == RemoveAt(q, i)
           IN  /\ r \in Seq(Queued)
               /\ \A y : Contains(r, y) <=> Contains(q, y) /\ y # "turn"
               /\ IsInjective(r) /\ Ahead(r)
  <1> DEFINE r == RemoveAt(q, i)
             p == SubSeq(q, 1, i - 1)
             t == SubSeq(q, i + 1, Len(q))
  <1>1. /\ Len(q) \in Nat /\ DOMAIN q = 1 .. Len(q) /\ i \in 1 .. Len(q)
        /\ \A j \in 1 .. Len(q) : q[j] \in Queued
    BY LenProperties, ElementOfSeq
  <1>2. /\ p \in Seq(Queued) /\ Len(p) = i - 1
        /\ \A j \in 1 .. i - 1 : p[j] = q[j]
    <2>1. 1 \in Int /\ i - 1 \in Int /\ \A j \in 1 .. i - 1 : q[j] \in Queued
      BY <1>1
    <2>2. /\ p \in Seq(Queued) /\ Len(p) = IF 1 <= i - 1 THEN i - 1 - 1 + 1 ELSE 0
          /\ \A j \in 1 .. i - 1 - 1 + 1 : p[j] = q[1 + j - 1]
      BY <2>1, SubSeqProperties
    <2> HIDE DEF p
    <2> QED BY <1>1, <2>2
  <1>3. /\ t \in Seq(Queued) /\ Len(t) = Len(q) - i
        /\ \A j \in 1 .. Len(q) - i : t[j] = q[i + j]
    <2>1. i + 1 \in Int /\ Len(q) \in Int /\ \A j \in i + 1 .. Len(q) : q[j] \in Queued
      BY <1>1
    <2>2. /\ t \in Seq(Queued)
          /\ Len(t) = IF i + 1 <= Len(q) THEN Len(q) - (i + 1) + 1 ELSE 0
          /\ \A j \in 1 .. Len(q) - (i + 1) + 1 : t[j] = q[i + 1 + j - 1]
      BY <2>1, SubSeqProperties
    <2> HIDE DEF t
    <2>3. Len(t) = Len(q) - i
      <3>1. CASE i = Len(q)
        BY <1>1, <2>2, <3>1
      <3>2. CASE i < Len(q)
        <4>1. i + 1 <= Len(q)
          BY <1>1, <3>2
        <4> QED BY <1>1, <2>2, <4>1
      <3> QED BY <1>1, <3>1, <3>2
    <2>4. ASSUME NEW j \in 1 .. Len(q) - i PROVE t[j] = q[i + j]
      <3>1. j \in 1 .. Len(q) - (i + 1) + 1 /\ i + 1 + j - 1 = i + j
        BY <1>1
      <3> QED BY <2>2, <3>1
    <2> QED BY <2>2, <2>3, <2>4
  <1> HIDE DEF p, t
  <1>4. r = p \o t
    BY DEF r, p, t, RemoveAt
  <1>5. /\ \A j \in 1 .. Len(p) : j \in 1 .. Len(q) /\ j # i /\ p[j] = q[j]
        /\ \A j \in 1 .. Len(t) : i + j \in 1 .. Len(q) /\ i + j # i /\ t[j] = q[i + j]
    BY <1>1, <1>2, <1>3
  <1>6. \A j \in 1 .. Len(q) : j # i => q[j] # "turn"
    BY <1>1 DEF IsInjective
  <1>7. \A y : Contains(p, y) => Contains(q, y) /\ y # "turn"
    BY <1>5, <1>6 DEF Contains
  <1>8. \A y : Contains(t, y) => Contains(q, y) /\ y # "turn"
    BY <1>5, <1>6 DEF Contains
  <1>9. ASSUME NEW y, Contains(q, y), y # "turn" PROVE Contains(p, y) \/ Contains(t, y)
    <2>1. PICK j \in 1 .. Len(q) : q[j] = y
      BY <1>9 DEF Contains
    <2>2. CASE j < i
      <3>1. j \in 1 .. Len(p) /\ p[j] = y
        BY <1>1, <1>2, <2>1, <2>2
      <3> QED BY <3>1 DEF Contains
    <2>3. CASE j > i
      <3>1. j - i \in 1 .. Len(t) /\ i + (j - i) = j
        BY <1>1, <1>3, <2>3
      <3>2. t[j - i] = y
        BY <1>5, <2>1, <3>1
      <3> QED BY <3>1, <3>2 DEF Contains
    <2> QED BY <1>1, <1>9, <2>1, <2>2, <2>3
  <1>10. /\ DOMAIN p = 1 .. Len(p) /\ DOMAIN t = 1 .. Len(t)
         /\ IsInjective(p) /\ IsInjective(t)
    <2>1. DOMAIN p = 1 .. Len(p) /\ DOMAIN t = 1 .. Len(t)
      BY <1>2, <1>3, LenProperties
    <2>2. IsInjective(p)
      BY <1>1, <1>5, <2>1 DEF IsInjective
    <2>3. ASSUME NEW a \in 1 .. Len(t), NEW b \in 1 .. Len(t), t[a] = t[b] PROVE a = b
      <3>1. i + a \in 1 .. Len(q) /\ i + b \in 1 .. Len(q) /\ q[i + a] = q[i + b]
        BY <1>5, <2>3
      <3>2. i + a = i + b
        BY <1>1, <3>1 DEF IsInjective
      <3> QED BY <1>1, <1>3, <3>2
    <2>4. IsInjective(t)
      BY <2>1, <2>3 DEF IsInjective
    <2> QED BY <2>1, <2>2, <2>4
  <1>11. \A y : ~(Contains(p, y) /\ Contains(t, y))
    <2>1. ASSUME NEW a \in 1 .. Len(p), NEW b \in 1 .. Len(t) PROVE p[a] # t[b]
      <3>1. /\ a \in 1 .. Len(q) /\ i + b \in 1 .. Len(q) /\ a # i + b
            /\ p[a] = q[a] /\ t[b] = q[i + b]
        BY <1>1, <1>2, <1>3, <1>5
      <3> QED BY <1>1, <3>1 DEF IsInjective
    <2> QED BY <2>1 DEF Contains
  <1>12. /\ r \in Seq(Queued) /\ IsInjective(r)
         /\ \A y : Contains(r, y) <=> Contains(p, y) \/ Contains(t, y)
    BY <1>2, <1>3, <1>4, <1>10, <1>11, ConcatQueue
  <1> HIDE DEF r
  <1>13. \A y : Contains(r, y) <=> Contains(q, y) /\ y # "turn"
    BY <1>7, <1>8, <1>9, <1>12
  <1>14. Ahead(r)
    <2>1. DOMAIN r = 1 .. Len(r)
      BY <1>12, LenProperties
    <2> QED BY <1>13, <2>1 DEF Ahead, Contains
  <1> QED BY <1>12, <1>13, <1>14 DEF r

\* Joining the line.
LEMMA JoinLine ==
    ASSUME LineInv, NEW p \in Queued, pc[p] # "wait", pc[p] # "archive",
           pc' = [pc EXCEPT ![p] = "wait"], waiters' = Append(waiters, p),
           p = "back" => pc["turn"] # "wait" /\ pc["turn"] \notin {"archive", "ready", "run"},
           UNCHANGED <<lock, snapshot>>, held' = None <=> pc'["turn"] = "off"
    PROVE  LineInv'
  <1>1. p \in Party /\ \A x \in Queued : x \in Party
    BY DEF Queued, Party
  <1>2. ~Contains(waiters, p) /\ (p = "back" => ~Contains(waiters, "turn"))
    BY DEF LineInv, Queued
  <1>3. /\ waiters' \in Seq(Queued) /\ IsInjective(waiters') /\ Ahead(waiters')
        /\ \A y : Contains(waiters', y) <=> Contains(waiters, y) \/ y = p
    BY <1>2, AppendLine DEF LineInv
  <1>4. /\ pc' \in [Party -> Place]
        /\ \A x \in Party : pc'[x] = IF x = p THEN "wait" ELSE pc[x]
    BY <1>1 DEF LineInv, Place
  <1> QED BY <1>1, <1>3, <1>4, NotNone DEF LineInv, Queued, Party

\* The turn goes from one place outside the line and the lock to another.
LEMMA TurnMoves ==
    ASSUME LineInv, NEW place \in {"off", "restore", "compact", "run"},
           pc["turn"] \notin {"wait", "archive"}, pc' = [pc EXCEPT !["turn"] = place],
           place = "run" => pc["turn"] \in {"ready", "run"},
           UNCHANGED <<lock, waiters, snapshot>>, held' = None <=> place = "off"
    PROVE  LineInv'
  <1>1. "turn" \in Party /\ \A x \in Queued : x \in Party
    BY DEF Queued, Party
  <1>2. /\ pc' \in [Party -> Place]
        /\ \A x \in Party : pc'[x] = IF x = "turn" THEN place ELSE pc[x]
    BY <1>1 DEF LineInv, Place
  <1> QED BY <1>1, <1>2, NotNone DEF LineInv, Queued, Party

LEMMA TurnLine ==
    ASSUME ObjectInv, LineInv,
           \/ \E d \in BOOLEAN : Begin(d)
           \/ RestoreRow \/ Compact \/ Shortcut \/ Persist \/ Checkpoint \/ SaveTurn
           \/ CheckExpired
    PROVE  LineInv'
  <1>1. Got # None /\ \A p \in Queued : p \in Party
    BY GotObject, NotNone DEF Queued, Party
  <1>2. /\ pc["turn"] # "off" => held # None
        /\ pc \in [Party -> Place] /\ "turn" \in Party
    BY DEF LineInv, Party
  <1>3. ASSUME NEW d \in BOOLEAN, Begin(d) PROVE LineInv'
    BY <1>1, <1>3, TurnMoves DEF Begin, Goes, section
  <1>4. CASE RestoreRow
    BY <1>2, <1>4, TurnMoves DEF RestoreRow, TurnGoesOn, OutsideTurn, Goes, section
  <1>5. CASE Compact
    <2>1. held' # None /\ "turn" \in Queued
      BY <1>1, <1>2, <1>5 DEF Compact, Queued
    <2>2. pc'["turn"] = "wait"
      BY <1>2, <1>5 DEF Compact, Goes
    <2> QED BY <1>5, <2>1, <2>2, JoinLine DEF Compact, Goes
  <1>6. CASE Shortcut
    BY <1>6, TurnMoves DEF Shortcut, EndTurn, OutsideTurn, Goes, section
  <1>7. CASE Persist
    BY <1>2, <1>7, TurnMoves DEF Persist, TurnGoesOn, OutsideTurn, Goes, section
  <1>8. CASE Checkpoint
    BY <1>8 DEF Checkpoint, LineInv, OutsideTurn, section
  <1>9. CASE SaveTurn
    <2> DEFINE turnOff == [pc EXCEPT !["turn"] = "off"]
    <2>1. /\ waiters' = Append(waiters, "back") /\ UNCHANGED <<lock, snapshot>>
          /\ held' = None /\ pc["turn"] = "run"
          /\ pc' = [pc EXCEPT !["turn"] = "off", !["back"] = "wait"]
      BY <1>9 DEF SaveTurn, EndTurn
    <2>2. pc["back"] = "off" /\ ~Contains(waiters, "turn") /\ ~Contains(waiters, "back")
      BY <2>1 DEF LineInv, Queued
    <2>3. /\ waiters' \in Seq(Queued) /\ IsInjective(waiters') /\ Ahead(waiters')
          /\ \A y : Contains(waiters', y) <=> Contains(waiters, y) \/ y = "back"
      BY <2>1, <2>2, AppendLine DEF LineInv, Queued
    <2>4. /\ pc' \in [Party -> Place]
          /\ \A x \in Party : pc'[x] =
                IF x = "turn" THEN "off" ELSE IF x = "back" THEN "wait" ELSE pc[x]
      BY <1>2, <2>1 DEF Place, Party
    <2> QED BY <1>1, <2>1, <2>2, <2>3, <2>4, NotNone DEF LineInv, Queued, Party
  <1>10. CASE CheckExpired
    <2>1. pc'["turn"] = pc["turn"] /\ "idle" \in Queued
      BY <1>2, <1>10 DEF CheckExpired, Goes, Queued
    <2> QED BY <1>10, <2>1, JoinLine DEF CheckExpired, Goes, LineInv
  <1> QED
    BY <1>3, <1>4, <1>5, <1>6, <1>7, <1>8, <1>9, <1>10

\* Out of the lock.
LEMMA ReleaseLine ==
    ASSUME LineInv, NEW p \in Queued, lock \in {p, None}, Release(p),
           \/ pc[p] = "archive" /\ UNCHANGED waiters
           \/ Granted(p) /\ waiters' = Tail(waiters),
           UNCHANGED <<held, snapshot>>
    PROVE  LineInv'
  <1> DEFINE place == IF p = "turn" THEN "ready" ELSE "off"
  <1>1. p \in Party /\ \A x \in Queued : x \in Party
    BY DEF Queued, Party
  <1>2. /\ pc' \in [Party -> Place] /\ lock' = None
        /\ \A x \in Party : pc'[x] = IF x = p THEN place ELSE pc[x]
    BY <1>1 DEF LineInv, Place, Release, Goes
  <1>3. CASE pc[p] = "archive" /\ UNCHANGED waiters
    <2>1. lock = p
      BY <1>3 DEF LineInv
    <2> QED BY <1>1, <1>2, <1>3, <2>1, NotNone DEF LineInv, Queued, Party
  <1>4. CASE Granted(p) /\ waiters' = Tail(waiters)
    <2>1. pc[p] = "wait" /\ lock = None /\ waiters # <<>> /\ Head(waiters) = p
      BY <1>4 DEF Granted
    <2>2. /\ waiters' \in Seq(Queued) /\ IsInjective(waiters') /\ Ahead(waiters')
          /\ \A y : Contains(waiters', y) <=> Contains(waiters, y) /\ y # p
          /\ p = "turn" => ~Contains(waiters, "back")
      BY <1>4, <2>1, TailLine DEF LineInv
    <2> QED BY <1>1, <1>2, <2>1, <2>2, NotNone DEF LineInv, Queued, Party
  <1> QED BY <1>3, <1>4

\* Into the lock, or on in it.
LEMMA EnterLine ==
    ASSUME LineInv, NEW p \in Queued, NEW o, NEW rows, NEW then, Enter(p, o, rows, then),
           \/ pc[p] = "archive" /\ UNCHANGED waiters
           \/ Granted(p) /\ waiters' = Tail(waiters),
           UNCHANGED <<held, snapshot>>
    PROVE  LineInv'
  <1>1. p \in Party /\ \A x \in Queued : x \in Party
    BY DEF Queued, Party
  <1>2. /\ pc' \in [Party -> Place] /\ lock' = p
        /\ \A x \in Party : pc'[x] = IF x = p THEN "archive" ELSE pc[x]
    BY <1>1 DEF LineInv, Place, Enter, Goes
  <1>3. CASE pc[p] = "archive" /\ UNCHANGED waiters
    BY <1>1, <1>2, <1>3, NotNone DEF LineInv, Queued, Party
  <1>4. CASE Granted(p) /\ waiters' = Tail(waiters)
    <2>1. pc[p] = "wait" /\ lock = None /\ waiters # <<>> /\ Head(waiters) = p
      BY <1>4 DEF Granted
    <2>2. /\ waiters' \in Seq(Queued) /\ IsInjective(waiters') /\ Ahead(waiters')
          /\ \A y : Contains(waiters', y) <=> Contains(waiters, y) /\ y # p
          /\ p = "turn" => ~Contains(waiters, "back")
      BY <1>4, <2>1, TailLine DEF LineInv
    <2> QED BY <1>1, <1>2, <2>1, <2>2, NotNone DEF LineInv, Queued, Party
  <1> QED BY <1>3, <1>4

LEMMA ConsolidateLine ==
    ASSUME LineInv, NEW p \in {"turn", "back"}, NEW o, NEW v, ConsolidateOrLeave(p, o, v),
           \/ pc[p] = "archive" /\ UNCHANGED waiters
           \/ Granted(p) /\ waiters' = Tail(waiters),
           UNCHANGED <<held, snapshot>>
    PROVE  LineInv'
  <1>1. p \in Queued /\ lock \in {p, None}
    BY DEF LineInv, Queued, Granted
  <1> QED BY <1>1, ReleaseLine, EnterLine DEF ConsolidateOrLeave

LEMMA StopLine ==
    ASSUME LineInv, Stop
    PROVE  LineInv'
  <1>1. /\ pc["turn"] # "off" /\ held' = None /\ UNCHANGED snapshot
        /\ pc' = [pc EXCEPT !["turn"] = "off"]
        /\ lock' = IF lock = "turn" THEN None ELSE lock
    BY DEF Stop, EndTurn, LeaveLock, Goes
  <1>2. /\ waiters' \in Seq(Queued) /\ IsInjective(waiters') /\ Ahead(waiters')
        /\ \A y : Contains(waiters', y) <=> Contains(waiters, y) /\ y # "turn"
    <2>1. CASE \E i \in DOMAIN waiters :
                  waiters[i] = "turn" /\ waiters' = RemoveAt(waiters, i)
      <3>1. PICK i \in DOMAIN waiters :
                  waiters[i] = "turn" /\ waiters' = RemoveAt(waiters, i)
        BY <2>1
      <3>2. waiters \in Seq(Queued) /\ IsInjective(waiters)
        BY DEF LineInv
      <3> QED BY <3>1, <3>2, RemoveLine
    <2>2. CASE "turn" \notin Range(waiters) /\ UNCHANGED waiters
      <3>1. ~Contains(waiters, "turn")
        <4>1. DOMAIN waiters = 1 .. Len(waiters)
          BY LenProperties DEF LineInv
        <4> QED BY <2>2, <4>1 DEF Range, Contains
      <3> QED BY <2>2, <3>1 DEF LineInv
    <2> QED BY <2>1, <2>2 DEF Stop, LeaveLock, LeaveLine
  <1>3. "turn" \in Party /\ \A x \in Queued : x \in Party
    BY DEF Queued, Party
  <1>4. /\ pc' \in [Party -> Place]
        /\ \A x \in Party : pc'[x] = IF x = "turn" THEN "off" ELSE pc[x]
    BY <1>1, <1>3 DEF LineInv, Place
  <1> QED BY <1>1, <1>2, <1>3, <1>4, NotNone DEF LineInv, Queued, Party

LEMMA OtherLine ==
    ASSUME ObjectInv, LineInv, LockStep \/ Stop \/ New \/ NewArchived \/ Crash
    PROVE  LineInv'
  <1>1. ASSUME NEW p \in {"turn", "back"}, Consolidate(p) PROVE LineInv'
    BY <1>1, ConsolidateLine DEF Consolidate
  <1>2. ASSUME NEW p \in {"turn", "back"}, Consolidated(p) PROVE LineInv'
    BY <1>2, ConsolidateLine DEF Consolidated
  <1>3. CASE CompactIdle
    <2>1. Granted("idle") /\ waiters' = Tail(waiters) /\ UNCHANGED <<held, snapshot>>
      BY <1>3 DEF CompactIdle
    <2>2. Release("idle") \/ \E rows, then : Enter("idle", Fresh, rows, then)
      BY <1>3, CompactIdleCases
    <2>3. "idle" \in Queued /\ lock = None
      BY <2>1 DEF Queued, Granted
    <2> QED BY <2>1, <2>2, <2>3, ReleaseLine, EnterLine
  <1>4. CASE Compacted
    <2>1. /\ pc["idle"] = "archive" /\ Release("idle") /\ "idle" \in Queued
          /\ UNCHANGED <<held, waiters, snapshot>>
      BY <1>4 DEF Compacted, Queued
    <2>2. lock = "idle"
      BY <2>1 DEF LineInv
    <2> QED BY <2>1, <2>2, ReleaseLine
  <1>5. CASE Stop
    BY <1>5, StopLine
  <1>6. CASE New
    <2>1. /\ UNCHANGED <<lock, waiters, held>>
          /\ pc' = [pc EXCEPT !["new"] = IF snapshot' = <<>> THEN "off" ELSE "archive"]
      BY <1>6 DEF New, Goes
    <2>2. /\ pc' \in [Party -> Place]
          /\ pc'["new"] # "archive" => snapshot' = <<>>
          /\ \A x \in Party : x # "new" => pc'[x] = pc[x]
      BY <2>1 DEF LineInv, Place, Party
    <2> QED BY <2>1, <2>2 DEF LineInv, Queued, Party
  <1>7. CASE NewArchived
    <2>1. /\ UNCHANGED <<lock, waiters, held>> /\ snapshot' = <<>>
          /\ pc' = [pc EXCEPT !["new"] = "off"]
      BY <1>7 DEF NewArchived, Goes, section
    <2>2. /\ pc' \in [Party -> Place]
          /\ \A x \in Party : x # "new" => pc'[x] = pc[x]
      BY <2>1 DEF LineInv, Place, Party
    <2> QED BY <2>1, <2>2 DEF LineInv, Queued, Party
  <1>8. CASE Crash
    <2>1. /\ pc' = [x \in Party |-> "off"] /\ waiters' = <<>> /\ lock' = None
          /\ held' = None /\ snapshot' = <<>>
      BY <1>8 DEF Crash
    <2>2. /\ <<>> \in Seq(Queued) /\ IsInjective(<<>>) /\ Ahead(<<>>)
          /\ \A y : ~Contains(<<>>, y)
      BY EmptySeq, EmptyQueue DEF Ahead
    <2>3. pc' \in [Party -> Place] /\ \A x \in Party : pc'[x] = "off"
      BY <2>1 DEF Place
    <2> QED BY <2>1, <2>2, <2>3, NotNone DEF LineInv, Queued, Party
  <1> QED BY <1>1, <1>2, <1>3, <1>4, <1>5, <1>6, <1>7, <1>8 DEF LockStep

LEMMA LineStep == ObjectInv /\ LineInv /\ [Next]_vars => LineInv'
  <1> SUFFICES ASSUME ObjectInv, LineInv, [Next]_vars PROVE LineInv'
    OBVIOUS
  <1>1. CASE UNCHANGED vars
    BY <1>1 DEF vars, section, LineInv
  <1>2. CASE Next
    BY <1>2, TurnLine, OtherLine DEF Next
  <1> QED BY <1>1, <1>2

-----------------------------------------------------------------------------
(* The messages *)

Waiting(f, rows) == Live(f) \cup Range(rows)

\* Each of the messages up to n is in the part of the file a prompt is made of, on
\* its way to history.jsonl, or there; once, but for what a crash left.
Kept(f, rows, counts, again, n) ==
    /\ f.lc <= Len(f.rows) /\ IsInjective(f.rows)
    /\ Range(f.rows) \subseteq 1 .. n
    /\ Range(rows) \subseteq 1 .. n
    /\ Range(rows) \cap Range(f.rows) = {}
    /\ \A r \in 1 .. n : r \in Waiting(f, rows) \/ counts[r] > 0
    /\ \A r \in 1 .. n : r \notin again =>
          counts[r] <= 1 /\ (r \in Waiting(f, rows) => counts[r] = 0)
    /\ \A r \in 1 .. MaxRows : r > n => counts[r] = 0

FileInv == Kept(file, snapshot, history, redone, written)

\* The cache has the object with the file's contents, and so has the party in the
\* lock.
CacheInv ==
    /\ cache = None => held = None /\ inner = None
    /\ cache # None => obj[cache] = file
    /\ inner # None => inner = cache

\* What is being archived is not consolidated; with what is kept it is all there is.
ChunkInv ==
    /\ lock \in {"turn", "back"} =>
          /\ rest.lc \in file.lc + 1 .. Len(file.rows)
          /\ chunk = SubSeq(file.rows, file.lc + 1, rest.lc)
    /\ lock = "idle" =>
          /\ rest.lc = 0 /\ IsInjective(rest.rows)
          /\ Range(chunk) \cup Range(rest.rows) = Live(file)
          /\ Range(chunk) \cap Range(rest.rows) = {}

MemoryInv == FileInv /\ CacheInv /\ ChunkInv

-----------------------------------------------------------------------------

LEMMA ArchivedCounts ==
    ASSUME RowsInv, NEW rows
    PROVE  /\ Archived(rows) \in [1 .. MaxRows -> 0 .. 2]
           /\ \A r \in 1 .. MaxRows : Archived(rows)[r] =
                 IF r \in Range(rows) THEN (IF history[r] = 0 THEN 1 ELSE 2) ELSE history[r]
  <1>1. ASSUME NEW k \in 0 .. 2 PROVE Min({k + 1, 2}) = IF k = 0 THEN 1 ELSE 2
    <2>1. Min({k + 1, 2}) = IF k + 1 <= 2 THEN k + 1 ELSE 2
      BY MinMax
    <2> QED BY <2>1
  <1>2. \A r \in 1 .. MaxRows : history[r] \in 0 .. 2
    BY DEF RowsInv
  <1>3. \A r \in 1 .. MaxRows : Archived(rows)[r] =
           IF r \in Range(rows) THEN Min({history[r] + 1, 2}) ELSE history[r]
    BY DEF Archived
  <1>4. \A r \in 1 .. MaxRows : Archived(rows)[r] =
           IF r \in Range(rows) THEN (IF history[r] = 0 THEN 1 ELSE 2) ELSE history[r]
    BY <1>1, <1>2, <1>3
  <1>5. \A r \in 1 .. MaxRows : Archived(rows)[r] \in 0 .. 2
    BY <1>2, <1>4
  <1>6. Archived(rows) = [r \in 1 .. MaxRows |-> Archived(rows)[r]]
    BY DEF Archived
  <1> QED BY <1>4, <1>5, <1>6

LEMMA NothingArchived ==
    ASSUME RowsInv
    PROVE  Archived(<<>>) = history
  <1>1. Range(<<>>) = {}
    BY DEF Range
  <1> QED BY <1>1 DEF Archived, RowsInv

LEMMA StayRows ==
    ASSUME NEW v \in Value, NEW p \in Queued, NEW o, ConsolidateOrLeave(p, o, v)
    PROVE  chunk' \in Seq(Nat) /\ rest' \in Value
  <1>1. v.rows \in Seq(Nat) /\ v.lc \in Nat /\ Len(v.rows) \in Nat
    BY LenProperties DEF Value
  <1>2. ASSUME NEW end \in v.lc + 1 .. Len(v.rows),
               Enter(p, o, SubSeq(v.rows, v.lc + 1, end), [v EXCEPT !.lc = end])
        PROVE  chunk' \in Seq(Nat) /\ rest' \in Value
    <2>1. v.lc + 1 \in Nat \ {0} /\ end \in 0 .. Len(v.rows) /\ end \in Nat
      BY <1>1
    <2>2. \A a \in Nat \ {0}, b \in 0 .. Len(v.rows) : SubSeq(v.rows, a, b) \in Seq(Nat)
      BY <1>1, SubRows
    <2>3. [v EXCEPT !.lc = end] \in Value
      BY <2>1 DEF Value
    <2> QED BY <1>2, <2>1, <2>2, <2>3 DEF Enter
  <1>3. CASE Release(p)
    BY <1>3, BlankValue, EmptySeq DEF Release
  <1> QED BY <1>2, <1>3 DEF ConsolidateOrLeave

LEMMA RowsStep ==
    ASSUME ObjectInv, LineInv, RowsInv, Next
    PROVE  RowsInv'
  <1>1. /\ \A rows : Archived(rows) \in [1 .. MaxRows -> 0 .. 2]
        /\ <<>> \in Seq(Nat) /\ Blank \in Value
    BY ArchivedCounts, BlankValue, EmptySeq
  <1>2. ASSUME UNCHANGED <<chunk, rest, snapshot>>,
               history' = history \/ \E rows : history' = Archived(rows)
        PROVE  RowsInv'
    BY <1>1, <1>2 DEF RowsInv
  <1>3. CASE \E d \in BOOLEAN : Begin(d)
    BY <1>2, <1>3 DEF Begin, section
  <1>4. CASE RestoreRow \/ Shortcut \/ Persist \/ Checkpoint
    BY <1>2, <1>4 DEF RestoreRow, Shortcut, Persist, Checkpoint, OutsideTurn, section
  <1>5. CASE Compact \/ CheckExpired
    BY <1>2, <1>5 DEF Compact, CheckExpired
  <1>6. CASE SaveTurn
    BY <1>2, <1>6 DEF SaveTurn
  <1>7. ASSUME NEW p \in {"turn", "back"}, Consolidate(p) PROVE RowsInv'
    <2>1. GotValue \in Value /\ p \in Queued
      BY GotObject DEF Queued
    <2>2. chunk' \in Seq(Nat) /\ rest' \in Value
      BY <1>7, <2>1, StayRows DEF Consolidate
    <2> QED BY <1>7, <2>2 DEF Consolidate, RowsInv
  <1>8. ASSUME NEW p \in {"turn", "back"}, Consolidated(p) PROVE RowsInv'
    <2>1. p \in Queued /\ lock # None
      BY <1>8, NotNone DEF Consolidated, LineInv, Queued, Party
    <2>2. Advanced(obj[inner]) \in Value
      BY <2>1, InnerValue DEF Advanced, Value, RowsInv
    <2>3. chunk' \in Seq(Nat) /\ rest' \in Value
      BY <1>8, <2>1, <2>2, StayRows DEF Consolidated
    <2> QED BY <1>1, <1>8, <2>3 DEF Consolidated, RowsInv
  <1>9. CASE CompactIdle
    <2> DEFINE tail == Unconsolidated(Load)
               kept(cut) == [rows |-> SubSeq(tail, cut + 1, Len(tail)), lc |-> 0]
    <2>1. PICK cut \in 0 .. Len(tail) :
             /\ kept(cut) \in Value
             /\ Release("idle") \/ Enter("idle", Fresh, SubSeq(tail, 1, cut), kept(cut))
      BY <1>9, CompactIdleCases
    <2>2. tail \in Seq(Nat)
      BY <1>9, CompactIdleCases
    <2> HIDE DEF tail
    <2>3. SubSeq(tail, 1, cut) \in Seq(Nat)
      BY <2>2, SubRows
    <2> HIDE DEF kept
    <2> QED BY <1>1, <1>9, <2>1, <2>3 DEF CompactIdle, RowsInv, Release, Enter
  <1>10. CASE Compacted
    BY <1>1, <1>10 DEF Compacted, Release, RowsInv
  <1>11. CASE Stop
    BY <1>1, <1>11 DEF Stop, LeaveLock, RowsInv
  <1>12. CASE New
    <2>1. Unconsolidated(GotValue) \in Seq(Nat)
      BY GotObject, LiveRows
    <2> QED BY <1>12, <2>1 DEF New, RowsInv
  <1>13. CASE NewArchived
    BY <1>1, <1>13 DEF NewArchived, section, RowsInv
  <1>14. CASE Crash
    BY <1>1, <1>14 DEF Crash, RowsInv
  <1> QED
    BY <1>3, <1>4, <1>5, <1>6, <1>7, <1>8, <1>9, <1>10, <1>11, <1>12, <1>13, <1>14
       DEF Next, LockStep

-----------------------------------------------------------------------------
(* What happens to the messages that are kept *)

\* One is appended.
LEMMA AppendKept ==
    ASSUME NEW f \in Value, NEW rows, NEW counts, NEW again,
           written \in Nat, written < MaxRows, Kept(f, rows, counts, again, written)
    PROVE  Kept(WithRow(f), rows, counts, again, written + 1)
  <1> DEFINE g == WithRow(f)
             n == written + 1
  <1>1. g \in Value /\ g.rows = Append(f.rows, n) /\ g.lc = f.lc
    BY RowValue
  <1>2. /\ f.rows \in Seq(Nat) /\ f.lc \in Nat /\ Len(f.rows) \in Nat /\ n \in Nat
        /\ f.lc <= Len(f.rows) /\ f.lc + 1 \in 1 .. Len(f.rows) + 1
        /\ n \in 1 .. MaxRows /\ n > written
    BY LenProperties, MemoryAssumption DEF Value, Kept
  <1>3. n \notin Range(f.rows) /\ n \notin Range(rows)
    BY <1>2 DEF Kept
  <1>4. /\ Len(g.rows) = Len(f.rows) + 1
        /\ Range(g.rows) = Range(f.rows) \cup {n}
        /\ Stretch(g.rows, f.lc + 1, Len(f.rows) + 1) =
             Stretch(f.rows, f.lc + 1, Len(f.rows)) \cup {n}
        /\ IsInjective(g.rows)
    <2> HIDE DEF g, n
    <2>1. IsInjective(f.rows)
      BY DEF Kept
    <2>2. \A a \in 1 .. Len(f.rows) + 1 :
             Stretch(Append(f.rows, n), a, Len(f.rows) + 1) =
               Stretch(f.rows, a, Len(f.rows)) \cup {n}
      BY <1>2, AppendRows
    <2>3. /\ Len(Append(f.rows, n)) = Len(f.rows) + 1
          /\ Range(Append(f.rows, n)) = Range(f.rows) \cup {n}
          /\ IsInjective(Append(f.rows, n))
      <3>1. 1 \in 1 .. Len(f.rows) + 1
        BY <1>2
      <3> QED BY <1>2, <1>3, <2>1, <3>1, AppendRows
    <2> QED BY <1>1, <1>2, <2>2, <2>3
  <1>5. Live(g) = Live(f) \cup {n}
    BY <1>1, <1>4, LiveRows
  <1>6. Waiting(g, rows) = Waiting(f, rows) \cup {n} /\ n \notin Waiting(f, rows)
    BY <1>3, <1>5, LiveRows DEF Waiting
  <1> HIDE DEF g, n
  <1>7. \A r \in 1 .. n : r = n \/ r \in 1 .. written
    BY <1>2 DEF n
  <1>8. counts[n] = 0
    BY <1>2 DEF Kept
  <1>9. \A r \in 1 .. n : r \in Waiting(g, rows) \/ counts[r] > 0
    BY <1>6, <1>7 DEF Kept
  <1>10. ASSUME NEW r \in 1 .. n, r \notin again
         PROVE  counts[r] <= 1 /\ (r \in Waiting(g, rows) => counts[r] = 0)
    BY <1>6, <1>7, <1>8, <1>10 DEF Kept
  <1>11. \A r \in 1 .. MaxRows : r > n => counts[r] = 0
    BY <1>2 DEF Kept, n
  <1>12. /\ Range(g.rows) \subseteq 1 .. n /\ Range(rows) \subseteq 1 .. n
         /\ Range(rows) \cap Range(g.rows) = {}
    BY <1>2, <1>3, <1>4 DEF Kept, n
  <1>13. g.lc <= Len(g.rows)
    BY <1>1, <1>2, <1>4
  <1> QED BY <1>4, <1>9, <1>10, <1>11, <1>12, <1>13 DEF Kept, g, n

\* Some are archived; the others stay, in the file or on their way.
LEMMA ArchiveKept ==
    ASSUME RowsInv, NEW f \in Value, NEW g, NEW rows, NEW left, NEW gone,
           NEW n \in 0 .. MaxRows, Kept(f, rows, history, redone, n),
           g.lc <= Len(g.rows), IsInjective(g.rows), Range(g.rows) \subseteq Range(f.rows),
           Range(left) \subseteq 1 .. n, Range(left) \cap Range(g.rows) = {},
           Range(gone) \subseteq Waiting(f, rows),
           Waiting(g, left) = Waiting(f, rows) \ Range(gone)
    PROVE  Kept(g, left, Archived(gone), redone, n)
  <1> DEFINE counts == Archived(gone)
  <1>1. \A r \in 1 .. MaxRows : counts[r] =
           IF r \in Range(gone) THEN (IF history[r] = 0 THEN 1 ELSE 2) ELSE history[r]
    BY ArchivedCounts
  <1>2. \A r \in 1 .. n : r \in 1 .. MaxRows /\ history[r] \in 0 .. 2
    BY MemoryAssumption DEF RowsInv
  <1> HIDE DEF counts
  <1>3. \A r \in 1 .. n : r \in Waiting(g, left) \/ counts[r] > 0
    BY <1>1, <1>2 DEF Kept
  <1>4. ASSUME NEW r \in 1 .. n, r \notin redone
        PROVE  counts[r] <= 1 /\ (r \in Waiting(g, left) => counts[r] = 0)
    BY <1>1, <1>2, <1>4 DEF Kept
  <1>5. ASSUME NEW r \in 1 .. MaxRows, r > n PROVE counts[r] = 0
    <2>1. r \notin Range(gone)
      <3>1. Live(f) \cup Range(rows) \subseteq 1 .. n
        BY LiveRows DEF Kept
      <3> QED BY <1>5, <3>1, MemoryAssumption DEF Waiting
    <2> QED BY <1>1, <1>5, <2>1 DEF Kept
  <1>6. Range(g.rows) \subseteq 1 .. n
    BY DEF Kept
  <1> QED BY <1>3, <1>4, <1>5, <1>6 DEF Kept, counts

\* A crash in the lock: archived, and not marked so.
LEMMA RedoKept ==
    ASSUME RowsInv, written \in 0 .. MaxRows, FileInv, NEW gone,
           Range(gone) \subseteq 1 .. written
    PROVE  Kept(file, snapshot, Archived(gone), redone \cup Range(gone), written)
  <1> DEFINE counts == Archived(gone)
             again == redone \cup Range(gone)
  <1>1. \A r \in 1 .. MaxRows : counts[r] =
           IF r \in Range(gone) THEN (IF history[r] = 0 THEN 1 ELSE 2) ELSE history[r]
    BY ArchivedCounts
  <1>2. \A r \in 1 .. written : r \in 1 .. MaxRows /\ history[r] \in 0 .. 2
    BY MemoryAssumption DEF RowsInv
  <1>3. \A r \in 1 .. MaxRows : r > written => r \notin Range(gone)
    BY MemoryAssumption
  <1> HIDE DEF counts
  <1>4. \A r \in 1 .. written : r \in Waiting(file, snapshot) \/ counts[r] > 0
    BY <1>1, <1>2 DEF FileInv, Kept
  <1>5. \A r \in 1 .. written : r \notin again =>
           counts[r] <= 1 /\ (r \in Waiting(file, snapshot) => counts[r] = 0)
    BY <1>1, <1>2 DEF FileInv, Kept
  <1>6. \A r \in 1 .. MaxRows : r > written => counts[r] = 0
    BY <1>1, <1>3 DEF FileInv, Kept
  <1> QED BY <1>4, <1>5, <1>6 DEF FileInv, Kept, counts

Rest == UNCHANGED <<snapshot, history, redone, written>>

\* What the cache has, or would load, is what the file has.
LEMMA GotFile ==
    ASSUME ObjectInv, FileInv, CacheInv
    PROVE  GotValue = file /\ Load = file
  <1>1. file.lc <= Len(file.rows)
    BY DEF FileInv, Kept
  <1>2. Load = file
    BY <1>1 DEF Load, ObjectInv, Value
  <1> QED BY <1>2, GotObject DEF CacheInv

LEMMA FetchMemory ==
    ASSUME ObjectInv, FileInv, CacheInv, Fetch, inner' \in {inner, Got, None}, Rest
    PROVE  FileInv' /\ CacheInv'
  <1>1. GotValue = file /\ Got \in Object /\ Got # None
        /\ (cache # None => Got = cache)
    BY GotFile, GotObject, NotNone
  <1>2. cache' = Got /\ Keeping(Got, GotValue) /\ file' = file
    BY DEF Fetch
  <1>3. obj'[Got] = file
    BY <1>1, <1>2 DEF Keeping
  <1>4. FileInv'
    BY <1>2 DEF FileInv, Kept, Rest, Waiting, Live, Unconsolidated
  <1>5. CacheInv'
    BY <1>1, <1>2, <1>3 DEF CacheInv
  <1> QED BY <1>4, <1>5

\* Nothing of it is touched.
LEMMA SameChunk ==
    ASSUME ChunkInv, UNCHANGED file, lock' \in {lock, None},
           lock' # None => UNCHANGED <<chunk, rest>>
    PROVE  ChunkInv'
  BY NotNone DEF ChunkInv, Live, Unconsolidated, Party

\* Save puts the object into the cache with what the file has.
LEMMA SaveCache ==
    ASSUME CacheInv, NEW o \in Object, NEW v, Save(o, v), inner' \in {o, None}
    PROVE  CacheInv'
  <1>1. cache' = o /\ o # None /\ file' = v /\ Keeping(o, v)
    BY NotNone DEF Save
  <1>2. obj'[o] = v
    BY <1>1 DEF Keeping
  <1> QED BY <1>1, <1>2 DEF CacheInv

\* Whoever saves without going around the lock has the object of the cache.
LEMMA OwnObject ==
    ASSUME CacheInv, NEW p \in Party, NEW o \in Object, ~Around(p, o),
           o \in {held, inner, Got}
    PROVE  /\ o = Got /\ (cache # None => cache = o)
           /\ inner \in {o, None}
           /\ o \in {held, inner} => obj[o] = file
           /\ lock = "idle" /\ LineInv => p = "idle"
  BY NotNone DEF CacheInv, Around, Got, LineInv, Queued

LEMMA RowMemory ==
    ASSUME ObjectInv, LineInv, RowsInv, MemoryInv, NEW o \in Object, ~Around("turn", o),
           o \in {held, inner, Got}, written < MaxRows, written' = written + 1,
           Save(o, WithRow(file)), inner' \in {inner, None}, lock' \in {lock, None},
           lock' # None => UNCHANGED <<chunk, rest>>, UNCHANGED <<snapshot, history, redone>>
    PROVE  MemoryInv'
  <1>1. /\ inner \in {o, None} /\ lock # "idle"
        /\ file \in Value /\ written \in Nat
    BY OwnObject, WrittenNat DEF MemoryInv, ObjectInv, TypeOK, Party
  <1>2. Kept(WithRow(file), snapshot, history, redone, written + 1)
    BY <1>1, AppendKept DEF MemoryInv, FileInv
  <1>3. FileInv'
    BY <1>2 DEF FileInv, Save, Kept, Waiting, Live, Unconsolidated
  <1>4. CacheInv'
    BY <1>1, SaveCache DEF MemoryInv
  <1>5. ChunkInv'
    <2>1. file' = WithRow(file) /\ file'.lc = file.lc
          /\ file'.rows = Append(file.rows, written + 1)
      BY <1>1, RowValue DEF Save
    <2>2. file.rows \in Seq(Nat) /\ file.lc \in Nat /\ Len(file.rows) \in Nat
          /\ written + 1 \in Nat
      BY <1>1, LenProperties DEF Value
    <2>3. lock' # "idle"
      BY <1>1, NotNone DEF Party
    <2>4. ASSUME lock' \in {"turn", "back"}
          PROVE  /\ rest'.lc \in file'.lc + 1 .. Len(file'.rows)
                 /\ chunk' = SubSeq(file'.rows, file'.lc + 1, rest'.lc)
      <3>1. /\ rest.lc \in file.lc + 1 .. Len(file.rows)
            /\ chunk = SubSeq(file.rows, file.lc + 1, rest.lc)
            /\ UNCHANGED <<chunk, rest>>
        BY <2>4, NotNone DEF MemoryInv, ChunkInv, Party
      <3>2. Len(file'.rows) = Len(file.rows) + 1
        BY <2>1, <2>2, AppendProperties
      <3>3. file.lc + 1 \in 1 .. Len(file.rows) + 1 /\ rest.lc \in 0 .. Len(file.rows)
        BY <2>2, <3>1
      <3>4. \A a \in 1 .. Len(file.rows) + 1, b \in 0 .. Len(file.rows) :
               SubSeq(Append(file.rows, written + 1), a, b) = SubSeq(file.rows, a, b)
        BY <2>2, AppendRows
      <3>5. chunk' = SubSeq(file'.rows, file'.lc + 1, rest'.lc)
        BY <2>1, <3>1, <3>3, <3>4
      <3>6. rest'.lc \in file'.lc + 1 .. Len(file'.rows)
        BY <2>1, <2>2, <3>1, <3>2
      <3> QED BY <3>5, <3>6
    <2> QED BY <2>3, <2>4 DEF ChunkInv
  <1> QED BY <1>3, <1>4, <1>5 DEF MemoryInv

Memory == ~around => MemoryInv

\* The turn fetches its session, and writes to it.
LEMMA TurnMemory ==
    ASSUME ObjectInv, LineInv, RowsInv, Memory, ~around',
           \/ \E d \in BOOLEAN : Begin(d)
           \/ RestoreRow \/ Compact \/ Shortcut \/ Persist \/ Checkpoint \/ CheckExpired
    PROVE  MemoryInv'
  <1>1. ASSUME MemoryInv, Fetch, UNCHANGED <<lock, chunk, rest, inner>>, Rest
        PROVE  MemoryInv'
    <2>1. FileInv' /\ CacheInv'
      BY <1>1, FetchMemory DEF MemoryInv
    <2>2. ChunkInv'
      BY <1>1, SameChunk DEF MemoryInv, Fetch
    <2> QED BY <2>1, <2>2 DEF MemoryInv
  <1>2. ASSUME pc["turn"] # "off", Writes(WithRow(obj[held])), OutsideTurn
        PROVE  MemoryInv'
    <2>1. ~Around("turn", held) /\ ~around /\ MemoryInv
      BY <1>2 DEF Writes, Around, Memory
    <2>2. held \in Object /\ "turn" \in Party
      BY <1>2, HeldValue DEF Party
    <2>3. obj[held] = file
      BY <2>1, <2>2, OwnObject DEF MemoryInv
    <2> QED BY <1>2, <2>1, <2>2, <2>3, RowMemory DEF Writes, OutsideTurn, section
  <1>3. ASSUME NEW d \in BOOLEAN, Begin(d) PROVE MemoryInv'
    BY <1>1, <1>3 DEF Begin, section, Rest, Memory
  <1>4. CASE RestoreRow
    BY <1>2, <1>4 DEF RestoreRow
  <1>5. CASE Compact
    <2>1. MemoryInv /\ Rest /\ UNCHANGED <<lock, chunk, rest, inner>>
      BY <1>5 DEF Compact, Rest, Memory
    <2>2. CASE Fetch
      BY <1>1, <2>1, <2>2
    <2>3. CASE UNCHANGED <<held, objects>>
      BY <2>1, <2>3 DEF objects, Rest, MemoryInv, FileInv, CacheInv, ChunkInv, Kept,
           Waiting, Live, Unconsolidated
    <2> QED BY <1>5, <2>2, <2>3 DEF Compact
  <1>6. CASE Shortcut
    BY <1>2, <1>6 DEF Shortcut
  <1>7. CASE Persist
    BY <1>2, <1>7 DEF Persist
  <1>8. CASE Checkpoint
    <2>1. /\ ~Around("turn", held) /\ ~around /\ MemoryInv
          /\ Save(held, obj[held]) /\ UNCHANGED <<inner, written, lock, chunk, rest>>
          /\ UNCHANGED <<snapshot, history, redone>>
      BY <1>8 DEF Checkpoint, Around, Memory, OutsideTurn, section
    <2>2. held \in Object /\ "turn" \in Party
      BY <1>8, HeldValue DEF Checkpoint, Party
    <2>3. obj[held] = file /\ inner \in {held, None}
      BY <2>1, <2>2, OwnObject DEF MemoryInv
    <2>4. file' = file
      BY <2>1, <2>3 DEF Save
    <2>5. FileInv'
      BY <2>1, <2>4 DEF MemoryInv, FileInv, Kept, Waiting, Live, Unconsolidated
    <2>6. CacheInv'
      BY <2>1, <2>2, <2>3, SaveCache DEF MemoryInv
    <2>7. ChunkInv'
      BY <2>1, <2>4, SameChunk DEF MemoryInv
    <2> QED BY <2>5, <2>6, <2>7 DEF MemoryInv
  <1>9. CASE CheckExpired
    BY <1>1, <1>9 DEF CheckExpired, Rest, Memory
  <1> QED BY <1>3, <1>4, <1>5, <1>6, <1>7, <1>8, <1>9

\* A turn is saved under the cap: what of it is dropped was archived.
LEMMA SaveTurnMemory ==
    ASSUME ObjectInv, LineInv, RowsInv, Memory, ~around', SaveTurn
    PROVE  MemoryInv'
  <1> DEFINE v == WithRow(file)
  <1>1. pc["turn"] = "run" /\ held \in Object /\ "turn" \in Party
    BY HeldValue DEF SaveTurn, Party
  <1>2. PICK s \in Stretches(WithRow(obj[held])) :
           /\ Writes(Capped(WithRow(obj[held]), s))
           /\ history' = Archived(Dropped(WithRow(obj[held]), s))
    BY DEF SaveTurn
  <1>3. ~Around("turn", held) /\ MemoryInv
    BY <1>2 DEF Writes, Around, Memory
  <1>4. obj[held] = file /\ inner \in {held, None} /\ lock # "idle"
    BY <1>1, <1>3, OwnObject DEF MemoryInv, Party
  <1>5. /\ s \in Stretches(v) /\ Save(held, Capped(v, s))
        /\ history' = Archived(Dropped(v, s)) /\ inner' = inner
        /\ written < MaxRows /\ written' = written + 1
        /\ UNCHANGED <<lock, snapshot, redone>>
    BY <1>2, <1>4 DEF SaveTurn, Writes
  <1>6. file \in Value /\ written \in Nat /\ written + 1 \in 0 .. MaxRows
    BY <1>5, WrittenNat, MemoryAssumption DEF ObjectInv, TypeOK
  <1>7. v \in Value /\ v.rows # <<>>
    BY <1>6, RowValue
  <1>8. Kept(v, snapshot, history, redone, written + 1)
    BY <1>3, <1>5, <1>6, AppendKept DEF MemoryInv, FileInv
  <1> HIDE DEF v
  <1>9. v.lc <= Len(v.rows) /\ IsInjective(v.rows)
    BY <1>8 DEF Kept
  <1>10. /\ Capped(v, s).lc <= Len(Capped(v, s).rows)
         /\ IsInjective(Capped(v, s).rows)
         /\ Range(Capped(v, s).rows) \subseteq Range(v.rows)
         /\ Range(Dropped(v, s)) \subseteq Live(v)
         /\ Live(Capped(v, s)) = Live(v) \ Range(Dropped(v, s))
    BY <1>5, <1>7, <1>9, CappedRows
  <1>11. /\ Range(snapshot) \subseteq 1 .. written + 1
         /\ Range(snapshot) \cap Range(v.rows) = {}
         /\ Live(v) \subseteq Range(v.rows)
    BY <1>7, <1>8, LiveRows DEF Kept
  <1>12. Waiting(Capped(v, s), snapshot) = Waiting(v, snapshot) \ Range(Dropped(v, s))
    BY <1>10, <1>11 DEF Waiting
  <1>13. Kept(Capped(v, s), snapshot, Archived(Dropped(v, s)), redone, written + 1)
    <2>1. /\ Range(Dropped(v, s)) \subseteq Waiting(v, snapshot)
          /\ Range(snapshot) \cap Range(Capped(v, s).rows) = {}
      BY <1>10, <1>11 DEF Waiting
    <2> QED BY <1>6, <1>7, <1>8, <1>10, <1>11, <1>12, <2>1, ArchiveKept
  <1>14. FileInv'
    BY <1>5, <1>13 DEF FileInv, Save, Kept, Waiting, Live, Unconsolidated
  <1>15. CacheInv'
    BY <1>1, <1>3, <1>4, <1>5, SaveCache DEF MemoryInv
  <1>16. ChunkInv'
    <2>1. lock \notin {"turn", "back", "idle"}
      BY <1>1, <1>4 DEF LineInv, Queued
    <2> QED BY <1>5, <2>1 DEF ChunkInv
  <1> QED BY <1>14, <1>15, <1>16 DEF MemoryInv

\* A chunk is taken from what the file has from the offset on.
LEMMA TakeChunk ==
    ASSUME NEW v \in Value, file' = v, NEW p \in {"turn", "back"}, NEW o,
           ConsolidateOrLeave(p, o, v)
    PROVE  ChunkInv' /\ inner' \in {o, None}
  <1>1. ASSUME NEW end \in v.lc + 1 .. Len(v.rows),
               Enter(p, o, SubSeq(v.rows, v.lc + 1, end), [v EXCEPT !.lc = end])
        PROVE  ChunkInv' /\ inner' \in {o, None}
    <2>1. /\ chunk' = SubSeq(v.rows, v.lc + 1, end) /\ lock' = p /\ inner' = o
          /\ rest' = [v EXCEPT !.lc = end]
      BY <1>1 DEF Enter
    <2>2. rest'.lc = end
      BY <2>1 DEF Value
    <2> QED BY <2>1, <2>2 DEF ChunkInv
  <1>2. CASE Release(p)
    BY <1>2, NotNone DEF Release, ChunkInv, Party
  <1> QED BY <1>1, <1>2 DEF ConsolidateOrLeave

LEMMA ChunkRows ==
    ASSUME ObjectInv, RowsInv, ChunkInv, lock \in Queued
    PROVE  Range(chunk) \subseteq Live(file)
  <1>1. CASE lock = "idle"
    BY <1>1 DEF ChunkInv
  <1>2. CASE lock \in {"turn", "back"}
    <2>1. /\ file \in Value /\ file.rows \in Seq(Nat) /\ file.lc \in Nat
          /\ Len(file.rows) \in Nat
      BY LenProperties DEF ObjectInv, Value
    <2>2. /\ rest.lc \in file.lc + 1 .. Len(file.rows)
          /\ chunk = SubSeq(file.rows, file.lc + 1, rest.lc)
      BY <1>2 DEF ChunkInv
    <2>3. file.lc + 1 \in Nat \ {0} /\ rest.lc \in 0 .. Len(file.rows)
      BY <2>1, <2>2
    <2>4. Range(chunk) = Stretch(file.rows, file.lc + 1, rest.lc)
      BY <2>1, <2>2, <2>3, SubRows
    <2>5. Live(file) = Stretch(file.rows, file.lc + 1, Len(file.rows))
      BY <2>1, LiveRows
    <2>6. \A i \in file.lc + 1 .. rest.lc : i \in file.lc + 1 .. Len(file.rows)
      BY <2>1, <2>2
    <2> QED BY <2>4, <2>5, <2>6 DEF Stretch
  <1> QED BY <1>1, <1>2 DEF Queued

\* The offset moves over the chunk: it is not live any more, the others are.
LEMMA AdvancedRows ==
    ASSUME ObjectInv, RowsInv, FileInv, ChunkInv, lock \in {"turn", "back"}
    PROVE  /\ Advanced(file) \in Value /\ Advanced(file).rows = file.rows
           /\ Advanced(file).lc <= Len(file.rows)
           /\ Live(Advanced(file)) = Live(file) \ Range(chunk)
  <1> DEFINE g == Advanced(file)
             rows == file.rows
             n == Len(rows)
             a == file.lc
             b == rest.lc
  <1>1. /\ file \in Value /\ rows \in Seq(Nat) /\ a \in Nat /\ n \in Nat /\ b \in Nat
        /\ DOMAIN rows = 1 .. n
    BY LenProperties DEF ObjectInv, RowsInv, Value
  <1>2. b \in a + 1 .. n /\ chunk = SubSeq(rows, a + 1, b)
    BY DEF ChunkInv
  <1>3. g \in Value /\ g.rows = rows /\ g.lc = b
    BY <1>1 DEF Advanced, Value
  <1>4. IsInjective(rows)
    BY DEF FileInv, Kept
  <1>5. Live(g) = Stretch(rows, b + 1, n) /\ Live(file) = Stretch(rows, a + 1, n)
    BY <1>1, <1>3, LiveRows
  <1>6. Range(chunk) = Stretch(rows, a + 1, b)
    <2>1. a + 1 \in Nat \ {0} /\ b \in 0 .. n
      BY <1>1, <1>2
    <2> HIDE DEF a, b
    <2> QED BY <1>1, <1>2, <2>1, SubRows
  <1> HIDE DEF g, rows, n, a, b
  <1>7. ASSUME NEW x \in Live(g) PROVE x \in Live(file) \ Range(chunk)
    <2>1. PICK i \in b + 1 .. n : x = rows[i]
      BY <1>5, <1>7 DEF Stretch
    <2>2. i \in a + 1 .. n /\ i \in 1 .. n
      BY <1>1, <1>2
    <2>3. \A j \in a + 1 .. b : j \in 1 .. n /\ j # i
      BY <1>1, <1>2
    <2>4. \A j \in a + 1 .. b : rows[j] # x
      BY <1>1, <1>4, <2>1, <2>2, <2>3 DEF IsInjective
    <2>5. x \in Live(file)
      BY <1>5, <2>1, <2>2 DEF Stretch
    <2> QED BY <1>6, <2>4, <2>5 DEF Stretch
  <1>8. ASSUME NEW x \in Live(file) \ Range(chunk) PROVE x \in Live(g)
    <2>1. PICK i \in a + 1 .. n : x = rows[i]
      BY <1>5, <1>8 DEF Stretch
    <2>2. i \notin a + 1 .. b
      BY <1>6, <1>8, <2>1 DEF Stretch
    <2>3. i \in b + 1 .. n
      BY <1>1, <1>2, <2>2
    <2> QED BY <1>5, <2>1, <2>3 DEF Stretch
  <1>9. g.lc <= n
    BY <1>1, <1>2, <1>3
  <1> QED BY <1>3, <1>7, <1>8, <1>9 DEF g, rows, n

LEMMA ConsolidateMemory ==
    ASSUME ObjectInv, LineInv, RowsInv, Memory, ~around',
           NEW p \in {"turn", "back"}, Consolidate(p) \/ Consolidated(p)
    PROVE  MemoryInv'
  <1>1. CASE Consolidate(p)
    <2>1. MemoryInv /\ Fetch /\ Rest /\ ConsolidateOrLeave(p, Got, GotValue)
      BY <1>1 DEF Consolidate, Rest, Memory
    <2>2. GotValue = file /\ file \in Value /\ file' = file
      BY <2>1, GotFile DEF MemoryInv, Fetch, ObjectInv
    <2>3. ChunkInv' /\ inner' \in {Got, None}
      BY <2>1, <2>2, TakeChunk
    <2>4. FileInv' /\ CacheInv'
      BY <2>1, <2>3, FetchMemory DEF MemoryInv
    <2> QED BY <2>3, <2>4 DEF MemoryInv
  <1>2. CASE Consolidated(p)
    <2>1. /\ ~Around(p, inner) /\ MemoryInv
          /\ history' = Archived(chunk)
          /\ ConsolidateOrLeave(p, inner, Advanced(obj[inner]))
          /\ Save(inner, Advanced(obj[inner]))
          /\ UNCHANGED <<snapshot, redone, written>>
      BY <1>2 DEF Consolidated, Around, Memory
    <2>2. lock = p /\ p \in Queued /\ p \in Party /\ lock # None
      BY <1>2, NotNone DEF Consolidated, LineInv, Queued, Party
    <2>3. inner \in Object
      BY <2>2, InnerValue
    <2>4. obj[inner] = file
      BY <2>1, <2>2, <2>3, OwnObject DEF MemoryInv
    <2> DEFINE g == Advanced(file)
    <2>5. /\ g \in Value /\ g.rows = file.rows /\ g.lc <= Len(file.rows)
          /\ Live(g) = Live(file) \ Range(chunk)
      BY <2>1, <2>2, AdvancedRows DEF MemoryInv
    <2>6. Save(inner, g) /\ ConsolidateOrLeave(p, inner, g) /\ file' = g
      BY <2>1, <2>4 DEF Save
    <2> HIDE DEF g
    <2>7. ChunkInv' /\ inner' \in {inner, None}
      BY <2>5, <2>6, TakeChunk
    <2>8. CacheInv'
      BY <2>1, <2>3, <2>6, <2>7, SaveCache DEF MemoryInv
    <2>9. FileInv'
      <3>1. Range(chunk) \subseteq Live(file) /\ Live(file) \subseteq Range(file.rows)
        BY <2>1, <2>2, ChunkRows, LiveRows DEF MemoryInv, ObjectInv
      <3>2. /\ IsInjective(file.rows) /\ Range(snapshot) \subseteq 1 .. written
            /\ Range(snapshot) \cap Range(file.rows) = {}
            /\ Kept(file, snapshot, history, redone, written)
        BY <2>1 DEF MemoryInv, FileInv, Kept
      <3>3. /\ Waiting(g, snapshot) = Waiting(file, snapshot) \ Range(chunk)
            /\ Range(chunk) \subseteq Waiting(file, snapshot)
        BY <2>5, <3>1, <3>2 DEF Waiting
      <3>4. written \in 0 .. MaxRows /\ file \in Value
        BY DEF ObjectInv, TypeOK
      <3>5. Kept(g, snapshot, Archived(chunk), redone, written)
        BY <2>5, <3>2, <3>3, <3>4, ArchiveKept
      <3> QED BY <2>1, <2>6, <3>5 DEF FileInv, Kept, Waiting, Live, Unconsolidated
    <2> QED BY <2>7, <2>8, <2>9 DEF MemoryInv
  <1> QED BY <1>1, <1>2

\* A session of which nothing is consolidated.
LEMMA WholeLive ==
    ASSUME NEW v \in Value, v.lc = 0
    PROVE  Live(v) = Range(v.rows)
  <1>1. v.rows \in Seq(Nat) /\ DOMAIN v.rows = 1 .. Len(v.rows) /\ 0 + 1 = 1
    BY LenProperties DEF Value
  <1>2. Live(v) = Stretch(v.rows, 1, Len(v.rows))
    BY <1>1, LiveRows
  <1> QED BY <1>1, <1>2 DEF Stretch, Range

\* Cutting a list in two.
LEMMA CutRows ==
    ASSUME NEW tail \in Seq(Nat), IsInjective(tail), NEW cut \in 0 .. Len(tail)
    PROVE  LET first == SubSeq(tail, 1, cut)
               last == SubSeq(tail, cut + 1, Len(tail))
           IN  /\ Range(first) \cup Range(last) = Range(tail)
               /\ Range(first) \cap Range(last) = {}
               /\ last \in Seq(Nat) /\ IsInjective(last)
  <1> DEFINE n == Len(tail)
             first == SubSeq(tail, 1, cut)
             last == SubSeq(tail, cut + 1, n)
  <1>1. /\ n \in Nat /\ DOMAIN tail = 1 .. n /\ cut \in Nat /\ cut <= n
        /\ 1 \in Nat \ {0} /\ cut + 1 \in Nat \ {0} /\ n \in 0 .. n
    BY LenProperties
  <1>2. Range(first) = Stretch(tail, 1, cut)
    BY <1>1, SubRows
  <1>3. Range(last) = Stretch(tail, cut + 1, n) /\ last \in Seq(Nat) /\ IsInjective(last)
    BY <1>1, SubRows
  <1> HIDE DEF first, last, n
  <1>4. ASSUME NEW x PROVE x \in Range(first) \cup Range(last) <=> x \in Range(tail)
    <2>1. \A i \in 1 .. n : i \in 1 .. cut \/ i \in cut + 1 .. n
      BY <1>1
    <2>2. \A i \in 1 .. cut : i \in 1 .. n
      BY <1>1
    <2>3. \A i \in cut + 1 .. n : i \in 1 .. n
      BY <1>1
    <2> QED BY <1>1, <1>2, <1>3, <2>1, <2>2, <2>3 DEF Stretch, Range
  <1>5. ASSUME NEW i \in 1 .. cut, NEW j \in cut + 1 .. n PROVE tail[i] # tail[j]
    <2>1. i \in 1 .. n /\ j \in 1 .. n /\ i # j
      BY <1>1
    <2> QED BY <1>1, <2>1 DEF IsInjective
  <1>6. Range(first) \cap Range(last) = {}
    BY <1>2, <1>3, <1>5 DEF Stretch
  <1> QED BY <1>3, <1>4, <1>6 DEF first, last, n

LEMMA CompactIdleMemory ==
    ASSUME ObjectInv, LineInv, RowsInv, Memory, ~around', CompactIdle
    PROVE  MemoryInv'
  <1> DEFINE tail == Unconsolidated(Load)
             kept(cut) == [rows |-> SubSeq(tail, cut + 1, Len(tail)), lc |-> 0]
  <1>1. MemoryInv /\ Rest
    BY DEF CompactIdle, Rest, Memory
  <1>2. /\ Load = file /\ file \in Value
        /\ Fresh \in Object /\ Fresh # None
    BY <1>1, GotFile, FreshObject, NotNone DEF MemoryInv, ObjectInv
  <1>3. /\ Range(tail) = Live(file) /\ Live(file) \subseteq Range(file.rows)
        /\ tail \in Seq(Nat) /\ IsInjective(tail)
    <2>1. IsInjective(file.rows)
      BY <1>1 DEF MemoryInv, FileInv, Kept
    <2> QED BY <1>2, <2>1, LiveRows DEF Live
  <1>4. PICK cut \in 0 .. Len(tail) :
           /\ kept(cut) \in Value
           /\ \/ /\ cut = 0 /\ Release("idle")
                 /\ Save(Fresh, IF tail = <<>> THEN Load ELSE kept(0))
              \/ /\ cut > 0
                 /\ Enter("idle", Fresh, SubSeq(tail, 1, cut), kept(cut))
                 /\ cache' = Fresh /\ Keeping(Fresh, Load) /\ UNCHANGED file
    BY CompactIdleCases
  <1> HIDE DEF tail
  <1>5. CASE cut = 0 /\ Release("idle") /\ Save(Fresh, IF tail = <<>> THEN Load ELSE kept(0))
    <2>1. inner' = None /\ lock' = None
      BY <1>5 DEF Release
    <2>2. CacheInv'
      BY <1>1, <1>2, <1>5, <2>1, SaveCache DEF MemoryInv
    <2>3. ChunkInv'
      BY <2>1, NotNone DEF ChunkInv, Party
    <2>4. FileInv'
      <3>1. CASE tail = <<>>
        <4>1. file' = file
          BY <1>2, <1>5, <3>1 DEF Save
        <4> QED
          BY <1>1, <4>1 DEF Rest, MemoryInv, FileInv, Kept, Waiting, Live, Unconsolidated
      <3>2. CASE tail # <<>>
        <4> DEFINE g == kept(0)
        <4>1. /\ g \in Value /\ g.lc = 0 /\ file' = g /\ Len(tail) \in Nat
              /\ g.rows = SubSeq(tail, 0 + 1, Len(tail)) /\ 0 + 1 = 1
          BY <1>3, <1>4, <1>5, <3>2, LenProperties DEF Save
        <4>2. g.rows = tail
          BY <1>3, <4>1, SubSeqFull
        <4> HIDE DEF kept
        <4>3. Live(g) = Live(file)
          BY <1>3, <4>1, <4>2, WholeLive
        <4>4. g.lc <= Len(g.rows)
          BY <4>1, <4>2
        <4>5. /\ Kept(file, snapshot, history, redone, written)
              /\ Range(snapshot) \subseteq 1 .. written
              /\ Range(snapshot) \cap Range(file.rows) = {}
          BY <1>1 DEF MemoryInv, FileInv, Kept
        <4>6. Range(<<>>) = {}
          BY DEF Range
        <4>7. /\ Waiting(g, snapshot) = Waiting(file, snapshot) \ Range(<<>>)
              /\ Range(<<>>) \subseteq Waiting(file, snapshot)
              /\ Range(snapshot) \cap Range(g.rows) = {}
              /\ Range(g.rows) \subseteq Range(file.rows)
          BY <1>3, <4>2, <4>3, <4>5, <4>6 DEF Waiting
        <4>8. written \in 0 .. MaxRows /\ IsInjective(g.rows)
          BY <1>3, <4>2 DEF ObjectInv, TypeOK
        <4>9. Kept(g, snapshot, Archived(<<>>), redone, written)
          BY <1>2, <4>4, <4>5, <4>7, <4>8, ArchiveKept
        <4>10. Kept(g, snapshot, history, redone, written)
          BY <4>9, NothingArchived
        <4> QED BY <1>1, <4>1, <4>10
              DEF Rest, FileInv, Kept, Waiting, Live, Unconsolidated
      <3> QED BY <3>1, <3>2
    <2> QED BY <2>2, <2>3, <2>4 DEF MemoryInv
  <1>6. CASE /\ Enter("idle", Fresh, SubSeq(tail, 1, cut), kept(cut))
             /\ cache' = Fresh /\ Keeping(Fresh, Load) /\ UNCHANGED file
    <2>1. /\ inner' = Fresh /\ lock' = "idle" /\ chunk' = SubSeq(tail, 1, cut)
          /\ rest' = kept(cut)
      BY <1>6 DEF Enter
    <2>2. FileInv'
      BY <1>1, <1>6 DEF Rest, MemoryInv, FileInv, Kept, Waiting, Live, Unconsolidated
    <2>3. CacheInv'
      <3>1. obj'[Fresh] = Load
        BY <1>2, <1>6 DEF Keeping
      <3> QED BY <1>2, <1>6, <2>1, <3>1 DEF CacheInv
    <2>4. ChunkInv'
      <3>1. /\ Range(SubSeq(tail, 1, cut)) \cup Range(SubSeq(tail, cut + 1, Len(tail))) = Live(file)
            /\ Range(SubSeq(tail, 1, cut)) \cap Range(SubSeq(tail, cut + 1, Len(tail))) = {}
            /\ IsInjective(SubSeq(tail, cut + 1, Len(tail)))
        BY <1>3, CutRows
      <3>2. rest'.lc = 0 /\ rest'.rows = SubSeq(tail, cut + 1, Len(tail))
        BY <2>1
      <3>3. Live(file') = Live(file)
        BY <1>6
      <3> HIDE DEF kept
      <3> QED BY <2>1, <3>1, <3>2, <3>3 DEF ChunkInv, Live, Unconsolidated
    <2> QED BY <2>2, <2>3, <2>4 DEF MemoryInv
  <1> QED BY <1>4, <1>5, <1>6

LEMMA CompactedMemory ==
    ASSUME ObjectInv, LineInv, RowsInv, Memory, ~around', Compacted
    PROVE  MemoryInv'
  <1>1. /\ ~Around("idle", inner) /\ MemoryInv
        /\ history' = Archived(chunk) /\ Release("idle") /\ Save(inner, rest)
        /\ UNCHANGED <<snapshot, redone, written>>
    BY DEF Compacted, Around, Memory
  <1>2. lock = "idle" /\ lock # None /\ "idle" \in Party /\ "idle" \in Queued
    BY NotNone DEF Compacted, LineInv, Queued, Party
  <1>3. inner \in Object /\ inner' = None /\ lock' = None
    BY <1>1, <1>2, InnerValue DEF Release
  <1>4. /\ rest.lc = 0 /\ IsInjective(rest.rows) /\ rest \in Value
        /\ Range(chunk) \cup Range(rest.rows) = Live(file)
        /\ Range(chunk) \cap Range(rest.rows) = {}
    BY <1>1, <1>2 DEF MemoryInv, ChunkInv, RowsInv
  <1>5. CacheInv'
    BY <1>1, <1>3, SaveCache DEF MemoryInv
  <1>6. ChunkInv'
    BY <1>3, NotNone DEF ChunkInv, Party
  <1>7. FileInv'
    <2>1. Live(rest) = Range(rest.rows)
      BY <1>4, WholeLive
    <2>2. /\ file \in Value /\ Live(file) \subseteq Range(file.rows)
          /\ written \in 0 .. MaxRows
      BY LiveRows DEF ObjectInv, TypeOK
    <2>3. /\ Kept(file, snapshot, history, redone, written)
          /\ Range(snapshot) \subseteq 1 .. written
          /\ Range(snapshot) \cap Range(file.rows) = {}
      BY <1>1 DEF MemoryInv, FileInv, Kept
    <2>4. /\ Waiting(rest, snapshot) = Waiting(file, snapshot) \ Range(chunk)
          /\ Range(chunk) \subseteq Waiting(file, snapshot)
          /\ Range(snapshot) \cap Range(rest.rows) = {}
          /\ Range(rest.rows) \subseteq Range(file.rows)
      BY <1>4, <2>1, <2>2, <2>3 DEF Waiting
    <2>5. rest.lc <= Len(rest.rows)
      BY <1>4, LenProperties DEF Value
    <2>6. Kept(rest, snapshot, Archived(chunk), redone, written)
      BY <1>4, <2>2, <2>3, <2>4, <2>5, ArchiveKept
    <2>7. file' = rest
      BY <1>1 DEF Save
    <2> QED BY <1>1, <2>6, <2>7 DEF FileInv, Kept, Waiting, Live, Unconsolidated
  <1> QED BY <1>5, <1>6, <1>7 DEF MemoryInv

LEMMA StopMemory ==
    ASSUME ObjectInv, LineInv, RowsInv, Memory, ~around', Stop
    PROVE  MemoryInv'
  <1>1. /\ inner' \in {inner, None} /\ lock' \in {lock, None}
        /\ lock' # None => UNCHANGED <<chunk, rest>>
        /\ UNCHANGED <<snapshot, history, redone>>
    BY DEF Stop, LeaveLock
  <1>2. CASE /\ written < MaxRows /\ written' = written + 1
             /\ around' = Around("turn", Got) /\ Save(Got, WithRow(GotValue))
    <2>1. ~Around("turn", Got) /\ MemoryInv
      BY <1>2 DEF Around, Memory
    <2>2. GotValue = file /\ Got \in Object
      BY <2>1, GotFile, GotObject DEF MemoryInv
    <2> QED BY <1>1, <1>2, <2>1, <2>2, RowMemory
  <1>3. CASE Fetch /\ UNCHANGED <<written, around>>
    <2>1. MemoryInv /\ Rest
      BY <1>1, <1>3 DEF Memory, Rest
    <2>2. FileInv' /\ CacheInv'
      BY <1>1, <1>3, <2>1, FetchMemory DEF MemoryInv
    <2>3. ChunkInv'
      BY <1>1, <1>3, <2>1, SameChunk DEF MemoryInv, Fetch
    <2> QED BY <2>2, <2>3 DEF MemoryInv
  <1> QED BY <1>2, <1>3 DEF Stop

LEMMA NewMemory ==
    ASSUME ObjectInv, LineInv, RowsInv, Memory, ~around', New \/ NewArchived
    PROVE  MemoryInv'
  <1>1. CASE New
    <2>1. /\ MemoryInv /\ lock = None /\ ~direct
          /\ snapshot' = Unconsolidated(GotValue) /\ file' = Blank /\ cache' = None
          /\ UNCHANGED <<held, inner, lock, history, redone, written>>
      BY <1>1 DEF New, Around, Memory
    <2>2. held = None /\ inner = None /\ snapshot = <<>>
      BY <1>1, <2>1 DEF New, LineInv, ObjectInv, TypeOK
    <2>3. GotValue = file /\ file \in Value
      BY <2>1, GotFile DEF MemoryInv, ObjectInv
    <2>4. CacheInv' /\ ChunkInv'
      BY <2>1, <2>2, NotNone DEF CacheInv, ChunkInv, Party
    <2>5. FileInv'
      <3> DEFINE left == Unconsolidated(file)
      <3>1. /\ Range(left) = Live(file) /\ Live(file) \subseteq Range(file.rows)
        BY <2>3, LiveRows DEF Live
      <3>2. Range(<<>>) = {}
        BY DEF Range
      <3>3. /\ Blank \in Value /\ Blank.lc = 0 /\ Blank.rows = <<>>
            /\ Len(<<>>) = 0 /\ IsInjective(<<>>)
        BY BlankValue, EmptySeq, EmptyQueue
      <3>4. Live(Blank) = {}
        BY <3>2, <3>3, WholeLive
      <3>5. /\ Kept(file, snapshot, history, redone, written)
            /\ Range(file.rows) \subseteq 1 .. written
        BY <2>1 DEF MemoryInv, FileInv, Kept
      <3> HIDE DEF left
      <3>6. /\ Waiting(Blank, left) = Waiting(file, snapshot) \ Range(<<>>)
            /\ Range(<<>>) \subseteq Waiting(file, snapshot)
            /\ Range(left) \subseteq 1 .. written
            /\ Range(left) \cap Range(Blank.rows) = {}
            /\ Range(Blank.rows) \subseteq Range(file.rows)
        BY <2>2, <3>1, <3>2, <3>3, <3>4, <3>5 DEF Waiting
      <3>7. written \in 0 .. MaxRows /\ Blank.lc <= Len(Blank.rows) /\ IsInjective(Blank.rows)
        BY <3>3 DEF ObjectInv, TypeOK
      <3>8. Kept(Blank, left, Archived(<<>>), redone, written)
        BY <2>3, <3>5, <3>6, <3>7, ArchiveKept
      <3>9. Kept(Blank, left, history, redone, written) /\ snapshot' = left
        BY <2>1, <2>3, <3>8, NothingArchived DEF left
      <3> QED BY <2>1, <3>9 DEF FileInv, Kept, Waiting, Live, Unconsolidated
    <2> QED BY <2>4, <2>5 DEF MemoryInv
  <1>2. CASE NewArchived
    <2>1. /\ MemoryInv /\ history' = Archived(snapshot) /\ snapshot' = <<>>
          /\ UNCHANGED <<obj, cache, file, held, inner, lock, chunk, rest, redone, written>>
      BY <1>2 DEF NewArchived, Memory, objects, section
    <2>2. CacheInv' /\ ChunkInv'
      BY <2>1 DEF MemoryInv, CacheInv, ChunkInv, Live, Unconsolidated
    <2>3. FileInv'
      <3>1. file \in Value /\ Live(file) \subseteq Range(file.rows) /\ written \in 0 .. MaxRows
        BY LiveRows DEF ObjectInv, TypeOK
      <3>2. Range(<<>>) = {}
        BY DEF Range
      <3>3. /\ Kept(file, snapshot, history, redone, written)
            /\ Range(snapshot) \subseteq 1 .. written
            /\ Range(snapshot) \cap Range(file.rows) = {}
            /\ file.lc <= Len(file.rows) /\ IsInjective(file.rows)
        BY <2>1 DEF MemoryInv, FileInv, Kept
      <3>4. /\ Waiting(file, <<>>) = Waiting(file, snapshot) \ Range(snapshot)
            /\ Range(snapshot) \subseteq Waiting(file, snapshot)
            /\ Range(<<>>) \subseteq 1 .. written
            /\ Range(<<>>) \cap Range(file.rows) = {}
        BY <3>1, <3>2, <3>3 DEF Waiting
      <3>5. Kept(file, <<>>, Archived(snapshot), redone, written)
        BY <3>1, <3>3, <3>4, ArchiveKept
      <3> QED BY <2>1, <3>5 DEF FileInv, Kept, Waiting, Live, Unconsolidated
    <2> QED BY <2>2, <2>3 DEF MemoryInv
  <1> QED BY <1>1, <1>2

LEMMA CrashMemory ==
    ASSUME ObjectInv, LineInv, RowsInv, Memory, ~around', Crash
    PROVE  MemoryInv'
  <1>1. /\ MemoryInv /\ snapshot = <<>> /\ snapshot' = <<>>
        /\ cache' = None /\ held' = None /\ inner' = None /\ lock' = None
        /\ UNCHANGED <<file, written>>
    BY DEF Crash, Memory
  <1>2. CacheInv' /\ ChunkInv'
    BY <1>1, NotNone DEF CacheInv, ChunkInv, Party
  <1>3. Kept(file, snapshot, history', redone', written)
    <2>1. CASE UNCHANGED <<history, redone>>
      BY <1>1, <2>1 DEF MemoryInv, FileInv
    <2>2. CASE lock # None /\ history' = Archived(chunk) /\ redone' = redone \cup Range(chunk)
      <3>1. Range(chunk) \subseteq Live(file) /\ Live(file) \subseteq Range(file.rows)
        BY <1>1, <2>2, ChunkRows, LiveRows DEF MemoryInv, LineInv, ObjectInv
      <3>2. Range(file.rows) \subseteq 1 .. written /\ FileInv
        BY <1>1 DEF MemoryInv, FileInv, Kept
      <3>3. written \in 0 .. MaxRows
        BY DEF ObjectInv, TypeOK
      <3> QED BY <2>2, <3>1, <3>2, <3>3, RedoKept
    <2> QED BY <2>1, <2>2 DEF Crash
  <1>4. FileInv'
    BY <1>1, <1>3 DEF FileInv, Kept, Waiting, Live, Unconsolidated
  <1> QED BY <1>2, <1>4 DEF MemoryInv

-----------------------------------------------------------------------------
(* The theorems *)

Inv == ObjectInv /\ LineInv /\ RowsInv /\ Memory

LEMMA InvInit == Init => Inv
  <1> SUFFICES ASSUME Init PROVE Inv
    OBVIOUS
  <1>1. /\ Blank \in Value /\ Blank.rows = <<>> /\ Blank.lc = 0
        /\ <<>> \in Seq(Nat) /\ <<>> \in Seq(Queued) /\ Len(<<>>) = 0
        /\ IsInjective(<<>>) /\ Ahead(<<>>) /\ \A y : ~Contains(<<>>, y)
        /\ Range(<<>>) = {}
    BY BlankValue, EmptySeq, EmptyQueue DEF Ahead, Range
  <1>2. ObjectInv
    BY <1>1, MemoryAssumption DEF Init, ObjectInv, TypeOK, Holders
  <1>3. LineInv
    <2>1. pc \in [Party -> Place] /\ \A p \in Party : pc[p] = "off"
      BY DEF Init, Place
    <2> QED BY <1>1, <2>1, NotNone DEF Init, LineInv, Queued, Party
  <1>4. RowsInv
    BY <1>1 DEF Init, RowsInv
  <1>5. FileInv
    BY <1>1, MemoryAssumption DEF Init, FileInv, Kept
  <1>6. CacheInv /\ ChunkInv
    BY NotNone DEF Init, CacheInv, ChunkInv, Party
  <1> QED BY <1>2, <1>3, <1>4, <1>5, <1>6 DEF Inv, Memory, MemoryInv

LEMMA InvStep == Inv /\ [Next]_vars => Inv'
  <1> SUFFICES ASSUME Inv, [Next]_vars PROVE Inv'
    OBVIOUS
  <1> USE DEF Inv
  <1>1. CASE UNCHANGED vars
    BY <1>1 DEF vars, objects, section, ObjectInv, TypeOK, Holders, LineInv, RowsInv, Memory,
         MemoryInv, FileInv, CacheInv, ChunkInv, Kept, Waiting, Live, Unconsolidated
  <1>2. CASE Next
    <2>1. ObjectInv' /\ LineInv' /\ RowsInv'
      BY <1>2, TurnObjects, OtherObjects, LineStep, RowsStep DEF Next
    <2>2. ASSUME ~around' PROVE MemoryInv'
      <3>1. CASE \/ \E d \in BOOLEAN : Begin(d)
                 \/ RestoreRow \/ Compact \/ Shortcut \/ Persist \/ Checkpoint \/ CheckExpired
        BY <2>2, <3>1, TurnMemory
      <3>2. CASE SaveTurn
        BY <2>2, <3>2, SaveTurnMemory
      <3>3. CASE LockStep
        BY <2>2, <3>3, ConsolidateMemory, CompactIdleMemory, CompactedMemory DEF LockStep
      <3>4. CASE Stop \/ New \/ NewArchived \/ Crash
        BY <2>2, <3>4, StopMemory, NewMemory, CrashMemory
      <3> QED BY <1>2, <3>1, <3>2, <3>3, <3>4 DEF Next
    <2> QED BY <2>1, <2>2 DEF Memory
  <1> QED BY <1>1, <1>2

THEOREM Invariance == Spec => []Inv
  BY InvInit, InvStep, PTL DEF Spec

\* Nobody holds a session object that is gone, and whoever is in the consolidation
\* lock has one.
THEOREM TypeCorrect == Spec => []TypeOK
  <1>1. Inv => TypeOK
    BY DEF Inv, ObjectInv
  <1> QED BY <1>1, Invariance, PTL

\* However turns, consolidations, idle compactions, /stop, /new and crashes
\* interleave, a message that was written is in the live part of the session file,
\* on its way to history.jsonl or there, as long as nobody wrote to the session
\* around the consolidation lock.
THEOREM NothingForgotten == Spec => []Remembered
  <1>1. Inv => Remembered
    BY DEF Inv, Memory, MemoryInv, FileInv, Kept, Waiting, Remembered
  <1> QED BY <1>1, Invariance, PTL

\* ... and it leaves the session for history.jsonl once, but for the messages a crash
\* found archived and not marked so: until it does, history.jsonl has it in the
\* summaries of the compactions that kept it, and nowhere else.
THEOREM NothingTwice == Spec => []ArchivedOnce
  <1>1. Inv => ArchivedOnce
    BY DEF Inv, Memory, MemoryInv, FileInv, Kept, Waiting, ArchivedOnce, InHistory
  <1> QED BY <1>1, Invariance, PTL

\* ... and the session that the cache has is what the file has.
THEOREM CacheIsFile == Spec => []CacheCurrent
  <1>1. Inv => CacheCurrent
    <2> SUFFICES ASSUME Inv, ~around, cache # None PROVE obj[cache] = Load
      BY DEF CacheCurrent
    <2>1. ObjectInv /\ FileInv /\ CacheInv
      BY DEF Inv, Memory, MemoryInv
    <2> QED BY <2>1, GotFile DEF CacheInv
  <1> QED BY <1>1, Invariance, PTL
=============================================================================
