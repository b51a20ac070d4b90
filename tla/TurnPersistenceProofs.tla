------------------------ MODULE TurnPersistenceProofs ------------------------
(***************************************************************************)
(* What TLC checks of TurnPersistence, proved for any messages and bounds. *)
(* First, what appending to rows, joining them and taking the last one off *)
(* does to a transcript; then the run (what its messages look like at each *)
(* await) and the session (whose rows its log has, what its marks stand    *)
(* for); then the theorems.                                                *)
(***************************************************************************)
EXTENDS TurnPersistence, QueueLemmas

Log == Seq(RowType)

LEMMA LogFacts ==
    ASSUME NEW rows \in Log
    PROVE  /\ Len(rows) \in Nat /\ DOMAIN rows = 1 .. Len(rows)
           /\ \A i \in 1 .. Len(rows) : rows[i] \in RowType
           /\ rows # <<>> <=> Len(rows) > 0
  BY LenProperties, ElementOfSeq, EmptySeq DEF Log

LEMMA AppendRow ==
    ASSUME NEW rows \in Log, NEW r \in RowType
    PROVE  /\ Append(rows, r) \in Log
           /\ Len(Append(rows, r)) = Len(rows) + 1
           /\ \A i \in 1 .. Len(rows) : Append(rows, r)[i] = rows[i]
           /\ Append(rows, r)[Len(rows) + 1] = r
  BY AppendProperties DEF Log

LEMMA JoinRows ==
    ASSUME NEW a \in Log, NEW b \in Log
    PROVE  /\ a \o b \in Log
           /\ Len(a \o b) = Len(a) + Len(b)
           /\ \A i \in 1 .. Len(a) : (a \o b)[i] = a[i]
           /\ \A i \in 1 .. Len(b) : (a \o b)[Len(a) + i] = b[i]
           /\ \A i \in 1 .. Len(a) + Len(b) : i \in 1 .. Len(a) \/ i - Len(a) \in 1 .. Len(b)
  <1>1. Len(a) \in Nat /\ Len(b) \in Nat
    BY LogFacts
  <1>2. /\ a \o b \in Log /\ Len(a \o b) = Len(a) + Len(b)
        /\ \A i \in 1 .. Len(a) + Len(b) :
              (a \o b)[i] = IF i <= Len(a) THEN a[i] ELSE b[i - Len(a)]
    BY ConcatProperties DEF Log
  <1> QED BY <1>1, <1>2

LEMMA ReplaceLast ==
    ASSUME NEW rows \in Log, rows # <<>>, NEW r \in RowType
    PROVE  /\ [rows EXCEPT ![Len(rows)] = r] \in Log
           /\ Len([rows EXCEPT ![Len(rows)] = r]) = Len(rows)
           /\ \A i \in 1 .. Len(rows) - 1 : [rows EXCEPT ![Len(rows)] = r][i] = rows[i]
           /\ [rows EXCEPT ![Len(rows)] = r][Len(rows)] = r
  <1>1. Len(rows) \in 1 .. Len(rows) /\ Len(rows) \in Nat
    BY LogFacts
  <1> QED BY <1>1, ExceptSeq DEF Log

LEMMA FrontRows ==
    ASSUME NEW rows \in Log, rows # <<>>
    PROVE  /\ Front(rows) \in Log
           /\ Len(Front(rows)) = Len(rows) - 1
           /\ \A i \in 1 .. Len(rows) - 1 : Front(rows)[i] = rows[i]
  <1> DEFINE n == Len(rows) - 1
  <1>1. n \in Nat /\ \A i \in 1 .. n : rows[i] \in RowType
    BY LogFacts
  <1>2. Front(rows) = SubSeq(rows, 1, n)
    BY DEF Front
  <1> HIDE DEF n
  <1>3. /\ SubSeq(rows, 1, n) \in Log
        /\ Len(SubSeq(rows, 1, n)) = IF 1 <= n THEN n - 1 + 1 ELSE 0
        /\ \A i \in 1 .. n - 1 + 1 : SubSeq(rows, 1, n)[i] = rows[1 + i - 1]
    BY <1>1, SubSeqProperties DEF Log
  <1>4. Len(SubSeq(rows, 1, n)) = n /\ \A i \in 1 .. n : SubSeq(rows, 1, n)[i] = rows[i]
    BY <1>1, <1>3
  <1> QED BY <1>2, <1>3, <1>4 DEF n

LEMMA PrefixRows ==
    ASSUME NEW a \in Log, NEW b \in Log, Len(a) <= Len(b), \A i \in 1 .. Len(a) : a[i] = b[i]
    PROVE  IsPrefix(a, b)
  <1>1. Len(a) \in Nat /\ Len(b) \in Nat /\ \A i \in 1 .. Len(a) : b[i] \in RowType
    BY LogFacts
  <1>2. /\ SubSeq(b, 1, Len(a)) \in Log
        /\ Len(SubSeq(b, 1, Len(a))) = IF 1 <= Len(a) THEN Len(a) - 1 + 1 ELSE 0
        /\ \A i \in 1 .. Len(a) - 1 + 1 : SubSeq(b, 1, Len(a))[i] = b[1 + i - 1]
    BY <1>1, SubSeqProperties DEF Log
  <1>3. Len(SubSeq(b, 1, Len(a))) = Len(a) /\ \A i \in 1 .. Len(a) : SubSeq(b, 1, Len(a))[i] = a[i]
    BY <1>1, <1>2
  <1>4. SubSeq(b, 1, Len(a)) = a /\ SubSeq(a, 1, Len(a)) = a
    BY <1>2, <1>3, SeqEqual, SubSeqFull DEF Log
  <1> QED BY <1>4 DEF IsPrefix

-----------------------------------------------------------------------------
(* Transcripts *)

\* The last row is a call that waits for its result.
OpenCall(rows) ==
    /\ rows # <<>> /\ rows[Len(rows)].kind = "call"
    /\ NoRowTwice(rows)
    /\ \A i \in 1 .. Len(rows) - 1 : rows[i].kind = "call" => Answers(rows[i + 1], rows[i])
    /\ ResultsCalled(rows)

\* Rows of which none has left.
Transcript(rows) == WellFormed(rows, {})

LEMMA TranscriptIs ==
    ASSUME NEW rows
    PROVE  Transcript(rows) <=>
              /\ NoRowTwice(rows) /\ ResultsCalled(rows)
              /\ \A i \in DOMAIN rows : rows[i].kind = "call" =>
                    i + 1 \in DOMAIN rows /\ Answers(rows[i + 1], rows[i])
  BY DEF Transcript, WellFormed, NoneGone, CallsAnswered

New(rows, r) == \A i \in DOMAIN rows : ~SameRow(rows[i], r)

LEMMA AddRow ==
    ASSUME NEW rows \in Log, NEW r \in RowType, NEW gone, WellFormed(rows, gone),
           New(rows, r), \A g \in gone : ~SameRow(r, g),
           r.kind \notin {"call", "result", "interrupted"}
    PROVE  WellFormed(Append(rows, r), gone)
  <1> DEFINE s == Append(rows, r)
             n == Len(rows)
  <1>1. /\ n \in Nat /\ DOMAIN rows = 1 .. n /\ DOMAIN s = 1 .. n + 1
        /\ s[n + 1] = r /\ \A i \in 1 .. n : s[i] = rows[i]
    BY LogFacts, AppendRow
  <1> HIDE DEF s, n
  <1>2. NoRowTwice(s)
    BY <1>1 DEF WellFormed, NoRowTwice, New, SameRow
  <1>3. NoneGone(s, gone)
    BY <1>1 DEF WellFormed, NoneGone
  <1>4. CallsAnswered(s, gone)
    <2> SUFFICES ASSUME NEW i \in 1 .. n + 1, s[i].kind = "call"
                 PROVE  \/ i + 1 \in 1 .. n + 1 /\ Answers(s[i + 1], s[i])
                        \/ \E g \in gone : Answers(g, s[i])
      BY <1>1 DEF CallsAnswered
    <2>1. i \in 1 .. n /\ rows[i].kind = "call" /\ s[i] = rows[i]
      BY <1>1
    <2>2. \/ i + 1 \in 1 .. n /\ Answers(rows[i + 1], rows[i])
          \/ \E g \in gone : Answers(g, rows[i])
      BY <2>1, <1>1 DEF WellFormed, CallsAnswered
    <2> QED BY <2>1, <2>2, <1>1
  <1>5. ResultsCalled(s)
    <2> SUFFICES ASSUME NEW i \in 1 .. n + 1, s[i].kind \in {"result", "interrupted"}
                 PROVE  i - 1 \in 1 .. n + 1 /\ s[i - 1].kind = "call" /\ Answers(s[i], s[i - 1])
      BY <1>1 DEF ResultsCalled
    <2>1. i \in 1 .. n /\ rows[i].kind \in {"result", "interrupted"}
      BY <1>1
    <2>2. i - 1 \in 1 .. n /\ rows[i - 1].kind = "call" /\ Answers(rows[i], rows[i - 1])
      BY <2>1, <1>1 DEF WellFormed, ResultsCalled
    <2> QED BY <2>1, <2>2, <1>1
  <1> QED BY <1>2, <1>3, <1>4, <1>5 DEF WellFormed, s

LEMMA AddCall ==
    ASSUME NEW rows \in Log, NEW r \in RowType, Transcript(rows), New(rows, r), r.kind = "call"
    PROVE  OpenCall(Append(rows, r))
  <1> DEFINE s == Append(rows, r)
             n == Len(rows)
  <1>1. /\ n \in Nat /\ DOMAIN rows = 1 .. n /\ DOMAIN s = 1 .. n + 1 /\ Len(s) = n + 1
        /\ s \in Log /\ s[n + 1] = r /\ \A i \in 1 .. n : s[i] = rows[i]
    BY LogFacts, AppendRow
  <1>2. s # <<>>
    BY <1>1, LogFacts
  <1> HIDE DEF s, n
  <1>3. NoRowTwice(s)
    BY <1>1, TranscriptIs DEF NoRowTwice, New, SameRow
  <1>4. ASSUME NEW i \in 1 .. n, s[i].kind = "call"
        PROVE  Answers(s[i + 1], s[i])
    <2>1. i + 1 \in 1 .. n /\ Answers(rows[i + 1], rows[i])
      BY <1>1, <1>4, TranscriptIs
    <2> QED BY <2>1, <1>1
  <1>5. ResultsCalled(s)
    <2> SUFFICES ASSUME NEW i \in 1 .. n + 1, s[i].kind \in {"result", "interrupted"}
                 PROVE  i - 1 \in 1 .. n + 1 /\ s[i - 1].kind = "call" /\ Answers(s[i], s[i - 1])
      BY <1>1 DEF ResultsCalled
    <2>1. i \in 1 .. n /\ rows[i].kind \in {"result", "interrupted"}
      BY <1>1
    <2>2. i - 1 \in 1 .. n /\ rows[i - 1].kind = "call" /\ Answers(rows[i], rows[i - 1])
      BY <2>1, <1>1, TranscriptIs DEF ResultsCalled
    <2> QED BY <2>1, <2>2, <1>1
  <1>6. n + 1 - 1 = n /\ s[n + 1].kind = "call"
    BY <1>1
  <1> QED BY <1>1, <1>2, <1>3, <1>4, <1>5, <1>6 DEF OpenCall, s

LEMMA AddResult ==
    ASSUME NEW rows \in Log, NEW r \in RowType, OpenCall(rows), New(rows, r),
           r.kind \in {"result", "interrupted"}, Answers(r, rows[Len(rows)])
    PROVE  Transcript(Append(rows, r))
  <1> DEFINE s == Append(rows, r)
             n == Len(rows)
  <1>1. /\ n \in Nat \ {0} /\ DOMAIN rows = 1 .. n /\ DOMAIN s = 1 .. n + 1
        /\ s[n + 1] = r /\ \A i \in 1 .. n : s[i] = rows[i]
    BY LogFacts, AppendRow DEF OpenCall
  <1>2. /\ rows[n].kind = "call" /\ Answers(r, rows[n])
        /\ \A i \in 1 .. n - 1 : rows[i].kind = "call" => Answers(rows[i + 1], rows[i])
    BY DEF OpenCall
  <1> HIDE DEF s, n
  <1>3. NoRowTwice(s)
    BY <1>1 DEF OpenCall, NoRowTwice, New, SameRow
  <1>4. ASSUME NEW i \in 1 .. n + 1, s[i].kind = "call"
        PROVE  i + 1 \in 1 .. n + 1 /\ Answers(s[i + 1], s[i])
    <2>1. CASE i \in 1 .. n - 1
      <3>1. i + 1 \in 1 .. n /\ Answers(rows[i + 1], rows[i])
        BY <2>1, <1>1, <1>2, <1>4
      <3> QED BY <3>1, <2>1, <1>1
    <2>2. CASE i = n
      BY <2>2, <1>1, <1>2
    <2> QED BY <2>1, <2>2, <1>1, <1>4
  <1>5. ResultsCalled(s)
    <2> SUFFICES ASSUME NEW i \in 1 .. n + 1, s[i].kind \in {"result", "interrupted"}
                 PROVE  i - 1 \in 1 .. n + 1 /\ s[i - 1].kind = "call" /\ Answers(s[i], s[i - 1])
      BY <1>1 DEF ResultsCalled
    <2>1. CASE i \in 1 .. n
      <3>1. i - 1 \in 1 .. n /\ rows[i - 1].kind = "call" /\ Answers(rows[i], rows[i - 1])
        BY <2>1, <1>1 DEF OpenCall, ResultsCalled
      <3> QED BY <3>1, <2>1, <1>1
    <2>2. CASE i = n + 1
      BY <2>2, <1>1, <1>2
    <2> QED BY <2>1, <2>2, <1>1
  <1> QED BY <1>1, <1>3, <1>4, <1>5, TranscriptIs DEF s

\* A row gives way to one that differs in what it says.
LEMMA Reword ==
    ASSUME NEW rows \in Log, NEW r \in RowType, rows # <<>>, SameRow(rows[Len(rows)], r),
           Transcript(rows)
    PROVE  Transcript([rows EXCEPT ![Len(rows)] = r])
  <1> DEFINE s == [rows EXCEPT ![Len(rows)] = r]
             n == Len(rows)
  <1>1. /\ n \in Nat \ {0} /\ DOMAIN rows = 1 .. n /\ DOMAIN s = 1 .. n
        /\ s[n] = r /\ \A i \in 1 .. n - 1 : s[i] = rows[i]
    BY LogFacts, ReplaceLast
  <1>2. \A i \in 1 .. n : s[i].kind = rows[i].kind /\ s[i].turn = rows[i].turn /\ s[i].n = rows[i].n
    BY <1>1 DEF SameRow
  <1> HIDE DEF s, n
  <1>3. NoRowTwice(s)
    BY <1>1, <1>2, TranscriptIs DEF NoRowTwice, SameRow
  <1>4. ResultsCalled(s)
    BY <1>1, <1>2, TranscriptIs DEF ResultsCalled, Answers
  <1>5. ASSUME NEW i \in 1 .. n, s[i].kind = "call"
        PROVE  i + 1 \in 1 .. n /\ Answers(s[i + 1], s[i])
    <2>1. i + 1 \in 1 .. n /\ Answers(rows[i + 1], rows[i])
      BY <1>1, <1>2, <1>5, TranscriptIs
    <2> QED BY <2>1, <1>2 DEF Answers
  <1> QED BY <1>1, <1>3, <1>4, <1>5, TranscriptIs DEF s

LEMMA JoinTranscripts ==
    ASSUME NEW a \in Log, NEW b \in Log, NEW gone, WellFormed(a, gone), Transcript(b),
           \A i \in DOMAIN b : New(a, b[i]) /\ \A g \in gone : ~SameRow(b[i], g)
    PROVE  WellFormed(a \o b, gone)
  <1> DEFINE s == a \o b
             n == Len(a)
             k == Len(b)
  <1>1. /\ n \in Nat /\ k \in Nat /\ DOMAIN a = 1 .. n /\ DOMAIN b = 1 .. k /\ DOMAIN s = 1 .. n + k
        /\ \A i \in 1 .. n : s[i] = a[i]
        /\ \A i \in 1 .. k : s[n + i] = b[i]
    BY LogFacts, JoinRows
  <1> HIDE DEF s, n, k
  <1>2. \A i \in 1 .. n + k : (i \in 1 .. n /\ s[i] = a[i]) \/ (i - n \in 1 .. k /\ s[i] = b[i - n])
    <2> TAKE i \in 1 .. n + k
    <2>1. CASE i <= n
      BY <2>1, <1>1
    <2>2. CASE i > n
      <3>1. i - n \in 1 .. k /\ n + (i - n) = i
        BY <2>2, <1>1
      <3> QED BY <3>1, <1>1
    <2> QED BY <2>1, <2>2, <1>1
  <1>3. NoRowTwice(s)
    <2> SUFFICES ASSUME NEW i \in 1 .. n + k, NEW j \in 1 .. n + k, SameRow(s[i], s[j]), i <= j
                 PROVE  i = j
      BY <1>1 DEF NoRowTwice, SameRow
    <2>1. CASE j \in 1 .. n
      <3>1. i \in 1 .. n /\ SameRow(a[i], a[j])
        BY <2>1, <1>1
      <3> QED BY <3>1, <2>1, <1>1 DEF WellFormed, NoRowTwice
    <2>2. CASE i \in 1 .. n /\ j \notin 1 .. n
      <3>1. j - n \in 1 .. k /\ SameRow(a[i], b[j - n])
        BY <2>2, <1>1, <1>2
      <3> QED BY <3>1, <2>2, <1>1 DEF New
    <2>3. CASE i \notin 1 .. n
      <3>1. i - n \in 1 .. k /\ j - n \in 1 .. k /\ SameRow(b[i - n], b[j - n])
        BY <2>3, <1>1, <1>2
      <3>2. i - n = j - n
        BY <3>1, <1>1, TranscriptIs DEF NoRowTwice
      <3> QED BY <3>2, <1>1
    <2> QED BY <2>1, <2>2, <2>3
  <1>4. NoneGone(s, gone)
    BY <1>1, <1>2 DEF WellFormed, NoneGone
  <1>5. CallsAnswered(s, gone)
    <2> SUFFICES ASSUME NEW i \in 1 .. n + k, s[i].kind = "call"
                 PROVE  \/ i + 1 \in 1 .. n + k /\ Answers(s[i + 1], s[i])
                        \/ \E g \in gone : Answers(g, s[i])
      BY <1>1 DEF CallsAnswered
    <2>1. CASE i \in 1 .. n /\ s[i] = a[i]
      <3>1. \/ i + 1 \in 1 .. n /\ Answers(a[i + 1], a[i])
            \/ \E g \in gone : Answers(g, a[i])
        BY <2>1, <1>1 DEF WellFormed, CallsAnswered
      <3> QED BY <3>1, <2>1, <1>1
    <2>2. CASE i - n \in 1 .. k /\ s[i] = b[i - n]
      <3>1. (i - n) + 1 \in 1 .. k /\ Answers(b[(i - n) + 1], b[i - n])
        BY <2>2, <1>1, TranscriptIs
      <3>2. n + ((i - n) + 1) = i + 1 /\ i + 1 \in 1 .. n + k
        BY <3>1, <1>1
      <3> QED BY <3>1, <3>2, <2>2, <1>1
    <2> QED BY <2>1, <2>2, <1>2
  <1>6. ResultsCalled(s)
    <2> SUFFICES ASSUME NEW i \in 1 .. n + k, s[i].kind \in {"result", "interrupted"}
                 PROVE  i - 1 \in 1 .. n + k /\ s[i - 1].kind = "call" /\ Answers(s[i], s[i - 1])
      BY <1>1 DEF ResultsCalled
    <2>1. CASE i \in 1 .. n /\ s[i] = a[i]
      <3>1. i - 1 \in 1 .. n /\ a[i - 1].kind = "call" /\ Answers(a[i], a[i - 1])
        BY <2>1, <1>1 DEF WellFormed, ResultsCalled
      <3> QED BY <3>1, <2>1, <1>1
    <2>2. CASE i - n \in 1 .. k /\ s[i] = b[i - n]
      <3>1. (i - n) - 1 \in 1 .. k /\ b[(i - n) - 1].kind = "call" /\ Answers(b[i - n], b[(i - n) - 1])
        BY <2>2, <1>1, TranscriptIs DEF ResultsCalled
      <3>2. n + ((i - n) - 1) = i - 1 /\ i - 1 \in 1 .. n + k
        <4>1. i \in Int /\ n \in Nat /\ k \in Nat /\ (i - n) - 1 \in 1 .. k
          BY <3>1, <1>1
        <4> QED BY ONLY <4>1
      <3> QED BY <3>1, <3>2, <2>2, <1>1
    <2> QED BY <2>1, <2>2, <1>2
  <1> QED BY <1>3, <1>4, <1>5, <1>6 DEF WellFormed, s

-----------------------------------------------------------------------------
(* The rows of a run *)

\* Rows of iterations up to N of turn t, and of the one after it, of the kinds K.
RunRows(rows, t, N, K) ==
    \A i \in DOMAIN rows :
        /\ rows[i].turn = t
        /\ rows[i].n \in 1 .. N + 1 /\ (rows[i].n = N + 1 => rows[i].kind \in K)
        /\ rows[i].kind # "user"
        /\ rows[i].kind \notin UserKind => rows[i].said = {}

\* A run that asks the model; one that waits for its tools; one that has a text.
Asking(rows, t, N, K) ==
    rows \in Log /\ RunRows(rows, t, N, K) /\ Transcript(rows) /\ ~EndsWith(rows, {"text"})

Calling(rows, t, N) ==
    /\ rows \in Log /\ RunRows(rows, t, N, {"call"}) /\ OpenCall(rows)
    /\ rows[Len(rows)].turn = t /\ rows[Len(rows)].n = N + 1

Closed(rows, t, N, K) ==
    rows \in Log /\ RunRows(rows, t, N, K) /\ Transcript(rows) /\ EndsWith(rows, {"text"})

LEMMA NoRows ==
    ASSUME NEW t, NEW N, NEW K
    PROVE  Asking(<<>>, t, N, K)
  <1>1. <<>> \in Log /\ DOMAIN <<>> = {}
    BY LogFacts, EmptySeq DEF Log
  <1> QED BY <1>1 DEF Asking, RunRows, Transcript, WellFormed, NoneGone, NoRowTwice, CallsAnswered, ResultsCalled, EndsWith

LEMMA NextIteration ==
    ASSUME NEW rows, NEW t, NEW N \in Nat, NEW K, RunRows(rows, t, N, K)
    PROVE  RunRows(rows, t, N + 1, {})
  BY DEF RunRows

LEMMA NextAsking ==
    ASSUME NEW rows, NEW t, NEW N \in Nat, NEW K, Asking(rows, t, N, K)
    PROVE  Asking(rows, t, N + 1, {})
  BY NextIteration DEF Asking

LEMMA MoreKinds ==
    ASSUME NEW rows, NEW t, NEW N \in Nat, NEW K, NEW L, K \subseteq L, RunRows(rows, t, N, K)
    PROVE  RunRows(rows, t, N, L)
  BY DEF RunRows

LEMMA AddOwn ==
    ASSUME NEW rows \in Log, NEW t \in Msg, NEW N \in Nat, NEW K, RunRows(rows, t, N, K),
           NEW kind \in RowKind \ {"user"}, NEW said \in SUBSET Msg,
           kind \notin UserKind => said = {}
    PROVE  /\ Row(kind, t, N + 1, said) \in RowType
           /\ RunRows(Append(rows, Row(kind, t, N + 1, said)), t, N, K \cup {kind})
           /\ kind \notin K => New(rows, Row(kind, t, N + 1, said))
           /\ EndsWith(Append(rows, Row(kind, t, N + 1, said)), {"text"}) <=> kind = "text"
  <1> DEFINE r == Row(kind, t, N + 1, said)
             s == Append(rows, r)
             n == Len(rows)
  <1>1. /\ r \in RowType /\ r.kind = kind /\ r.turn = t /\ r.n = N + 1 /\ r.said = said
    BY DEF Row, RowType
  <1>2. /\ n \in Nat /\ DOMAIN rows = 1 .. n /\ DOMAIN s = 1 .. n + 1 /\ Len(s) = n + 1 /\ s # <<>>
        /\ s[n + 1] = r /\ \A i \in 1 .. n : s[i] = rows[i]
    <2> HIDE DEF r
    <2> QED BY <1>1, LogFacts, AppendRow
  <1> HIDE DEF r, s, n
  <1>3. RunRows(s, t, N, K \cup {kind})
    BY <1>1, <1>2 DEF RunRows
  <1>4. kind \notin K => New(rows, r)
    BY <1>1, <1>2 DEF RunRows, New, SameRow
  <1>5. EndsWith(s, {"text"}) <=> kind = "text"
    BY <1>1, <1>2 DEF EndsWith
  <1> QED BY <1>1, <1>3, <1>4, <1>5 DEF r, s

LEMMA CallAsked ==
    ASSUME NEW rows, NEW t \in Msg, NEW N \in Nat, Asking(rows, t, N, {})
    PROVE  Calling(Append(rows, Row("call", t, N + 1, {})), t, N)
  <1> DEFINE r == Row("call", t, N + 1, {})
  <1>1. /\ r \in RowType /\ New(rows, r) /\ RunRows(Append(rows, r), t, N, {} \cup {"call"})
    BY AddOwn DEF Asking, RowKind, UserKind
  <1>2. r.kind = "call" /\ r.turn = t /\ r.n = N + 1 /\ {} \cup {"call"} = {"call"}
    BY DEF Row
  <1> HIDE DEF r
  <1>3. OpenCall(Append(rows, r))
    BY <1>1, <1>2, AddCall DEF Asking
  <1>4. Append(rows, r) \in Log /\ Append(rows, r)[Len(Append(rows, r))] = r
    BY <1>1, AppendRow DEF Asking
  <1> QED BY <1>1, <1>2, <1>3, <1>4 DEF Calling, r

LEMMA ResultCome ==
    ASSUME NEW rows, NEW t \in Msg, NEW N \in Nat, Calling(rows, t, N)
    PROVE  Asking(Append(rows, Row("result", t, N + 1, {})), t, N, {"call", "result"})
  <1> DEFINE r == Row("result", t, N + 1, {})
  <1>0. /\ "result" \in RowKind \ {"user"} /\ "result" \notin UserKind /\ "result" \notin {"call"}
        /\ rows \in Log /\ RunRows(rows, t, N, {"call"}) /\ {} \in SUBSET Msg
    BY DEF RowKind, UserKind, Calling
  <1>1. /\ r \in RowType /\ New(rows, r) /\ RunRows(Append(rows, r), t, N, {"call"} \cup {"result"})
        /\ EndsWith(Append(rows, r), {"text"}) <=> "result" = "text"
    BY <1>0, AddOwn, ZenonT(30)
  <1>2. /\ r.kind = "result" /\ r.turn = t /\ r.n = N + 1
        /\ {"call"} \cup {"result"} = {"call", "result"}
    BY DEF Row
  <1> HIDE DEF r
  <1>3. Transcript(Append(rows, r))
    BY <1>1, <1>2, AddResult DEF Calling, Answers
  <1>4. Append(rows, r) \in Log
    BY <1>1, AppendRow DEF Calling
  <1> QED BY <1>1, <1>2, <1>3, <1>4 DEF Asking, r

LEMMA TextWritten ==
    ASSUME NEW rows, NEW t \in Msg, NEW N \in Nat, NEW K, Asking(rows, t, N, K), "text" \notin K
    PROVE  Closed(Append(rows, Row("text", t, N + 1, {})), t, N, K \cup {"text"})
  <1> DEFINE r == Row("text", t, N + 1, {})
  <1>1. /\ r \in RowType /\ New(rows, r) /\ RunRows(Append(rows, r), t, N, K \cup {"text"})
        /\ EndsWith(Append(rows, r), {"text"})
    BY AddOwn DEF Asking, RowKind, UserKind
  <1>2. r.kind = "text"
    BY DEF Row
  <1> HIDE DEF r
  <1>3. Transcript(Append(rows, r)) /\ Append(rows, r) \in Log
    BY <1>1, <1>2, AddRow, AppendRow DEF Asking, Transcript
  <1> QED BY <1>1, <1>3 DEF Closed, r

LEMMA UserWritten ==
    ASSUME NEW rows \in Log, NEW t \in Msg, NEW N \in Nat, NEW K,
           RunRows(rows, t, N, K), Transcript(rows),
           NEW kind \in {"inject", "prompt"}, kind \notin K, NEW said \in SUBSET Msg
    PROVE  Asking(Append(rows, Row(kind, t, N + 1, said)), t, N, K \cup {kind})
  <1> DEFINE r == Row(kind, t, N + 1, said)
  <1>1. /\ r \in RowType /\ New(rows, r) /\ RunRows(Append(rows, r), t, N, K \cup {kind})
        /\ ~EndsWith(Append(rows, r), {"text"})
    BY AddOwn DEF RowKind, UserKind
  <1>2. r.kind \notin {"call", "result", "interrupted"}
    BY DEF Row
  <1> HIDE DEF r
  <1>3. Transcript(Append(rows, r)) /\ Append(rows, r) \in Log
    BY <1>1, <1>2, AddRow, AppendRow DEF Transcript
  <1> QED BY <1>1, <1>3 DEF Asking, r

LastSays(rows, said) == [rows EXCEPT ![Len(rows)].said = @ \cup said]

FollowUps(rows, t, N, said) ==
    IF rows = <<>> THEN rows
    ELSE IF EndsWith(rows, UserKind) THEN LastSays(rows, said)
    ELSE Append(rows, Row("inject", t, N + 1, said))

LEMMA Merged ==
    ASSUME NEW rows, NEW t \in Msg, NEW N \in Nat, NEW K, Asking(rows, t, N, K),
           NEW said \in SUBSET Msg, EndsWith(rows, UserKind)
    PROVE  Asking(LastSays(rows, said), t, N, K)
  <1> DEFINE n == Len(rows)
             q == rows[n]
             r == [q EXCEPT !.said = @ \cup said]
             s == [rows EXCEPT ![n] = r]
  <1>1. /\ n \in Nat \ {0} /\ rows # <<>> /\ DOMAIN rows = 1 .. n /\ q \in RowType /\ q.kind \in UserKind
    BY LogFacts DEF Asking, EndsWith
  <1>2. r \in RowType /\ r.kind = q.kind /\ r.turn = q.turn /\ r.n = q.n
    <2> HIDE DEF q
    <2> QED BY <1>1 DEF RowType
  <1>3. SameRow(q, r)
    BY <1>2 DEF SameRow
  <1> HIDE DEF r
  <1>4. s \in Log /\ Len(s) = n /\ DOMAIN s = 1 .. n /\ s[n] = r /\ \A i \in 1 .. n - 1 : s[i] = rows[i]
    BY <1>1, <1>2, ReplaceLast, LogFacts DEF Asking
  <1>5. Transcript(s)
    BY <1>1, <1>2, <1>3, Reword DEF Asking
  <1>6. LastSays(rows, said) = s
    BY DEF r, LastSays
  <1> HIDE DEF s
  <1>7. RunRows(s, t, N, K)
    <2> SUFFICES ASSUME NEW i \in 1 .. n
                 PROVE  /\ s[i].turn = t
                        /\ s[i].n \in 1 .. N + 1 /\ (s[i].n = N + 1 => s[i].kind \in K)
                        /\ s[i].kind # "user"
                        /\ s[i].kind \notin UserKind => s[i].said = {}
      BY <1>4 DEF RunRows
    <2>1. RunRows(rows, t, N, K)
      BY DEF Asking
    <2>2. CASE i = n
      BY <2>1, <2>2, <1>1, <1>2, <1>4 DEF RunRows
    <2>3. CASE i # n
      <3>0. n \in Nat /\ i \in 1 .. n /\ i # n
        BY <2>3, <1>1
      <3>1. i \in 1 .. n - 1
        BY ONLY <3>0
      <3> QED BY <2>1, <3>1, <1>1, <1>4 DEF RunRows
    <2> QED BY <2>2, <2>3
  <1>8. ~EndsWith(s, {"text"})
    BY <1>1, <1>2, <1>4 DEF EndsWith, UserKind
  <1> QED BY <1>4, <1>5, <1>6, <1>7, <1>8 DEF Asking

\* Follow-ups join rows of any kind.
LEMMA Followed ==
    ASSUME NEW rows \in Log, NEW t \in Msg, NEW N \in Nat, NEW K,
           RunRows(rows, t, N, K), Transcript(rows), "inject" \notin K, NEW said \in SUBSET Msg
    PROVE  Asking(FollowUps(rows, t, N, said), t, N, K \cup {"inject"})
  <1>1. CASE rows = <<>>
    BY <1>1, NoRows DEF FollowUps
  <1>2. CASE rows # <<>> /\ EndsWith(rows, UserKind)
    <2>1. Asking(rows, t, N, K)
      BY <1>2 DEF Asking, EndsWith, UserKind
    <2>2. FollowUps(rows, t, N, said) = LastSays(rows, said)
      BY <1>2 DEF FollowUps
    <2>3. Asking(LastSays(rows, said), t, N, K)
      BY <2>1, <1>2, Merged
    <2>4. Asking(FollowUps(rows, t, N, said), t, N, K)
      BY <2>2, <2>3
    <2> QED BY <2>4, MoreKinds DEF Asking
  <1>3. CASE rows # <<>> /\ ~EndsWith(rows, UserKind)
    BY <1>3, UserWritten DEF FollowUps
  <1> QED BY <1>1, <1>2, <1>3

-----------------------------------------------------------------------------
(* The run at each of its awaits *)

\* A run that is over, with its rows not saved yet.
Filing == {"save", "saveSlice", "blocked"}

RunState(at, rows, t, N) ==
    /\ at \in {"ask", "finalize", "exhausted"} => Asking(rows, t, N, {})
    /\ at = "closing" => Asking(rows, t, N, {"inject"})
    /\ at \in {"tools", "results"} => Calling(rows, t, N)
    /\ at = "drainError" => Closed(rows, t, N, {"call", "result", "text"})
    /\ at = "save" => Closed(rows, t, N, RowKind)
    /\ at \in {"saveSlice", "blocked"} => rows \in Log /\ RunRows(rows, t, N, RowKind) /\ Transcript(rows)
    /\ at \notin InRun \cup Filing => rows = <<>>

Counters ==
    /\ stage \in {"ask", "tools", "results", "finalize", "drainError"} => iteration < MaxIterations
    /\ stage \in {"ask", "tools", "results"} => emptyRetries <= iteration
    /\ stage \in {"finalize", "drainError"} => emptyRetries <= iteration + 1

RunInv == TypeOK /\ Counters /\ RunState(stage, work, turn, iteration)

Bounds ==
    /\ MaxIterations \in Nat \ {0} /\ InjectionsPerTurn \in Nat \ {0}
    /\ MaxEmptyRetries \in Nat /\ MaxLengthRecoveries \in Nat /\ InjectionCycles \in Nat
    /\ None \notin Msg /\ None \notin CheckpointType /\ MaxTroubles \in Nat
    /\ QueueMax \in Nat \ {0} /\ FileCap \in Nat \ {0, 1}

Queues == {q \in Seq(Msg) : Len(q) <= QueueMax}

LEMMA BoundsOK == Bounds
  BY RunnerAssumption, TroublesAssumption, FileAssumption DEF Bounds

LEMMA RunStateLog ==
    ASSUME NEW at, NEW rows, NEW t, NEW N, RunState(at, rows, t, N)
    PROVE  rows \in Log
  <1>1. <<>> \in Log
    BY EmptySeq DEF Log
  <1> QED BY <1>1 DEF RunState, Asking, Calling, Closed, InRun, Filing

\* Who is taken from the pending queue, and who stays in it.
LEMMA TakenLeft ==
    ASSUME queue \in Queues
    PROVE  /\ ToSet(Taken) \in SUBSET Msg
           /\ \A m \in ToSet(Taken) : Contains(queue, m)
           /\ Left \in Queues
           /\ \A m : Contains(Left, m) => Contains(queue, m)
           /\ \A m : Contains(queue, m) => Contains(Left, m) \/ m \in ToSet(Taken)
           /\ IsInjective(queue) =>
                 IsInjective(Left) /\ \A m \in ToSet(Taken) : ~Contains(Left, m)
  <1> DEFINE k == IF Len(queue) < InjectionsPerTurn THEN Len(queue) ELSE InjectionsPerTurn
             taken == SubSeq(queue, 1, k)
  <1>0. queue \in Seq(Msg) /\ Len(queue) <= QueueMax
    BY DEF Queues
  <1>1. Len(queue) \in Nat /\ \A i \in 1 .. Len(queue) : queue[i] \in Msg
    BY <1>0, LenProperties, ElementOfSeq
  <1>2. k \in 0 .. Len(queue) /\ k \in Nat
    BY <1>1, BoundsOK DEF Bounds
  <1>3. Taken = taken
    BY DEF Taken
  <1> HIDE DEF k
  <1>4. /\ taken \in Seq(Msg) /\ Len(taken) = IF 1 <= k THEN k - 1 + 1 ELSE 0
        /\ \A i \in 1 .. k - 1 + 1 : taken[i] = queue[1 + i - 1]
    <2>1. \A i \in 1 .. k : queue[i] \in Msg
      BY <1>1, <1>2
    <2> QED BY <1>0, <2>1, <1>2, SubSeqProperties
  <1>5. /\ taken \in Seq(Msg) /\ Len(taken) = k /\ DOMAIN taken = 1 .. k
        /\ \A i \in 1 .. k : taken[i] = queue[i]
    BY <1>2, <1>4, LenProperties
  <1> HIDE DEF taken
  <1>6. ToSet(Taken) = {queue[i] : i \in 1 .. k} /\ Left = SubSeq(queue, k + 1, Len(queue))
    BY <1>3, <1>5 DEF ToSet, Left
  <1>7. Left \in Queues
    <2>1. /\ k + 1 \in Int /\ Len(queue) \in Int
          /\ \A i \in k + 1 .. Len(queue) : queue[i] \in Msg
      BY <1>1, <1>2
    <2>2. /\ Left \in Seq(Msg)
          /\ Len(Left) = IF k + 1 <= Len(queue) THEN Len(queue) - (k + 1) + 1 ELSE 0
      BY <1>6, <2>1, SubSeqProperties
    <2>3. Len(Left) <= QueueMax
      BY <1>0, <1>1, <1>2, <2>2, BoundsOK DEF Bounds
    <2> QED BY <2>2, <2>3 DEF Queues
  <1>8. /\ \A m : Contains(Left, m) => Contains(queue, m)
        /\ \A m : Contains(queue, m) => Contains(Left, m) \/ \E i \in 1 .. k : m = queue[i]
        /\ \A i \in 1 .. k : Contains(queue, queue[i])
        /\ IsInjective(queue) => IsInjective(Left) /\ \A i \in 1 .. k : ~Contains(Left, queue[i])
    BY <1>0, <1>2, <1>6, DropFirst
  <1>9. ToSet(Taken) \in SUBSET Msg
    BY <1>1, <1>2, <1>6
  <1> QED BY <1>6, <1>7, <1>8, <1>9

\* The messages of the run, the counters and the queue after an action, one by one.
LEMMA RunInvNext ==
    ASSUME SessionTypeOK', Counters', RunState(stage, work, turn, iteration)',
           iteration' \in 0 .. MaxIterations, emptyRetries' \in 0 .. MaxIterations,
           recoveries' \in 0 .. MaxLengthRecoveries, cycles' \in 0 .. InjectionCycles,
           queue' \in Queues,
           stage' \in {"idle", "restore", "command", "save", "saveSlice", "blocked", "respond", "finish"}
                        \cup InRun,
           turn' \in Msg \cup {None}, turn' = None <=> stage' = "idle",
           place' \in [Msg -> Place], replied' \subseteq Msg, troubles' \in 0 .. MaxTroubles
    PROVE  RunInv'
  <1>1. work' \in Log
    BY RunStateLog
  <1> QED BY <1>1 DEF RunInv, TypeOK, RunnerTypeOK, Log, Queues

LEMMA SavedType ==
    ASSUME log' \in Log, checkpoint' \in CheckpointType \cup {None}, pending' \in BOOLEAN,
           goal' \in BOOLEAN, archived' \subseteq RowType, Save
    PROVE  SessionTypeOK'
  BY DEF SessionTypeOK, Save, Log

LEMMA SessionKept ==
    ASSUME SessionTypeOK, UNCHANGED session
    PROVE  SessionTypeOK'
  BY DEF SessionTypeOK, session

LEMMA EmitType ==
    ASSUME SessionTypeOK, NEW t \in Msg, NEW n \in Nat \ {0},
           NEW phase \in {"awaiting", "completed", "final"},
           checkpoint' = [phase |-> phase, turn |-> t, n |-> n],
           UNCHANGED <<log, pending, goal, archived>>, Save
    PROVE  SessionTypeOK'
  <1>1. checkpoint' \in CheckpointType
    BY DEF CheckpointType
  <1> QED BY <1>1, SavedType DEF SessionTypeOK, Log

-----------------------------------------------------------------------------
(* Each action of the runner *)

RunTypes ==
    /\ SessionTypeOK /\ stage \in InRun /\ turn \in Msg /\ turn # None
    /\ work \in Log
    /\ iteration \in 0 .. MaxIterations /\ emptyRetries \in 0 .. MaxIterations
    /\ recoveries \in 0 .. MaxLengthRecoveries /\ cycles \in 0 .. InjectionCycles
    /\ queue \in Queues /\ place \in [Msg -> Place]
    /\ replied \subseteq Msg /\ troubles \in 0 .. MaxTroubles
    /\ Counters /\ RunState(stage, work, turn, iteration)

LEMMA InRunTypes ==
    ASSUME RunInv, stage \in InRun
    PROVE  RunTypes
  <1>1. turn # None
    BY DEF RunInv, TypeOK, InRun
  <1> QED BY <1>1 DEF RunInv, TypeOK, RunnerTypeOK, RunTypes, Log, Queues

\* What an action of the runner has to establish.
LEMMA RunnerInvNext ==
    ASSUME RunTypes, SessionTypeOK', Counters', RunState(stage, work, turn, iteration)',
           iteration' \in 0 .. MaxIterations, emptyRetries' \in 0 .. MaxIterations,
           recoveries' \in 0 .. MaxLengthRecoveries, cycles' \in 0 .. InjectionCycles,
           queue' \in Queues, stage' \in InRun \cup {"save"}, turn' = turn,
           place' \in [Msg -> Place], UNCHANGED <<replied, troubles>>
    PROVE  RunInv'
  <1>1. stage' # "idle" /\ turn' # None /\ turn' \in Msg
    BY DEF RunTypes, InRun
  <1>2. replied' \subseteq Msg /\ troubles' \in 0 .. MaxTroubles
    BY DEF RunTypes
  <1> QED BY <1>1, <1>2, RunInvNext

\* Continue, with rows that the next request may be made of.
LEMMA Continued ==
    ASSUME RunTypes, stage \in {"ask", "tools", "results", "finalize", "drainError"}, Continue,
           turn' = turn, NEW K, Asking(work', turn, iteration, K),
           emptyRetries' \in Nat, emptyRetries' <= iteration + 1
    PROVE  /\ stage' \in InRun \cup {"save"} /\ iteration' \in 0 .. MaxIterations
           /\ emptyRetries' \in 0 .. MaxIterations
           /\ Counters' /\ RunState(stage, work, turn, iteration)'
  <1>1. iteration \in Nat /\ MaxIterations \in Nat /\ iteration < MaxIterations
    BY BoundsOK DEF RunTypes, Counters, Bounds
  <1>2. iteration' = iteration + 1 /\ stage' \in {"ask", "exhausted"}
        /\ (stage' = "ask" => iteration' < MaxIterations)
    BY <1>1 DEF Continue
  <1>3. Asking(work', turn', iteration', {})
    BY <1>1, <1>2, NextAsking
  <1>4. RunState(stage, work, turn, iteration)'
    BY <1>2, <1>3 DEF RunState, InRun, Filing
  <1>5. Counters'
    BY <1>1, <1>2 DEF Counters
  <1> QED BY <1>1, <1>2, <1>4, <1>5 DEF InRun

\* Inject, with rows to which follow-ups may be added.
LEMMA Injected ==
    ASSUME RunTypes, NEW rows \in Log, NEW K, RunRows(rows, turn, iteration, K), Transcript(rows),
           "inject" \notin K,
           CanInject, cycles' = cycles + 1, queue' = Left,
           work' = FollowUps(rows, turn, iteration, ToSet(Taken)),
           place' = [m \in Msg |-> IF m \notin ToSet(Taken) THEN place[m]
                                    ELSE IF rows = <<>> THEN "absorbed" ELSE "working"]
    PROVE  /\ cycles' \in 0 .. InjectionCycles /\ queue' \in Queues
           /\ place' \in [Msg -> Place]
           /\ Asking(work', turn, iteration, K \cup {"inject"})
  <1>1. cycles' \in 0 .. InjectionCycles
    BY BoundsOK DEF RunTypes, CanInject, Bounds
  <1>2. queue' \in Queues /\ ToSet(Taken) \in SUBSET Msg
    BY TakenLeft DEF RunTypes
  <1>3. place' \in [Msg -> Place]
    BY DEF RunTypes, Place
  <1>4. turn \in Msg /\ iteration \in Nat
    BY BoundsOK DEF RunTypes, Bounds
  <1>5. Asking(work', turn, iteration, K \cup {"inject"})
    BY <1>2, <1>4, Followed
  <1> QED BY <1>1, <1>2, <1>3, <1>5

LEMMA NotInjected ==
    ASSUME RunTypes, NoInjection
    PROVE  /\ cycles' \in 0 .. InjectionCycles /\ queue' \in Queues
           /\ place' \in [Msg -> Place]
  BY DEF RunTypes, NoInjection

\* The rows of this iteration, as the lemmas on rows write them.
LEMMA FollowedRows ==
    ASSUME NEW rows, NEW said
    PROVE  WithFollowUps(rows, said) = FollowUps(rows, turn, iteration, said)
  BY DEF WithFollowUps, FollowUps, LastSays

LEMMA AskToolsOK ==
    ASSUME RunInv, AskTools, UNCHANGED <<replied, troubles>>
    PROVE  RunInv'
  <1>1. /\ stage = "ask" /\ work' = Append(work, Row("call", turn, iteration + 1, {}))
        /\ checkpoint' = [phase |-> "awaiting", turn |-> turn, n |-> iteration + 1]
        /\ UNCHANGED <<log, pending, goal, archived>> /\ Save
        /\ stage' = "tools" /\ turn' = turn /\ queue' = queue /\ place' = place
        /\ iteration' = iteration /\ emptyRetries' = emptyRetries
        /\ recoveries' = recoveries /\ cycles' = cycles
    BY DEF AskTools, Ours, Emit, run
  <1>2. RunTypes
    BY <1>1, InRunTypes DEF InRun
  <1>3. iteration \in Nat /\ iteration + 1 \in Nat \ {0}
    BY <1>2, BoundsOK DEF RunTypes, Bounds
  <1>4. SessionTypeOK'
    BY <1>1, <1>2, <1>3, EmitType DEF RunTypes
  <1>5. Calling(work', turn', iteration')
    BY <1>1, <1>2, <1>3, CallAsked DEF RunTypes, RunState
  <1>6. RunState(stage, work, turn, iteration)'
    BY <1>1, <1>5 DEF RunState, InRun, Filing
  <1>7. Counters'
    BY <1>1, <1>2 DEF RunTypes, Counters
  <1>8. /\ iteration' \in 0 .. MaxIterations /\ emptyRetries' \in 0 .. MaxIterations
        /\ recoveries' \in 0 .. MaxLengthRecoveries /\ cycles' \in 0 .. InjectionCycles
        /\ queue' \in Queues /\ place' \in [Msg -> Place] /\ stage' \in InRun \cup {"save"}
    BY <1>1, <1>2 DEF RunTypes, InRun
  <1> QED BY <1>1, <1>2, <1>4, <1>6, <1>7, <1>8, RunnerInvNext

LEMMA ChangeGoalOK ==
    ASSUME RunInv, ChangeGoal, UNCHANGED <<replied, troubles>>
    PROVE  RunInv'
  <1>1. /\ stage = "tools" /\ stage' = "results" /\ goal' = ~goal
        /\ UNCHANGED <<log, checkpoint, pending, disk, archived, turn, work, queue, place>>
        /\ iteration' = iteration /\ emptyRetries' = emptyRetries
        /\ recoveries' = recoveries /\ cycles' = cycles
    BY DEF ChangeGoal, run
  <1>2. RunTypes
    BY <1>1, InRunTypes DEF InRun
  <1>3. SessionTypeOK'
    BY <1>1, <1>2 DEF RunTypes, SessionTypeOK
  <1>4. RunState(stage, work, turn, iteration)'
    BY <1>1, <1>2 DEF RunTypes, RunState, InRun, Filing
  <1>5. Counters'
    BY <1>1, <1>2 DEF RunTypes, Counters
  <1>6. /\ iteration' \in 0 .. MaxIterations /\ emptyRetries' \in 0 .. MaxIterations
        /\ recoveries' \in 0 .. MaxLengthRecoveries /\ cycles' \in 0 .. InjectionCycles
        /\ queue' \in Queues /\ place' \in [Msg -> Place] /\ stage' \in InRun \cup {"save"}
    BY <1>1, <1>2 DEF RunTypes, InRun
  <1> QED BY <1>1, <1>2, <1>3, <1>4, <1>5, <1>6, RunnerInvNext

LEMMA ToolsDoneOK ==
    ASSUME RunInv, ToolsDone, UNCHANGED <<replied, troubles>>
    PROVE  RunInv'
  <1> DEFINE rows == Append(work, Row("result", turn, iteration + 1, {}))
  <1>1. /\ stage \in {"tools", "results"} /\ Continue /\ turn' = turn
        /\ checkpoint' = [phase |-> "completed", turn |-> turn, n |-> iteration + 1]
        /\ UNCHANGED <<log, pending, goal, archived>> /\ Save
        /\ emptyRetries' = 0 /\ recoveries' = 0
    BY DEF ToolsDone, Emit
  <1>2. RunTypes
    BY <1>1, InRunTypes DEF InRun
  <1>3. iteration \in Nat /\ iteration + 1 \in Nat \ {0}
    BY <1>2, BoundsOK DEF RunTypes, Bounds
  <1>4. SessionTypeOK'
    BY <1>1, <1>2, <1>3, EmitType DEF RunTypes
  <1>5. Asking(rows, turn, iteration, {"call", "result"})
    BY <1>1, <1>2, <1>3, ResultCome DEF RunTypes, RunState
  <1>6. /\ cycles' \in 0 .. InjectionCycles /\ queue' \in Queues /\ place' \in [Msg -> Place]
        /\ \E K : Asking(work', turn, iteration, K)
    <2>1. CASE /\ CanInject /\ cycles' = cycles + 1 /\ queue' = Left
               /\ work' = WithFollowUps(rows, ToSet(Taken))
               /\ place' = [m \in Msg |-> IF m \notin ToSet(Taken) THEN place[m]
                                    ELSE IF rows = <<>> THEN "absorbed" ELSE "working"]
      <3>1. /\ rows \in Log /\ RunRows(rows, turn, iteration, {"call", "result"}) /\ Transcript(rows)
            /\ "inject" \notin {"call", "result"}
        BY <1>5 DEF Asking
      <3>2. work' = FollowUps(rows, turn, iteration, ToSet(Taken))
        BY <2>1, FollowedRows DEF WithFollowUps, FollowUps, LastSays
      <3> HIDE DEF rows
      <3> QED BY <1>2, <2>1, <3>1, <3>2, Injected
    <2>2. CASE NoInjection /\ work' = rows
      BY <1>2, <1>5, <2>2, NotInjected
    <2> QED BY <2>1, <2>2 DEF ToolsDone, Inject, Ours
  <1>7. /\ stage' \in InRun \cup {"save"} /\ iteration' \in 0 .. MaxIterations
        /\ emptyRetries' \in 0 .. MaxIterations
        /\ Counters' /\ RunState(stage, work, turn, iteration)'
    BY <1>1, <1>2, <1>3, <1>6, Continued
  <1>8. recoveries' \in 0 .. MaxLengthRecoveries
    BY <1>1, BoundsOK DEF Bounds
  <1> QED BY <1>1, <1>2, <1>4, <1>6, <1>7, <1>8, RunnerInvNext

\* A run that asks the model does not end in a text: a final row is one more.
LEMMA OneTextMore ==
    ASSUME NEW rows, ~EndsWith(rows, {"text"})
    PROVE  /\ WithFinal(rows) = Append(rows, Row("text", turn, iteration + 1, {}))
           /\ WithPlaceholder(rows) = Append(rows, Row("text", turn, iteration + 1, {}))
  BY DEF WithFinal, WithPlaceholder, Ours

LEMMA ClosedMore ==
    ASSUME NEW rows, NEW t, NEW N \in Nat, NEW K, NEW L, K \subseteq L, Closed(rows, t, N, K)
    PROVE  Closed(rows, t, N, L)
  BY MoreKinds DEF Closed

LEMMA ToolsFatalOK ==
    ASSUME RunInv, ToolsFatal, UNCHANGED <<replied, troubles>>
    PROVE  RunInv'
  <1> DEFINE rows == Append(work, Row("result", turn, iteration + 1, {}))
  <1>1. /\ stage \in {"tools", "results"} /\ work' = WithFinal(rows) /\ stage' = "drainError"
        /\ turn' = turn /\ queue' = queue /\ place' = place /\ UNCHANGED session
        /\ iteration' = iteration /\ emptyRetries' = emptyRetries
        /\ recoveries' = recoveries /\ cycles' = cycles
    BY DEF ToolsFatal, Ours, run
  <1>2. RunTypes
    BY <1>1, InRunTypes DEF InRun
  <1>3. iteration \in Nat
    BY <1>2, BoundsOK DEF RunTypes, Bounds
  <1>4. Asking(rows, turn, iteration, {"call", "result"})
    BY <1>1, <1>2, <1>3, ResultCome DEF RunTypes, RunState
  <1>5. work' = Append(rows, Row("text", turn, iteration + 1, {}))
    BY <1>1, <1>4, OneTextMore DEF Asking, WithFinal, Ours
  <1> HIDE DEF rows
  <1>6. Closed(work', turn, iteration, {"call", "result"} \cup {"text"})
    BY <1>2, <1>3, <1>4, <1>5, TextWritten DEF RunTypes
  <1>7. {"call", "result"} \cup {"text"} = {"call", "result", "text"}
    OBVIOUS
  <1>8. RunState(stage, work, turn, iteration)'
    BY <1>1, <1>6, <1>7 DEF RunState, InRun, Filing
  <1>9. Counters'
    BY <1>1, <1>2, <1>3 DEF RunTypes, Counters
  <1>10. SessionTypeOK'
    BY <1>1, <1>2, SessionKept DEF RunTypes
  <1>11. /\ iteration' \in 0 .. MaxIterations /\ emptyRetries' \in 0 .. MaxIterations
        /\ recoveries' \in 0 .. MaxLengthRecoveries /\ cycles' \in 0 .. InjectionCycles
        /\ queue' \in Queues /\ place' \in [Msg -> Place] /\ stage' \in InRun \cup {"save"}
    BY <1>1, <1>2 DEF RunTypes, InRun
  <1> QED BY <1>1, <1>2, <1>8, <1>9, <1>10, <1>11, RunnerInvNext

LEMMA AskBlankOK ==
    ASSUME RunInv, AskBlank, UNCHANGED <<replied, troubles>>
    PROVE  RunInv'
  <1>1. /\ stage = "ask" /\ work' = work /\ emptyRetries' = emptyRetries + 1
        /\ turn' = turn /\ queue' = queue /\ place' = place /\ UNCHANGED session
        /\ recoveries' = recoveries /\ cycles' = cycles
    BY DEF AskBlank
  <1>2. RunTypes
    BY <1>1, InRunTypes DEF InRun
  <1>3. /\ iteration \in Nat /\ emptyRetries \in Nat /\ iteration < MaxIterations
        /\ emptyRetries <= iteration /\ MaxIterations \in Nat
    BY <1>1, <1>2, BoundsOK DEF RunTypes, Bounds, Counters
  <1>4. Asking(work, turn, iteration, {})
    BY <1>1, <1>2 DEF RunTypes, RunState
  <1>5. /\ stage' \in InRun \cup {"save"} /\ iteration' \in 0 .. MaxIterations
        /\ emptyRetries' \in 0 .. MaxIterations
        /\ Counters' /\ RunState(stage, work, turn, iteration)'
    <2>1. CASE Continue
      <3>1. emptyRetries' \in Nat /\ emptyRetries' <= iteration + 1
        BY <1>1, <1>3
      <3>2. Asking(work', turn, iteration, {}) /\ turn' = turn
        BY <1>1, <1>4
      <3> QED BY <1>1, <1>2, <2>1, <3>1, <3>2, Continued
    <2>2. CASE stage' = "finalize" /\ iteration' = iteration
      <3>1. RunState(stage, work, turn, iteration)'
        BY <1>1, <1>4, <2>2 DEF RunState, InRun, Filing
      <3>2. Counters'
        BY <1>1, <1>3, <2>2 DEF Counters
      <3> QED BY <1>1, <1>3, <2>2, <3>1, <3>2 DEF InRun
    <2> QED BY <2>1, <2>2 DEF AskBlank
  <1>6. SessionTypeOK'
    BY <1>1, <1>2, SessionKept DEF RunTypes
  <1>7. /\ recoveries' \in 0 .. MaxLengthRecoveries /\ cycles' \in 0 .. InjectionCycles
        /\ queue' \in Queues /\ place' \in [Msg -> Place]
    BY <1>1, <1>2 DEF RunTypes
  <1> QED BY <1>1, <1>2, <1>5, <1>6, <1>7, RunnerInvNext

LEMMA TwoMore ==
    ASSUME NEW rows \in Log, NEW a \in RowType, NEW b \in RowType
    PROVE  rows \o <<a, b>> = Append(Append(rows, a), b)
  <1> DEFINE two == <<a, b>>
             s == rows \o two
             q == Append(Append(rows, a), b)
             n == Len(rows)
  <1>1. two \in Log /\ Len(two) = 2 /\ two[1] = a /\ two[2] = b
    <2> HIDE DEF Log
    <2>1. two \in Seq(RowType)
      OBVIOUS
    <2> QED BY <2>1 DEF Log
  <1>2. /\ n \in Nat /\ q \in Log /\ Len(q) = n + 2
        /\ \A i \in 1 .. n : q[i] = rows[i]
        /\ q[n + 1] = a /\ q[n + 2] = b
    <2> DEFINE mid == Append(rows, a)
    <2>1. /\ n \in Nat /\ mid \in Log /\ Len(mid) = n + 1
          /\ \A i \in 1 .. n : mid[i] = rows[i]
          /\ mid[n + 1] = a
      BY LogFacts, AppendRow
    <2>2. q = Append(mid, b)
      OBVIOUS
    <2> HIDE DEF mid, q, n
    <2>3. /\ q \in Log /\ Len(q) = Len(mid) + 1
          /\ \A i \in 1 .. Len(mid) : q[i] = mid[i]
          /\ q[Len(mid) + 1] = b
      BY <2>1, <2>2, AppendRow
    <2>4. /\ q \in Log /\ Len(q) = n + 2
          /\ \A i \in 1 .. n + 1 : q[i] = mid[i]
          /\ q[n + 2] = b
      BY <2>1, <2>3
    <2> QED BY <2>1, <2>4
  <1> HIDE DEF two
  <1>3. /\ s \in Log /\ Len(s) = n + Len(two)
        /\ \A i \in 1 .. n : s[i] = rows[i]
        /\ \A i \in 1 .. Len(two) : s[n + i] = two[i]
    BY <1>1, JoinRows
  <1> HIDE DEF s, q, n
  <1>4. s[n + 1] = a /\ s[n + 2] = b
    BY <1>1, <1>3
  <1>5. \A i \in 1 .. n + 2 : s[i] = q[i]
    <2> TAKE i \in 1 .. n + 2
    <2>1. i \in 1 .. n \/ i = n + 1 \/ i = n + 2
      BY <1>2
    <2> QED BY <2>1, <1>2, <1>3, <1>4
  <1>6. s = q
    <2>1. s \in Seq(RowType) /\ q \in Seq(RowType) /\ Len(s) = n + 2 /\ Len(q) = n + 2
      BY <1>1, <1>2, <1>3 DEF Log
    <2> QED BY <1>5, <2>1, SeqEqual
  <1> QED BY <1>6 DEF s, q, two

LEMMA CutOffOK ==
    ASSUME RunInv, CutOff, UNCHANGED <<replied, troubles>>
    PROVE  RunInv'
  <1> DEFINE rows == Append(work, Row("text", turn, iteration + 1, {}))
  <1>1. /\ stage \in {"ask", "finalize"} /\ Continue /\ CanRecover
        /\ recoveries' = recoveries + 1 /\ emptyRetries' = emptyRetries
        /\ work' = work \o <<Row("text", turn, iteration + 1, {}), Row("prompt", turn, iteration + 1, {})>>
        /\ turn' = turn /\ queue' = queue /\ place' = place /\ UNCHANGED session
        /\ cycles' = cycles
    BY DEF CutOff, Ours
  <1>2. RunTypes
    BY <1>1, InRunTypes DEF InRun
  <1>3. iteration \in Nat /\ emptyRetries \in Nat /\ emptyRetries <= iteration + 1
    BY <1>1, <1>2, BoundsOK DEF RunTypes, Bounds, Counters
  <1>4. Asking(work, turn, iteration, {}) /\ work \in Log
    BY <1>1, <1>2 DEF RunTypes, RunState
  <1>5. Closed(rows, turn, iteration, {} \cup {"text"})
    BY <1>2, <1>3, <1>4, TextWritten DEF RunTypes
  <1>6. /\ Row("text", turn, iteration + 1, {}) \in RowType
        /\ Row("prompt", turn, iteration + 1, {}) \in RowType
    BY <1>2, <1>3 DEF RunTypes, Row, RowType, RowKind, UserKind
  <1>7. work' = Append(rows, Row("prompt", turn, iteration + 1, {}))
    BY <1>1, <1>4, <1>6, TwoMore
  <1> HIDE DEF rows
  <1>8. Asking(work', turn, iteration, ({} \cup {"text"}) \cup {"prompt"})
    <2>1. /\ rows \in Log /\ RunRows(rows, turn, iteration, {} \cup {"text"}) /\ Transcript(rows)
          /\ "prompt" \in {"inject", "prompt"} /\ "prompt" \notin {} \cup {"text"} /\ {} \in SUBSET Msg
          /\ turn \in Msg
      BY <1>2, <1>5 DEF Closed, RunTypes
    <2> QED BY <1>3, <1>7, <2>1, UserWritten
  <1>9. /\ stage' \in InRun \cup {"save"} /\ iteration' \in 0 .. MaxIterations
        /\ emptyRetries' \in 0 .. MaxIterations
        /\ Counters' /\ RunState(stage, work, turn, iteration)'
    BY <1>1, <1>2, <1>3, <1>8, Continued
  <1>10. SessionTypeOK'
    BY <1>1, <1>2, SessionKept DEF RunTypes
  <1>11. /\ recoveries' \in 0 .. MaxLengthRecoveries /\ cycles' \in 0 .. InjectionCycles
        /\ queue' \in Queues /\ place' \in [Msg -> Place]
    BY <1>1, <1>2, BoundsOK DEF RunTypes, CanRecover, Bounds
  <1> QED BY <1>1, <1>2, <1>9, <1>10, <1>11, RunnerInvNext

LEMMA AnswerResumedOK ==
    ASSUME RunInv, AnswerResumed, UNCHANGED <<replied, troubles>>
    PROVE  RunInv'
  <1> DEFINE rows == Append(work, Row("text", turn, iteration + 1, {}))
  <1>1. /\ stage \in {"ask", "finalize"} /\ Continue /\ turn' = turn
        /\ checkpoint' = [phase |-> "final", turn |-> turn, n |-> iteration + 1]
        /\ UNCHANGED <<log, pending, goal, archived>> /\ Save
        /\ emptyRetries' = emptyRetries /\ recoveries' = recoveries
    BY DEF AnswerResumed, Emit
  <1>2. RunTypes
    BY <1>1, InRunTypes DEF InRun
  <1>3. iteration \in Nat /\ iteration + 1 \in Nat \ {0} /\ emptyRetries \in Nat
        /\ emptyRetries <= iteration + 1 /\ turn \in Msg
    BY <1>1, <1>2, BoundsOK DEF RunTypes, Bounds, Counters
  <1>4. SessionTypeOK'
    BY <1>1, <1>2, <1>3, EmitType DEF RunTypes
  <1>5. Closed(rows, turn, iteration, {} \cup {"text"})
    BY <1>1, <1>2, <1>3, TextWritten DEF RunTypes, RunState
  <1>6. /\ cycles' \in 0 .. InjectionCycles /\ queue' \in Queues /\ place' \in [Msg -> Place]
        /\ \E K : Asking(work', turn, iteration, K)
    <2>0. /\ rows \in Log /\ RunRows(rows, turn, iteration, {} \cup {"text"}) /\ Transcript(rows)
          /\ "inject" \notin {} \cup {"text"} /\ "prompt" \notin {} \cup {"text"}
      BY <1>5 DEF Closed
    <2>1. CASE /\ CanInject /\ cycles' = cycles + 1 /\ queue' = Left
               /\ work' = WithFollowUps(rows, ToSet(Taken))
               /\ place' = [m \in Msg |-> IF m \notin ToSet(Taken) THEN place[m]
                                    ELSE IF rows = <<>> THEN "absorbed" ELSE "working"]
      <3>1. work' = FollowUps(rows, turn, iteration, ToSet(Taken))
        BY <2>1, FollowedRows DEF WithFollowUps, FollowUps, LastSays
      <3> HIDE DEF rows
      <3> QED BY <1>2, <2>0, <2>1, <3>1, Injected
    <2>2. CASE NoInjection /\ work' = Append(rows, Row("prompt", turn, iteration + 1, {}))
      <3> HIDE DEF rows
      <3>1. Asking(work', turn, iteration, ({} \cup {"text"}) \cup {"prompt"})
        <4>1. "prompt" \in {"inject", "prompt"} /\ {} \in SUBSET Msg
          OBVIOUS
        <4> QED BY <1>3, <2>0, <2>2, <4>1, UserWritten
      <3> QED BY <1>2, <2>2, <3>1, NotInjected
    <2> QED BY <2>1, <2>2 DEF AnswerResumed, Inject, Ours
  <1>7. /\ stage' \in InRun \cup {"save"} /\ iteration' \in 0 .. MaxIterations
        /\ emptyRetries' \in 0 .. MaxIterations
        /\ Counters' /\ RunState(stage, work, turn, iteration)'
    BY <1>1, <1>2, <1>3, <1>6, Continued
  <1>8. recoveries' \in 0 .. MaxLengthRecoveries
    BY <1>1, <1>2 DEF RunTypes
  <1> QED BY <1>1, <1>2, <1>4, <1>6, <1>7, <1>8, RunnerInvNext

\* A run that is over, with a text as its last row.
LEMMA RunOver ==
    ASSUME RunTypes, stage' \in {"drainError", "save"}, turn' = turn, iteration' = iteration,
           iteration < MaxIterations,
           emptyRetries' = emptyRetries, emptyRetries <= iteration + 1,
           NEW K \in SUBSET {"call", "result", "text"}, Closed(work', turn, iteration, K)
    PROVE  Counters' /\ RunState(stage, work, turn, iteration)'
  <1>1. iteration \in Nat
    BY BoundsOK DEF RunTypes, Bounds
  <1>2. {"call", "result", "text"} \subseteq RowKind /\ K \subseteq RowKind
    BY DEF RowKind
  <1>3. /\ Closed(work', turn, iteration, {"call", "result", "text"})
        /\ Closed(work', turn, iteration, RowKind)
    BY <1>1, <1>2, ClosedMore
  <1>4. RunState(stage, work, turn, iteration)'
    BY <1>3 DEF RunState, InRun, Filing
  <1>5. Counters'
    BY DEF Counters
  <1> QED BY <1>4, <1>5

LEMMA AnswerGivenOK ==
    ASSUME RunInv, AnswerGiven, UNCHANGED <<replied, troubles>>
    PROVE  RunInv'
  <1>1. /\ stage \in {"ask", "finalize"} /\ NoInjection /\ stage' = "save" /\ turn' = turn
        /\ work' = Append(work, Row("text", turn, iteration + 1, {}))
        /\ checkpoint' = [phase |-> "final", turn |-> turn, n |-> iteration + 1]
        /\ UNCHANGED <<log, pending, goal, archived>> /\ Save
        /\ iteration' = iteration /\ emptyRetries' = emptyRetries /\ recoveries' = recoveries
    BY DEF AnswerGiven, Emit, Ours
  <1>2. RunTypes
    BY <1>1, InRunTypes DEF InRun
  <1>3. iteration \in Nat /\ iteration + 1 \in Nat \ {0} /\ iteration < MaxIterations
        /\ emptyRetries \in Nat /\ emptyRetries <= iteration + 1 /\ turn \in Msg
    BY <1>1, <1>2, BoundsOK DEF RunTypes, Bounds, Counters
  <1>4. SessionTypeOK'
    BY <1>1, <1>2, <1>3, EmitType DEF RunTypes
  <1>5. Closed(work', turn, iteration, {} \cup {"text"})
    BY <1>1, <1>2, <1>3, TextWritten DEF RunTypes, RunState
  <1>6. {} \cup {"text"} \in SUBSET {"call", "result", "text"}
    OBVIOUS
  <1>7. Counters' /\ RunState(stage, work, turn, iteration)'
    BY <1>1, <1>2, <1>3, <1>5, <1>6, RunOver
  <1>8. /\ cycles' \in 0 .. InjectionCycles /\ queue' \in Queues /\ place' \in [Msg -> Place]
    BY <1>1, <1>2, NotInjected
  <1>9. /\ iteration' \in 0 .. MaxIterations /\ emptyRetries' \in 0 .. MaxIterations
        /\ recoveries' \in 0 .. MaxLengthRecoveries /\ stage' \in InRun \cup {"save"}
    BY <1>1, <1>2 DEF RunTypes
  <1> QED BY <1>1, <1>2, <1>4, <1>7, <1>8, <1>9, RunnerInvNext

LEMMA AskFailedOK ==
    ASSUME RunInv, AskFailed, UNCHANGED <<replied, troubles>>
    PROVE  RunInv'
  <1>1. /\ stage \in {"ask", "finalize"} /\ turn' = turn /\ UNCHANGED session
        /\ emptyRetries' = emptyRetries /\ recoveries' = recoveries
    BY DEF AskFailed
  <1>2. RunTypes
    BY <1>1, InRunTypes DEF InRun
  <1>3. iteration \in Nat /\ iteration < MaxIterations
        /\ emptyRetries \in Nat /\ emptyRetries <= iteration + 1 /\ turn \in Msg
    BY <1>1, <1>2, BoundsOK DEF RunTypes, Bounds, Counters
  <1>4. Asking(work, turn, iteration, {})
    BY <1>1, <1>2 DEF RunTypes, RunState
  <1>5. /\ cycles' \in 0 .. InjectionCycles /\ queue' \in Queues /\ place' \in [Msg -> Place]
        /\ stage' \in InRun \cup {"save"} /\ iteration' \in 0 .. MaxIterations
        /\ emptyRetries' \in 0 .. MaxIterations
        /\ Counters' /\ RunState(stage, work, turn, iteration)'
    <2>1. CASE /\ CanInject /\ cycles' = cycles + 1 /\ queue' = Left
               /\ work' = WithFollowUps(work, ToSet(Taken))
               /\ place' = [m \in Msg |-> IF m \notin ToSet(Taken) THEN place[m]
                                    ELSE IF work = <<>> THEN "absorbed" ELSE "working"]
               /\ Continue
      <3>1. work' = FollowUps(work, turn, iteration, ToSet(Taken))
        BY <2>1, FollowedRows DEF WithFollowUps, FollowUps, LastSays
      <3>2. work \in Log /\ RunRows(work, turn, iteration, {}) /\ Transcript(work)
        BY <1>4 DEF Asking
      <3>3. /\ cycles' \in 0 .. InjectionCycles /\ queue' \in Queues /\ place' \in [Msg -> Place]
            /\ Asking(work', turn, iteration, {} \cup {"inject"})
        BY <1>2, <2>1, <3>1, <3>2, Injected
      <3>4. /\ stage' \in InRun \cup {"save"} /\ iteration' \in 0 .. MaxIterations
            /\ emptyRetries' \in 0 .. MaxIterations
            /\ Counters' /\ RunState(stage, work, turn, iteration)'
        BY <1>1, <1>2, <1>3, <2>1, <3>3, Continued
      <3> QED BY <3>3, <3>4
    <2>2. CASE /\ NoInjection /\ work' \in {WithPlaceholder(work), WithFinal(work)}
               /\ stage' = "drainError" /\ iteration' = iteration
      <3>1. work' = Append(work, Row("text", turn, iteration + 1, {}))
        BY <1>4, <2>2, OneTextMore DEF Asking, WithFinal, WithPlaceholder, Ours
      <3>2. Closed(work', turn, iteration, {} \cup {"text"})
        BY <1>3, <1>4, <3>1, TextWritten
      <3>3. {} \cup {"text"} \in SUBSET {"call", "result", "text"}
        OBVIOUS
      <3>4. Counters' /\ RunState(stage, work, turn, iteration)'
        BY <1>1, <1>2, <1>3, <2>2, <3>2, <3>3, RunOver
      <3>5. /\ cycles' \in 0 .. InjectionCycles /\ queue' \in Queues /\ place' \in [Msg -> Place]
        BY <1>2, <2>2, NotInjected
      <3>6. /\ iteration' \in 0 .. MaxIterations /\ emptyRetries' \in 0 .. MaxIterations
            /\ stage' \in InRun \cup {"save"}
        BY <1>1, <1>2, <2>2 DEF RunTypes, InRun
      <3> QED BY <3>4, <3>5, <3>6
    <2> QED BY <2>1, <2>2 DEF AskFailed, DrainOr, Inject
  <1>6. SessionTypeOK' /\ recoveries' \in 0 .. MaxLengthRecoveries
    BY <1>1, <1>2, SessionKept DEF RunTypes
  <1> QED BY <1>1, <1>2, <1>5, <1>6, RunnerInvNext

LEMMA DrainErrorOK ==
    ASSUME RunInv, DrainError, UNCHANGED <<replied, troubles>>
    PROVE  RunInv'
  <1>1. /\ stage = "drainError" /\ turn' = turn /\ UNCHANGED session
        /\ emptyRetries' = emptyRetries /\ recoveries' = recoveries
    BY DEF DrainError
  <1>2. RunTypes
    BY <1>1, InRunTypes DEF InRun
  <1>3. iteration \in Nat /\ iteration < MaxIterations
        /\ emptyRetries \in Nat /\ emptyRetries <= iteration + 1 /\ turn \in Msg
    BY <1>1, <1>2, BoundsOK DEF RunTypes, Bounds, Counters
  <1>4. Closed(work, turn, iteration, {"call", "result", "text"})
    BY <1>1, <1>2 DEF RunTypes, RunState
  <1>5. /\ cycles' \in 0 .. InjectionCycles /\ queue' \in Queues /\ place' \in [Msg -> Place]
        /\ stage' \in InRun \cup {"save"} /\ iteration' \in 0 .. MaxIterations
        /\ emptyRetries' \in 0 .. MaxIterations
        /\ Counters' /\ RunState(stage, work, turn, iteration)'
    <2>1. CASE /\ CanInject /\ cycles' = cycles + 1 /\ queue' = Left
               /\ work' = WithFollowUps(work, ToSet(Taken))
               /\ place' = [m \in Msg |-> IF m \notin ToSet(Taken) THEN place[m]
                                    ELSE IF work = <<>> THEN "absorbed" ELSE "working"]
               /\ Continue
      <3>1. work' = FollowUps(work, turn, iteration, ToSet(Taken))
        BY <2>1, FollowedRows DEF WithFollowUps, FollowUps, LastSays
      <3>2. /\ work \in Log /\ RunRows(work, turn, iteration, {"call", "result", "text"})
            /\ Transcript(work) /\ "inject" \notin {"call", "result", "text"}
        BY <1>4 DEF Closed
      <3>3. /\ cycles' \in 0 .. InjectionCycles /\ queue' \in Queues /\ place' \in [Msg -> Place]
            /\ Asking(work', turn, iteration, {"call", "result", "text"} \cup {"inject"})
        BY <1>2, <2>1, <3>1, <3>2, Injected
      <3>4. /\ stage' \in InRun \cup {"save"} /\ iteration' \in 0 .. MaxIterations
            /\ emptyRetries' \in 0 .. MaxIterations
            /\ Counters' /\ RunState(stage, work, turn, iteration)'
        BY <1>1, <1>2, <1>3, <2>1, <3>3, Continued
      <3> QED BY <3>3, <3>4
    <2>2. CASE NoInjection /\ stage' = "save" /\ work' = work /\ iteration' = iteration
      <3>1. {"call", "result", "text"} \in SUBSET {"call", "result", "text"}
        OBVIOUS
      <3>2. Counters' /\ RunState(stage, work, turn, iteration)'
        BY <1>1, <1>2, <1>3, <1>4, <2>2, <3>1, RunOver
      <3>3. /\ cycles' \in 0 .. InjectionCycles /\ queue' \in Queues /\ place' \in [Msg -> Place]
        BY <1>2, <2>2, NotInjected
      <3>4. /\ iteration' \in 0 .. MaxIterations /\ emptyRetries' \in 0 .. MaxIterations
            /\ stage' \in InRun \cup {"save"}
        BY <1>1, <1>2, <2>2 DEF RunTypes, InRun
      <3> QED BY <3>2, <3>3, <3>4
    <2> QED BY <2>1, <2>2 DEF DrainError, DrainOr, Inject
  <1>6. SessionTypeOK' /\ recoveries' \in 0 .. MaxLengthRecoveries
    BY <1>1, <1>2, SessionKept DEF RunTypes
  <1> QED BY <1>1, <1>2, <1>5, <1>6, RunnerInvNext

LEMMA ExhaustedOK ==
    ASSUME RunInv, Exhausted, UNCHANGED <<replied, troubles>>
    PROVE  RunInv'
  <1>1. /\ stage = "exhausted" /\ stage' = "closing" /\ turn' = turn /\ UNCHANGED session
        /\ iteration' = iteration /\ emptyRetries' = emptyRetries /\ recoveries' = recoveries
    BY DEF Exhausted
  <1>2. RunTypes
    BY <1>1, InRunTypes DEF InRun
  <1>3. iteration \in Nat
    BY <1>2, BoundsOK DEF RunTypes, Bounds
  <1>4. Asking(work, turn, iteration, {})
    BY <1>1, <1>2 DEF RunTypes, RunState
  <1>5. /\ cycles' \in 0 .. InjectionCycles /\ queue' \in Queues /\ place' \in [Msg -> Place]
        /\ Asking(work', turn, iteration, {"inject"})
    <2>0. /\ work \in Log /\ RunRows(work, turn, iteration, {}) /\ Transcript(work)
          /\ "inject" \notin {} /\ {} \cup {"inject"} = {"inject"} /\ {} \subseteq {"inject"}
      BY <1>4 DEF Asking
    <2>1. CASE /\ CanInject /\ cycles' = cycles + 1 /\ queue' = Left
               /\ work' = WithFollowUps(work, ToSet(Taken))
               /\ place' = [m \in Msg |-> IF m \notin ToSet(Taken) THEN place[m]
                                    ELSE IF work = <<>> THEN "absorbed" ELSE "working"]
      <3>1. work' = FollowUps(work, turn, iteration, ToSet(Taken))
        BY <2>1, FollowedRows DEF WithFollowUps, FollowUps, LastSays
      <3>2. /\ cycles' \in 0 .. InjectionCycles /\ queue' \in Queues /\ place' \in [Msg -> Place]
            /\ Asking(work', turn, iteration, {} \cup {"inject"})
        BY <1>2, <2>0, <2>1, <3>1, Injected
      <3> QED BY <2>0, <3>2
    <2>2. CASE NoInjection /\ work' = work
      <3>1. RunRows(work', turn, iteration, {"inject"})
        BY <1>3, <2>0, <2>2, MoreKinds
      <3>2. Asking(work', turn, iteration, {"inject"})
        BY <1>4, <2>2, <3>1 DEF Asking
      <3> QED BY <1>2, <2>2, <3>2, NotInjected
    <2> QED BY <2>1, <2>2 DEF Exhausted, Inject
  <1>6. RunState(stage, work, turn, iteration)'
    BY <1>1, <1>5 DEF RunState, InRun, Filing
  <1>7. Counters'
    BY <1>1 DEF Counters
  <1>8. /\ SessionTypeOK' /\ recoveries' \in 0 .. MaxLengthRecoveries
        /\ iteration' \in 0 .. MaxIterations /\ emptyRetries' \in 0 .. MaxIterations
        /\ stage' \in InRun \cup {"save"}
    BY <1>1, <1>2, SessionKept DEF RunTypes, InRun
  <1> QED BY <1>1, <1>2, <1>5, <1>6, <1>7, <1>8, RunnerInvNext

LEMMA RunOK ==
    ASSUME RunInv, Run
    PROVE  RunInv'
  BY AskToolsOK, ChangeGoalOK, ToolsDoneOK, ToolsFatalOK, AskBlankOK, CutOffOK, AnswerResumedOK,
     AnswerGivenOK, AskFailedOK, DrainErrorOK, ExhaustedOK DEF Run, RunnerNext

-----------------------------------------------------------------------------
(* The checkpoint *)

LEMMA CheckpointRowsOK ==
    ASSUME NEW c \in CheckpointType
    PROVE  /\ CheckpointRows(c) \in Log
           /\ Len(CheckpointRows(c)) \in {1, 2}
           /\ \A i \in 1 .. Len(CheckpointRows(c)) :
                 /\ CheckpointRows(c)[i].turn = c.turn /\ CheckpointRows(c)[i].n = c.n
                 /\ CheckpointRows(c)[i].said = {} /\ CheckpointRows(c)[i].kind \notin UserKind
           /\ Transcript(CheckpointRows(c))
  <1>0. c.phase \in {"awaiting", "completed", "final"} /\ c.turn \in Msg /\ c.n \in Nat
    BY DEF CheckpointType
  <1>1. ASSUME NEW kind \in RowKind
        PROVE  /\ Row(kind, c.turn, c.n, {}) \in RowType
               /\ Row(kind, c.turn, c.n, {}).kind = kind
               /\ Row(kind, c.turn, c.n, {}).turn = c.turn
               /\ Row(kind, c.turn, c.n, {}).n = c.n
               /\ Row(kind, c.turn, c.n, {}).said = {}
    BY <1>0, <1>1 DEF Row, RowType
  <1>2. ASSUME NEW a \in RowType, NEW b \in RowType, a.kind = "call",
               b.kind \in {"result", "interrupted"}, SameRow([a EXCEPT !.kind = b.kind], b)
        PROVE  <<a, b>> \in Log /\ Len(<<a, b>>) = 2 /\ Transcript(<<a, b>>)
    <2> DEFINE s == <<a, b>>
    <2>1. s \in Seq(RowType) /\ Len(s) = 2 /\ DOMAIN s = {1, 2} /\ s[1] = a /\ s[2] = b
      OBVIOUS
    <2> HIDE DEF s
    <2>2. a.turn = b.turn /\ a.n = b.n
      BY <1>2 DEF SameRow, RowType
    <2>3. NoRowTwice(s)
      BY <2>1, <1>2 DEF NoRowTwice, SameRow
    <2>4. \A i \in DOMAIN s : s[i].kind = "call" => i + 1 \in DOMAIN s /\ Answers(s[i + 1], s[i])
      BY <2>1, <2>2, <1>2 DEF Answers
    <2>5. ResultsCalled(s)
      BY <2>1, <2>2, <1>2 DEF ResultsCalled, Answers
    <2> QED BY <2>1, <2>3, <2>4, <2>5, TranscriptIs DEF Log, s
  <1>3. ASSUME NEW b \in RowType, b.kind = "text"
        PROVE  <<b>> \in Log /\ Len(<<b>>) = 1 /\ Transcript(<<b>>)
    <2> DEFINE s == <<b>>
    <2>1. s \in Seq(RowType) /\ Len(s) = 1 /\ DOMAIN s = {1} /\ s[1] = b
      OBVIOUS
    <2> HIDE DEF s
    <2> QED BY <2>1, <1>3, TranscriptIs DEF NoRowTwice, ResultsCalled, Log, s
  <1> DEFINE call == Row("call", c.turn, c.n, {})
             cut == Row("interrupted", c.turn, c.n, {})
             result == Row("result", c.turn, c.n, {})
             text == Row("text", c.turn, c.n, {})
  <1>4. /\ {call, cut, result, text} \subseteq RowType
        /\ \A r \in {call, cut, result, text} : r.turn = c.turn /\ r.n = c.n /\ r.said = {}
        /\ call.kind = "call" /\ cut.kind = "interrupted" /\ result.kind = "result" /\ text.kind = "text"
    <2>1. {"call", "interrupted", "result", "text"} \subseteq RowKind
      BY DEF RowKind
    <2> QED BY <2>1, <1>1
  <1>5. CheckpointRows(c) \in {<<call, cut>>, <<call, result>>, <<text>>}
    BY <1>0 DEF CheckpointRows
  <1> HIDE DEF call, cut, result, text
  <1>6. CASE CheckpointRows(c) = <<call, cut>>
    <2>1. SameRow([call EXCEPT !.kind = cut.kind], cut)
      BY <1>4 DEF SameRow, RowType
    <2>2. CheckpointRows(c) \in Log /\ Len(CheckpointRows(c)) = 2 /\ Transcript(CheckpointRows(c))
      BY <1>2, <1>4, <1>6, <2>1
    <2> QED BY <1>4, <1>6, <2>2 DEF UserKind
  <1>7. CASE CheckpointRows(c) = <<call, result>>
    <2>1. SameRow([call EXCEPT !.kind = result.kind], result)
      BY <1>4 DEF SameRow, RowType
    <2>2. CheckpointRows(c) \in Log /\ Len(CheckpointRows(c)) = 2 /\ Transcript(CheckpointRows(c))
      BY <1>2, <1>4, <1>7, <2>1
    <2> QED BY <1>4, <1>7, <2>2 DEF UserKind
  <1>8. CASE CheckpointRows(c) = <<text>>
    BY <1>3, <1>4, <1>8 DEF UserKind
  <1> QED BY <1>5, <1>6, <1>7, <1>8

LEMMA ReversedRows ==
    ASSUME NEW s \in Log
    PROVE  /\ Reverse(s) \in Log /\ Len(Reverse(s)) = Len(s)
           /\ \A i \in 1 .. Len(s) : Reverse(s)[i] = s[Len(s) - i + 1]
  <1> DEFINE n == Len(s)
             r == Reverse(s)
  <1>1. n \in Nat /\ \A i \in 1 .. n : s[i] \in RowType
    BY LogFacts
  <1>2. r = [i \in 1 .. n |-> s[(n - i) + 1]]
    BY DEF Reverse
  <1> HIDE DEF n, r
  <1>3. r \in [1 .. n -> RowType]
    BY <1>1, <1>2
  <1>4. r \in Seq(RowType)
    BY <1>1, <1>3, SeqDef
  <1>5. Len(r) = n
    <2>1. Len(r) \in Nat /\ 1 .. Len(r) = 1 .. n
      BY <1>3, <1>4, LenProperties
    <2> QED BY <1>1, <2>1
  <1> QED BY <1>2, <1>4, <1>5 DEF Log, n, r

\* What the log is found to hold of the checkpoint already begins with its first row.
LEMMA OverlapOK ==
    ASSUME NEW rows \in Log, Len(rows) \in {1, 2}, log \in Log
    PROVE  /\ Overlap(rows) \in 0 .. Len(rows)
           /\ Overlap(rows) # 0 => \E i \in DOMAIN log : log[i] = rows[1]
  <1> DEFINE K == Overlaps(rows)
             n == Len(log)
  <1>1. n \in Nat /\ Len(rows) \in Nat /\ \A i \in 1 .. Len(rows) : rows[i] \in RowType
    BY LogFacts
  <1>2. Len(Reverse(log)) = n /\ \A i \in 1 .. n : Reverse(log)[i] = log[n - i + 1]
    BY ReversedRows
  <1>3. K \subseteq 0 .. Len(rows)
    BY DEF Overlaps
  <1>4. 0 \in K
    <2>1. SubSeq(rows, 1, 0) = <<>>
      BY SubSeqEmpty
    <2>2. <<>> \in Log /\ Len(<<>>) = 0
      BY LogFacts, EmptySeq DEF Log
    <2>3. Len(Reverse(<<>>)) = 0
      BY <2>2, ReversedRows
    <2>4. SubSeq(Reverse(<<>>), 1, 0) = <<>> /\ SubSeq(Reverse(log), 1, 0) = <<>>
      BY SubSeqEmpty
    <2>5. IsSuffix(SubSeq(rows, 1, 0), log)
      <3> DEFINE e == Reverse(<<>>)
                 q == Reverse(log)
      <3>1. Len(e) = 0 /\ Len(q) \in Nat /\ SubSeq(e, 1, 0) = SubSeq(q, 1, 0)
        BY <1>1, <1>2, <2>3, <2>4
      <3>2. IsSuffix(<<>>, log) <=> IsPrefix(e, q)
        BY DEF IsSuffix
      <3> HIDE DEF e, q
      <3>3. IsPrefix(e, q)
        BY <3>1 DEF IsPrefix
      <3> QED BY <2>1, <3>2, <3>3
    <2> QED BY <1>1, <2>5 DEF Overlaps
  <1>5. PICK k \in K : \A j \in K : j <= k
    <2> HIDE DEF K
    <2>0. \A j \in K : j \in {0, 1, 2}
      <3>1. 0 .. Len(rows) \subseteq {0, 1, 2}
        <4>1. CASE Len(rows) = 1
          BY <4>1
        <4>2. CASE Len(rows) = 2
          BY <4>2
        <4> QED BY <4>1, <4>2
      <3> QED BY <1>3, <3>1
    <2>1. CASE 2 \in K
      BY <2>0, <2>1
    <2>2. CASE 2 \notin K /\ 1 \in K
      BY <2>0, <2>2
    <2>3. CASE 2 \notin K /\ 1 \notin K
      BY <2>0, <1>4, <2>3
    <2> QED BY <2>1, <2>2, <2>3
  <1>6. Overlap(rows) \in K
    BY <1>5 DEF Overlap
  <1>7. ASSUME NEW j \in K, j # 0
        PROVE  \E i \in DOMAIN log : log[i] = rows[1]
    <2> DEFINE s == SubSeq(rows, 1, j)
    <2>1. j \in 1 .. Len(rows) /\ j <= n /\ IsSuffix(s, log)
      BY <1>3, <1>7 DEF Overlaps
    <2>2. s \in Log /\ Len(s) = j /\ s[1] = rows[1]
      <3>1. \A i \in 1 .. j : rows[i] \in RowType
        BY <1>1, <2>1
      <3>2. /\ s \in Seq(RowType) /\ Len(s) = IF 1 <= j THEN j - 1 + 1 ELSE 0
            /\ \A i \in 1 .. j - 1 + 1 : s[i] = rows[1 + i - 1]
        BY <1>1, <2>1, <3>1, SubSeqProperties
      <3> QED BY <1>1, <2>1, <3>2 DEF Log
    <2> HIDE DEF s
    <2>3. Reverse(s) \in Log /\ Len(Reverse(s)) = j /\ Reverse(s)[j] = s[1]
      <3>1. Reverse(s)[j] = s[j - j + 1] /\ j \in 1 .. j
        BY <2>1, <2>2, ReversedRows
      <3> QED BY <2>1, <2>2, <3>1, ReversedRows
    <2>4. SubSeq(Reverse(s), 1, j) = SubSeq(Reverse(log), 1, j)
      BY <2>1, <2>3 DEF IsSuffix, IsPrefix
    <2>5. SubSeq(Reverse(s), 1, j)[j] = Reverse(s)[j] /\ SubSeq(Reverse(log), 1, j)[j] = Reverse(log)[j]
      <3>1. ASSUME NEW q \in Log, j <= Len(q)
            PROVE  SubSeq(q, 1, j)[j] = q[j]
        <4>1. /\ j \in Int /\ j >= 1 /\ \A i \in 1 .. j : q[i] \in RowType
          BY <1>1, <2>1, <3>1, LogFacts
        <4>2. \A i \in 1 .. j - 1 + 1 : SubSeq(q, 1, j)[i] = q[1 + i - 1]
          BY <4>1, SubSeqProperties
        <4> QED BY <4>1, <4>2
      <3>2. Reverse(log) \in Log
        BY ReversedRows
      <3> QED BY <1>2, <2>1, <2>3, <3>1, <3>2
    <2>6. n - j + 1 \in 1 .. n /\ Reverse(log)[j] = log[n - j + 1]
      BY <1>1, <1>2, <2>1
    <2> QED BY <1>1, <2>2, <2>3, <2>4, <2>5, <2>6, LogFacts
  <1> QED BY <1>3, <1>6, <1>7

LEMMA Materialized ==
    ASSUME SessionTypeOK, MaterializeCheckpoint
    PROVE  /\ SessionTypeOK'
           /\ checkpoint \in CheckpointType
           /\ (\A i \in DOMAIN log : log[i].turn = checkpoint.turn => log[i].n = 0)
                => log' = log \o CheckpointRows(checkpoint)
  <1> DEFINE rows == CheckpointRows(checkpoint)
             k == Overlap(rows)
             tail == SubSeq(rows, k + 1, Len(rows))
  <1>1. /\ checkpoint \in CheckpointType /\ log \in Log /\ log' = log \o tail
        /\ checkpoint' = None /\ pending' = FALSE /\ goal' = goal /\ goal \in BOOLEAN /\ Save
        /\ archived' = archived /\ archived \subseteq RowType
    BY DEF SessionTypeOK, MaterializeCheckpoint, Log
  <1>2. /\ rows \in Log /\ Len(rows) \in {1, 2} /\ Len(rows) \in Nat
        /\ \A i \in 1 .. Len(rows) : rows[i].turn = checkpoint.turn /\ rows[i].n = checkpoint.n
    BY <1>1, CheckpointRowsOK
  <1> HIDE DEF rows
  <1>3. k \in 0 .. Len(rows) /\ (k # 0 => \E i \in DOMAIN log : log[i] = rows[1])
    BY <1>1, <1>2, OverlapOK
  <1> HIDE DEF k
  <1>4. tail \in Log
    <2>1. /\ k + 1 \in Int /\ Len(rows) \in Int /\ \A i \in k + 1 .. Len(rows) : rows[i] \in RowType
      BY <1>2, <1>3, LogFacts
    <2> QED BY <2>1, SubSeqProperties DEF Log
  <1>5. k = 0 => tail = rows
    <2>1. SubSeq(rows, 1, Len(rows)) = rows
      BY <1>2, SubSeqFull DEF Log
    <2> QED BY <2>1
  <1> HIDE DEF tail
  <1>6. log' \in Log
    BY <1>1, <1>4, JoinRows
  <1>7. SessionTypeOK'
    BY <1>1, <1>6, SavedType
  <1>8. checkpoint.n \in Nat \ {0}
    BY <1>1 DEF CheckpointType
  <1>9. (\A i \in DOMAIN log : log[i].turn = checkpoint.turn => log[i].n = 0) => k = 0
    BY <1>2, <1>3, <1>8
  <1> QED BY <1>1, <1>5, <1>7, <1>9 DEF rows

-----------------------------------------------------------------------------
(* Rows leave the session *)

LEMMA SubRows ==
    ASSUME NEW rows \in Log, NEW a \in 1 .. Len(rows) + 1, NEW b \in 0 .. Len(rows), a <= b + 1
    PROVE  /\ SubSeq(rows, a, b) \in Log
           /\ Len(SubSeq(rows, a, b)) = b - a + 1
           /\ \A i \in 1 .. b - a + 1 :
                 /\ a + i - 1 \in 1 .. Len(rows) /\ a + i - 1 \in a .. b
                 /\ SubSeq(rows, a, b)[i] = rows[a + i - 1]
  <1>1. Len(rows) \in Nat /\ \A i \in 1 .. Len(rows) : rows[i] \in RowType
    BY LogFacts
  <1>2. \A i \in a .. b : i \in 1 .. Len(rows)
    BY <1>1
  <1>3. a \in Int /\ b \in Int /\ \A i \in a .. b : rows[i] \in RowType
    BY <1>1, <1>2
  <1>4. /\ SubSeq(rows, a, b) \in Log
        /\ Len(SubSeq(rows, a, b)) = IF a <= b THEN b - a + 1 ELSE 0
        /\ \A i \in 1 .. b - a + 1 : SubSeq(rows, a, b)[i] = rows[a + i - 1]
    BY <1>3, SubSeqProperties DEF Log
  <1> QED BY <1>1, <1>3, <1>4

\* The session has kept rows a to b of these, and the archive has the others.
Trimmed(rows, a, b) ==
    /\ a \in 1 .. Len(rows) + 1 /\ b \in 0 .. Len(rows) /\ a <= b + 1
    /\ log' = SubSeq(rows, a, b)
    /\ archived' = archived \cup {rows[i] : i \in DOMAIN rows \ (a .. b)}

\* What is kept does not begin with a result.
Legal(rows, a) == a \in DOMAIN rows => rows[a].kind \notin {"result", "interrupted"}

LEMMA TrimTypes ==
    ASSUME NEW rows \in Log, NEW a, NEW b, Trimmed(rows, a, b), archived \subseteq RowType
    PROVE  log' \in Log /\ archived' \subseteq RowType
  BY SubRows, LogFacts DEF Trimmed

LEMMA Untouched ==
    ASSUME NEW rows \in Log, log' = rows, archived' = archived
    PROVE  Trimmed(rows, 1, Len(rows)) /\ (ResultsCalled(rows) => Legal(rows, 1))
  <1>1. Len(rows) \in Nat /\ DOMAIN rows = 1 .. Len(rows)
    BY LogFacts
  <1>2. SubSeq(rows, 1, Len(rows)) = rows
    BY SubSeqFull DEF Log
  <1>3. {rows[i] : i \in DOMAIN rows \ (1 .. Len(rows))} = {}
    BY <1>1
  <1>4. Trimmed(rows, 1, Len(rows))
    BY <1>1, <1>2, <1>3 DEF Trimmed
  <1>5. ASSUME ResultsCalled(rows), 1 \in DOMAIN rows PROVE rows[1].kind \notin {"result", "interrupted"}
    <2>1. 1 - 1 \notin DOMAIN rows
      BY <1>1
    <2> QED BY <2>1, <1>5 DEF ResultsCalled
  <1> QED BY <1>4, <1>5 DEF Legal

\* A row behind a result is no result of the same call.
LEMMA BehindResult ==
    ASSUME NEW rows \in Log, ResultsCalled(rows), NEW i \in DOMAIN rows, i + 1 \in DOMAIN rows,
           IsResult(rows[i])
    PROVE  ~IsResult(rows[i + 1])
  <1>1. i \in Nat /\ (i + 1) - 1 = i
    BY LogFacts
  <1> QED BY <1>1 DEF ResultsCalled, IsResult

\* The cap keeps a stretch of the rows.  One that loses its end loses user rows.
LEMMA Capped ==
    ASSUME NEW rows \in Log, EnforceFileCap(rows)
    PROVE  \E a, b : /\ Trimmed(rows, a, b)
                     /\ ResultsCalled(rows) => Legal(rows, a)
                     /\ b = Len(rows) \/ (a <= b /\ rows[b].kind \notin UserKind)
  <1>1. /\ Len(rows) \in Nat /\ DOMAIN rows = 1 .. Len(rows)
        /\ FileCap \in Nat /\ FileCap >= 2
    BY LogFacts, BoundsOK DEF Bounds
  <1>2. CASE log' = rows /\ archived' = archived
    BY <1>2, Untouched
  <1>3. CASE Len(rows) > FileCap /\ \E a, b \in DOMAIN rows : WithinCap(rows, a, b) /\ Retain(rows, a, b)
    <2> DEFINE window == Len(rows) - FileCap + 1
    <2>1. PICK a \in DOMAIN rows, b \in DOMAIN rows : WithinCap(rows, a, b) /\ Retain(rows, a, b)
      BY <1>3
    <2>2. window \in 2 .. Len(rows) - 1
      BY <1>1, <1>3
    <2>3. a <= b + 1 => Trimmed(rows, a, b)
      BY <2>1, <1>1 DEF Retain, Dropped, Trimmed
    <2> HIDE DEF window
    <2>4. CASE b = Len(rows) /\ IsUser(rows[a])
      <3>1. Legal(rows, a)
        BY <2>4 DEF Legal, IsUser, UserKind
      <3> QED BY <3>1, <2>1, <2>3, <2>4, <1>1
    <2>5. CASE a < window /\ b = a + FileCap - 1 /\ IsUser(rows[a])
               /\ \A i \in a + 1 .. Len(rows) : ~IsUser(rows[i])
      <3>1. Legal(rows, a)
        BY <2>5 DEF Legal, IsUser, UserKind
      <3>2. b \in a + 1 .. Len(rows) /\ a <= b
        BY <2>1, <2>2, <2>5, <1>1
      <3>3. rows[b].kind \notin UserKind
        BY <2>5, <3>2 DEF IsUser
      <3> QED BY <3>1, <3>2, <3>3, <2>1, <2>3, <1>1
    <2>6. CASE a = (IF IsResult(rows[window]) THEN window + 1 ELSE window) /\ b = Len(rows)
      <3>1. window \in DOMAIN rows /\ window + 1 \in DOMAIN rows
        BY <2>2, <1>1
      <3>2. ResultsCalled(rows) => Legal(rows, a)
        BY <3>1, <2>6, BehindResult DEF Legal, IsResult
      <3> QED BY <3>2, <2>1, <2>3, <2>6, <1>1
    <2> QED BY <2>1, <2>4, <2>5, <2>6 DEF WithinCap, window
  <1> QED BY <1>2, <1>3 DEF EnforceFileCap

\* A compaction keeps the end of the file.
LEMMA Compacted ==
    ASSUME disk.log \in Log, CompactIdle
    PROVE  \E a : Trimmed(disk.log, a, Len(disk.log)) /\ (ResultsCalled(disk.log) => Legal(disk.log, a))
                 /\ (EndsWith(disk.log, UserKind) => a <= Len(disk.log))
  <1> DEFINE rows == disk.log
  <1>0. rows \in Log
    OBVIOUS
  <1>1. Len(rows) \in Nat /\ DOMAIN rows = 1 .. Len(rows)
    BY LogFacts
  <1>2. PICK a \in 1 .. Len(rows) + 1 : KeptWhenIdle(rows, a) /\ Retain(rows, a, Len(rows))
    BY DEF CompactIdle
  <1>3. Trimmed(rows, a, Len(rows))
    BY <1>1, <1>2 DEF Retain, Dropped, Trimmed
  <1> HIDE DEF rows
  <1>4. ResultsCalled(rows) => Legal(rows, a)
    <2>1. CASE a = 1
      BY <2>1, <1>1 DEF ResultsCalled, Legal
    <2>2. CASE a <= Len(rows) /\ (IsUser(rows[a]) \/ ~IsResult(rows[a]))
      BY <2>2 DEF Legal, IsUser, IsResult, UserKind
    <2>3. CASE a = Len(rows) + 1
      BY <2>3, <1>1 DEF Legal
    <2> QED BY <1>2, <2>1, <2>2, <2>3 DEF KeptWhenIdle
  <1>5. EndsWith(rows, UserKind) => a <= Len(rows)
    <2>1. IsResult(rows[Len(rows)]) => ~EndsWith(rows, UserKind)
      BY DEF IsResult, EndsWith, UserKind
    <2>2. Len(rows) = 0 => ~EndsWith(rows, UserKind)
      BY <1>0, LogFacts DEF EndsWith
    <2> QED BY <1>1, <1>2, <2>1, <2>2 DEF KeptWhenIdle
  <1> QED BY <1>3, <1>4, <1>5 DEF rows

-----------------------------------------------------------------------------
(* Each state of a turn, and what may cut it short *)

LEMMA ClosedPending ==
    ASSUME SessionTypeOK, ClosePendingTurn
    PROVE  SessionTypeOK'
  <1>1. /\ log \in Log /\ checkpoint' = checkpoint /\ checkpoint \in CheckpointType \cup {None}
        /\ pending' = FALSE /\ goal' = goal /\ goal \in BOOLEAN /\ Save
        /\ archived' = archived /\ archived \subseteq RowType
        /\ log' = IF EndsWith(log, UserKind)
                  THEN Append(log, Row("text", log[Len(log)].turn, 0, {}))
                  ELSE log
    BY DEF SessionTypeOK, ClosePendingTurn, Log
  <1>2. CASE EndsWith(log, UserKind)
    <2>1. log[Len(log)].turn \in Msg
      <3>1. Len(log) \in 1 .. Len(log)
        BY <1>1, <1>2, LogFacts DEF EndsWith
      <3>2. log[Len(log)] \in RowType
        BY <1>1, <3>1, LogFacts
      <3> QED BY <3>2 DEF RowType
    <2>2. Row("text", log[Len(log)].turn, 0, {}) \in RowType
      BY <2>1 DEF Row, RowType, RowKind
    <2>3. log' \in Log
      BY <1>1, <1>2, <2>2, AppendRow
    <2> QED BY <1>1, <2>3, SavedType
  <1>3. CASE ~EndsWith(log, UserKind)
    <2>1. log' \in Log
      BY <1>1, <1>3
    <2> QED BY <1>1, <2>1, SavedType
  <1> QED BY <1>2, <1>3

\* What every turn knows of its variables, between its steps.
TurnTypes ==
    /\ SessionTypeOK /\ work \in Log
    /\ iteration \in 0 .. MaxIterations /\ emptyRetries \in 0 .. MaxIterations
    /\ recoveries \in 0 .. MaxLengthRecoveries /\ cycles \in 0 .. InjectionCycles
    /\ queue \in Queues /\ place \in [Msg -> Place]
    /\ replied \subseteq Msg /\ troubles \in 0 .. MaxTroubles
    /\ turn \in Msg \cup {None} /\ (turn = None <=> stage = "idle")
    /\ RunState(stage, work, turn, iteration)
    /\ Counters

LEMMA InTurnTypes ==
    ASSUME RunInv
    PROVE  TurnTypes
  BY DEF RunInv, TypeOK, RunnerTypeOK, TurnTypes, Log, Queues

Outside == {"restore", "command", "respond", "finish"}

\* A step of a turn that has no run, or none any more.
LEMMA OutsideNext ==
    ASSUME TurnTypes, SessionTypeOK', stage' \in Outside, turn' \in Msg, work' = <<>>,
           UNCHANGED run, queue' \in Queues, place' \in [Msg -> Place],
           UNCHANGED troubles, replied' \subseteq Msg
    PROVE  RunInv'
  <1>1. /\ iteration' \in 0 .. MaxIterations /\ emptyRetries' \in 0 .. MaxIterations
        /\ recoveries' \in 0 .. MaxLengthRecoveries /\ cycles' \in 0 .. InjectionCycles
        /\ troubles' \in 0 .. MaxTroubles
    BY DEF TurnTypes, run
  <1>2. RunState(stage, work, turn, iteration)' /\ Counters'
    BY DEF RunState, Counters, Outside, InRun, Filing
  <1>3. stage' # "idle" /\ turn' # None /\ turn' \in Msg
        /\ stage' \in {"idle", "restore", "command", "save", "saveSlice", "blocked", "respond", "finish"}
                        \cup InRun
    BY BoundsOK DEF Outside, Bounds
  <1> QED BY <1>1, <1>2, <1>3, RunInvNext

LEMMA Queued ==
    ASSUME queue \in Queues, Len(queue) < QueueMax, NEW m \in Msg
    PROVE  Append(queue, m) \in Queues
  <1>1. Append(queue, m) \in Seq(Msg) /\ Len(Append(queue, m)) = Len(queue) + 1 /\ Len(queue) \in Nat
    BY AppendProperties, LenProperties DEF Queues
  <1> QED BY <1>1, BoundsOK DEF Queues, Bounds

LEMMA TurnEnded ==
    ASSUME EndTurn, SessionTypeOK', place' \in [Msg -> Place], replied' \subseteq Msg,
           troubles' \in 0 .. MaxTroubles
    PROVE  RunInv'
  <1>1. /\ stage' = "idle" /\ turn' = None /\ work' = <<>> /\ queue' = <<>>
        /\ iteration' = 0 /\ emptyRetries' = 0 /\ recoveries' = 0 /\ cycles' = 0
    BY DEF EndTurn, ResetRun
  <1>2. RunState(stage, work, turn, iteration)' /\ Counters'
    BY <1>1 DEF RunState, Counters, InRun, Filing
  <1>3. queue' \in Queues
    BY <1>1, EmptySeq, BoundsOK DEF Queues, Bounds
  <1>4. /\ 0 \in 0 .. MaxIterations /\ 0 \in 0 .. MaxLengthRecoveries /\ 0 \in 0 .. InjectionCycles
    BY BoundsOK DEF Bounds
  <1> QED BY <1>1, <1>2, <1>3, <1>4, RunInvNext

LEMMA LeftType ==
    ASSUME place \in [Msg -> Place], NEW outcome \in Place
    PROVE  LeftAs(outcome) \in [Msg -> Place]
  BY DEF LeftAs, Place

LEMMA BeginOK ==
    ASSUME RunInv, NEW m \in Msg, Begin(m)
    PROVE  RunInv'
  <1>1. TurnTypes
    BY InTurnTypes
  <1>2. /\ turn = None /\ turn' = m /\ stage' = "restore" /\ work' = work /\ UNCHANGED run
        /\ queue' = queue /\ UNCHANGED session /\ replied' = replied /\ troubles' = troubles
        /\ place' = [place EXCEPT ![m] = "turn"]
    BY DEF Begin
  <1>3. work = <<>>
    BY <1>1, <1>2 DEF TurnTypes, RunState, InRun, Filing
  <1>4. SessionTypeOK' /\ place' \in [Msg -> Place] /\ queue' \in Queues /\ replied' \subseteq Msg
    BY <1>1, <1>2, SessionKept DEF TurnTypes, Place
  <1> QED BY <1>1, <1>2, <1>3, <1>4, OutsideNext DEF Outside

LEMMA RouteOK ==
    ASSUME RunInv, NEW m \in Msg, Route(m)
    PROVE  RunInv'
  <1>1. TurnTypes /\ TypeOK
    BY InTurnTypes DEF RunInv
  <1>2. /\ stage' = stage /\ turn' = turn /\ work' = work
        /\ iteration' = iteration /\ emptyRetries' = emptyRetries
        /\ recoveries' = recoveries /\ cycles' = cycles
        /\ queue' = Append(queue, m) /\ place' = [place EXCEPT ![m] = "queued"]
        /\ UNCHANGED session /\ replied' = replied /\ troubles' = troubles
        /\ Len(queue) < QueueMax
    BY DEF Route, run
  <1>3. queue' \in Queues /\ place' \in [Msg -> Place] /\ SessionTypeOK'
    BY <1>1, <1>2, Queued, SessionKept DEF TurnTypes, Place
  <1>4. RunState(stage, work, turn, iteration)' /\ Counters'
    BY <1>1, <1>2 DEF TurnTypes, RunState, Counters
  <1> QED BY <1>1, <1>2, <1>3, <1>4, RunInvNext DEF TurnTypes, TypeOK

LEMMA RestoreOK ==
    ASSUME RunInv, Restore
    PROVE  RunInv'
  <1>1. TurnTypes
    BY InTurnTypes
  <1>2. /\ stage = "restore" /\ stage' = "command" /\ turn' = turn /\ work' = work /\ UNCHANGED run
        /\ queue' = queue /\ place' = place /\ replied' = replied /\ troubles' = troubles
        /\ MaterializeCheckpoint \/ ClosePendingTurn \/ NothingToRestore
    BY DEF Restore
  <1>3. work = <<>> /\ turn \in Msg
    BY <1>1, <1>2 DEF TurnTypes, RunState, InRun, Filing
  <1>4. SessionTypeOK'
    BY <1>1, <1>2, Materialized, ClosedPending, SessionKept DEF TurnTypes, NothingToRestore
  <1>5. place' \in [Msg -> Place] /\ queue' \in Queues /\ replied' \subseteq Msg
    BY <1>1, <1>2 DEF TurnTypes
  <1> QED BY <1>1, <1>2, <1>3, <1>4, <1>5, OutsideNext DEF Outside

LEMMA ShortcutOK ==
    ASSUME RunInv, Shortcut
    PROVE  RunInv'
  <1> DEFINE rows == <<Row("user", turn, 0, {turn}), Row("text", turn, 0, {})>>
  <1>1. TurnTypes
    BY InTurnTypes
  <1>2. /\ stage = "command" /\ stage' = "respond" /\ turn' = turn /\ work' = work /\ UNCHANGED run
        /\ queue' = queue /\ place' = place /\ replied' = replied /\ troubles' = troubles
        /\ log' = log \o rows /\ pending' = FALSE /\ checkpoint' = checkpoint /\ goal' = goal
        /\ archived' = archived
        /\ disk' = [log |-> log', checkpoint |-> checkpoint, pending |-> TRUE]
    BY DEF Shortcut
  <1>3. work = <<>> /\ turn \in Msg
    BY <1>1, <1>2 DEF TurnTypes, RunState, InRun, Filing
  <1>4. SessionTypeOK'
    <2>1. Row("user", turn, 0, {turn}) \in RowType /\ Row("text", turn, 0, {}) \in RowType
      BY <1>3 DEF Row, RowType, RowKind, UserKind
    <2>2. rows \in Log
      BY <2>1 DEF Log
    <2> HIDE DEF rows
    <2>3. log' \in Log
      BY <1>1, <1>2, <2>2, JoinRows DEF TurnTypes, SessionTypeOK, Log
    <2> QED BY <1>1, <1>2, <2>3 DEF TurnTypes, SessionTypeOK, Log
  <1>5. place' \in [Msg -> Place] /\ queue' \in Queues /\ replied' \subseteq Msg
    BY <1>1, <1>2 DEF TurnTypes
  <1> QED BY <1>1, <1>2, <1>3, <1>4, <1>5, OutsideNext DEF Outside

LEMMA NewShortcutOK ==
    ASSUME RunInv, NewShortcut
    PROVE  RunInv'
  <1>1. TurnTypes
    BY InTurnTypes
  <1>2. /\ stage = "command" /\ stage' = "respond" /\ turn' = turn /\ work' = work /\ UNCHANGED run
        /\ queue' = queue /\ replied' = replied /\ troubles' = troubles
        /\ ClearSession
        /\ place' = [m \in Msg |-> IF place[m] = "filed" THEN "forgotten" ELSE place[m]]
    BY DEF NewShortcut, Forgotten
  <1>3. work = <<>> /\ turn \in Msg
    BY <1>1, <1>2 DEF TurnTypes, RunState, InRun, Filing
  <1>4. SessionTypeOK'
    <2>1. log' \in Log
      BY <1>2, EmptySeq DEF ClearSession, Log
    <2> QED BY <1>1, <1>2, <2>1, SavedType DEF TurnTypes, SessionTypeOK, ClearSession
  <1>5. place' \in [Msg -> Place] /\ queue' \in Queues /\ replied' \subseteq Msg
    BY <1>1, <1>2 DEF TurnTypes, Place
  <1> QED BY <1>1, <1>2, <1>3, <1>4, <1>5, OutsideNext DEF Outside

LEMMA BuildOK ==
    ASSUME RunInv, Build
    PROVE  RunInv'
  <1>1. TurnTypes
    BY InTurnTypes
  <1>2. /\ stage = "command" /\ stage' = "ask" /\ turn' = turn /\ work' = <<>>
        /\ iteration' = 0 /\ emptyRetries' = 0 /\ recoveries' = 0 /\ cycles' = 0
        /\ queue' = queue /\ place' = place /\ replied' = replied /\ troubles' = troubles
        /\ OpenTurn
    BY DEF Build, StartRun, ResetRun
  <1>3. turn \in Msg /\ turn # None
    BY <1>1, <1>2 DEF TurnTypes
  <1>4. SessionTypeOK'
    <2>1. Row("user", turn, 0, {turn}) \in RowType
      BY <1>3 DEF Row, RowType, RowKind, UserKind
    <2>2. log' \in Log
      BY <1>1, <1>2, <2>1, AppendRow DEF TurnTypes, SessionTypeOK, OpenTurn, Log
    <2>3. pending' \in BOOLEAN
      BY <1>1, <1>2 DEF TurnTypes, SessionTypeOK, OpenTurn, KeepOpening
    <2> QED BY <1>1, <1>2, <2>2, <2>3, SavedType DEF TurnTypes, SessionTypeOK, OpenTurn
  <1>5. /\ 0 \in 0 .. MaxIterations /\ 0 \in 0 .. MaxLengthRecoveries /\ 0 \in 0 .. InjectionCycles
        /\ 0 < MaxIterations
    BY BoundsOK DEF Bounds
  <1>6. Asking(work', turn', iteration', {})
    BY <1>2, NoRows
  <1>7. RunState(stage, work, turn, iteration)' /\ Counters'
    BY <1>2, <1>5, <1>6 DEF RunState, Counters, InRun, Filing
  <1> QED BY <1>1, <1>2, <1>3, <1>4, <1>5, <1>7, RunInvNext DEF TurnTypes, InRun

\* A closing run ends in its user rows or in a result: the last row is one more,
\* and taking it off again leaves the run as it was.
LEMMA FrontAppend ==
    ASSUME NEW rows \in Log, NEW r \in RowType
    PROVE  Front(Append(rows, r)) = rows
  <1> DEFINE s == Append(rows, r)
  <1>1. /\ s \in Log /\ Len(s) = Len(rows) + 1 /\ Len(rows) \in Nat
        /\ \A i \in 1 .. Len(rows) : s[i] = rows[i]
    BY AppendRow, LogFacts
  <1>2. s # <<>>
    BY <1>1, LogFacts
  <1> HIDE DEF s
  <1>3. /\ Front(s) \in Log /\ Len(Front(s)) = Len(s) - 1
        /\ \A i \in 1 .. Len(s) - 1 : Front(s)[i] = s[i]
    BY <1>1, <1>2, FrontRows
  <1>4. Len(Front(s)) = Len(rows) /\ \A i \in 1 .. Len(rows) : Front(s)[i] = rows[i]
    BY <1>1, <1>3
  <1>5. Front(s) = rows
    BY <1>3, <1>4, SeqEqual DEF Log
  <1> QED BY <1>5 DEF s

LEMMA CloseExhaustedOK ==
    ASSUME RunInv, CloseExhausted
    PROVE  RunInv'
  <1> DEFINE r == Row("text", turn, iteration + 1, {})
             rows == Append(work, r)
  <1>1. TurnTypes
    BY InTurnTypes
  <1>2. /\ stage = "closing" /\ turn' = turn /\ UNCHANGED run /\ UNCHANGED session
        /\ replied' = replied /\ troubles' = troubles
    BY DEF CloseExhausted
  <1>3. turn \in Msg /\ turn # None /\ iteration \in Nat
    BY <1>1, <1>2, BoundsOK DEF TurnTypes, Bounds
  <1>4. Asking(work, turn, iteration, {"inject"})
    BY <1>1, <1>2 DEF TurnTypes, RunState
  <1>5. WithFinal(work) = rows
    BY <1>4, OneTextMore DEF Asking, WithFinal, Ours
  <1>6. r \in RowType
    BY <1>3 DEF Row, RowType, RowKind
  <1>7. Closed(rows, turn, iteration, {"inject"} \cup {"text"})
    BY <1>3, <1>4, TextWritten
  <1>8. Closed(rows, turn, iteration, RowKind)
    BY <1>3, <1>7, ClosedMore DEF RowKind, UserKind
  <1>9. Front(rows) = work
    BY <1>4, <1>6, FrontAppend DEF Asking
  <1> HIDE DEF r, rows
  <1>10. \/ stage' = "save" /\ work' = rows /\ queue' = queue /\ place' = place
         \/ \E m \in Msg : /\ stage' = "saveSlice" /\ work' = work /\ queue' = Append(queue, m)
                           /\ Len(queue) < QueueMax
                           /\ place' = [place EXCEPT ![m] = "queued"]
         \/ stage' = "blocked" /\ work' = work /\ queue' = queue /\ place' = place
    BY <1>5, <1>9 DEF CloseExhausted
  <1>11. queue' \in Queues /\ place' \in [Msg -> Place]
    <2>1. queue \in Queues /\ place \in [Msg -> Place] /\ "queued" \in Place
      BY <1>1 DEF TurnTypes, Place
    <2>2. \A m \in Msg : /\ Len(queue) < QueueMax => Append(queue, m) \in Queues
                         /\ [place EXCEPT ![m] = "queued"] \in [Msg -> Place]
      BY <2>1, Queued
    <2> QED BY <1>10, <2>1, <2>2
  <1>12. RunRows(work, turn, iteration, RowKind)
    <2>1. {"inject"} \subseteq RowKind
      BY DEF RowKind, UserKind
    <2> QED BY <1>3, <1>4, <2>1, MoreKinds DEF Asking
  <1>13. RunState(stage, work, turn, iteration)'
    BY <1>2, <1>4, <1>8, <1>10, <1>12 DEF RunState, InRun, Filing, Asking, run
  <1>14. Counters' /\ SessionTypeOK'
    BY <1>1, <1>2, <1>10, SessionKept DEF Counters, TurnTypes
  <1>15. stage' # "idle" /\ stage' \in Filing
    BY <1>10 DEF Filing
  <1> QED BY <1>1, <1>2, <1>3, <1>11, <1>13, <1>14, <1>15, RunInvNext DEF TurnTypes, run, Filing

LEMMA SaveTurnOK ==
    ASSUME RunInv, SaveTurn
    PROVE  RunInv'
  <1>1. TurnTypes
    BY InTurnTypes
  <1>2. /\ stage \in Filing /\ stage' \in Outside /\ turn' = turn /\ work' = <<>> /\ UNCHANGED run
        /\ queue' = queue /\ replied' = replied /\ troubles' = troubles
        /\ FileRun
        /\ place' = [m \in Msg |-> IF place[m] = "working" THEN "filed" ELSE place[m]]
    BY DEF SaveTurn, Filing, Outside
  <1>3. turn \in Msg
    BY <1>1, <1>2 DEF TurnTypes, Filing
  <1>4. SessionTypeOK'
    <2>1. log \o work \in Log /\ archived \subseteq RowType
      BY <1>1, JoinRows DEF TurnTypes, SessionTypeOK, Log
    <2>2. log' \in Log /\ archived' \subseteq RowType
      BY <1>2, <2>1, Capped, TrimTypes DEF FileRun
    <2> QED BY <1>1, <1>2, <2>2, SavedType DEF TurnTypes, SessionTypeOK, FileRun
  <1>5. place' \in [Msg -> Place] /\ queue' \in Queues /\ replied' \subseteq Msg
    BY <1>1, <1>2 DEF TurnTypes, Place
  <1> QED BY <1>1, <1>2, <1>3, <1>4, <1>5, OutsideNext

LEMMA RespondOK ==
    ASSUME RunInv, Respond
    PROVE  RunInv'
  <1>1. TurnTypes
    BY InTurnTypes
  <1>2. /\ stage = "respond" /\ replied' = replied \cup {turn} /\ place' = LeftAs("done") /\ EndTurn
        /\ UNCHANGED session /\ troubles' = troubles
    BY DEF Respond
  <1>3. place' \in [Msg -> Place] /\ SessionTypeOK' /\ replied' \subseteq Msg
    BY <1>1, <1>2, LeftType, SessionKept DEF TurnTypes, Place
  <1> QED BY <1>1, <1>2, <1>3, TurnEnded DEF TurnTypes

LEMMA FinishSliceOK ==
    ASSUME RunInv, FinishSlice
    PROVE  RunInv'
  <1>1. TurnTypes
    BY InTurnTypes
  <1>2. /\ replied' = replied /\ place' = LeftAs("handedOver") /\ EndTurn
        /\ UNCHANGED session /\ troubles' = troubles
    BY DEF FinishSlice
  <1>3. place' \in [Msg -> Place] /\ SessionTypeOK'
    BY <1>1, <1>2, LeftType, SessionKept DEF TurnTypes, Place
  <1> QED BY <1>1, <1>2, <1>3, TurnEnded DEF TurnTypes

LEMMA TroubleOK ==
    ASSUME RunInv, Trouble
    PROVE  troubles' \in 0 .. MaxTroubles
  BY BoundsOK DEF RunInv, TypeOK, Trouble, Bounds

LEMMA StopOK ==
    ASSUME RunInv, Stop
    PROVE  RunInv'
  <1>1. TurnTypes /\ troubles' \in 0 .. MaxTroubles
    BY InTurnTypes, TroubleOK DEF Stop
  <1>2. /\ replied' = replied /\ place' = LeftAs("stopped") /\ EndTurn
        /\ MaterializeCheckpoint \/ UNCHANGED session
    BY DEF Stop, RestoreCancelled, NothingSaved
  <1>3. place' \in [Msg -> Place] /\ SessionTypeOK'
    BY <1>1, <1>2, LeftType, SessionKept, Materialized DEF TurnTypes, Place
  <1> QED BY <1>1, <1>2, <1>3, TurnEnded DEF TurnTypes

LEMMA NewInlineOK ==
    ASSUME RunInv, NEW m \in Msg, NewInline(m)
    PROVE  RunInv'
  <1>1. TurnTypes
    BY InTurnTypes
  <1>2. /\ replied' = replied /\ troubles' = troubles /\ EndTurn
        /\ log' = <<>> /\ checkpoint' = None /\ pending' = (pending /\ checkpoint = None)
        /\ goal' = goal /\ archived' = archived /\ Save
        /\ place' = Forgotten([LeftAs("stopped") EXCEPT ![m] = "done"])
    BY DEF NewInline
  <1>3. SessionTypeOK'
    <2>1. log' \in Log
      BY <1>2, EmptySeq DEF Log
    <2> QED BY <1>1, <1>2, <2>1, SavedType DEF TurnTypes, SessionTypeOK
  <1>4. place' \in [Msg -> Place]
    <2> DEFINE p == LeftAs("stopped")
    <2>1. p \in [Msg -> Place] /\ "done" \in Place /\ "forgotten" \in Place
      BY <1>1, LeftType DEF TurnTypes, Place
    <2> HIDE DEF p
    <2>2. [p EXCEPT ![m] = "done"] \in [Msg -> Place]
      BY <2>1
    <2>3. place' = Forgotten([p EXCEPT ![m] = "done"])
      BY <1>2 DEF p
    <2> QED BY <2>1, <2>2, <2>3 DEF Forgotten
  <1> QED BY <1>1, <1>2, <1>3, <1>4, TurnEnded DEF TurnTypes

LEMMA FailOK ==
    ASSUME RunInv, Fail
    PROVE  RunInv'
  <1>1. TurnTypes /\ troubles' \in 0 .. MaxTroubles
    BY InTurnTypes, TroubleOK DEF Fail
  <1>2. replied' = replied /\ place' = LeftAs("failed") /\ EndTurn /\ UNCHANGED session
    BY DEF Fail
  <1>3. place' \in [Msg -> Place] /\ SessionTypeOK'
    BY <1>1, <1>2, LeftType, SessionKept DEF TurnTypes, Place
  <1> QED BY <1>1, <1>2, <1>3, TurnEnded DEF TurnTypes

LEMMA CrashOK ==
    ASSUME RunInv, Crash
    PROVE  RunInv'
  <1>1. TurnTypes /\ troubles' \in 0 .. MaxTroubles
    BY InTurnTypes, TroubleOK DEF Crash
  <1>2. /\ replied' = replied /\ EndTurn /\ Reload
        /\ place' = [m \in Msg |-> IF place[m] \in {"bus", "queued", "turn"} THEN "lost"
                                 ELSE IF place[m] = "working" THEN "cut" ELSE place[m]]
    BY DEF Crash
  <1>3. place' \in [Msg -> Place] /\ SessionTypeOK'
    BY <1>1, <1>2 DEF TurnTypes, Place, SessionTypeOK, Reload
  <1> QED BY <1>1, <1>2, <1>3, TurnEnded DEF TurnTypes

LEMMA IdleOK ==
    ASSUME RunInv, Idle
    PROVE  RunInv'
  <1>1. TurnTypes
    BY InTurnTypes
  <1>2. /\ turn = None /\ UNCHANGED <<stage, turn, work, queue, place, replied, troubles>>
        /\ iteration' = iteration /\ emptyRetries' = emptyRetries
        /\ recoveries' = recoveries /\ cycles' = cycles
        /\ CompactIdle /\ Save /\ goal' = goal /\ checkpoint' = disk.checkpoint /\ pending' = disk.pending
    BY DEF Idle, CompactIdle, runner, run
  <1>3. SessionTypeOK'
    <2>1. disk.log \in Log /\ archived \subseteq RowType
      BY <1>1 DEF TurnTypes, SessionTypeOK, Log
    <2>2. log' \in Log /\ archived' \subseteq RowType
      BY <1>2, <2>1, Compacted, TrimTypes
    <2>3. checkpoint' \in CheckpointType \cup {None} /\ pending' \in BOOLEAN /\ goal' \in BOOLEAN
      BY <1>1, <1>2 DEF TurnTypes, SessionTypeOK
    <2> QED BY <1>2, <2>2, <2>3, SavedType
  <1>4. RunState(stage, work, turn, iteration)' /\ Counters'
    BY <1>1, <1>2 DEF TurnTypes, RunState, Counters
  <1>5. stage' = "idle" /\ turn' = None
    BY <1>1, <1>2 DEF TurnTypes
  <1> QED BY <1>1, <1>2, <1>3, <1>4, <1>5, RunInvNext DEF TurnTypes

LEMMA RunInvInit ==
    ASSUME Init
    PROVE  RunInv
  <1>1. <<>> \in Seq(RowType) /\ <<>> \in Seq(Msg)
    BY EmptySeq
  <1>2. SessionTypeOK
    BY <1>1 DEF Init, InitSession, SessionTypeOK
  <1>3. RunState(stage, work, turn, iteration) /\ Counters
    BY DEF Init, RunState, Counters, InRun, Filing
  <1>4. TypeOK
    BY <1>1, <1>2, BoundsOK DEF Init, TypeOK, RunnerTypeOK, Place, Bounds
  <1> QED BY <1>3, <1>4 DEF RunInv

LEMMA RunInvKept ==
    ASSUME RunInv, UNCHANGED vars
    PROVE  RunInv'
  BY DEF RunInv, TypeOK, SessionTypeOK, RunnerTypeOK, Counters, vars, session, runner, run

LEMMA RunInvStep ==
    ASSUME RunInv, [Next]_vars
    PROVE  RunInv'
  BY BeginOK, RouteOK, RestoreOK, ShortcutOK, NewShortcutOK, BuildOK, RunOK, CloseExhaustedOK,
     SaveTurnOK, RespondOK, FinishSliceOK, StopOK, NewInlineOK, FailOK, CrashOK, IdleOK, RunInvKept
     DEF Next, TurnStep, Pickup

\* In every reachable state the counters of a run are within its bounds, the
\* session in memory and on disk holds rows and marks, and a turn is being served
\* exactly when the stage is not idle.
THEOREM TypesCorrect == Spec => []TypeOK
  <1>1. Spec => []RunInv
    BY RunInvInit, RunInvStep, PTL DEF Spec
  <1>2. RunInv => TypeOK
    BY DEF RunInv
  <1> QED BY <1>1, <1>2, PTL

-----------------------------------------------------------------------------
(* Whose rows the log has, and what the marks stand for *)

\* What becomes of a message that has opened a turn; it never opens another.
Begun == {"turn", "done", "handedOver", "stopped", "failed", "lost"}

BegunIn(rows, p) == \A i \in DOMAIN rows : p[rows[i].turn] \in Begun

Absent(rows, t) == \A i \in DOMAIN rows : rows[i].turn # t

\* Of the turn the rows have its opening at most.
Opened(rows, t) == \A i \in DOMAIN rows : rows[i].turn = t => rows[i].n = 0

\* A user row at the end is all there is of its turn.
AloneAtEnd(rows) ==
    EndsWith(rows, UserKind) =>
        \A i \in DOMAIN rows : rows[i].turn = rows[Len(rows)].turn => i = Len(rows)

AnswerIn(rows, t) == \E i \in DOMAIN rows : rows[i].turn = t /\ rows[i].kind = "text"

\* The same of rows that have left.
BegunGone(gone, p) == \A r \in gone : p[r.turn] \in Begun
NoneOf(gone, t) == \A r \in gone : r.turn # t
OpeningOf(gone, t) == \A r \in gone : r.turn = t => r.n = 0
AnswerGone(gone, t) == \E r \in gone : r.turn = t /\ r.kind = "text"

OpenAtEnd(rows, gone) ==
    AloneAtEnd(rows) /\ (EndsWith(rows, UserKind) => NoneOf(gone, rows[Len(rows)].turn))

FileInv ==
    /\ disk.log = log /\ disk.checkpoint = checkpoint /\ (pending => disk.pending)
    /\ WellFormed(log, archived)
    /\ BegunIn(log, place) /\ BegunGone(archived, place)
    /\ disk.pending => OpenAtEnd(log, archived)
    /\ checkpoint # None =>
          /\ place[checkpoint.turn] \in Begun
          /\ Opened(log, checkpoint.turn) /\ OpeningOf(archived, checkpoint.turn)

PlaceInv ==
    /\ turn # None => place[turn] = "turn"
    /\ \A m \in Msg : place[m] = "turn" => m = turn
    /\ IsInjective(queue) /\ \A m \in Msg : Contains(queue, m) <=> place[m] = "queued"
    /\ \A m \in replied : place[m] = "done"

StageInv ==
    /\ stage \in {"restore", "command"} =>
          Absent(log, turn) /\ NoneOf(archived, turn) /\ (checkpoint # None => checkpoint.turn # turn)
    /\ stage \in InRun \cup Filing =>
          Opened(log, turn) /\ NoneOf(archived, turn) /\ (checkpoint # None => checkpoint.turn = turn)
    /\ stage = "command" => ~pending /\ checkpoint = None
    /\ stage \in {"respond", "finish"} => checkpoint = None
    /\ stage = "respond" => log = <<>> \/ AnswerIn(log, turn) \/ AnswerGone(archived, turn)

MarksInv == RunInv /\ FileInv /\ PlaceInv /\ StageInv

\* Rows that join others are the last.
LEMMA JoinedOrigin ==
    ASSUME NEW a \in Log, NEW b \in Log
    PROVE  /\ DOMAIN a \subseteq DOMAIN (a \o b) /\ \A i \in DOMAIN a : (a \o b)[i] = a[i]
           /\ \A j \in DOMAIN b : \E i \in DOMAIN (a \o b) : (a \o b)[i] = b[j]
           /\ \A i \in DOMAIN (a \o b) :
                 \/ i \in DOMAIN a /\ (a \o b)[i] = a[i]
                 \/ \E j \in DOMAIN b : (a \o b)[i] = b[j]
  <1> DEFINE s == a \o b
             n == Len(a)
             k == Len(b)
  <1>1. /\ n \in Nat /\ k \in Nat /\ DOMAIN a = 1 .. n /\ DOMAIN b = 1 .. k /\ DOMAIN s = 1 .. n + k
        /\ \A i \in 1 .. n : s[i] = a[i]
        /\ \A j \in 1 .. k : s[n + j] = b[j]
        /\ \A i \in 1 .. n + k : i \in 1 .. n \/ i - n \in 1 .. k
    BY LogFacts, JoinRows
  <1> HIDE DEF s, n, k
  <1>2. ASSUME NEW j \in 1 .. k
        PROVE  n + j \in 1 .. n + k /\ s[n + j] = b[j]
    BY <1>1
  <1>3. ASSUME NEW i \in 1 .. n + k
        PROVE  \/ i \in 1 .. n /\ s[i] = a[i]
               \/ \E j \in 1 .. k : s[i] = b[j]
    <2>1. CASE i \in 1 .. n
      BY <2>1, <1>1
    <2>2. CASE i - n \in 1 .. k
      <3>1. n + (i - n) = i
        BY <1>1
      <3> QED BY <2>2, <3>1, <1>1
    <2> QED BY <2>1, <2>2, <1>1
  <1>4. 1 .. n \subseteq 1 .. n + k
    BY <1>1
  <1> QED BY <1>1, <1>2, <1>3, <1>4 DEF s

LEMMA AppendedOrigin ==
    ASSUME NEW a \in Log, NEW r \in RowType
    PROVE  /\ DOMAIN a \subseteq DOMAIN Append(a, r) /\ \A i \in DOMAIN a : Append(a, r)[i] = a[i]
           /\ \A i \in DOMAIN Append(a, r) :
                 \/ i \in DOMAIN a /\ Append(a, r)[i] = a[i]
                 \/ i = Len(a) + 1 /\ Append(a, r)[i] = r
           /\ Len(a) + 1 \in DOMAIN Append(a, r) /\ Append(a, r)[Len(a) + 1] = r
           /\ Len(Append(a, r)) = Len(a) + 1 /\ Append(a, r)[Len(Append(a, r))] = r
  <1> DEFINE s == Append(a, r)
             n == Len(a)
  <1>1. /\ n \in Nat /\ DOMAIN a = 1 .. n /\ s \in Log /\ Len(s) = n + 1 /\ DOMAIN s = 1 .. n + 1
        /\ \A i \in 1 .. n : s[i] = a[i]
        /\ s[n + 1] = r
    BY LogFacts, AppendRow
  <1> HIDE DEF s, n
  <1>2. \A i \in 1 .. n + 1 : i \in 1 .. n \/ i = n + 1
    BY <1>1
  <1>3. 1 .. n \subseteq 1 .. n + 1 /\ n + 1 \in 1 .. n + 1
    BY <1>1
  <1> QED BY <1>1, <1>2, <1>3 DEF s, n

\* A run is new to a log that has its turn's opening at most; so is a checkpoint.
LEMMA RunJoined ==
    ASSUME NEW a \in Log, NEW b \in Log, NEW t, NEW gone, WellFormed(a, gone), Transcript(b),
           Opened(a, t), OpeningOf(gone, t),
           \A i \in DOMAIN b : b[i].turn = t /\ b[i].n # 0
    PROVE  /\ a \o b \in Log
           /\ WellFormed(a \o b, gone)
           /\ \A u : Absent(a, u) /\ u # t => Absent(a \o b, u)
           /\ \A p : BegunIn(a, p) /\ p[t] \in Begun => BegunIn(a \o b, p)
           /\ IsPrefix(a, a \o b)
  <1> DEFINE s == a \o b
  <1>1. \A i \in DOMAIN b : New(a, b[i]) /\ \A g \in gone : ~SameRow(b[i], g)
    BY DEF Opened, OpeningOf, New, SameRow
  <1>2. WellFormed(s, gone)
    BY <1>1, JoinTranscripts
  <1>3. /\ s \in Log /\ Len(a) \in Nat /\ Len(b) \in Nat /\ Len(s) = Len(a) + Len(b)
        /\ \A i \in 1 .. Len(a) : s[i] = a[i]
    BY JoinRows, LogFacts
  <1>4. \A i \in DOMAIN s : \/ i \in DOMAIN a /\ s[i] = a[i]
                            \/ \E j \in DOMAIN b : s[i] = b[j]
    BY JoinedOrigin
  <1> HIDE DEF s
  <1>5. \A u : Absent(a, u) /\ u # t => Absent(s, u)
    BY <1>4 DEF Absent
  <1>6. \A p : BegunIn(a, p) /\ p[t] \in Begun => BegunIn(s, p)
    BY <1>4 DEF BegunIn
  <1>7. IsPrefix(a, s)
    BY <1>3, PrefixRows
  <1> QED BY <1>2, <1>3, <1>5, <1>6, <1>7 DEF s

LEMMA CheckpointJoined ==
    ASSUME NEW rows \in Log, NEW c \in CheckpointType, NEW gone, WellFormed(rows, gone),
           Opened(rows, c.turn), OpeningOf(gone, c.turn)
    PROVE  /\ rows \o CheckpointRows(c) \in Log
           /\ WellFormed(rows \o CheckpointRows(c), gone)
           /\ \A u : Absent(rows, u) /\ u # c.turn => Absent(rows \o CheckpointRows(c), u)
           /\ \A p : BegunIn(rows, p) /\ p[c.turn] \in Begun => BegunIn(rows \o CheckpointRows(c), p)
           /\ IsPrefix(rows, rows \o CheckpointRows(c))
  <1> DEFINE b == CheckpointRows(c)
  <1>1. /\ b \in Log /\ Transcript(b)
        /\ \A i \in 1 .. Len(b) : b[i].turn = c.turn /\ b[i].n = c.n
    BY CheckpointRowsOK
  <1>2. c.n # 0
    BY DEF CheckpointType
  <1>3. DOMAIN b = 1 .. Len(b)
    BY <1>1, LogFacts
  <1> HIDE DEF b
  <1>4. \A i \in DOMAIN b : b[i].turn = c.turn /\ b[i].n # 0
    BY <1>1, <1>2, <1>3
  <1>5. /\ rows \o b \in Log
        /\ WellFormed(rows \o b, gone)
        /\ \A u : Absent(rows, u) /\ u # c.turn => Absent(rows \o b, u)
        /\ \A p : BegunIn(rows, p) /\ p[c.turn] \in Begun => BegunIn(rows \o b, p)
        /\ IsPrefix(rows, rows \o b)
    BY <1>1, <1>4, RunJoined
  <1> QED BY <1>5 DEF b

\* An opening of a turn the log knows nothing of, and the text that closes one.
LEMMA RowOpened ==
    ASSUME NEW rows \in Log, NEW t \in Msg, NEW kind \in {"user", "text"}, NEW said \in SUBSET Msg,
           NEW gone, WellFormed(rows, gone), NoneOf(gone, t),
           \A i \in DOMAIN rows : rows[i].turn = t => rows[i].kind # kind,
           Opened(rows, t)
    PROVE  /\ Row(kind, t, 0, said) \in RowType
           /\ Append(rows, Row(kind, t, 0, said)) \in Log
           /\ WellFormed(Append(rows, Row(kind, t, 0, said)), gone)
           /\ Opened(Append(rows, Row(kind, t, 0, said)), t)
           /\ \A u : Absent(rows, u) /\ u # t => Absent(Append(rows, Row(kind, t, 0, said)), u)
           /\ \A p : BegunIn(rows, p) /\ p[t] \in Begun =>
                         BegunIn(Append(rows, Row(kind, t, 0, said)), p)
           /\ IsPrefix(rows, Append(rows, Row(kind, t, 0, said)))
           /\ kind = "text" => AnswerIn(Append(rows, Row(kind, t, 0, said)), t)
           /\ kind = "text" => ~EndsWith(Append(rows, Row(kind, t, 0, said)), UserKind)
           /\ Absent(rows, t) => AloneAtEnd(Append(rows, Row(kind, t, 0, said)))
  <1> DEFINE r == Row(kind, t, 0, said)
             s == Append(rows, r)
             n == Len(rows)
  <1>1. r \in RowType /\ r.kind = kind /\ r.turn = t /\ r.n = 0
    BY DEF Row, RowType, RowKind, UserKind
  <1> HIDE DEF r
  <1>2. New(rows, r) /\ (\A g \in gone : ~SameRow(r, g)) /\ r.kind \notin {"call", "result", "interrupted"}
    BY <1>1 DEF New, NoneOf, SameRow
  <1>3. WellFormed(s, gone)
    BY <1>1, <1>2, AddRow
  <1>4. /\ s \in Log /\ n \in Nat /\ Len(s) = n + 1
        /\ \A i \in 1 .. n : s[i] = rows[i]
    BY <1>1, AppendRow, LogFacts
  <1>5. /\ \A i \in DOMAIN s : (i \in DOMAIN rows /\ s[i] = rows[i]) \/ (i = Len(s) /\ s[i] = r)
        /\ Len(s) \in DOMAIN s /\ s[Len(s)] = r
    BY <1>1, <1>4, AppendedOrigin
  <1> HIDE DEF s, n
  <1>6. Opened(s, t) /\ \A u : Absent(rows, u) /\ u # t => Absent(s, u)
    BY <1>1, <1>5 DEF Opened, Absent
  <1>7. \A p : BegunIn(rows, p) /\ p[t] \in Begun => BegunIn(s, p)
    BY <1>1, <1>5 DEF BegunIn
  <1>8. IsPrefix(rows, s)
    BY <1>4, PrefixRows DEF n
  <1>9. kind = "text" => AnswerIn(s, t) /\ ~EndsWith(s, UserKind)
    BY <1>1, <1>5 DEF AnswerIn, EndsWith, UserKind
  <1>10. Absent(rows, t) => AloneAtEnd(s)
    BY <1>1, <1>5 DEF Absent, AloneAtEnd
  <1> QED BY <1>1, <1>3, <1>4, <1>6, <1>7, <1>8, <1>9, <1>10 DEF s, r

-----------------------------------------------------------------------------
(* What is kept when rows leave *)

\* Kept rows are rows of before, in their order; every row of before is kept or
\* in the archive.
LEMMA Kept ==
    ASSUME NEW rows \in Log, NEW a, NEW b, Trimmed(rows, a, b)
    PROVE  /\ log' \in Log /\ Len(log') = b - a + 1 /\ a \in Nat /\ b \in Nat
           /\ \A i \in 1 .. Len(log') :
                 a + i - 1 \in 1 .. Len(rows) /\ a + i - 1 \in a .. b /\ log'[i] = rows[a + i - 1]
           /\ \A k \in a .. b : k - a + 1 \in 1 .. Len(log') /\ log'[k - a + 1] = rows[k]
           /\ \A k \in DOMAIN rows : k \notin a .. b => rows[k] \in archived'
           /\ \A k \in DOMAIN rows : (\E i \in DOMAIN log' : log'[i] = rows[k]) \/ rows[k] \in archived'
           /\ \A r \in archived' : r \in archived \/ \E k \in DOMAIN rows \ (a .. b) : r = rows[k]
           /\ archived \subseteq archived'
  <1>1. /\ a \in 1 .. Len(rows) + 1 /\ b \in 0 .. Len(rows) /\ a <= b + 1
        /\ log' = SubSeq(rows, a, b)
        /\ archived' = archived \cup {rows[i] : i \in DOMAIN rows \ (a .. b)}
    BY DEF Trimmed
  <1>2. Len(rows) \in Nat /\ DOMAIN rows = 1 .. Len(rows)
    BY LogFacts
  <1>3. /\ log' \in Log /\ Len(log') = b - a + 1
        /\ \A i \in 1 .. b - a + 1 :
              a + i - 1 \in 1 .. Len(rows) /\ a + i - 1 \in a .. b /\ log'[i] = rows[a + i - 1]
    BY <1>1, SubRows
  <1>4. ASSUME NEW k \in a .. b
        PROVE  k - a + 1 \in 1 .. Len(log') /\ log'[k - a + 1] = rows[k]
    <2>1. k - a + 1 \in 1 .. b - a + 1 /\ a + (k - a + 1) - 1 = k
      BY <1>1, <1>2
    <2> QED BY <1>3, <2>1
  <1>5. DOMAIN log' = 1 .. Len(log')
    BY <1>3, LogFacts
  <1>6. ASSUME NEW k \in DOMAIN rows, k \notin a .. b
        PROVE  rows[k] \in archived'
    BY <1>1, <1>6
  <1>7. \A k \in DOMAIN rows : (\E i \in DOMAIN log' : log'[i] = rows[k]) \/ rows[k] \in archived'
    BY <1>4, <1>5, <1>6
  <1>8. a \in Nat /\ b \in Nat
    BY <1>1, <1>2
  <1> QED BY <1>1, <1>3, <1>4, <1>6, <1>7, <1>8

LEMMA KeptWellFormed ==
    ASSUME NEW rows \in Log, NEW a, NEW b, Trimmed(rows, a, b), Legal(rows, a),
           WellFormed(rows, archived)
    PROVE  WellFormed(log', archived')
  <1> DEFINE n == Len(log')
             m == Len(rows)
  <1>1. /\ log' \in Log /\ n = b - a + 1 /\ a \in Nat /\ b \in Nat /\ m \in Nat
        /\ DOMAIN log' = 1 .. n /\ DOMAIN rows = 1 .. m
        /\ \A i \in 1 .. n : a + i - 1 \in 1 .. m /\ a + i - 1 \in a .. b /\ log'[i] = rows[a + i - 1]
        /\ \A k \in a .. b : k - a + 1 \in 1 .. n /\ log'[k - a + 1] = rows[k]
        /\ \A k \in 1 .. m : k \notin a .. b => rows[k] \in archived'
        /\ \A r \in archived' : r \in archived \/ \E k \in (1 .. m) \ (a .. b) : r = rows[k]
        /\ archived \subseteq archived'
    <2>1. m \in Nat /\ DOMAIN rows = 1 .. m
      BY LogFacts
    <2>2. log' \in Log
      BY Kept
    <2>3. DOMAIN log' = 1 .. n
      BY <2>2, LogFacts
    <2>4. /\ n = b - a + 1 /\ a \in Nat /\ b \in Nat
          /\ \A i \in 1 .. n : a + i - 1 \in 1 .. m /\ a + i - 1 \in a .. b /\ log'[i] = rows[a + i - 1]
          /\ \A k \in a .. b : k - a + 1 \in 1 .. n /\ log'[k - a + 1] = rows[k]
      BY Kept
    <2>5. /\ \A k \in DOMAIN rows : k \notin a .. b => rows[k] \in archived'
          /\ \A r \in archived' : r \in archived \/ \E k \in DOMAIN rows \ (a .. b) : r = rows[k]
          /\ archived \subseteq archived'
      BY Kept
    <2> QED BY <2>1, <2>2, <2>3, <2>4, <2>5
  <1> HIDE DEF n, m
  <1>2. NoRowTwice(log')
    <2> SUFFICES ASSUME NEW i \in 1 .. n, NEW j \in 1 .. n, SameRow(log'[i], log'[j])
                 PROVE  i = j
      BY <1>1 DEF NoRowTwice
    <2>1. a + i - 1 = a + j - 1
      BY <1>1 DEF WellFormed, NoRowTwice
    <2> QED BY <2>1, <1>1
  <1>3. NoneGone(log', archived')
    <2> SUFFICES ASSUME NEW r \in archived', NEW i \in 1 .. n
                 PROVE  ~SameRow(log'[i], r)
      BY <1>1 DEF NoneGone
    <2>1. a + i - 1 \in 1 .. m /\ a + i - 1 \in a .. b /\ log'[i] = rows[a + i - 1]
      BY <1>1
    <2>2. CASE r \in archived
      BY <1>1, <2>1, <2>2 DEF WellFormed, NoneGone
    <2>3. ASSUME NEW k \in (1 .. m) \ (a .. b), r = rows[k]
          PROVE  ~SameRow(log'[i], r)
      BY <1>1, <2>1, <2>3 DEF WellFormed, NoRowTwice
    <2> QED BY <1>1, <2>2, <2>3
  <1>4. CallsAnswered(log', archived')
    <2> SUFFICES ASSUME NEW i \in 1 .. n, log'[i].kind = "call"
                 PROVE  \/ i + 1 \in 1 .. n /\ Answers(log'[i + 1], log'[i])
                        \/ \E r \in archived' : Answers(r, log'[i])
      BY <1>1 DEF CallsAnswered
    <2> DEFINE k == a + i - 1
    <2>0. k \in 1 .. m /\ k \in a .. b /\ log'[i] = rows[k]
      BY <1>1
    <2>1. k \in 1 .. m /\ k \in a .. b /\ log'[i] = rows[k] /\ k \in Nat
      BY <1>1, <2>0
    <2>2. \/ k + 1 \in 1 .. m /\ Answers(rows[k + 1], rows[k])
          \/ \E r \in archived : Answers(r, rows[k])
      BY <1>1, <2>1 DEF WellFormed, CallsAnswered
    <2>3. k + 1 - a + 1 = i + 1
      <3>1. a \in Nat /\ i \in Int
        BY <1>1
      <3> QED BY ONLY <3>1
    <2> HIDE DEF k
    <2>4. CASE k + 1 \in a .. b /\ Answers(rows[k + 1], rows[k])
      BY <1>1, <2>1, <2>3, <2>4
    <2>5. CASE k + 1 \in 1 .. m /\ k + 1 \notin a .. b /\ Answers(rows[k + 1], rows[k])
      BY <1>1, <2>1, <2>5
    <2>6. CASE \E r \in archived : Answers(r, rows[k])
      BY <1>1, <2>1, <2>6
    <2> QED BY <2>2, <2>4, <2>5, <2>6
  <1>5. ResultsCalled(log')
    <2> SUFFICES ASSUME NEW i \in 1 .. n, log'[i].kind \in {"result", "interrupted"}
                 PROVE  i - 1 \in 1 .. n /\ log'[i - 1].kind = "call" /\ Answers(log'[i], log'[i - 1])
      BY <1>1 DEF ResultsCalled
    <2> DEFINE k == a + i - 1
    <2>0. k \in 1 .. m /\ k \in a .. b /\ log'[i] = rows[k]
      BY <1>1
    <2>1. k \in 1 .. m /\ k \in a .. b /\ log'[i] = rows[k] /\ k \in Nat
      BY <1>1, <2>0
    <2>2. k - 1 \in 1 .. m /\ rows[k - 1].kind = "call" /\ Answers(rows[k], rows[k - 1])
      BY <1>1, <2>1 DEF WellFormed, ResultsCalled
    <2>3. (k - 1) - a + 1 = i - 1 /\ (k # a => k - 1 \in a .. b)
      <3>1. a \in Nat /\ b \in Nat /\ i \in Int /\ k \in a .. b
        BY <1>1, <2>1
      <3> QED BY ONLY <3>1
    <2> HIDE DEF k
    <2>4. k # a
      BY <1>1, <2>1 DEF Legal
    <2> QED BY <1>1, <2>1, <2>2, <2>3, <2>4
  <1> QED BY <1>2, <1>3, <1>4, <1>5 DEF WellFormed

\* What is known of the rows and of the archive is known of what they become.
LEMMA KeptFacts ==
    ASSUME NEW rows \in Log, NEW a, NEW b, Trimmed(rows, a, b)
    PROVE  /\ \A p : BegunIn(rows, p) /\ BegunGone(archived, p) =>
                        BegunIn(log', p) /\ BegunGone(archived', p)
           /\ \A t : Opened(rows, t) /\ OpeningOf(archived, t) =>
                        Opened(log', t) /\ OpeningOf(archived', t)
           /\ \A t : AnswerIn(rows, t) \/ AnswerGone(archived, t) =>
                        AnswerIn(log', t) \/ AnswerGone(archived', t)
  <1>1. /\ \A i \in DOMAIN log' : \E k \in DOMAIN rows : log'[i] = rows[k]
        /\ \A k \in DOMAIN rows : (\E i \in DOMAIN log' : log'[i] = rows[k]) \/ rows[k] \in archived'
        /\ \A r \in archived' : r \in archived \/ \E k \in DOMAIN rows : r = rows[k]
        /\ archived \subseteq archived'
    <2>1. DOMAIN rows = 1 .. Len(rows)
      BY LogFacts
    <2>2. log' \in Log
      BY Kept
    <2>3. DOMAIN log' = 1 .. Len(log')
      BY <2>2, LogFacts
    <2>4. ASSUME NEW i \in DOMAIN log' PROVE \E k \in DOMAIN rows : log'[i] = rows[k]
      <3>1. a + i - 1 \in DOMAIN rows /\ log'[i] = rows[a + i - 1]
        BY <2>1, <2>3, Kept
      <3> QED BY <3>1
    <2>5. \A r \in archived' : r \in archived \/ \E k \in DOMAIN rows : r = rows[k]
      BY Kept
    <2> QED BY <2>4, <2>5, Kept
  <1>2. \A p : BegunIn(rows, p) /\ BegunGone(archived, p) => BegunIn(log', p) /\ BegunGone(archived', p)
    BY <1>1 DEF BegunIn, BegunGone
  <1>3. \A t : Opened(rows, t) /\ OpeningOf(archived, t) => Opened(log', t) /\ OpeningOf(archived', t)
    BY <1>1 DEF Opened, OpeningOf
  <1>4. \A t : AnswerIn(rows, t) \/ AnswerGone(archived, t) => AnswerIn(log', t) \/ AnswerGone(archived', t)
    BY <1>1 DEF AnswerIn, AnswerGone
  <1> QED BY <1>2, <1>3, <1>4

-----------------------------------------------------------------------------
(* The places *)

BegunKept == \A m \in Msg : place[m] \in Begun => place'[m] \in Begun

LEMMA BegunStays ==
    ASSUME NEW rows \in Log, NEW gone \in SUBSET RowType, BegunIn(rows, place),
           BegunGone(gone, place), BegunKept
    PROVE  BegunIn(rows, place') /\ BegunGone(gone, place')
  <1>1. (\A i \in DOMAIN rows : rows[i].turn \in Msg) /\ \A r \in gone : r.turn \in Msg
    BY LogFacts DEF RowType
  <1> QED BY <1>1 DEF BegunIn, BegunGone, BegunKept

LEMMA FileKept ==
    ASSUME SessionTypeOK, FileInv, BegunKept, UNCHANGED <<log, checkpoint, pending, disk, archived>>
    PROVE  FileInv'
  <1>1. log \in Log /\ BegunIn(log, place') /\ BegunGone(archived, place')
    BY BegunStays DEF SessionTypeOK, FileInv, Log
  <1>2. checkpoint # None => checkpoint.turn \in Msg
    BY DEF SessionTypeOK, CheckpointType
  <1> QED BY <1>1, <1>2 DEF FileInv, BegunIn, BegunGone, BegunKept

LEMMA FileSaved ==
    ASSUME Save, WellFormed(log', archived'), BegunIn(log', place'), BegunGone(archived', place'),
           pending' => OpenAtEnd(log', archived'),
           checkpoint' # None => /\ place'[checkpoint'.turn] \in Begun
                                 /\ Opened(log', checkpoint'.turn)
                                 /\ OpeningOf(archived', checkpoint'.turn)
    PROVE  FileInv'
  BY DEF FileInv, Save

LEMMA FileMaterialized ==
    ASSUME SessionTypeOK, FileInv, MaterializeCheckpoint, BegunKept
    PROVE  /\ FileInv'
           /\ \A u : Absent(log, u) /\ u # checkpoint.turn => Absent(log', u)
           /\ IsPrefix(log, log') /\ archived' = archived
           /\ checkpoint # None /\ checkpoint' = None /\ pending' = FALSE
  <1>1. /\ checkpoint \in CheckpointType /\ log \in Log /\ checkpoint # None
        /\ checkpoint' = None /\ pending' = FALSE /\ Save
        /\ archived' = archived /\ archived \in SUBSET RowType
    BY Materialized DEF SessionTypeOK, MaterializeCheckpoint, Log
  <1>2. /\ Opened(log, checkpoint.turn) /\ place[checkpoint.turn] \in Begun
        /\ OpeningOf(archived, checkpoint.turn)
        /\ WellFormed(log, archived) /\ BegunIn(log, place) /\ BegunGone(archived, place)
    BY <1>1 DEF FileInv
  <1>3. log' = log \o CheckpointRows(checkpoint)
    BY <1>2, Materialized DEF Opened
  <1>4. checkpoint.turn \in Msg
    BY <1>1 DEF CheckpointType
  <1>5. BegunIn(log, place') /\ BegunGone(archived, place') /\ place'[checkpoint.turn] \in Begun
    BY <1>1, <1>2, <1>4, BegunStays DEF BegunKept
  <1>6. /\ WellFormed(log', archived) /\ BegunIn(log', place')
        /\ \A u : Absent(log, u) /\ u # checkpoint.turn => Absent(log', u)
        /\ IsPrefix(log, log')
    BY <1>1, <1>2, <1>3, <1>5, CheckpointJoined
  <1> QED BY <1>1, <1>5, <1>6, FileSaved

\* A turn ends: everyone else keeps what the turn has no hand in.
LEMMA PlaceEnded ==
    ASSUME EndTurn, \A m \in Msg : place'[m] \notin {"queued", "turn"},
           replied' \subseteq Msg, \A m \in replied' : place'[m] = "done"
    PROVE  PlaceInv'
  <1>1. turn' = None /\ queue' = <<>>
    BY DEF EndTurn
  <1>2. IsInjective(queue') /\ \A m : ~Contains(queue', m)
    BY <1>1, EmptyQueue
  <1> QED BY <1>1, <1>2 DEF PlaceInv

LEMMA Left2 ==
    ASSUME TurnTypes, PlaceInv, turn # None, NEW outcome \in Begun \ {"turn"}
    PROVE  /\ \A m \in Msg : LeftAs(outcome)[m] \notin {"queued", "turn"}
           /\ \A m \in Msg : place[m] \in Begun => LeftAs(outcome)[m] \in Begun
           /\ \A m \in replied : LeftAs(outcome)[m] = "done"
           /\ LeftAs(outcome)[turn] = outcome
           /\ LeftAs(outcome) \in [Msg -> Place]
  <1>1. replied \subseteq Msg /\ turn \in Msg /\ outcome \in Place
    BY DEF TurnTypes, Begun, Place
  <1>2. \A m \in replied : m # turn /\ place[m] = "done"
    BY DEF PlaceInv
  <1> QED BY <1>1, <1>2, LeftType DEF LeftAs, PlaceInv, Begun, TurnTypes

LEMMA StageIdle ==
    ASSUME stage' = "idle"
    PROVE  StageInv'
  BY DEF StageInv, InRun, Filing

LEMMA TurnLeft ==
    ASSUME TurnTypes, PlaceInv, turn # None, NEW outcome \in Begun \ {"turn"},
           place' = LeftAs(outcome), EndTurn,
           replied' = replied \/ (outcome = "done" /\ replied' = replied \cup {turn})
    PROVE  PlaceInv' /\ StageInv' /\ BegunKept
  <1>1. turn \in Msg /\ replied \subseteq Msg /\ stage' = "idle"
    BY DEF TurnTypes, EndTurn
  <1>2. \A m \in Msg : place'[m] \notin {"queued", "turn"}
    BY Left2
  <1>3. BegunKept
    BY Left2 DEF BegunKept
  <1>4. replied' \subseteq Msg /\ \A m \in replied' : place'[m] = "done"
    BY <1>1, Left2
  <1> QED BY <1>1, <1>2, <1>3, <1>4, PlaceEnded, StageIdle

-----------------------------------------------------------------------------
(* The marks after each action *)

MarksNext == FileInv' /\ PlaceInv' /\ StageInv'

LEMMA MarksTypes ==
    ASSUME MarksInv
    PROVE  /\ TurnTypes /\ FileInv /\ PlaceInv /\ StageInv
           /\ log \in Log /\ SessionTypeOK /\ archived \in SUBSET RowType
  BY InTurnTypes DEF MarksInv, TurnTypes, SessionTypeOK, Log

LEMMA BeginMarks ==
    ASSUME MarksInv, NEW m \in Msg, Begin(m)
    PROVE  MarksNext
  <1>1. TurnTypes /\ FileInv /\ PlaceInv /\ StageInv /\ log \in Log /\ SessionTypeOK
    BY MarksTypes
  <1>2. /\ turn = None /\ turn' = m /\ stage' = "restore" /\ queue' = queue /\ replied' = replied
        /\ place[m] \in {"unsent", "bus"} /\ place' = [place EXCEPT ![m] = "turn"]
        /\ UNCHANGED <<log, checkpoint, pending, disk, archived>>
    BY DEF Begin, Arrived, session
  <1>3. /\ place[m] \notin Begun /\ place[m] # "queued" /\ place'[m] = "turn"
        /\ \A k \in Msg : k # m => place'[k] = place[k]
    BY <1>1, <1>2 DEF TurnTypes, Begun
  <1>4. BegunKept
    BY <1>3 DEF BegunKept
  <1>5. FileInv'
    BY <1>1, <1>2, <1>4, FileKept
  <1>6. PlaceInv'
    <2>1. \A k \in Msg : place[k] # "turn"
      BY <1>1, <1>2, BoundsOK DEF PlaceInv, Bounds
    <2>2. replied \subseteq Msg
      BY <1>1 DEF TurnTypes
    <2>3. m \notin replied
      BY <1>1, <1>2 DEF PlaceInv
    <2> QED BY <1>1, <1>2, <1>3, <2>1, <2>2, <2>3 DEF PlaceInv
  <1>7. StageInv'
    <2>1. Absent(log, m)
      <3>1. \A i \in DOMAIN log : log[i].turn # m
        BY <1>1, <1>3 DEF FileInv, BegunIn
      <3> QED BY <3>1 DEF Absent
    <2>2. checkpoint # None => checkpoint.turn # m
      BY <1>1, <1>3 DEF FileInv
    <2>3. NoneOf(archived, m)
      BY <1>1, <1>3 DEF FileInv, BegunGone, NoneOf
    <2> QED BY <1>2, <2>1, <2>2, <2>3 DEF StageInv, InRun, Filing
  <1> QED BY <1>5, <1>6, <1>7 DEF MarksNext

LEMMA RouteMarks ==
    ASSUME MarksInv, NEW m \in Msg, Route(m)
    PROVE  MarksNext
  <1>1. TurnTypes /\ FileInv /\ PlaceInv /\ StageInv /\ log \in Log /\ SessionTypeOK
    BY MarksTypes
  <1>2. /\ turn' = turn /\ stage' = stage /\ replied' = replied
        /\ queue' = Append(queue, m)
        /\ place[m] \in {"unsent", "bus"} /\ place' = [place EXCEPT ![m] = "queued"]
        /\ UNCHANGED <<log, checkpoint, pending, disk, archived>>
    BY DEF Route, Arrived, session
  <1>3. /\ place[m] \notin Begun /\ place[m] # "queued" /\ place'[m] = "queued"
        /\ \A k \in Msg : k # m => place'[k] = place[k]
    BY <1>1, <1>2 DEF TurnTypes, Begun
  <1>4. FileInv'
    <2>1. BegunKept
      BY <1>3 DEF BegunKept
    <2> QED BY <1>1, <1>2, <2>1, FileKept
  <1>5. PlaceInv'
    <2>1. /\ queue \in Queues /\ ~Contains(queue, m) /\ replied \subseteq Msg
          /\ turn \in Msg \cup {None} /\ IsInjective(queue)
      BY <1>1, <1>3 DEF PlaceInv, TurnTypes
    <2>2. IsInjective(queue') /\ \A y : Contains(queue', y) <=> Contains(queue, y) \/ y = m
      BY <1>2, <2>1, AppendQueue DEF Queues
    <2>3. m \notin replied /\ (turn # None => turn # m)
      BY <1>1, <1>2 DEF PlaceInv
    <2> QED BY <1>1, <1>2, <1>3, <2>1, <2>2, <2>3 DEF PlaceInv
  <1>6. StageInv'
    BY <1>1, <1>2 DEF StageInv
  <1> QED BY <1>4, <1>5, <1>6 DEF MarksNext

\* A step of the turn in which the messages stay where they are.
LEMMA PlaceSame ==
    ASSUME PlaceInv, turn' = turn, queue' = queue, place' = place, replied' = replied
    PROVE  PlaceInv' /\ BegunKept
  BY DEF PlaceInv, BegunKept

LEMMA RestoreMarks ==
    ASSUME MarksInv, Restore
    PROVE  /\ MarksNext
           /\ disk'.log = disk.log \/ IsPrefix(disk.log, disk'.log)
           /\ archived' = archived
  <1>1. TurnTypes /\ FileInv /\ PlaceInv /\ StageInv /\ log \in Log /\ SessionTypeOK
        /\ archived \in SUBSET RowType
    BY MarksTypes
  <1>2. /\ stage = "restore" /\ stage' = "command" /\ turn' = turn
        /\ queue' = queue /\ place' = place /\ replied' = replied
        /\ MaterializeCheckpoint \/ ClosePendingTurn \/ NothingToRestore
    BY DEF Restore
  <1>3. turn \in Msg /\ Absent(log, turn) /\ NoneOf(archived, turn) /\ (checkpoint # None => checkpoint.turn # turn)
    BY <1>1, <1>2 DEF TurnTypes, StageInv
  <1>4. PlaceInv' /\ BegunKept
    BY <1>1, <1>2, PlaceSame
  <1>5. /\ FileInv' /\ Absent(log', turn) /\ ~pending' /\ checkpoint' = None
        /\ log' = log \/ IsPrefix(log, log')
        /\ archived' = archived
    <2>1. CASE MaterializeCheckpoint
      BY <1>1, <1>3, <1>4, <2>1, FileMaterialized
    <2>2. CASE NothingToRestore
      BY <1>1, <1>3, <1>4, <2>2, FileKept DEF NothingToRestore, session
    <2>3. CASE ClosePendingTurn
      <3>1. /\ checkpoint = None /\ pending /\ checkpoint' = None /\ pending' = FALSE /\ Save
            /\ archived' = archived
        BY <2>3 DEF ClosePendingTurn
      <3>2. CASE ~EndsWith(log, UserKind)
        <4>1. log' = log
          BY <2>3, <3>2 DEF ClosePendingTurn
        <4> QED BY <1>1, <1>2, <1>3, <3>1, <4>1, FileSaved DEF FileInv
      <3>3. CASE EndsWith(log, UserKind)
        <4> DEFINE last == log[Len(log)]
                   t == last.turn
        <4>1. log' = Append(log, Row("text", t, 0, {}))
          BY <2>3, <3>3 DEF ClosePendingTurn
        <4>2. Len(log) \in DOMAIN log /\ last \in RowType /\ last.kind \in UserKind
          BY <1>1, <3>3, LogFacts DEF EndsWith
        <4>3. t \in Msg /\ t # turn /\ place[t] \in Begun /\ NoneOf(archived, t)
          BY <1>1, <1>3, <3>1, <3>3, <4>2 DEF RowType, Absent, FileInv, BegunIn, OpenAtEnd
        <4>4. \A i \in DOMAIN log : log[i].turn = t => i = Len(log)
          BY <1>1, <3>1, <3>3 DEF FileInv, OpenAtEnd, AloneAtEnd
        <4>5. \A i \in DOMAIN log : log[i].turn = t => log[i].kind # "text"
          BY <4>2, <4>4 DEF UserKind
        <4> DEFINE r == Row("text", t, 0, {})
        <4>6. r \in RowType /\ r.kind = "text" /\ r.turn = t /\ r.n = 0
          BY <4>3 DEF Row, RowType, RowKind
        <4> HIDE DEF r, t, last
        <4>7. New(log, r) /\ \A g \in archived : ~SameRow(r, g)
          BY <4>3, <4>5, <4>6 DEF New, NoneOf, SameRow
        <4>8. WellFormed(Append(log, r), archived) /\ Append(log, r) \in Log
          BY <1>1, <4>6, <4>7, AddRow, AppendRow DEF FileInv
        <4>9. \A i \in DOMAIN Append(log, r) :
                 \/ i \in DOMAIN log /\ Append(log, r)[i] = log[i]
                 \/ Append(log, r)[i] = r
          BY <1>1, <4>6, AppendedOrigin
        <4>10. Absent(Append(log, r), turn) /\ BegunIn(Append(log, r), place)
          BY <1>1, <1>3, <4>3, <4>6, <4>9 DEF Absent, BegunIn, FileInv
        <4>11. IsPrefix(log, Append(log, r))
          <5>1. Len(log) \in Nat /\ Len(Append(log, r)) = Len(log) + 1
                /\ \A i \in 1 .. Len(log) : log[i] = Append(log, r)[i]
            BY <1>1, <4>6, LogFacts, AppendRow
          <5>2. Len(log) <= Len(Append(log, r))
            BY <5>1
          <5> QED BY <1>1, <4>8, <5>1, <5>2, PrefixRows
        <4>12. log' = Append(log, r)
          BY <4>1 DEF r
        <4> QED BY <1>1, <1>2, <3>1, <4>8, <4>10, <4>11, <4>12, FileSaved DEF FileInv
      <3> QED BY <3>2, <3>3
    <2> QED BY <1>2, <2>1, <2>2, <2>3
  <1>6. StageInv'
    BY <1>2, <1>3, <1>5 DEF StageInv, InRun, Filing
  <1>7. disk'.log = disk.log \/ IsPrefix(disk.log, disk'.log)
    BY <1>1, <1>5 DEF FileInv
  <1> QED BY <1>4, <1>5, <1>6, <1>7 DEF MarksNext

LEMMA ShortcutMarks ==
    ASSUME MarksInv, Shortcut
    PROVE  MarksNext /\ IsPrefix(disk.log, disk'.log) /\ archived' = archived
  <1> DEFINE a == Row("user", turn, 0, {turn})
             b == Row("text", turn, 0, {})
             mid == Append(log, a)
  <1>1. TurnTypes /\ FileInv /\ PlaceInv /\ StageInv /\ log \in Log /\ SessionTypeOK
    BY MarksTypes
  <1>2. /\ stage = "command" /\ stage' = "respond" /\ turn' = turn
        /\ queue' = queue /\ place' = place /\ replied' = replied
        /\ log' = log \o <<a, b>> /\ pending' = FALSE /\ checkpoint' = checkpoint
        /\ archived' = archived
        /\ disk' = [log |-> log', checkpoint |-> checkpoint, pending |-> TRUE]
    BY DEF Shortcut
  <1>3. turn \in Msg /\ Absent(log, turn) /\ NoneOf(archived, turn) /\ checkpoint = None /\ place[turn] = "turn"
    BY <1>1, <1>2 DEF TurnTypes, StageInv, PlaceInv
  <1>4. PlaceInv'
    BY <1>1, <1>2, PlaceSame
  <1>5. /\ a \in RowType /\ a.kind = "user" /\ a.turn = turn /\ mid \in Log
        /\ WellFormed(mid, archived) /\ Opened(mid, turn)
        /\ BegunIn(mid, place) /\ IsPrefix(log, mid)
    <2>1. /\ "user" \in {"user", "text"} /\ {turn} \in SUBSET Msg /\ WellFormed(log, archived)
          /\ \A i \in DOMAIN log : log[i].turn = turn => log[i].kind # "user"
          /\ Opened(log, turn) /\ BegunIn(log, place) /\ place[turn] \in Begun
      BY <1>1, <1>3 DEF FileInv, Absent, Opened, Begun
    <2> QED BY <1>1, <1>3, <2>1, RowOpened DEF Row
  <1>6. /\ b \in RowType /\ Append(mid, b) \in Log /\ WellFormed(Append(mid, b), archived)
        /\ BegunIn(Append(mid, b), place)
        /\ AnswerIn(Append(mid, b), turn) /\ ~EndsWith(Append(mid, b), UserKind)
        /\ IsPrefix(mid, Append(mid, b))
    <2>1. \A i \in DOMAIN mid : mid[i].turn = turn => mid[i].kind # "text"
      BY <1>1, <1>3, <1>5, AppendedOrigin DEF Absent
    <2> HIDE DEF mid
    <2>2. "text" \in {"user", "text"} /\ {} \in SUBSET Msg /\ place[turn] \in Begun
      BY <1>3 DEF Begun
    <2> QED BY <1>3, <1>5, <2>1, <2>2, RowOpened
  <1>7. log' = Append(mid, b)
    <2> HIDE DEF a, b
    <2> QED BY <1>1, <1>2, <1>5, <1>6, TwoMore
  <1>8. IsPrefix(log, log')
    <2>1. /\ Len(log) \in Nat /\ Len(mid) = Len(log) + 1 /\ \A i \in 1 .. Len(log) : mid[i] = log[i]
      BY <1>1, <1>5, AppendRow, LogFacts
    <2> HIDE DEF mid, a, b
    <2>2. /\ Len(log') = Len(mid) + 1 /\ \A i \in 1 .. Len(mid) : log'[i] = mid[i]
      BY <1>5, <1>6, <1>7, AppendRow
    <2>3. Len(log) <= Len(log') /\ \A i \in 1 .. Len(log) : log[i] = log'[i]
      BY <2>1, <2>2
    <2> QED BY <1>1, <1>6, <1>7, <2>3, PrefixRows
  <1> HIDE DEF mid, a, b
  <1>9. FileInv'
    BY <1>1, <1>2, <1>3, <1>4, <1>6, <1>7 DEF FileInv, OpenAtEnd, AloneAtEnd
  <1>10. StageInv'
    BY <1>2, <1>3, <1>6, <1>7 DEF StageInv, InRun, Filing
  <1>11. IsPrefix(disk.log, disk'.log)
    BY <1>1, <1>2, <1>8 DEF FileInv
  <1> QED BY <1>2, <1>4, <1>9, <1>10, <1>11 DEF MarksNext

LEMMA NoLog ==
    /\ \A gone : WellFormed(<<>>, gone) /\ OpenAtEnd(<<>>, gone)
    /\ \A p : BegunIn(<<>>, p)
    /\ \A t : Opened(<<>>, t) /\ Absent(<<>>, t)
  <1>1. DOMAIN <<>> = {}
    OBVIOUS
  <1> QED BY <1>1 DEF WellFormed, NoRowTwice, NoneGone, CallsAnswered, ResultsCalled, BegunIn,
                      OpenAtEnd, AloneAtEnd, Opened, Absent, EndsWith

LEMMA NewShortcutMarks ==
    ASSUME MarksInv, NewShortcut
    PROVE  MarksNext /\ disk'.log = <<>> /\ archived' = archived
  <1>1. TurnTypes /\ FileInv /\ PlaceInv /\ StageInv /\ log \in Log /\ SessionTypeOK
        /\ archived \in SUBSET RowType
    BY MarksTypes
  <1>2. /\ stage = "command" /\ stage' = "respond" /\ turn' = turn
        /\ queue' = queue /\ replied' = replied
        /\ log' = <<>> /\ checkpoint' = checkpoint /\ pending' = pending /\ Save
        /\ archived' = archived
        /\ place' = [m \in Msg |-> IF place[m] = "filed" THEN "forgotten" ELSE place[m]]
    BY DEF NewShortcut, ClearSession, Forgotten
  <1>3. turn \in Msg /\ checkpoint = None /\ replied \subseteq Msg
    BY <1>1, <1>2 DEF TurnTypes, StageInv
  <1>4. FileInv'
    <2>1. BegunKept
      BY <1>2 DEF BegunKept, Begun
    <2>2. BegunGone(archived, place')
      BY <1>1, <2>1, BegunStays DEF FileInv
    <2> QED BY <1>2, <1>3, <2>2, NoLog, FileSaved
  <1>5. PlaceInv'
    BY <1>1, <1>2, <1>3 DEF PlaceInv
  <1>6. StageInv'
    BY <1>2, <1>3 DEF StageInv, InRun, Filing
  <1> QED BY <1>2, <1>4, <1>5, <1>6 DEF MarksNext, Save

LEMMA BuildMarks ==
    ASSUME MarksInv, Build
    PROVE  /\ MarksNext
           /\ disk'.log = disk.log \/ IsPrefix(disk.log, disk'.log)
           /\ archived' = archived
  <1>1. TurnTypes /\ FileInv /\ PlaceInv /\ StageInv /\ log \in Log /\ SessionTypeOK
    BY MarksTypes
  <1>2. /\ stage = "command" /\ stage' = "ask" /\ turn' = turn
        /\ queue' = queue /\ place' = place /\ replied' = replied
        /\ log' = IF KeepOpening THEN Append(log, Row("user", turn, 0, {turn})) ELSE log
        /\ pending' = (KeepOpening \/ pending) /\ checkpoint' = checkpoint /\ Save
        /\ archived' = archived
    BY DEF Build, StartRun, OpenTurn
  <1>3. /\ turn \in Msg /\ Absent(log, turn) /\ NoneOf(archived, turn) /\ checkpoint = None /\ ~pending
        /\ place[turn] \in Begun
    BY <1>1, <1>2 DEF TurnTypes, StageInv, PlaceInv, Begun
  <1>4. PlaceInv'
    BY <1>1, <1>2, PlaceSame
  <1>5. /\ WellFormed(log', archived) /\ BegunIn(log', place) /\ Opened(log', turn)
        /\ pending' => OpenAtEnd(log', archived)
        /\ log' = log \/ IsPrefix(log, log')
    <2>1. CASE KeepOpening
      <3>1. /\ "user" \in {"user", "text"} /\ {turn} \in SUBSET Msg /\ WellFormed(log, archived)
            /\ \A i \in DOMAIN log : log[i].turn = turn => log[i].kind # "user"
            /\ Opened(log, turn) /\ BegunIn(log, place)
        BY <1>1, <1>3 DEF FileInv, Absent, Opened
      <3>2. log' = Append(log, Row("user", turn, 0, {turn}))
        BY <1>2, <2>1
      <3>3. /\ WellFormed(log', archived) /\ BegunIn(log', place) /\ Opened(log', turn)
            /\ AloneAtEnd(log') /\ IsPrefix(log, log')
        BY <1>1, <1>3, <3>1, <3>2, RowOpened
      <3>4. log'[Len(log')].turn = turn
        <4>1. Row("user", turn, 0, {turn}) \in RowType /\ Row("user", turn, 0, {turn}).turn = turn
          BY <1>3 DEF Row, RowType, RowKind, UserKind
        <4> QED BY <1>1, <3>2, <4>1, AppendedOrigin
      <3> QED BY <1>3, <3>3, <3>4 DEF OpenAtEnd
    <2>2. CASE ~KeepOpening
      <3>1. log' = log /\ pending' = FALSE
        BY <1>2, <1>3, <2>2
      <3> QED BY <1>1, <1>3, <3>1 DEF FileInv, Absent, Opened
    <2> QED BY <2>1, <2>2
  <1>6. FileInv'
    BY <1>1, <1>2, <1>3, <1>4, <1>5, FileSaved DEF FileInv
  <1>7. StageInv'
    BY <1>2, <1>3, <1>5 DEF StageInv, InRun, Filing
  <1>8. disk'.log = disk.log \/ IsPrefix(disk.log, disk'.log)
    BY <1>1, <1>5, <1>6 DEF FileInv
  <1> QED BY <1>2, <1>4, <1>6, <1>7, <1>8 DEF MarksNext

\* What the steps of a run leave alone: the rows and the mark, the turn, and
\* everyone who is not taken from its queue.
FramedSession ==
    /\ log' = log /\ pending' = pending /\ archived' = archived
    /\ \/ checkpoint' = checkpoint /\ disk' = disk
       \/ checkpoint' # None /\ checkpoint'.turn = turn /\ Save

FramedPlaces ==
    \/ queue' = queue /\ place' = place
    \/ \E where \in {"absorbed", "working"} :
          /\ queue' = Left
          /\ place' = [m \in Msg |-> IF m \notin ToSet(Taken) THEN place[m] ELSE where]

RunnerFrame ==
    stage' \in InRun \cup {"save"} /\ turn' = turn /\ FramedSession /\ FramedPlaces

LEMMA InjectFrame ==
    ASSUME NEW rows, Inject(rows)
    PROVE  FramedPlaces
  <1>1. CASE rows = <<>>
    BY <1>1 DEF Inject, FramedPlaces
  <1>2. CASE rows # <<>>
    BY <1>2 DEF Inject, FramedPlaces
  <1> QED BY <1>1, <1>2

LEMMA FrameStays ==
    /\ UNCHANGED session => FramedSession
    /\ UNCHANGED <<queue, place>> => FramedPlaces
    /\ NoInjection => FramedPlaces
  BY DEF session, FramedSession, FramedPlaces, NoInjection

LEMMA EmitFrame ==
    ASSUME RunTypes, NEW phase \in {"awaiting", "completed", "final"},
           Emit(phase, turn, iteration + 1)
    PROVE  FramedSession
  <1>1. checkpoint' = [phase |-> phase, turn |-> turn, n |-> iteration + 1]
    BY DEF Emit
  <1>2. iteration + 1 \in Nat \ {0} /\ turn \in Msg
    BY BoundsOK DEF RunTypes, Bounds
  <1>3. checkpoint' \in CheckpointType
    BY <1>1, <1>2 DEF CheckpointType
  <1> QED BY <1>1, <1>3, BoundsOK DEF Emit, Bounds, FramedSession

LEMMA RunnerFramed ==
    ASSUME RunTypes, RunnerNext
    PROVE  RunnerFrame
  <1>1. Continue => stage' \in InRun
    BY DEF Continue, InRun
  <1>2. CASE AskTools
    BY <1>1, <1>2, FrameStays, InjectFrame, EmitFrame DEF AskTools, RunnerFrame, InRun
  <1>3. CASE ChangeGoal
    BY <1>3, FrameStays DEF ChangeGoal, RunnerFrame, FramedSession, InRun
  <1>4. CASE ToolsDone
    BY <1>1, <1>4, FrameStays, InjectFrame, EmitFrame DEF ToolsDone, RunnerFrame, InRun
  <1>5. CASE ToolsFatal
    BY <1>1, <1>5, FrameStays, InjectFrame, EmitFrame DEF ToolsFatal, RunnerFrame, InRun
  <1>6. CASE AskBlank
    BY <1>1, <1>6, FrameStays, InjectFrame, EmitFrame DEF AskBlank, RunnerFrame, InRun
  <1>7. CASE CutOff
    BY <1>1, <1>7, FrameStays, InjectFrame, EmitFrame DEF CutOff, RunnerFrame, InRun
  <1>8. CASE AnswerResumed
    BY <1>1, <1>8, FrameStays, InjectFrame, EmitFrame DEF AnswerResumed, RunnerFrame, InRun
  <1>9. CASE AnswerGiven
    BY <1>1, <1>9, FrameStays, InjectFrame, EmitFrame DEF AnswerGiven, RunnerFrame, InRun
  <1>10. CASE AskFailed
    BY <1>1, <1>10, FrameStays, InjectFrame, EmitFrame DEF AskFailed, RunnerFrame, InRun, DrainOr
  <1>11. CASE DrainError
    BY <1>1, <1>11, FrameStays, InjectFrame, EmitFrame DEF DrainError, RunnerFrame, InRun, DrainOr
  <1>12. CASE Exhausted
    BY <1>1, <1>12, FrameStays, InjectFrame, EmitFrame DEF Exhausted, RunnerFrame, InRun
  <1> QED BY <1>2, <1>3, <1>4, <1>5, <1>6, <1>7, <1>8, <1>9, <1>10, <1>11, <1>12 DEF RunnerNext

LEMMA RunMarks ==
    ASSUME MarksInv, Run
    PROVE  MarksNext /\ disk'.log = disk.log /\ archived' = archived
  <1>1. TurnTypes /\ FileInv /\ PlaceInv /\ StageInv /\ log \in Log /\ SessionTypeOK
        /\ archived \in SUBSET RowType
    BY MarksTypes
  <1>2. RunnerNext /\ replied' = replied
    BY DEF Run
  <1>3. stage \in InRun
    BY <1>2 DEF RunnerNext, AskTools, ChangeGoal, ToolsDone, ToolsFatal, AskBlank, CutOff,
                AnswerResumed, AnswerGiven, AskFailed, DrainError, Exhausted, InRun
  <1>4. RunTypes
    BY <1>3, InRunTypes DEF MarksInv
  <1>5. RunnerFrame
    BY <1>2, <1>4, RunnerFramed
  <1>6. turn \in Msg /\ turn # None /\ queue \in Queues /\ place \in [Msg -> Place] /\ replied \subseteq Msg
    BY <1>4 DEF RunTypes
  <1>7. PlaceInv' /\ BegunKept
    <2>1. CASE queue' = queue /\ place' = place
      BY <1>1, <1>2, <1>5, <2>1, PlaceSame DEF RunnerFrame, FramedPlaces
    <2>2. ASSUME NEW where \in {"absorbed", "working"}, queue' = Left,
                 place' = [m \in Msg |-> IF m \notin ToSet(Taken) THEN place[m] ELSE where]
          PROVE  PlaceInv' /\ BegunKept
      <3>1. /\ ToSet(Taken) \in SUBSET Msg /\ IsInjective(queue')
            /\ \A m \in ToSet(Taken) : Contains(queue, m) /\ ~Contains(queue', m)
            /\ \A m : Contains(queue', m) => Contains(queue, m)
            /\ \A m : Contains(queue, m) => Contains(queue', m) \/ m \in ToSet(Taken)
        BY <1>1, <1>6, <2>2, TakenLeft DEF PlaceInv
      <3> DEFINE T == ToSet(Taken)
      <3>2. /\ T \in SUBSET Msg /\ IsInjective(queue')
            /\ \A m \in T : Contains(queue, m) /\ ~Contains(queue', m)
            /\ \A m : Contains(queue', m) => Contains(queue, m)
            /\ \A m : Contains(queue, m) => Contains(queue', m) \/ m \in T
            /\ \A m \in Msg : place'[m] = IF m \notin T THEN place[m] ELSE where
        BY <2>2, <3>1
      <3> HIDE DEF T
      <3>3. \A m \in T : place[m] = "queued"
        BY <1>1, <3>2 DEF PlaceInv
      <3>4. \A m \in Msg : Contains(queue', m) <=> place'[m] = "queued"
        BY <1>1, <2>2, <3>2, <3>3 DEF PlaceInv
      <3>5. turn' = turn /\ turn \notin T /\ place'[turn] = "turn"
        BY <1>1, <1>5, <1>6, <3>2, <3>3 DEF PlaceInv, RunnerFrame
      <3>6. \A m \in Msg : place'[m] = "turn" => m = turn
        BY <1>1, <2>2, <3>2 DEF PlaceInv
      <3>7. \A m \in replied : place'[m] = "done"
        BY <1>1, <1>6, <3>2, <3>3 DEF PlaceInv
      <3>8. BegunKept
        BY <3>2, <3>3 DEF BegunKept, Begun
      <3> QED BY <1>2, <3>2, <3>4, <3>5, <3>6, <3>7, <3>8 DEF PlaceInv
    <2> QED BY <1>5, <2>1, <2>2 DEF RunnerFrame, FramedPlaces
  <1>8. /\ Opened(log, turn) /\ NoneOf(archived, turn) /\ OpeningOf(archived, turn)
        /\ (checkpoint # None => checkpoint.turn = turn) /\ place'[turn] \in Begun
    BY <1>1, <1>3, <1>6, <1>7 DEF StageInv, PlaceInv, BegunKept, Begun, NoneOf, OpeningOf
  <1>9. FileInv'
    <2>1. CASE checkpoint' = checkpoint /\ disk' = disk
      BY <1>1, <1>5, <1>7, <2>1, FileKept DEF RunnerFrame, FramedSession
    <2>2. CASE checkpoint' # None /\ checkpoint'.turn = turn /\ Save
      <3>1. log' = log /\ pending' = pending /\ archived' = archived
        BY <1>5 DEF RunnerFrame, FramedSession
      <3>2. BegunIn(log, place') /\ BegunGone(archived, place')
        BY <1>1, <1>7, BegunStays DEF FileInv
      <3> QED BY <1>1, <1>8, <2>2, <3>1, <3>2, FileSaved DEF FileInv
    <2> QED BY <1>5, <2>1, <2>2 DEF RunnerFrame, FramedSession
  <1>10. StageInv'
    BY <1>5, <1>8 DEF RunnerFrame, FramedSession, StageInv, InRun, Filing
  <1>11. disk'.log = disk.log
    BY <1>1, <1>5, <1>9 DEF FileInv, RunnerFrame, FramedSession
  <1> QED BY <1>5, <1>7, <1>9, <1>10, <1>11 DEF MarksNext, RunnerFrame, FramedSession

LEMMA CloseExhaustedMarks ==
    ASSUME MarksInv, CloseExhausted
    PROVE  MarksNext
  <1>1. TurnTypes /\ FileInv /\ PlaceInv /\ StageInv /\ log \in Log /\ SessionTypeOK
    BY MarksTypes
  <1>2. /\ stage = "closing" /\ stage' \in Filing /\ turn' = turn /\ replied' = replied
        /\ UNCHANGED <<log, checkpoint, pending, disk, archived>>
    BY DEF CloseExhausted, Filing, session
  <1>3. PlaceInv' /\ BegunKept
    <2>1. CASE queue' = queue /\ place' = place
      BY <1>1, <1>2, <2>1, PlaceSame
    <2>2. ASSUME NEW m \in Msg, place[m] = "none", queue' = Append(queue, m),
                 place' = [place EXCEPT ![m] = "queued"]
          PROVE  PlaceInv' /\ BegunKept
      <3>1. /\ place[m] \notin Begun /\ place[m] # "queued" /\ place'[m] = "queued"
            /\ \A k \in Msg : k # m => place'[k] = place[k]
        BY <1>1, <2>2 DEF TurnTypes, Begun
      <3>2. /\ queue \in Queues /\ ~Contains(queue, m) /\ replied \subseteq Msg
            /\ turn \in Msg \cup {None} /\ IsInjective(queue)
        BY <1>1, <3>1 DEF PlaceInv, TurnTypes
      <3>3. IsInjective(queue') /\ \A y : Contains(queue', y) <=> Contains(queue, y) \/ y = m
        BY <2>2, <3>2, AppendQueue DEF Queues
      <3>4. m \notin replied /\ (turn # None => turn # m)
        BY <1>1, <2>2 DEF PlaceInv
      <3>5. PlaceInv'
        BY <1>1, <1>2, <3>1, <3>2, <3>3, <3>4 DEF PlaceInv
      <3> QED BY <3>1, <3>5 DEF BegunKept
    <2> QED BY <2>1, <2>2 DEF CloseExhausted
  <1>4. FileInv'
    BY <1>1, <1>2, <1>3, FileKept
  <1>5. StageInv'
    BY <1>1, <1>2 DEF StageInv, InRun, Filing
  <1> QED BY <1>3, <1>4, <1>5 DEF MarksNext

LEMMA SaveTurnMarks ==
    ASSUME MarksInv, SaveTurn
    PROVE  /\ MarksNext
           /\ log \o work \in Log /\ WellFormed(log \o work, archived)
           /\ \E a, b : /\ Trimmed(log \o work, a, b)
                        /\ b = Len(log \o work) \/ (a <= b /\ (log \o work)[b].kind \notin UserKind)
  <1> DEFINE rows == log \o work
  <1>1. TurnTypes /\ FileInv /\ PlaceInv /\ StageInv /\ log \in Log /\ SessionTypeOK
        /\ archived \in SUBSET RowType
    BY MarksTypes
  <1>2. /\ stage \in Filing /\ turn' = turn /\ replied' = replied /\ queue' = queue
        /\ stage \in {"save", "saveSlice"} /\ stage' = (IF stage = "save" THEN "respond" ELSE "finish")
        /\ EnforceFileCap(rows) /\ pending' = FALSE /\ checkpoint' = None /\ Save
        /\ place' = [m \in Msg |-> IF place[m] = "working" THEN "filed" ELSE place[m]]
    BY DEF SaveTurn, FileRun, Filing
  <1>3. /\ turn \in Msg /\ Opened(log, turn) /\ NoneOf(archived, turn) /\ place[turn] = "turn"
        /\ iteration \in Nat /\ replied \subseteq Msg
    BY <1>1, <1>2, BoundsOK DEF TurnTypes, StageInv, PlaceInv, Filing, Bounds
  <1>4. PlaceInv' /\ BegunKept
    BY <1>1, <1>2, <1>3 DEF PlaceInv, BegunKept, Begun, TurnTypes
  <1>5. /\ work \in Log /\ Transcript(work) /\ RunRows(work, turn, iteration, RowKind)
        /\ stage = "save" => EndsWith(work, {"text"})
    BY <1>1, <1>2 DEF TurnTypes, RunState, Closed, Filing
  <1>6. \A i \in DOMAIN work : work[i].turn = turn /\ work[i].n # 0
    BY <1>3, <1>5 DEF RunRows
  <1>7. BegunIn(log, place') /\ BegunGone(archived, place') /\ place'[turn] \in Begun
    BY <1>1, <1>3, <1>4, BegunStays DEF FileInv, BegunKept, Begun
  <1>8. rows \in Log /\ WellFormed(rows, archived) /\ BegunIn(rows, place')
    <2>1. OpeningOf(archived, turn)
      BY <1>3 DEF NoneOf, OpeningOf
    <2> QED BY <1>1, <1>3, <1>5, <1>6, <1>7, <2>1, RunJoined DEF FileInv
  <1>9. stage = "save" => AnswerIn(rows, turn)
    <2>1. SUFFICES ASSUME stage = "save"
                   PROVE  AnswerIn(rows, turn)
      OBVIOUS
    <2>2. Len(work) \in DOMAIN work /\ work[Len(work)].kind = "text" /\ work[Len(work)].turn = turn
      BY <2>1, <1>5, <1>6, LogFacts DEF EndsWith
    <2>3. \E i \in DOMAIN rows : rows[i] = work[Len(work)]
      BY <1>1, <1>2, <1>5, <2>2, JoinedOrigin
    <2> QED BY <2>2, <2>3 DEF AnswerIn
  <1> HIDE DEF rows
  <1>10. PICK a, b : /\ Trimmed(rows, a, b) /\ Legal(rows, a)
                     /\ b = Len(rows) \/ (a <= b /\ rows[b].kind \notin UserKind)
    BY <1>2, <1>8, Capped DEF WellFormed
  <1>11. /\ WellFormed(log', archived') /\ BegunIn(log', place') /\ BegunGone(archived', place')
         /\ stage = "save" => AnswerIn(log', turn) \/ AnswerGone(archived', turn)
    BY <1>7, <1>8, <1>9, <1>10, KeptWellFormed, KeptFacts
  <1>12. FileInv'
    BY <1>2, <1>11, FileSaved
  <1>13. StageInv'
    BY <1>2, <1>11 DEF StageInv, InRun, Filing
  <1> QED BY <1>4, <1>8, <1>10, <1>12, <1>13 DEF MarksNext, rows

LEMMA RespondMarks ==
    ASSUME MarksInv, Respond
    PROVE  /\ MarksNext /\ disk'.log = disk.log
           /\ replied' = replied \cup {turn} /\ turn \in Msg /\ turn \notin replied
           /\ disk.log = <<>> \/ AnswerIn(disk.log, turn) \/ AnswerGone(archived, turn)
           /\ archived' = archived
  <1>1. TurnTypes /\ FileInv /\ PlaceInv /\ StageInv /\ log \in Log /\ SessionTypeOK
    BY MarksTypes
  <1>2. /\ stage = "respond" /\ replied' = replied \cup {turn} /\ place' = LeftAs("done") /\ EndTurn
        /\ UNCHANGED <<log, checkpoint, pending, disk, archived>>
    BY DEF Respond, session
  <1>3. turn \in Msg /\ turn # None /\ turn \notin replied
    BY <1>1, <1>2 DEF TurnTypes, PlaceInv
  <1>4. "done" \in Begun \ {"turn"}
    BY DEF Begun
  <1>5. PlaceInv' /\ StageInv' /\ BegunKept
    BY <1>1, <1>2, <1>3, <1>4, TurnLeft
  <1>6. FileInv'
    BY <1>1, <1>2, <1>5, FileKept
  <1>7. disk.log = <<>> \/ AnswerIn(disk.log, turn) \/ AnswerGone(archived, turn)
    BY <1>1, <1>2 DEF FileInv, StageInv
  <1> QED BY <1>2, <1>3, <1>5, <1>6, <1>7 DEF MarksNext

LEMMA FinishSliceMarks ==
    ASSUME MarksInv, FinishSlice
    PROVE  MarksNext
  <1>1. TurnTypes /\ FileInv /\ PlaceInv /\ StageInv /\ log \in Log /\ SessionTypeOK
    BY MarksTypes
  <1>2. /\ turn # None /\ replied' = replied /\ place' = LeftAs("handedOver") /\ EndTurn
        /\ UNCHANGED <<log, checkpoint, pending, disk, archived>>
    BY <1>1 DEF FinishSlice, session, TurnTypes
  <1>3. "handedOver" \in Begun \ {"turn"}
    BY DEF Begun
  <1>4. PlaceInv' /\ StageInv' /\ BegunKept
    BY <1>1, <1>2, <1>3, TurnLeft
  <1>5. FileInv'
    BY <1>1, <1>2, <1>4, FileKept
  <1> QED BY <1>4, <1>5 DEF MarksNext

LEMMA FailMarks ==
    ASSUME MarksInv, Fail
    PROVE  MarksNext
  <1>1. TurnTypes /\ FileInv /\ PlaceInv /\ StageInv /\ log \in Log /\ SessionTypeOK
    BY MarksTypes
  <1>2. /\ turn # None /\ replied' = replied /\ place' = LeftAs("failed") /\ EndTurn
        /\ UNCHANGED <<log, checkpoint, pending, disk, archived>>
    BY <1>1 DEF Fail, session, TurnTypes, InRun
  <1>3. "failed" \in Begun \ {"turn"}
    BY DEF Begun
  <1>4. PlaceInv' /\ StageInv' /\ BegunKept
    BY <1>1, <1>2, <1>3, TurnLeft
  <1>5. FileInv'
    BY <1>1, <1>2, <1>4, FileKept
  <1> QED BY <1>4, <1>5 DEF MarksNext

LEMMA StopMarks ==
    ASSUME MarksInv, Stop
    PROVE  /\ MarksNext /\ replied' = replied
           /\ disk'.log = disk.log \/ IsPrefix(disk.log, disk'.log)
           /\ archived' = archived
  <1>1. TurnTypes /\ FileInv /\ PlaceInv /\ StageInv /\ log \in Log /\ SessionTypeOK
    BY MarksTypes
  <1>2. /\ turn # None /\ replied' = replied /\ place' = LeftAs("stopped") /\ EndTurn
        /\ MaterializeCheckpoint \/ UNCHANGED <<log, checkpoint, pending, disk, archived>>
    BY DEF Stop, RestoreCancelled, NothingSaved, session
  <1>3. "stopped" \in Begun \ {"turn"}
    BY DEF Begun
  <1>4. PlaceInv' /\ StageInv' /\ BegunKept
    BY <1>1, <1>2, <1>3, TurnLeft
  <1>5. FileInv' /\ (log' = log \/ IsPrefix(log, log')) /\ archived' = archived
    BY <1>1, <1>2, <1>4, FileKept, FileMaterialized
  <1>6. disk'.log = disk.log \/ IsPrefix(disk.log, disk'.log)
    BY <1>1, <1>5 DEF FileInv
  <1> QED BY <1>2, <1>4, <1>5, <1>6 DEF MarksNext

LEMMA NewInlineMarks ==
    ASSUME MarksInv, NEW m \in Msg, NewInline(m)
    PROVE  MarksNext /\ disk'.log = <<>> /\ archived' = archived
  <1> DEFINE q == LeftAs("stopped")
  <1>1. TurnTypes /\ FileInv /\ PlaceInv /\ StageInv /\ log \in Log /\ SessionTypeOK
        /\ archived \in SUBSET RowType
    BY MarksTypes
  <1>2. /\ turn # None /\ place[m] \in {"unsent", "bus"} /\ replied' = replied
        /\ log' = <<>> /\ checkpoint' = None /\ Save /\ EndTurn
        /\ archived' = archived
        /\ place' = Forgotten([q EXCEPT ![m] = "done"])
    BY DEF NewInline, Arrived
  <1>3. "stopped" \in Begun \ {"turn"} /\ replied \subseteq Msg
    BY <1>1 DEF Begun, TurnTypes
  <1>4. /\ \A k \in Msg : q[k] \notin {"queued", "turn"}
        /\ \A k \in replied : q[k] = "done"
        /\ \A k \in Msg : place[k] \in Begun => q[k] \in Begun
        /\ q \in [Msg -> Place]
    BY <1>1, <1>2, <1>3, Left2
  <1> HIDE DEF q
  <1>5. place' = [k \in Msg |-> IF [q EXCEPT ![m] = "done"][k] = "filed" THEN "forgotten"
                              ELSE [q EXCEPT ![m] = "done"][k]]
    BY <1>2 DEF Forgotten
  <1>6. \A k \in Msg : place'[k] = IF k = m THEN "done"
                                  ELSE IF q[k] = "filed" THEN "forgotten" ELSE q[k]
    BY <1>4, <1>5
  <1>7. /\ \A k \in Msg : place'[k] \notin {"queued", "turn"}
        /\ \A k \in replied' : place'[k] = "done"
    BY <1>2, <1>3, <1>4, <1>6
  <1>8. PlaceInv'
    BY <1>2, <1>3, <1>7, PlaceEnded
  <1>9. FileInv'
    <2>1. BegunKept
      BY <1>2, <1>4, <1>6 DEF BegunKept, Begun
    <2>2. BegunGone(archived, place')
      BY <1>1, <2>1, BegunStays DEF FileInv
    <2> QED BY <1>2, <2>2, NoLog, FileSaved
  <1>10. StageInv'
    BY <1>2, StageIdle DEF EndTurn
  <1> QED BY <1>2, <1>8, <1>9, <1>10 DEF MarksNext, Save

LEMMA CrashMarks ==
    ASSUME MarksInv, Crash
    PROVE  MarksNext
  <1>1. TurnTypes /\ FileInv /\ PlaceInv /\ StageInv /\ log \in Log /\ SessionTypeOK
        /\ archived \in SUBSET RowType
    BY MarksTypes
  <1>2. /\ replied' = replied /\ EndTurn
        /\ log' = disk.log /\ checkpoint' = disk.checkpoint /\ pending' = disk.pending /\ disk' = disk
        /\ archived' = archived
        /\ place' = [k \in Msg |-> IF place[k] \in {"bus", "queued", "turn"} THEN "lost"
                                 ELSE IF place[k] = "working" THEN "cut" ELSE place[k]]
    BY DEF Crash, Reload
  <1>3. replied \subseteq Msg
    BY <1>1 DEF TurnTypes
  <1>4. BegunKept
    BY <1>2 DEF BegunKept, Begun
  <1>5. /\ \A k \in Msg : place'[k] \notin {"queued", "turn"}
        /\ \A k \in replied' : place'[k] = "done"
    BY <1>1, <1>2, <1>3 DEF PlaceInv
  <1>6. PlaceInv'
    BY <1>2, <1>3, <1>5, PlaceEnded
  <1>7. /\ log' = log /\ checkpoint' = checkpoint
    BY <1>1, <1>2 DEF FileInv
  <1>8. BegunIn(log', place') /\ BegunGone(archived, place')
    BY <1>1, <1>4, <1>7, BegunStays DEF FileInv
  <1>9. checkpoint' # None =>
           /\ place'[checkpoint'.turn] \in Begun
           /\ Opened(log', checkpoint'.turn) /\ OpeningOf(archived, checkpoint'.turn)
    <2>1. checkpoint # None => checkpoint.turn \in Msg
      BY <1>1 DEF SessionTypeOK, CheckpointType
    <2> QED BY <1>1, <1>4, <1>7, <2>1 DEF FileInv, BegunKept
  <1>10. FileInv'
    BY <1>1, <1>2, <1>7, <1>8, <1>9 DEF FileInv
  <1>11. StageInv'
    BY <1>2, StageIdle DEF EndTurn
  <1> QED BY <1>6, <1>10, <1>11 DEF MarksNext

LEMMA IdleMarks ==
    ASSUME MarksInv, Idle
    PROVE  MarksNext /\ \E a : Trimmed(log, a, Len(log))
  <1>1. TurnTypes /\ FileInv /\ PlaceInv /\ StageInv /\ log \in Log /\ SessionTypeOK
        /\ disk.log = log /\ WellFormed(log, archived) /\ archived \in SUBSET RowType
    BY MarksTypes DEF FileInv
  <1>2. /\ UNCHANGED <<stage, turn, queue, place, replied>> /\ turn = None
        /\ CompactIdle /\ Save /\ checkpoint' = disk.checkpoint /\ pending' = disk.pending
    BY DEF Idle, CompactIdle, runner
  <1>3. PICK a : /\ Trimmed(log, a, Len(log)) /\ Legal(log, a)
                 /\ EndsWith(log, UserKind) => a <= Len(log)
    BY <1>1, <1>2, Compacted DEF WellFormed
  <1>4. /\ WellFormed(log', archived')
        /\ BegunIn(log', place) /\ BegunGone(archived', place)
    BY <1>1, <1>3, KeptWellFormed, KeptFacts DEF FileInv
  <1>5. checkpoint' # None =>
           /\ place[checkpoint'.turn] \in Begun
           /\ Opened(log', checkpoint'.turn) /\ OpeningOf(archived', checkpoint'.turn)
    BY <1>1, <1>2, <1>3, KeptFacts DEF FileInv
  <1>6. pending' => OpenAtEnd(log', archived')
    <2> SUFFICES ASSUME pending', EndsWith(log', UserKind)
                 PROVE  OpenAtEnd(log', archived')
      BY DEF OpenAtEnd, AloneAtEnd
    <2> DEFINE n == Len(log)
               m == Len(log')
    <2>1. /\ m = n - a + 1 /\ a \in Nat /\ n \in Nat /\ m \in Nat
          /\ DOMAIN log = 1 .. n /\ DOMAIN log' = 1 .. m /\ m > 0
          /\ \A i \in 1 .. m : a + i - 1 \in 1 .. n /\ log'[i] = log[a + i - 1]
          /\ \A r \in archived' : r \in archived \/ \E k \in (1 .. n) \ (a .. n) : r = log[k]
      <3>1. log' \in Log
        BY <1>1, <1>3, Kept
      <3>2. /\ DOMAIN log = 1 .. n /\ DOMAIN log' = 1 .. m /\ n \in Nat /\ m \in Nat /\ m > 0
        BY <1>1, <3>1, LogFacts DEF EndsWith
      <3>3. /\ m = n - a + 1 /\ a \in Nat
            /\ \A i \in 1 .. m : a + i - 1 \in 1 .. n /\ log'[i] = log[a + i - 1]
        BY <1>1, <1>3, Kept
      <3>4. \A r \in archived' : r \in archived \/ \E k \in DOMAIN log \ (a .. n) : r = log[k]
        BY <1>1, <1>3, Kept
      <3> QED BY <3>2, <3>3, <3>4
    <2> HIDE DEF n, m
    <2>2. a + m - 1 = n /\ m \in 1 .. m /\ n \in a .. n
      BY <2>1
    <2>3. log'[m] = log[n]
      BY <2>1, <2>2
    <2>4. EndsWith(log, UserKind)
      BY <1>1, <2>1, <2>2, <2>3, LogFacts DEF EndsWith, n, m
    <2>5. /\ \A i \in 1 .. n : log[i].turn = log[n].turn => i = n
          /\ NoneOf(archived, log[n].turn)
      BY <1>1, <1>2, <2>1, <2>4 DEF FileInv, OpenAtEnd, AloneAtEnd, n
    <2>6. \A i \in 1 .. m : log'[i].turn = log'[m].turn => i = m
      <3> SUFFICES ASSUME NEW i \in 1 .. m, log'[i].turn = log'[m].turn
                   PROVE  i = m
        OBVIOUS
      <3>1. a + i - 1 = n
        BY <2>1, <2>3, <2>5
      <3> QED BY <2>1, <2>2, <3>1
    <2>7. NoneOf(archived', log'[m].turn)
      <3> SUFFICES ASSUME NEW r \in archived'
                   PROVE  r.turn # log[n].turn
        BY <2>3 DEF NoneOf
      <3>1. CASE r \in archived
        BY <2>5, <3>1 DEF NoneOf
      <3>2. ASSUME NEW k \in (1 .. n) \ (a .. n), r = log[k]
            PROVE  r.turn # log[n].turn
        BY <2>2, <2>5, <3>2
      <3> QED BY <2>1, <3>1, <3>2
    <2> QED BY <2>1, <2>6, <2>7 DEF OpenAtEnd, AloneAtEnd, m
  <1>7. FileInv'
    BY <1>2, <1>4, <1>5, <1>6, FileSaved
  <1>8. PlaceInv' /\ StageInv'
    <2>1. stage' = "idle"
      BY <1>1, <1>2 DEF TurnTypes
    <2> QED BY <1>1, <1>2, <2>1, StageIdle DEF PlaceInv
  <1> QED BY <1>3, <1>7, <1>8 DEF MarksNext

LEMMA MarksInit ==
    ASSUME Init
    PROVE  MarksInv
  <1>1. FileInv
    BY NoLog DEF Init, InitSession, FileInv, BegunGone
  <1>2. PlaceInv
    BY EmptyQueue DEF Init, PlaceInv
  <1>3. StageInv
    BY DEF Init, StageInv, InRun, Filing
  <1> QED BY <1>1, <1>2, <1>3, RunInvInit DEF MarksInv

LEMMA MarksKept ==
    ASSUME MarksInv, UNCHANGED vars
    PROVE  MarksNext
  BY DEF MarksInv, MarksNext, FileInv, PlaceInv, StageInv, vars, session, runner

LEMMA MarksStep ==
    ASSUME MarksInv, [Next]_vars
    PROVE  MarksInv'
  <1>1. MarksNext
    BY BeginMarks, RouteMarks, RestoreMarks, ShortcutMarks, NewShortcutMarks, BuildMarks, RunMarks,
       CloseExhaustedMarks, SaveTurnMarks, RespondMarks, FinishSliceMarks, StopMarks, NewInlineMarks,
       FailMarks, CrashMarks, IdleMarks, MarksKept
       DEF Next, TurnStep, Pickup
  <1>2. RunInv'
    BY RunInvStep DEF MarksInv
  <1> QED BY <1>1, <1>2 DEF MarksNext, MarksInv

LEMMA MarksAlways == Spec => []MarksInv
  BY MarksInit, MarksStep, PTL DEF Spec

\* What a crash finds on disk is what is in memory, and a checkpoint is of the
\* turn that runs or was cut short, and not in the history yet: whatever the
\* messages, the bounds and the order of stops, failures and crashes.
THEOREM MarksStayFresh == Spec => []MarksFresh
  <1>1. MarksInv => MarksFresh
    <2>1. SUFFICES ASSUME MarksInv
                   PROVE  MarksFresh
      OBVIOUS
    <2> QED BY <2>1 DEF MarksInv, FileInv, StageInv, MarksFresh, Opened, OpeningOf, InRun, Filing, ToSet
  <1> QED BY <1>1, MarksAlways, PTL

-----------------------------------------------------------------------------
(* The promises of Conversation *)

LEMMA SameWellFormed ==
    ASSUME NEW rows, NEW gone
    PROVE  WellFormed(rows, gone) => Conv!WellFormed(rows, gone)
  BY DEF WellFormed, NoRowTwice, NoneGone, CallsAnswered, ResultsCalled, Answers, SameRow,
         Conv!WellFormed, Conv!NoRowTwice, Conv!NoneGone, Conv!CallsAnswered, Conv!ResultsCalled,
         Conv!Answers, Conv!SameRow

LEMMA PrefixOf ==
    ASSUME NEW p \in Log, NEW q \in Log, IsPrefix(p, q)
    PROVE  Len(p) <= Len(q) /\ \A i \in 1 .. Len(p) : q[i] = p[i]
  <1>1. /\ Len(p) \in Nat /\ Len(p) <= Len(q) /\ Len(q) \in Nat
        /\ SubSeq(p, 1, Len(p)) = SubSeq(q, 1, Len(p))
    BY LogFacts DEF IsPrefix
  <1>2. SubSeq(p, 1, Len(p)) = p
    BY SubSeqFull DEF Log
  <1>3. \A i \in 1 .. Len(p) - 1 + 1 : 1 + i - 1 \in 1 .. Len(q) /\ SubSeq(q, 1, Len(p))[i] = q[1 + i - 1]
    BY <1>1, SubRows
  <1>4. \A i \in 1 .. Len(p) : p[i] = q[i]
    BY <1>1, <1>2, <1>3
  <1> QED BY <1>1, <1>4

\* The file goes on with a stretch of rows that begin with those it had.
LEMMA GoesOn ==
    ASSUME NEW old \in Log, NEW rows \in Log, Len(old) <= Len(rows),
           \A i \in 1 .. Len(old) : rows[i] = old[i],
           NEW a, NEW b, Trimmed(rows, a, b)
    PROVE  /\ \E i \in 1 .. Len(old) + 1 :
                 /\ \/ IsPrefix(SubSeq(old, i, Len(old)), log')
                    \/ IsPrefix(log', SubSeq(old, i, Len(old)))
                 /\ \A j \in 1 .. i - 1 : old[j] \in archived'
           /\ \A j \in DOMAIN old : old[j] \in ToSet(log') \cup archived'
           /\ archived \subseteq archived'
  <1> DEFINE n == Len(old)
             l == Len(log')
  <1>1. n \in Nat /\ DOMAIN old = 1 .. n /\ Len(rows) \in Nat /\ DOMAIN rows = 1 .. Len(rows)
    BY LogFacts
  <1>2. /\ log' \in Log /\ l = b - a + 1 /\ a \in Nat /\ b \in Nat
        /\ \A i \in 1 .. l : a + i - 1 \in 1 .. Len(rows) /\ log'[i] = rows[a + i - 1]
    BY Kept
  <1>3. /\ \A k \in DOMAIN rows : k \notin a .. b => rows[k] \in archived'
        /\ \A k \in DOMAIN rows : (\E i \in DOMAIN log' : log'[i] = rows[k]) \/ rows[k] \in archived'
        /\ archived \subseteq archived'
    BY Kept
  <1>4. /\ a \in 1 .. Len(rows) + 1 /\ b \in 0 .. Len(rows) /\ a <= b + 1 /\ l \in Nat
    BY <1>2, LogFacts DEF Trimmed
  <1> HIDE DEF n, l
  <1>5. \A j \in DOMAIN old : old[j] \in ToSet(log') \cup archived'
    <2> SUFFICES ASSUME NEW j \in 1 .. n
                 PROVE  old[j] \in ToSet(log') \cup archived'
      BY <1>1
    <2>1. j \in DOMAIN rows /\ rows[j] = old[j]
      BY <1>1 DEF n
    <2> QED BY <2>1, <1>3 DEF ToSet
  <1>6. CASE a <= n
    <2> DEFINE kept == SubSeq(old, a, n)
    <2>1. a \in 1 .. n + 1 /\ n \in 0 .. n /\ a <= n + 1
      BY <1>1, <1>4, <1>6
    <2>2. /\ kept \in Log /\ Len(kept) = n - a + 1
          /\ \A i \in 1 .. n - a + 1 : a + i - 1 \in 1 .. n /\ kept[i] = old[a + i - 1]
      BY <2>1, SubRows DEF n
    <2> HIDE DEF kept
    <2>3. /\ Len(kept) \in Nat
          /\ \A i \in 1 .. Len(kept) : a + i - 1 \in 1 .. n /\ kept[i] = old[a + i - 1]
          /\ \A i \in 1 .. n : rows[i] = old[i]
      BY <1>1, <2>1, <2>2 DEF n
    <2>4. ASSUME NEW i \in 1 .. l, i \in 1 .. Len(kept)
          PROVE  log'[i] = kept[i]
      BY <1>2, <2>3, <2>4
    <2>5. CASE Len(kept) <= l
      <3>1. \A i \in 1 .. Len(kept) : kept[i] = log'[i]
        BY <1>4, <2>3, <2>4, <2>5
      <3>2. IsPrefix(kept, log')
        BY <1>2, <2>2, <2>5, <3>1, PrefixRows DEF l
      <3>3. \A j \in 1 .. a - 1 : old[j] \in archived'
        BY <1>1, <1>3, <1>6, <1>2, <2>3
      <3> QED BY <1>3, <1>5, <2>1, <3>2, <3>3 DEF kept, n
    <2>6. CASE l <= Len(kept)
      <3>1. \A i \in 1 .. l : log'[i] = kept[i]
        BY <1>4, <2>3, <2>4, <2>6
      <3>2. IsPrefix(log', kept)
        BY <1>2, <2>2, <2>6, <3>1, PrefixRows DEF l
      <3>3. \A j \in 1 .. a - 1 : old[j] \in archived'
        BY <1>1, <1>3, <1>6, <1>2, <2>3
      <3> QED BY <1>3, <1>5, <2>1, <3>2, <3>3 DEF kept, n
    <2> QED BY <1>4, <2>3, <2>5, <2>6
  <1>7. CASE a > n
    <2>1. SubSeq(old, n + 1, n) = <<>> /\ <<>> \in Log /\ Len(<<>>) = 0
      <3>1. n + 1 \in 1 .. n + 1 /\ n \in 0 .. n
        BY <1>1
      <3>2. SubSeq(old, n + 1, n) \in Log /\ Len(SubSeq(old, n + 1, n)) = n - (n + 1) + 1
        BY <3>1, SubRows DEF n
      <3>3. n - (n + 1) + 1 = 0
        BY <1>1
      <3> QED BY <3>2, <3>3, LogFacts, EmptySeq DEF Log
    <2>2. IsPrefix(SubSeq(old, n + 1, n), log')
      <3> DEFINE none == SubSeq(old, n + 1, n)
      <3>1. none \in Log /\ Len(none) = 0
        BY <2>1
      <3> HIDE DEF none
      <3>2. Len(none) <= Len(log') /\ \A i \in 1 .. Len(none) : none[i] = log'[i]
        BY <1>4, <3>1 DEF l
      <3>3. IsPrefix(none, log')
        BY <1>2, <3>1, <3>2, PrefixRows
      <3> QED BY <3>3 DEF none
    <2>3. \A j \in 1 .. (n + 1) - 1 : old[j] \in archived'
      <3> SUFFICES ASSUME NEW j \in 1 .. n
                   PROVE  old[j] \in archived'
        BY <1>1
      <3>1. j \in DOMAIN rows /\ rows[j] = old[j] /\ j \notin a .. b
        BY <1>1, <1>2, <1>7 DEF n
      <3> QED BY <1>3, <3>1
    <2>4. n + 1 \in 1 .. n + 1
      BY <1>1
    <2> QED BY <1>3, <1>5, <2>2, <2>3, <2>4 DEF n
  <1> QED BY <1>1, <1>2, <1>6, <1>7

LEMMA Extended ==
    ASSUME FileInv, FileInv', log \in Log, replied' = replied,
           NEW rows \in Log, Len(log) <= Len(rows), \A i \in 1 .. Len(log) : rows[i] = log[i],
           NEW a, NEW b, Trimmed(rows, a, b)
    PROVE  Conv!Extend
  <1>1. disk.log = log /\ disk'.log = log' /\ Conv!WellFormed(disk'.log, archived')
    BY SameWellFormed DEF FileInv
  <1>2. PICK i \in 1 .. Len(log) + 1 :
           /\ IsPrefix(SubSeq(log, i, Len(log)), log') \/ IsPrefix(log', SubSeq(log, i, Len(log)))
           /\ \A j \in 1 .. i - 1 : log[j] \in archived'
    BY GoesOn
  <1>3. /\ \A j \in DOMAIN log : log[j] \in ToSet(log') \cup archived'
        /\ archived \subseteq archived'
    BY GoesOn
  <1>4. Conv!GoesOnFrom(i)
    BY <1>1, <1>2 DEF Conv!GoesOnFrom, Conv!IsPrefix, IsPrefix
  <1> QED BY <1>1, <1>2, <1>3, <1>4 DEF Conv!Extend, Conv!ToSet, ToSet

\* Rows that only join the file.
LEMMA ExtendedOnly ==
    ASSUME FileInv, FileInv', log \in Log, log' \in Log, replied' = replied, archived' = archived,
           IsPrefix(log, log')
    PROVE  Conv!Extend
  <1>1. Len(log) <= Len(log') /\ \A i \in 1 .. Len(log) : log'[i] = log[i]
    BY PrefixOf
  <1>2. Trimmed(log', 1, Len(log'))
    BY Untouched
  <1> QED BY <1>1, <1>2, Extended

LEMMA Replied ==
    ASSUME MarksInv, Respond
    PROVE  \E m \in Msg : Conv!Reply(m)
  <1>1. /\ disk'.log = disk.log /\ replied' = replied \cup {turn} /\ turn \in Msg /\ turn \notin replied
        /\ disk.log = <<>> \/ AnswerIn(disk.log, turn) \/ AnswerGone(archived, turn)
        /\ archived' = archived
    BY RespondMarks
  <1>2. disk.log = <<>> \/ Conv!Answered(turn)
    BY <1>1 DEF Conv!Answered, Conv!ToSet, AnswerIn, AnswerGone
  <1>3. Conv!Reply(turn)
    BY <1>1, <1>2 DEF Conv!Reply
  <1> QED BY <1>1, <1>3

LEMMA PromiseKept ==
    ASSUME MarksInv, MarksInv', [Next]_vars
    PROVE  [Conv!Next]_<<disk.log, archived, replied>>
  <1> DEFINE Grown == (disk'.log = disk.log \/ IsPrefix(disk.log, disk'.log)) /\ archived' = archived
  <1>0. FileInv /\ FileInv' /\ log \in Log /\ log' \in Log /\ disk.log = log /\ disk'.log = log'
    BY DEF MarksInv, RunInv, TypeOK, SessionTypeOK, FileInv, Log
  <1>1. ASSUME Grown, replied' = replied
        PROVE  [Conv!Next]_<<disk.log, archived, replied>>
    BY <1>0, <1>1, ExtendedOnly DEF Conv!Next
  <1>2. ASSUME disk'.log = <<>>, replied' = replied, archived' = archived
        PROVE  [Conv!Next]_<<disk.log, archived, replied>>
    BY <1>2 DEF Conv!Next, Conv!Forget
  <1>3. CASE UNCHANGED vars
    BY <1>1, <1>3 DEF vars, session
  <1>4. ASSUME NEW m \in Msg, Begin(m)
        PROVE  [Conv!Next]_<<disk.log, archived, replied>>
    BY <1>1, <1>4 DEF Begin, session
  <1>5. ASSUME NEW m \in Msg, Route(m)
        PROVE  [Conv!Next]_<<disk.log, archived, replied>>
    BY <1>1, <1>5 DEF Route, session
  <1>6. ASSUME NEW m \in Msg, NewInline(m)
        PROVE  [Conv!Next]_<<disk.log, archived, replied>>
    BY <1>2, <1>6, NewInlineMarks DEF NewInline
  <1>7. CASE Restore
    BY <1>1, <1>7, RestoreMarks DEF Restore
  <1>8. CASE Shortcut
    BY <1>1, <1>8, ShortcutMarks DEF Shortcut
  <1>9. CASE NewShortcut
    BY <1>2, <1>9, NewShortcutMarks DEF NewShortcut
  <1>10. CASE Build
    BY <1>1, <1>10, BuildMarks DEF Build
  <1>11. CASE Run
    BY <1>1, <1>11, RunMarks DEF Run
  <1>12. CASE CloseExhausted
    BY <1>1, <1>12 DEF CloseExhausted, session
  <1>13. CASE SaveTurn
    <2>1. log \o work \in Log /\ \E a, b : Trimmed(log \o work, a, b)
      BY <1>13, SaveTurnMarks
    <2>2. work \in Log
      BY InTurnTypes DEF MarksInv, TurnTypes
    <2>3. Len(log) <= Len(log \o work) /\ \A i \in 1 .. Len(log) : (log \o work)[i] = log[i]
      BY <1>0, <2>2, JoinRows, LogFacts
    <2>4. replied' = replied
      BY <1>13 DEF SaveTurn
    <2> QED BY <1>0, <2>1, <2>3, <2>4, Extended DEF Conv!Next
  <1>14. CASE Respond
    BY <1>14, Replied DEF Conv!Next
  <1>15. CASE FinishSlice
    BY <1>1, <1>15 DEF FinishSlice, session
  <1>16. CASE Stop
    BY <1>1, <1>16, StopMarks
  <1>17. CASE Fail
    BY <1>1, <1>17 DEF Fail, session
  <1>18. CASE Crash
    BY <1>1, <1>18 DEF Crash, Reload
  <1>19. CASE Idle
    <2>1. \E a : Trimmed(log, a, Len(log))
      BY <1>19, IdleMarks
    <2>2. Len(log) <= Len(log) /\ replied' = replied
      BY <1>0, <1>19, LogFacts DEF Idle
    <2> QED BY <1>0, <2>1, <2>2, Extended DEF Conv!Next
  <1> QED BY <1>3, <1>4, <1>5, <1>6, <1>7, <1>8, <1>9, <1>10, <1>11, <1>12, <1>13, <1>14, <1>15,
             <1>16, <1>17, <1>18, <1>19 DEF Next, TurnStep, Pickup

\* The turns implement Conversation: through stops, exceptions, crashes and
\* restarts the file goes on, in order, as a transcript a provider accepts; a row
\* leaves it for the archive, or by a /new; and one of the two has the answer to a
\* turn before the answer is sent, once.
THEOREM PromisesKept == Spec => ImplementsConversation
  <1>1. Init => Conv!Init
    BY DEF Init, InitSession, Conv!Init
  <1>2. MarksInv /\ MarksInv' /\ [Next]_vars => [Conv!Next]_<<disk.log, archived, replied>>
    BY PromiseKept
  <1> QED BY <1>1, <1>2, MarksAlways, PTL DEF Spec, ImplementsConversation, Conv!Spec

-----------------------------------------------------------------------------
(* Who is heard where *)

Hears(rows, m) == \E i \in DOMAIN rows : m \in rows[i].said

Once(rows) ==
    \A m \in Msg : \A i, j \in DOMAIN rows : m \in rows[i].said /\ m \in rows[j].said => i = j

Told(gone, m) == \E r \in gone : m \in r.said

SaidInv ==
    /\ Once(log) /\ Once(work)
    /\ \A m \in Msg : Hears(work, m) <=> place[m] = "working"
    /\ \A m \in Msg : place[m] = "filed" => Hears(log, m) \/ Told(archived, m)
    /\ \A m \in Msg : Hears(log, m) => place[m] \in Begun \cup {"filed"}
    /\ \A m \in Msg : Told(archived, m) =>
                         ~Hears(log, m) /\ place[m] \in Begun \cup {"filed", "forgotten"}
    /\ stage \in {"restore", "command"} => ~Hears(log, turn) /\ ~Told(archived, turn)

\* Rows that hear the same messages, and each as often.
Quiet(a, b) == (Once(a) => Once(b)) /\ \A m \in Msg : Hears(b, m) <=> Hears(a, m)

LEMMA NobodyHeard ==
    Once(<<>>) /\ \A m : ~Hears(<<>>, m)
  <1>1. DOMAIN <<>> = {}
    OBVIOUS
  <1> QED BY <1>1 DEF Once, Hears

LEMMA HeardAppended ==
    ASSUME NEW rows \in Log, NEW r \in RowType
    PROVE  /\ \A m : Hears(Append(rows, r), m) <=> Hears(rows, m) \/ m \in r.said
           /\ Once(rows) /\ (\A m \in r.said : ~Hears(rows, m)) => Once(Append(rows, r))
           /\ r.said = {} => Quiet(rows, Append(rows, r))
  <1> DEFINE s == Append(rows, r)
  <1>1. /\ DOMAIN rows \subseteq DOMAIN s /\ \A i \in DOMAIN rows : s[i] = rows[i]
        /\ \A i \in DOMAIN s : \/ i \in DOMAIN rows /\ s[i] = rows[i]
                               \/ i = Len(rows) + 1 /\ s[i] = r
        /\ Len(rows) + 1 \in DOMAIN s /\ s[Len(rows) + 1] = r
    BY AppendedOrigin
  <1> HIDE DEF s
  <1>2. \A m : Hears(s, m) <=> Hears(rows, m) \/ m \in r.said
    BY <1>1 DEF Hears
  <1>3. Once(rows) /\ (\A m \in r.said : ~Hears(rows, m)) => Once(s)
    <2>1. SUFFICES ASSUME Once(rows), \A m \in r.said : ~Hears(rows, m),
                          NEW m \in Msg, NEW i \in DOMAIN s, NEW j \in DOMAIN s,
                          m \in s[i].said, m \in s[j].said
                   PROVE  i = j
      BY DEF Once
    <2>2. CASE i \in DOMAIN rows /\ s[i] = rows[i]
      <3>1. Hears(rows, m)
        BY <2>1, <2>2 DEF Hears
      <3>2. j \in DOMAIN rows /\ s[j] = rows[j]
        BY <1>1, <2>1, <3>1
      <3> QED BY <2>1, <2>2, <3>2 DEF Once
    <2>3. CASE i = Len(rows) + 1 /\ s[i] = r
      <3>1. ~Hears(rows, m)
        BY <2>1, <2>3
      <3>2. j = Len(rows) + 1
        BY <1>1, <2>1, <3>1 DEF Hears
      <3> QED BY <2>3, <3>2
    <2> QED BY <1>1, <2>2, <2>3
  <1> QED BY <1>2, <1>3 DEF s, Quiet

LEMMA HeardJoined ==
    ASSUME NEW a \in Log, NEW b \in Log
    PROVE  /\ \A m : Hears(a \o b, m) <=> Hears(a, m) \/ Hears(b, m)
           /\ Once(a) /\ Once(b) /\ (\A m \in Msg : ~(Hears(a, m) /\ Hears(b, m))) => Once(a \o b)
  <1> DEFINE s == a \o b
             n == Len(a)
             k == Len(b)
  <1>1. /\ n \in Nat /\ k \in Nat /\ DOMAIN a = 1 .. n /\ DOMAIN b = 1 .. k /\ DOMAIN s = 1 .. n + k
        /\ \A i \in 1 .. n : s[i] = a[i]
        /\ \A i \in 1 .. k : s[n + i] = b[i]
        /\ \A i \in 1 .. n + k : i \in 1 .. n \/ i - n \in 1 .. k
    BY LogFacts, JoinRows
  <1>2. /\ DOMAIN a \subseteq DOMAIN s /\ \A i \in DOMAIN a : s[i] = a[i]
        /\ \A j \in DOMAIN b : \E i \in DOMAIN s : s[i] = b[j]
        /\ \A i \in DOMAIN s : \/ i \in DOMAIN a /\ s[i] = a[i]
                               \/ \E j \in DOMAIN b : s[i] = b[j]
    BY JoinedOrigin
  <1> HIDE DEF s, n, k
  <1>3. \A m : Hears(s, m) <=> Hears(a, m) \/ Hears(b, m)
    BY <1>2 DEF Hears
  <1>4. \A i \in 1 .. n + k : \/ i \in 1 .. n /\ s[i] = a[i]
                              \/ i - n \in 1 .. k /\ s[i] = b[i - n]
    <2> TAKE i \in 1 .. n + k
    <2>1. CASE i <= n
      <3>1. i \in 1 .. n
        BY <2>1, <1>1
      <3>2. s[i] = a[i]
        BY <3>1, <1>1
      <3> QED BY <3>1, <3>2
    <2>2. CASE i > n
      <3>1. i - n \in 1 .. k /\ n + (i - n) = i
        BY <2>2, <1>1
      <3>2. s[n + (i - n)] = b[i - n]
        BY <3>1, <1>1
      <3> QED BY <3>1, <3>2
    <2> QED BY <2>1, <2>2, <1>1
  <1>5. ASSUME Once(a), Once(b), \A m \in Msg : ~(Hears(a, m) /\ Hears(b, m))
        PROVE  Once(s)
    <2>1. SUFFICES ASSUME NEW m \in Msg, NEW i \in 1 .. n + k, NEW j \in 1 .. n + k,
                          m \in s[i].said, m \in s[j].said
                   PROVE  i = j
      BY <1>1 DEF Once
    <2>2. CASE Hears(a, m)
      <3>1. ~Hears(b, m)
        BY <1>5, <2>2
      <3>2. /\ i \in DOMAIN a /\ j \in DOMAIN a /\ m \in a[i].said /\ m \in a[j].said
        BY <1>1, <1>4, <2>1, <3>1 DEF Hears
      <3> QED BY <1>5, <3>2 DEF Once
    <2>3. CASE ~Hears(a, m)
      <3>1. /\ i - n \in DOMAIN b /\ j - n \in DOMAIN b /\ m \in b[i - n].said /\ m \in b[j - n].said
        BY <1>1, <1>4, <2>1, <2>3 DEF Hears
      <3>2. i - n = j - n
        BY <1>5, <3>1 DEF Once
      <3> QED BY <1>1, <3>2
    <2> QED BY <2>2, <2>3
  <1> QED BY <1>3, <1>5 DEF s

\* The last row says more.
LEMMA HeardMore ==
    ASSUME NEW rows \in Log, rows # <<>>, NEW said \in SUBSET Msg
    PROVE  /\ LastSays(rows, said) \in Log
           /\ \A m : Hears(LastSays(rows, said), m) <=> Hears(rows, m) \/ m \in said
           /\ Once(rows) /\ (\A m \in said : ~Hears(rows, m)) => Once(LastSays(rows, said))
  <1> DEFINE n == Len(rows)
             q == rows[n]
             r == [q EXCEPT !.said = @ \cup said]
             s == [rows EXCEPT ![n] = r]
  <1>1. n \in Nat \ {0} /\ DOMAIN rows = 1 .. n /\ q \in RowType
    BY LogFacts
  <1>2. r \in RowType /\ r.said = q.said \cup said
    <2> HIDE DEF q
    <2> QED BY <1>1 DEF RowType
  <1> HIDE DEF r
  <1>3. /\ s \in Log /\ Len(s) = n /\ DOMAIN s = 1 .. n /\ s[n] = r
        /\ \A i \in 1 .. n - 1 : s[i] = rows[i]
    BY <1>1, <1>2, ReplaceLast, LogFacts
  <1>4. LastSays(rows, said) = s
    BY DEF r, LastSays
  <1> HIDE DEF s
  <1>5. /\ n \in DOMAIN s /\ s[n].said = rows[n].said \cup said
        /\ \A i \in DOMAIN rows : i # n => s[i].said = rows[i].said
    <2>1. \A i \in 1 .. n : i # n => i \in 1 .. n - 1
      <3> SUFFICES ASSUME NEW i \in 1 .. n, i # n
                   PROVE  i \in 1 .. n - 1
        OBVIOUS
      <3>1. n \in Nat /\ i \in 1 .. n /\ i # n
        BY <1>1
      <3> HIDE DEF n
      <3> QED BY ONLY <3>1
    <2>2. n \in DOMAIN s /\ s[n].said = rows[n].said \cup said
      BY <1>1, <1>2, <1>3
    <2> HIDE DEF n, q
    <2>3. \A i \in DOMAIN rows : i # n => s[i].said = rows[i].said
      BY <1>1, <1>3, <2>1
    <2> QED BY <2>2, <2>3
  <1> HIDE DEF n, q
  <1>6. \A m : Hears(s, m) <=> Hears(rows, m) \/ m \in said
    <2>1. n \in DOMAIN rows /\ DOMAIN s = DOMAIN rows
      BY <1>1, <1>3
    <2> QED BY <1>5, <2>1 DEF Hears
  <1>7. ASSUME Once(rows), \A m \in said : ~Hears(rows, m)
        PROVE  Once(s)
    <2>1. SUFFICES ASSUME NEW m \in Msg, NEW i \in DOMAIN rows, NEW j \in DOMAIN rows,
                          m \in s[i].said, m \in s[j].said
                   PROVE  i = j
      BY <1>1, <1>3 DEF Once
    <2>2. CASE m \in said
      <3>1. m \notin rows[i].said /\ m \notin rows[j].said
        BY <1>7, <2>2 DEF Hears
      <3> QED BY <1>5, <2>1, <3>1
    <2>3. CASE m \notin said
      <3>1. m \in rows[i].said /\ m \in rows[j].said
        BY <1>5, <2>1, <2>3
      <3> QED BY <1>7, <3>1 DEF Once
    <2> QED BY <2>2, <2>3
  <1> QED BY <1>3, <1>4, <1>6, <1>7

LEMMA HeardFollowUps ==
    ASSUME NEW rows \in Log, rows # <<>>, NEW t \in Msg, NEW N \in Nat, NEW said \in SUBSET Msg
    PROVE  /\ \A m : Hears(FollowUps(rows, t, N, said), m) <=> Hears(rows, m) \/ m \in said
           /\ Once(rows) /\ (\A m \in said : ~Hears(rows, m)) => Once(FollowUps(rows, t, N, said))
  <1>1. CASE EndsWith(rows, UserKind)
    BY <1>1, HeardMore DEF FollowUps
  <1>2. CASE ~EndsWith(rows, UserKind)
    <2> DEFINE r == Row("inject", t, N + 1, said)
    <2>1. r \in RowType /\ r.said = said
      BY DEF Row, RowType, RowKind, UserKind
    <2> HIDE DEF r
    <2>2. FollowUps(rows, t, N, said) = Append(rows, r)
      BY <1>2 DEF FollowUps, r
    <2> QED BY <2>1, <2>2, HeardAppended
  <1> QED BY <1>1, <1>2

-----------------------------------------------------------------------------
(* What a run adds *)

QuietOne(a, b) == \E r \in RowType : r.said = {} /\ b = Append(a, r)
QuietRows(a, b) == b = a \/ QuietOne(a, b) \/ \E c \in Log : QuietOne(a, c) /\ QuietOne(c, b)

LEMMA QuietOK ==
    ASSUME NEW a \in Log, NEW b, QuietRows(a, b)
    PROVE  b \in Log /\ Quiet(a, b)
  <1>1. ASSUME NEW x \in Log, NEW y, QuietOne(x, y)
        PROVE  y \in Log /\ Quiet(x, y)
    BY <1>1, HeardAppended, AppendRow DEF QuietOne
  <1>2. CASE b = a
    BY <1>2 DEF Quiet
  <1>3. CASE QuietOne(a, b)
    BY <1>1, <1>3
  <1>4. ASSUME NEW c \in Log, QuietOne(a, c), QuietOne(c, b)
        PROVE  b \in Log /\ Quiet(a, b)
    <2>1. Quiet(a, c) /\ Quiet(c, b) /\ b \in Log
      BY <1>1, <1>4
    <2> QED BY <2>1 DEF Quiet
  <1> QED BY <1>2, <1>3, <1>4 DEF QuietRows

RunSays ==
    \E rows \in Log : /\ QuietRows(work, rows)
                      /\ Inject(rows) \/ (work' = rows /\ place' = place)

LEMMA OursQuiet ==
    ASSUME RunTypes, NEW rows \in Log, NEW kind \in RowKind
    PROVE  /\ QuietOne(rows, Append(rows, Row(kind, turn, iteration + 1, {})))
           /\ Append(rows, Row(kind, turn, iteration + 1, {})) \in Log
           /\ Row(kind, turn, iteration + 1, {}) \in RowType
  <1> DEFINE r == Row(kind, turn, iteration + 1, {})
  <1>1. r \in RowType /\ r.said = {}
    BY BoundsOK DEF Row, RowType, RunTypes, Bounds
  <1> HIDE DEF r
  <1>2. QuietOne(rows, Append(rows, r)) /\ Append(rows, r) \in Log
    BY <1>1, AppendRow DEF QuietOne
  <1> QED BY <1>1, <1>2 DEF r

LEMMA RunQuiet ==
    ASSUME RunTypes, RunnerNext
    PROVE  RunSays
  <1> DEFINE Mine(rows, kind) == Append(rows, Row(kind, turn, iteration + 1, {}))
  <1>1. work \in Log /\ turn \in Msg /\ iteration \in Nat
    BY BoundsOK DEF RunTypes, Bounds
  <1>2. \A kind \in RowKind : Mine(work, kind) \in Log /\ QuietRows(work, Mine(work, kind))
    BY <1>1, OursQuiet DEF QuietRows
  <1>3. \A kind, other \in RowKind :
           /\ Mine(Mine(work, kind), other) \in Log
           /\ QuietRows(work, Mine(Mine(work, kind), other))
    <2> TAKE kind, other \in RowKind
    <2>1. Mine(work, kind) \in Log /\ QuietOne(work, Mine(work, kind))
      BY <1>1, OursQuiet
    <2> DEFINE c == Mine(work, kind)
    <2> HIDE DEF c
    <2>2. c \in Log => Mine(c, other) \in Log /\ QuietOne(c, Mine(c, other))
      BY OursQuiet
    <2>3. c \in Log => Mine(c, other) \in Log /\ QuietOne(c, Mine(c, other))
                          /\ (QuietOne(work, c) => QuietRows(work, Mine(c, other)))
      BY <2>2 DEF QuietRows
    <2> QED BY <2>1, <2>3 DEF c
  <1>4. QuietRows(work, work)
    BY DEF QuietRows
  <1>5. {"call", "result", "text", "prompt"} \subseteq RowKind
    BY DEF RowKind, UserKind
  <1>6. /\ stage \in {"ask", "finalize"} => ~EndsWith(work, {"text"})
        /\ stage \in {"tools", "results"} => ~EndsWith(Mine(work, "result"), {"text"})
    BY <1>1, ResultCome DEF RunTypes, RunState, Asking
  <1> DEFINE Says(rows) == Inject(rows) \/ (work' = rows /\ place' = place)
  <1>7. CASE AskTools
    <2>1. Says(Mine(work, "call"))
      BY <1>7 DEF AskTools, Ours
    <2> QED BY <1>2, <1>5, <2>1 DEF RunSays
  <1>8. CASE ChangeGoal
    BY <1>1, <1>4, <1>8 DEF ChangeGoal, RunSays
  <1>9. CASE ToolsDone
    <2>1. Says(Mine(work, "result"))
      BY <1>9 DEF ToolsDone, Ours, NoInjection, Inject
    <2> QED BY <1>2, <1>5, <2>1 DEF RunSays
  <1>10. CASE ToolsFatal
    <2>1. WithFinal(Mine(work, "result")) = Mine(Mine(work, "result"), "text")
      BY <1>6, <1>10 DEF ToolsFatal, WithFinal, Ours
    <2>2. Says(Mine(Mine(work, "result"), "text"))
      BY <1>10, <2>1 DEF ToolsFatal, Ours
    <2> QED BY <1>3, <1>5, <2>2 DEF RunSays
  <1>11. CASE AskBlank
    BY <1>1, <1>4, <1>11 DEF AskBlank, RunSays
  <1>12. CASE CutOff
    <2>1. work' = Mine(Mine(work, "text"), "prompt") /\ place' = place
      <3> DEFINE a == Row("text", turn, iteration + 1, {})
                 b == Row("prompt", turn, iteration + 1, {})
      <3>1. work' = work \o <<a, b>> /\ place' = place
        BY <1>12 DEF CutOff, Ours
      <3>2. a \in RowType /\ b \in RowType
        BY <1>1, <1>5, OursQuiet
      <3> HIDE DEF a, b
      <3>3. work' = Append(Append(work, a), b) /\ place' = place
        BY <1>1, <3>1, <3>2, TwoMore
      <3> QED BY <3>3 DEF a, b
    <2> QED BY <1>3, <1>5, <2>1 DEF RunSays
  <1>13. CASE AnswerResumed
    <2>1. Says(Mine(work, "text")) \/ Says(Mine(Mine(work, "text"), "prompt"))
      BY <1>13 DEF AnswerResumed, Ours, NoInjection, Inject
    <2> QED BY <1>2, <1>3, <1>5, <2>1 DEF RunSays
  <1>14. CASE AnswerGiven
    <2>1. Says(Mine(work, "text"))
      BY <1>14 DEF AnswerGiven, Ours, NoInjection
    <2> QED BY <1>2, <1>5, <2>1 DEF RunSays
  <1>15. CASE AskFailed
    <2>1. WithFinal(work) = Mine(work, "text") /\ WithPlaceholder(work) = Mine(work, "text")
      BY <1>6, <1>15 DEF AskFailed, WithFinal, WithPlaceholder, Ours
    <2>2. Says(work) \/ Says(Mine(work, "text"))
      BY <1>15, <2>1 DEF AskFailed, DrainOr, NoInjection
    <2> QED BY <1>1, <1>2, <1>4, <1>5, <2>2 DEF RunSays
  <1>16. CASE DrainError
    BY <1>1, <1>4, <1>16 DEF DrainError, DrainOr, NoInjection, RunSays
  <1>17. CASE Exhausted
    BY <1>1, <1>4, <1>17 DEF Exhausted, NoInjection, RunSays
  <1> QED BY <1>7, <1>8, <1>9, <1>10, <1>11, <1>12, <1>13, <1>14, <1>15, <1>16, <1>17 DEF RunnerNext

-----------------------------------------------------------------------------
(* Who is heard after each action *)

\* The cap and a compaction leave each text where it was heard once, or take it out.
LEMMA KeptHeard ==
    ASSUME NEW rows \in Log, NEW a, NEW b, Trimmed(rows, a, b), Once(rows),
           \A m \in Msg : Hears(rows, m) => ~Told(archived, m)
    PROVE  /\ Once(log')
           /\ \A m \in Msg :
                 /\ Hears(rows, m) \/ Told(archived, m) => Hears(log', m) \/ Told(archived', m)
                 /\ Hears(log', m) => Hears(rows, m) /\ ~Told(archived', m)
                 /\ Told(archived', m) => Hears(rows, m) \/ Told(archived, m)
  <1> DEFINE n == Len(log')
  <1>1. /\ log' \in Log /\ a \in Nat /\ b \in Nat
        /\ \A i \in 1 .. n : a + i - 1 \in DOMAIN rows /\ a + i - 1 \in a .. b /\ log'[i] = rows[a + i - 1]
        /\ \A k \in DOMAIN rows : (\E i \in DOMAIN log' : log'[i] = rows[k]) \/ rows[k] \in archived'
        /\ \A r \in archived' : r \in archived \/ \E k \in DOMAIN rows \ (a .. b) : r = rows[k]
        /\ archived \subseteq archived'
    <2>1. DOMAIN rows = 1 .. Len(rows)
      BY LogFacts
    <2>2. \A i \in 1 .. n : a + i - 1 \in DOMAIN rows /\ a + i - 1 \in a .. b /\ log'[i] = rows[a + i - 1]
      BY <2>1, Kept
    <2>3. log' \in Log /\ a \in Nat /\ b \in Nat /\ archived \subseteq archived'
      BY Kept
    <2>4. \A k \in DOMAIN rows : (\E i \in DOMAIN log' : log'[i] = rows[k]) \/ rows[k] \in archived'
      BY Kept
    <2>5. \A r \in archived' : r \in archived \/ \E k \in DOMAIN rows \ (a .. b) : r = rows[k]
      BY Kept
    <2> QED BY <2>2, <2>3, <2>4, <2>5
  <1>2. n \in Nat /\ DOMAIN log' = 1 .. n
    BY <1>1, LogFacts
  <1> HIDE DEF n
  <1>3. ASSUME NEW m \in Msg, NEW i \in 1 .. n, NEW j \in 1 .. n,
               m \in log'[i].said, m \in log'[j].said
        PROVE  i = j
    <2>1. a + i - 1 = a + j - 1
      BY <1>1, <1>3 DEF Once
    <2> QED BY <1>1, <1>2, <2>1
  <1>4. ASSUME NEW m \in Msg, NEW i \in 1 .. n, m \in log'[i].said
        PROVE  Hears(rows, m) /\ ~Told(archived', m)
    <2>1. a + i - 1 \in DOMAIN rows /\ a + i - 1 \in a .. b /\ m \in rows[a + i - 1].said
      BY <1>1, <1>4
    <2>2. Hears(rows, m) /\ ~Told(archived, m)
      BY <2>1 DEF Hears
    <2>3. ASSUME NEW k \in DOMAIN rows \ (a .. b), m \in rows[k].said
          PROVE  FALSE
      BY <2>1, <2>3 DEF Once
    <2> QED BY <1>1, <2>2, <2>3 DEF Told
  <1>5. Once(log')
    BY <1>2, <1>3 DEF Once
  <1>6. \A m \in Msg : Hears(log', m) => Hears(rows, m) /\ ~Told(archived', m)
    BY <1>2, <1>4 DEF Hears
  <1>7. \A m \in Msg : Hears(rows, m) \/ Told(archived, m) => Hears(log', m) \/ Told(archived', m)
    BY <1>1 DEF Hears, Told
  <1>8. \A m \in Msg : Told(archived', m) => Hears(rows, m) \/ Told(archived, m)
    BY <1>1 DEF Hears, Told
  <1> QED BY <1>5, <1>6, <1>7, <1>8

LEMMA RunSaid ==
    ASSUME MarksInv, SaidInv, Run
    PROVE  SaidInv'
  <1>1. TurnTypes /\ FileInv /\ PlaceInv /\ StageInv /\ log \in Log /\ SessionTypeOK
    BY MarksTypes
  <1>2. RunnerNext
    BY DEF Run
  <1>3. stage \in InRun
    BY <1>2 DEF RunnerNext, AskTools, ChangeGoal, ToolsDone, ToolsFatal, AskBlank, CutOff,
                AnswerResumed, AnswerGiven, AskFailed, DrainError, Exhausted, InRun
  <1>4. RunTypes
    BY <1>3, InRunTypes DEF MarksInv
  <1>5. log' = log /\ archived' = archived /\ stage' \notin {"restore", "command"}
    BY <1>2, <1>4, RunnerFramed DEF RunnerFrame, FramedSession, InRun
  <1>6. turn \in Msg /\ iteration \in Nat /\ work \in Log /\ place \in [Msg -> Place] /\ queue \in Queues
    BY <1>4, BoundsOK DEF RunTypes, Bounds
  <1>7. PICK rows \in Log : /\ QuietRows(work, rows)
                            /\ Inject(rows) \/ (work' = rows /\ place' = place)
    BY <1>2, <1>4, RunQuiet DEF RunSays
  <1>8. Once(rows) /\ \A m \in Msg : Hears(rows, m) <=> place[m] = "working"
    BY <1>6, <1>7, QuietOK DEF Quiet, SaidInv
  <1>9. CASE work' = rows /\ place' = place
    BY <1>5, <1>8, <1>9 DEF SaidInv
  <1>10. CASE Inject(rows)
    <2> DEFINE T == ToSet(Taken)
    <2>1. T \in SUBSET Msg /\ \A m \in T : Contains(queue, m)
      BY <1>6, TakenLeft
    <2>2. \A m \in T : place[m] = "queued"
      BY <1>1, <2>1 DEF PlaceInv
    <2>3. /\ work' = FollowUps(rows, turn, iteration, T)
          /\ place' = [m \in Msg |-> IF m \notin T THEN place[m]
                                    ELSE IF rows = <<>> THEN "absorbed" ELSE "working"]
      BY <1>10, FollowedRows DEF Inject, WithFollowUps, FollowUps, LastSays
    <2> HIDE DEF T
    <2>4. \A m \in T : ~Hears(rows, m) /\ ~Hears(log, m) /\ ~Told(archived, m)
      BY <1>8, <2>1, <2>2 DEF SaidInv, Begun
    <2>5. CASE rows = <<>>
      <3>1. work' = <<>>
        BY <2>3, <2>5 DEF FollowUps
      <3>2. \A m \in Msg : place[m] # "working"
        BY <1>8, <2>5, NobodyHeard
      <3>3. \A m \in Msg : place'[m] = IF m \notin T THEN place[m] ELSE "absorbed"
        BY <2>3, <2>5
      <3> QED BY <1>5, <2>4, <3>1, <3>2, <3>3, NobodyHeard DEF SaidInv
    <2>6. CASE rows # <<>>
      <3>1. /\ \A m : Hears(work', m) <=> Hears(rows, m) \/ m \in T
            /\ Once(work')
        BY <1>6, <1>8, <2>1, <2>3, <2>4, <2>6, HeardFollowUps
      <3>2. \A m \in Msg : place'[m] = IF m \notin T THEN place[m] ELSE "working"
        BY <2>3, <2>6
      <3> QED BY <1>5, <1>8, <2>4, <3>1, <3>2 DEF SaidInv
    <2> QED BY <2>5, <2>6
  <1> QED BY <1>7, <1>9, <1>10

\* A log that hears the same, and a turn whose run is over or has not begun.
LEMMA SaidEnded ==
    ASSUME work' = <<>>, stage' \notin {"restore", "command"}, Once(log'),
           \A m \in Msg : /\ place'[m] # "working"
                          /\ place'[m] = "filed" => Hears(log', m) \/ Told(archived', m)
                          /\ Hears(log', m) => place'[m] \in Begun \cup {"filed"}
                          /\ Told(archived', m) => /\ ~Hears(log', m)
                                                   /\ place'[m] \in Begun \cup {"filed", "forgotten"}
    PROVE  SaidInv'
  BY NobodyHeard DEF SaidInv

LEMMA LeftSaid ==
    ASSUME MarksInv, SaidInv, turn # None, EndTurn, NEW outcome \in Begun \ {"turn"},
           place' = LeftAs(outcome), Quiet(log, log'), archived' = archived
    PROVE  SaidInv'
  <1>1. TurnTypes /\ turn \in Msg /\ work' = <<>> /\ stage' = "idle"
    BY MarksTypes DEF TurnTypes, EndTurn
  <1>2. Once(log') /\ \A m \in Msg : Hears(log', m) <=> Hears(log, m)
    BY DEF Quiet, SaidInv
  <1>3. ASSUME NEW m \in Msg
        PROVE  /\ place'[m] # "working"
               /\ place'[m] = "filed" => Hears(log', m) \/ Told(archived', m)
               /\ Hears(log', m) => place'[m] \in Begun \cup {"filed"}
               /\ Told(archived', m) => /\ ~Hears(log', m)
                                        /\ place'[m] \in Begun \cup {"filed", "forgotten"}
    <2>1. place'[m] = IF m = turn THEN outcome
                      ELSE IF place[m] = "queued" THEN "bus"
                      ELSE IF place[m] = "working" THEN "cut"
                      ELSE place[m]
      BY DEF LeftAs
    <2> QED BY <1>2, <2>1 DEF SaidInv, Begun
  <1> QED BY <1>1, <1>2, <1>3, SaidEnded

LEMMA SameHeard == Quiet(log, log)
  BY DEF Quiet

LEMMA MaterializedQuiet ==
    ASSUME SessionTypeOK, FileInv, MaterializeCheckpoint
    PROVE  Quiet(log, log')
  <1> DEFINE b == CheckpointRows(checkpoint)
  <1>1. checkpoint \in CheckpointType /\ log \in Log
    BY Materialized DEF SessionTypeOK, Log
  <1>2. checkpoint # None
    BY <1>1, BoundsOK DEF Bounds
  <1>3. log' = log \o b
    BY <1>2, Materialized DEF FileInv, Opened
  <1>4. b \in Log /\ DOMAIN b = 1 .. Len(b) /\ \A i \in 1 .. Len(b) : b[i].said = {}
    BY <1>1, CheckpointRowsOK, LogFacts
  <1> HIDE DEF b
  <1>5. Once(b) /\ \A m : ~Hears(b, m)
    BY <1>4 DEF Once, Hears
  <1> QED BY <1>1, <1>3, <1>4, <1>5, HeardJoined DEF Quiet

LEMMA RestoreSaid ==
    ASSUME MarksInv, SaidInv, Restore
    PROVE  SaidInv'
  <1>1. TurnTypes /\ FileInv /\ PlaceInv /\ StageInv /\ log \in Log /\ SessionTypeOK
    BY MarksTypes
  <1>2. /\ stage = "restore" /\ stage' = "command" /\ turn' = turn /\ work' = work /\ place' = place
        /\ MaterializeCheckpoint \/ ClosePendingTurn \/ NothingToRestore
    BY DEF Restore
  <1>3. turn \in Msg
    BY <1>1, <1>2 DEF TurnTypes
  <1>4. Quiet(log, log')
    <2>1. CASE MaterializeCheckpoint
      BY <1>1, <2>1, MaterializedQuiet
    <2>2. CASE NothingToRestore
      BY <2>2, SameHeard DEF NothingToRestore, session
    <2>3. CASE ClosePendingTurn /\ ~EndsWith(log, UserKind)
      BY <2>3, SameHeard DEF ClosePendingTurn
    <2>4. CASE ClosePendingTurn /\ EndsWith(log, UserKind)
      <3> DEFINE last == log[Len(log)]
                 r == Row("text", last.turn, 0, {})
      <3>1. last \in RowType
        BY <1>1, <2>4, LogFacts DEF EndsWith
      <3>2. r \in RowType /\ r.said = {}
        <4> HIDE DEF last
        <4> QED BY <3>1 DEF Row, RowType, RowKind
      <3>3. log' = Append(log, r)
        BY <2>4 DEF ClosePendingTurn
      <3> HIDE DEF r
      <3> QED BY <1>1, <3>2, <3>3, HeardAppended
    <2> QED BY <1>2, <2>1, <2>2, <2>3, <2>4
  <1>5. archived' = archived
    BY <1>2 DEF MaterializeCheckpoint, ClosePendingTurn, NothingToRestore, session
  <1> QED BY <1>2, <1>3, <1>4, <1>5 DEF SaidInv, Quiet

\* At the command state no one is working.
LEMMA NobodyWorks ==
    ASSUME MarksInv, SaidInv, stage = "command"
    PROVE  /\ work = <<>> /\ \A m \in Msg : place[m] # "working"
           /\ turn \in Msg /\ place[turn] = "turn" /\ ~Hears(log, turn) /\ log \in Log
           /\ ~Told(archived, turn)
  <1>1. work = <<>> /\ turn \in Msg /\ place[turn] = "turn" /\ log \in Log
    BY MarksTypes DEF TurnTypes, RunState, InRun, Filing, PlaceInv
  <1> QED BY <1>1, NobodyHeard DEF SaidInv

\* The user's row of a turn joins a log that did not hear it.
LEMMA OpeningSaid ==
    ASSUME NEW rows \in Log, NEW t \in Msg, Once(rows), ~Hears(rows, t)
    PROVE  /\ Append(rows, Row("user", t, 0, {t})) \in Log
           /\ Once(Append(rows, Row("user", t, 0, {t})))
           /\ \A m : Hears(Append(rows, Row("user", t, 0, {t})), m) <=> Hears(rows, m) \/ m = t
  <1> DEFINE r == Row("user", t, 0, {t})
  <1>1. r \in RowType /\ r.said = {t}
    BY DEF Row, RowType, RowKind, UserKind
  <1> HIDE DEF r
  <1>2. Append(rows, r) \in Log
    BY <1>1, AppendRow
  <1>3. Once(Append(rows, r)) /\ \A m : Hears(Append(rows, r), m) <=> Hears(rows, m) \/ m = t
    BY <1>1, HeardAppended
  <1> QED BY <1>2, <1>3 DEF r

LEMMA ShortcutSaid ==
    ASSUME MarksInv, SaidInv, Shortcut
    PROVE  SaidInv'
  <1> DEFINE a == Row("user", turn, 0, {turn})
             b == Row("text", turn, 0, {})
             mid == Append(log, a)
  <1>1. /\ stage = "command" /\ stage' = "respond" /\ work' = work /\ place' = place
        /\ log' = log \o <<a, b>> /\ archived' = archived
    BY DEF Shortcut
  <1>2. /\ work = <<>> /\ turn \in Msg /\ place[turn] = "turn" /\ ~Hears(log, turn) /\ log \in Log
        /\ ~Told(archived, turn)
        /\ \A m \in Msg : place[m] # "working"
    BY <1>1, NobodyWorks
  <1>3. /\ mid \in Log /\ Once(mid) /\ \A m : Hears(mid, m) <=> Hears(log, m) \/ m = turn
    BY <1>2, OpeningSaid DEF SaidInv
  <1>4. a \in RowType /\ b \in RowType /\ b.said = {}
    BY <1>2 DEF Row, RowType, RowKind, UserKind
  <1>5. log' = Append(mid, b)
    <2> HIDE DEF a, b
    <2> QED BY <1>1, <1>2, <1>4, TwoMore
  <1> HIDE DEF mid, b, a
  <1>6. Once(log') /\ \A m \in Msg : Hears(log', m) <=> Hears(log, m) \/ m = turn
    BY <1>3, <1>4, <1>5, HeardAppended DEF Quiet
  <1> QED BY <1>1, <1>2, <1>6, SaidEnded DEF SaidInv, Begun

LEMMA NewShortcutSaid ==
    ASSUME MarksInv, SaidInv, NewShortcut
    PROVE  SaidInv'
  <1>1. /\ stage = "command" /\ stage' = "respond" /\ work' = work /\ log' = <<>>
        /\ place' = [m \in Msg |-> IF place[m] = "filed" THEN "forgotten" ELSE place[m]]
        /\ archived' = archived
    BY DEF NewShortcut, ClearSession, Forgotten
  <1>2. work = <<>> /\ \A m \in Msg : place[m] # "working"
    BY <1>1, NobodyWorks
  <1> QED BY <1>1, <1>2, NobodyHeard, SaidEnded DEF SaidInv, Begun

LEMMA BuildSaid ==
    ASSUME MarksInv, SaidInv, Build
    PROVE  SaidInv'
  <1>1. /\ stage = "command" /\ stage' = "ask" /\ work' = <<>> /\ place' = place
        /\ log' = IF KeepOpening THEN Append(log, Row("user", turn, 0, {turn})) ELSE log
        /\ archived' = archived
    BY DEF Build, StartRun, OpenTurn
  <1>2. /\ turn \in Msg /\ place[turn] = "turn" /\ ~Hears(log, turn) /\ log \in Log
        /\ ~Told(archived, turn)
        /\ \A m \in Msg : place[m] # "working"
    BY <1>1, NobodyWorks
  <1>3. CASE KeepOpening
    <2>1. Once(log') /\ \A m : Hears(log', m) <=> Hears(log, m) \/ m = turn
      BY <1>1, <1>2, <1>3, OpeningSaid DEF SaidInv
    <2> QED BY <1>1, <1>2, <2>1, SaidEnded DEF SaidInv, Begun
  <1>4. CASE ~KeepOpening
    BY <1>1, <1>2, <1>4, SaidEnded DEF SaidInv
  <1> QED BY <1>3, <1>4

LEMMA BeginSaid ==
    ASSUME MarksInv, SaidInv, NEW m \in Msg, Begin(m)
    PROVE  SaidInv'
  <1>1. /\ turn' = m /\ work' = work /\ log' = log /\ archived' = archived
        /\ place[m] \in {"unsent", "bus"} /\ place' = [place EXCEPT ![m] = "turn"]
    BY DEF Begin, Arrived, session
  <1>2. place \in [Msg -> Place]
    BY MarksTypes DEF TurnTypes
  <1>3. place'[m] = "turn" /\ \A k \in Msg : k # m => place'[k] = place[k]
    BY <1>1, <1>2
  <1>4. ~Hears(log, m) /\ ~Told(archived, m)
    BY <1>1 DEF SaidInv, Begun
  <1> QED BY <1>1, <1>3, <1>4 DEF SaidInv, Begun

LEMMA RouteSaid ==
    ASSUME MarksInv, SaidInv, NEW m \in Msg, Route(m)
    PROVE  SaidInv'
  <1>1. /\ turn' = turn /\ stage' = stage /\ work' = work /\ log' = log /\ archived' = archived
        /\ place[m] \in {"unsent", "bus"} /\ place' = [place EXCEPT ![m] = "queued"]
    BY DEF Route, Arrived, session
  <1>2. place \in [Msg -> Place]
    BY MarksTypes DEF TurnTypes
  <1>3. place'[m] = "queued" /\ \A k \in Msg : k # m => place'[k] = place[k]
    BY <1>1, <1>2
  <1>4. ~Hears(log, m) /\ ~Told(archived, m)
    BY <1>1 DEF SaidInv, Begun
  <1> QED BY <1>1, <1>3, <1>4 DEF SaidInv, Begun

LEMMA CloseExhaustedSaid ==
    ASSUME MarksInv, SaidInv, CloseExhausted
    PROVE  SaidInv'
  <1> DEFINE r == Row("text", turn, iteration + 1, {})
  <1>1. TurnTypes
    BY MarksTypes
  <1>2. stage = "closing" /\ log' = log /\ archived' = archived /\ stage' \in Filing
    BY DEF CloseExhausted, session, Filing
  <1>3. turn \in Msg /\ iteration \in Nat /\ work \in Log /\ ~EndsWith(work, {"text"})
    BY <1>1, <1>2, BoundsOK DEF TurnTypes, Bounds, RunState, Asking
  <1>4. r \in RowType /\ r.said = {}
    BY <1>3 DEF Row, RowType, RowKind
  <1>5. WithFinal(work) = Append(work, r)
    BY <1>3, OneTextMore DEF WithFinal, Ours
  <1> HIDE DEF r
  <1>6. Front(Append(work, r)) = work /\ Quiet(work, Append(work, r))
    BY <1>3, <1>4, FrontAppend, HeardAppended
  <1>7. Once(work') /\ \A m \in Msg : Hears(work', m) <=> Hears(work, m)
    BY <1>5, <1>6 DEF CloseExhausted, Quiet, SaidInv
  <1>8. CASE place' = place
    BY <1>2, <1>7, <1>8 DEF SaidInv, Filing
  <1>9. ASSUME NEW m \in Msg, place[m] = "none", place' = [place EXCEPT ![m] = "queued"]
        PROVE  SaidInv'
    <2>1. place'[m] = "queued" /\ \A k \in Msg : k # m => place'[k] = place[k]
      BY <1>1, <1>9 DEF TurnTypes
    <2> QED BY <1>2, <1>7, <1>9, <2>1 DEF SaidInv, Begun, Filing
  <1> QED BY <1>8, <1>9 DEF CloseExhausted

LEMMA SaveTurnSaid ==
    ASSUME MarksInv, SaidInv, SaveTurn
    PROVE  SaidInv'
  <1>1. /\ stage' \in Outside \ {"restore", "command"} /\ work' = <<>>
        /\ place' = [m \in Msg |-> IF place[m] = "working" THEN "filed" ELSE place[m]]
    BY DEF SaveTurn, FileRun, Outside
  <1>2. log \in Log /\ work \in Log
    BY MarksTypes DEF TurnTypes
  <1>3. \A m \in Msg : ~(Hears(log, m) /\ Hears(work, m))
    BY DEF SaidInv, Begun
  <1> DEFINE rows == log \o work
  <1>4. Once(rows) /\ \A m : Hears(rows, m) <=> Hears(log, m) \/ Hears(work, m)
    BY <1>2, <1>3, HeardJoined DEF SaidInv
  <1>5. rows \in Log /\ \E a, b : Trimmed(rows, a, b)
    BY SaveTurnMarks
  <1>6. \A m \in Msg : Hears(rows, m) => ~Told(archived, m)
    BY <1>4 DEF SaidInv, Begun
  <1> HIDE DEF rows
  <1>7. /\ Once(log')
        /\ \A m \in Msg :
              /\ Hears(rows, m) \/ Told(archived, m) => Hears(log', m) \/ Told(archived', m)
              /\ Hears(log', m) => Hears(rows, m) /\ ~Told(archived', m)
              /\ Told(archived', m) => Hears(rows, m) \/ Told(archived, m)
    BY <1>4, <1>5, <1>6, KeptHeard
  <1>8. ASSUME NEW m \in Msg
        PROVE  /\ place'[m] # "working"
               /\ place'[m] = "filed" => Hears(log', m) \/ Told(archived', m)
               /\ Hears(log', m) => place'[m] \in Begun \cup {"filed"}
               /\ Told(archived', m) => /\ ~Hears(log', m)
                                        /\ place'[m] \in Begun \cup {"filed", "forgotten"}
    <2>1. place'[m] = IF place[m] = "working" THEN "filed" ELSE place[m]
      BY <1>1
    <2> QED BY <1>4, <1>7, <2>1 DEF SaidInv
  <1> QED BY <1>1, <1>7, <1>8, SaidEnded

LEMMA CrashSaid ==
    ASSUME MarksInv, SaidInv, Crash
    PROVE  SaidInv'
  <1>1. /\ log' = log /\ archived' = archived /\ stage' = "idle" /\ work' = <<>>
        /\ place' = [k \in Msg |-> IF place[k] \in {"bus", "queued", "turn"} THEN "lost"
                                 ELSE IF place[k] = "working" THEN "cut" ELSE place[k]]
    BY MarksTypes DEF Crash, Reload, EndTurn, FileInv
  <1> QED BY <1>1, SaidEnded DEF SaidInv, Begun

LEMMA NewInlineSaid ==
    ASSUME MarksInv, SaidInv, NEW m \in Msg, NewInline(m)
    PROVE  SaidInv'
  <1> DEFINE q == LeftAs("stopped")
  <1>1. /\ log' = <<>> /\ archived' = archived /\ stage' = "idle" /\ work' = <<>>
        /\ place' = Forgotten([q EXCEPT ![m] = "done"])
    BY DEF NewInline, EndTurn
  <1>2. q \in [Msg -> Place] /\ \A k \in Msg : q[k] # "working"
    BY MarksTypes, LeftType DEF TurnTypes, LeftAs, Place
  <1> HIDE DEF q
  <1>3. place' = [k \in Msg |-> IF [q EXCEPT ![m] = "done"][k] = "filed" THEN "forgotten"
                              ELSE [q EXCEPT ![m] = "done"][k]]
    BY <1>1 DEF Forgotten
  <1>4. \A k \in Msg : place'[k] # "working" /\ place'[k] # "filed"
    BY <1>2, <1>3
  <1>5. ASSUME NEW k \in Msg, Told(archived', k)
        PROVE  place'[k] \in Begun \cup {"filed", "forgotten"}
    <2>1. place[k] \in Begun \cup {"filed", "forgotten"}
      BY <1>1, <1>5 DEF SaidInv
    <2>2. q[k] \in Begun \cup {"filed", "forgotten"}
      BY <2>1 DEF q, LeftAs, Begun
    <2> QED BY <1>2, <1>3, <2>2 DEF Begun
  <1> QED BY <1>1, <1>4, <1>5, NobodyHeard, SaidEnded

LEMMA LeavingSaid ==
    ASSUME MarksInv, SaidInv, Respond \/ FinishSlice \/ Stop \/ Fail
    PROVE  SaidInv'
  <1>1. TurnTypes /\ FileInv /\ SessionTypeOK
    BY MarksTypes
  <1>2. turn # None /\ EndTurn
    BY <1>1 DEF Respond, FinishSlice, Stop, Fail, TurnTypes, InRun
  <1>3. \E outcome \in Begun \ {"turn"} : place' = LeftAs(outcome)
    BY DEF Respond, FinishSlice, Stop, Fail, Begun
  <1>4. UNCHANGED session => Quiet(log, log')
    BY SameHeard DEF session
  <1>5. Quiet(log, log')
    BY <1>1, <1>4, MaterializedQuiet DEF Respond, FinishSlice, Stop, Fail, RestoreCancelled, NothingSaved
  <1>6. archived' = archived
    BY DEF Respond, FinishSlice, Stop, Fail, RestoreCancelled, NothingSaved, MaterializeCheckpoint, session
  <1> QED BY <1>2, <1>3, <1>5, <1>6, LeftSaid

LEMMA IdleSaid ==
    ASSUME MarksInv, SaidInv, Idle
    PROVE  SaidInv'
  <1>1. UNCHANGED <<stage, turn, work, place>> /\ stage = "idle" /\ log \in Log
    BY MarksTypes DEF Idle, runner, TurnTypes
  <1>2. \A m \in Msg : Hears(log, m) => ~Told(archived, m)
    BY DEF SaidInv
  <1>3. /\ Once(log')
        /\ \A m \in Msg :
              /\ Hears(log, m) \/ Told(archived, m) => Hears(log', m) \/ Told(archived', m)
              /\ Hears(log', m) => Hears(log, m) /\ ~Told(archived', m)
              /\ Told(archived', m) => Hears(log, m) \/ Told(archived, m)
    BY <1>1, <1>2, IdleMarks, KeptHeard DEF SaidInv
  <1> QED BY <1>1, <1>3 DEF SaidInv

HeardInv == MarksInv /\ SaidInv

LEMMA HeardInit ==
    ASSUME Init
    PROVE  HeardInv
  <1>1. SaidInv
    BY NobodyHeard DEF Init, InitSession, SaidInv, Told
  <1> QED BY <1>1, MarksInit DEF HeardInv

LEMMA HeardStep ==
    ASSUME HeardInv, [Next]_vars
    PROVE  HeardInv'
  <1>1. CASE UNCHANGED vars
    BY <1>1, MarksStep DEF HeardInv, SaidInv, vars, session, runner
  <1>2. SaidInv'
    BY <1>1, BeginSaid, RouteSaid, RestoreSaid, ShortcutSaid, NewShortcutSaid, BuildSaid, RunSaid,
       CloseExhaustedSaid, SaveTurnSaid, LeavingSaid, NewInlineSaid, CrashSaid, IdleSaid
       DEF HeardInv, Next, TurnStep, Pickup
  <1> QED BY <1>2, MarksStep DEF HeardInv

LEMMA HeardAlways == Spec => []HeardInv
  BY HeardInit, HeardStep, PTL DEF Spec

\* The history and the run hold the text of each message once, however often it
\* was queued and republished and whatever cut its turn short, and not at all if it
\* has left for the archive.
THEOREM NothingSaidTwice == Spec => []SaidOnce
  <1>1. HeardInv => SaidOnce
    <2>1. SUFFICES ASSUME HeardInv
                   PROVE  SaidOnce
      OBVIOUS
    <2>2. log \in Log /\ work \in Log
      BY <2>1, MarksTypes DEF HeardInv, TurnTypes
    <2>3. \A m \in Msg : ~(Hears(log, m) /\ Hears(work, m))
      BY <2>1 DEF HeardInv, SaidInv, Begun
    <2>4. Once(log \o work)
      BY <2>1, <2>2, <2>3, HeardJoined DEF HeardInv, SaidInv
    <2>5. ASSUME NEW m \in Msg, Hears(log \o work, m)
          PROVE  ~Told(archived, m)
      <3>1. Hears(log, m) \/ Hears(work, m)
        BY <2>2, <2>5, HeardJoined
      <3> QED BY <2>1, <3>1 DEF HeardInv, SaidInv, Begun
    <2> QED BY <2>4, <2>5 DEF SaidOnce, Mentions, Rows, Once, Hears, Told
  <1> QED BY <1>1, HeardAlways, PTL

\* A follow-up that a run has drained is never lost while the turn lasts, nor
\* after the turn is saved: until /new clears it, it is in the history or the archive.
THEOREM FollowUpsKept == Spec => []FollowUpsFiled
  <1>1. HeardInv => FollowUpsFiled
    BY DEF HeardInv, SaidInv, FollowUpsFiled, Hears, Told, ToSet
  <1> QED BY <1>1, HeardAlways, PTL

-----------------------------------------------------------------------------
(* Openings are closed *)

\* An opening is not followed by another: InterruptedTurnClosed, of any rows.
Apart(rows) ==
    \A i \in DOMAIN rows :
        rows[i].kind = "user" /\ i + 1 \in DOMAIN rows => rows[i + 1].kind # "user"

LEMMA ApartAppended ==
    ASSUME NEW rows \in Log, Apart(rows), NEW r \in RowType,
           r.kind = "user" => ~EndsWith(rows, {"user"})
    PROVE  /\ Apart(Append(rows, r))
           /\ EndsWith(Append(rows, r), {"user"}) => r.kind = "user"
  <1> DEFINE s == Append(rows, r)
             n == Len(rows)
  <1>1. /\ n \in Nat /\ DOMAIN rows = 1 .. n /\ s \in Log /\ Len(s) = n + 1 /\ DOMAIN s = 1 .. n + 1
        /\ \A i \in 1 .. n : s[i] = rows[i]
        /\ s[n + 1] = r
        /\ rows # <<>> <=> n > 0
    BY AppendRow, LogFacts
  <1> HIDE DEF s, n
  <1>2. ASSUME NEW i \in 1 .. n + 1, s[i].kind = "user", i + 1 \in 1 .. n + 1
        PROVE  s[i + 1].kind # "user"
    <2>1. i \in 1 .. n /\ s[i] = rows[i]
      BY <1>1, <1>2
    <2>2. CASE i + 1 \in 1 .. n
      BY <1>1, <1>2, <2>1, <2>2 DEF Apart
    <2>3. CASE i + 1 = n + 1
      <3>1. i = n /\ n > 0
        BY <1>1, <2>1, <2>3
      <3>2. EndsWith(rows, {"user"})
        BY <1>1, <1>2, <2>1, <3>1 DEF EndsWith, n
      <3> QED BY <1>1, <2>3, <3>2
    <2> QED BY <1>1, <1>2, <2>2, <2>3
  <1>3. Apart(s)
    BY <1>1, <1>2 DEF Apart
  <1>4. EndsWith(s, {"user"}) => r.kind = "user"
    BY <1>1 DEF EndsWith
  <1> QED BY <1>3, <1>4 DEF s

\* Rows without an opening close the one before them.
LEMMA ApartJoined ==
    ASSUME NEW a \in Log, Apart(a), NEW b \in Log, b # <<>>,
           \A i \in DOMAIN b : b[i].kind # "user"
    PROVE  Apart(a \o b) /\ ~EndsWith(a \o b, {"user"})
  <1> DEFINE s == a \o b
             n == Len(a)
             k == Len(b)
  <1>1. /\ n \in Nat /\ k \in Nat /\ k > 0 /\ DOMAIN a = 1 .. n /\ DOMAIN b = 1 .. k
        /\ s \in Log /\ Len(s) = n + k /\ DOMAIN s = 1 .. n + k
        /\ \A i \in 1 .. n : s[i] = a[i]
        /\ \A i \in 1 .. k : s[n + i] = b[i]
        /\ \A i \in 1 .. n + k : i \in 1 .. n \/ i - n \in 1 .. k
    BY LogFacts, JoinRows
  <1> HIDE DEF s, n, k
  <1>2. ASSUME NEW i \in 1 .. n + k, i \notin 1 .. n
        PROVE  s[i].kind # "user"
    <2>1. i - n \in 1 .. k /\ n + (i - n) = i
      BY <1>1, <1>2
    <2> QED BY <1>1, <2>1
  <1>3. ASSUME NEW i \in 1 .. n + k, s[i].kind = "user", i + 1 \in 1 .. n + k
        PROVE  s[i + 1].kind # "user"
    <2>1. i \in 1 .. n
      BY <1>2, <1>3
    <2>2. CASE i + 1 \in 1 .. n
      BY <1>1, <1>3, <2>1, <2>2 DEF Apart
    <2> QED BY <1>2, <1>3, <2>2
  <1>4. Apart(s)
    BY <1>1, <1>3 DEF Apart
  <1>5. n + k \in 1 .. n + k /\ n + k \notin 1 .. n
    BY <1>1
  <1>6. ~EndsWith(s, {"user"})
    BY <1>1, <1>2, <1>5 DEF EndsWith
  <1> QED BY <1>4, <1>6 DEF s

\* A stretch of rows that are apart.
LEMMA ApartKept ==
    ASSUME NEW rows \in Log, Apart(rows), NEW a, NEW b, Trimmed(rows, a, b)
    PROVE  /\ Apart(log')
           /\ EndsWith(log', {"user"}) => b \in DOMAIN rows /\ rows[b].kind = "user"
  <1> DEFINE n == Len(log')
             k == Len(rows)
  <1>1. /\ log' \in Log /\ n = b - a + 1 /\ a \in Nat /\ b \in Nat
        /\ \A i \in 1 .. n : a + i - 1 \in 1 .. k /\ log'[i] = rows[a + i - 1]
    BY Kept
  <1>2. /\ n \in Nat /\ k \in Nat /\ DOMAIN log' = 1 .. n /\ DOMAIN rows = 1 .. k
        /\ log' # <<>> <=> n > 0
    BY <1>1, LogFacts
  <1> HIDE DEF n, k
  <1>3. ASSUME NEW i \in 1 .. n, log'[i].kind = "user", i + 1 \in 1 .. n
        PROVE  log'[i + 1].kind # "user"
    <2>1. /\ a + i - 1 \in 1 .. k /\ rows[a + i - 1].kind = "user"
          /\ a + (i + 1) - 1 \in 1 .. k /\ log'[i + 1] = rows[a + (i + 1) - 1]
      BY <1>1, <1>3
    <2>2. a + (i + 1) - 1 = (a + i - 1) + 1
      BY <1>1
    <2> QED BY <1>2, <2>1, <2>2 DEF Apart
  <1>4. ASSUME log' # <<>>, log'[n].kind = "user"
        PROVE  b \in DOMAIN rows /\ rows[b].kind = "user"
    <2>1. n \in 1 .. n /\ a + n - 1 = b
      BY <1>1, <1>2, <1>4
    <2> QED BY <1>1, <1>2, <1>4, <2>1
  <1>5. Apart(log')
    BY <1>2, <1>3 DEF Apart
  <1> QED BY <1>4, <1>5 DEF EndsWith, n

\* The bounds leave room for a row: the iterations are not used up by blank replies
\* and by follow-ups that a run without rows absorbs.  The code's own bounds are 200
\* iterations (schema.py), 5 injection cycles and 2 empty retries (runner.py).
Roomy ==
    /\ InjectionCycles < MaxIterations
    /\ InjectionCycles + MaxEmptyRetries <= MaxIterations

\* What the iterations of a run without rows went into.
Idling ==
    /\ iteration <= cycles + emptyRetries
    /\ iteration <= cycles \/ iteration < cycles + MaxEmptyRetries

ClosedInv ==
    /\ Apart(log)
    /\ EndsWith(log, {"user"}) => pending \/ checkpoint # None
    /\ stage = "command" => ~EndsWith(log, {"user"})
    /\ stage \in InRun /\ work = <<>> => Idling
    /\ stage \in {"exhausted", "closing"} => iteration = MaxIterations
    /\ stage \in Filing => work # <<>>

\* Follow-ups do not empty a run.
LEMMA FollowedGrows ==
    ASSUME RunTypes, NEW rows \in Log, rows # <<>>, Inject(rows)
    PROVE  work' # <<>>
  <1>1. /\ work' = WithFollowUps(rows, ToSet(Taken)) /\ turn \in Msg /\ iteration \in Nat
        /\ ToSet(Taken) \in SUBSET Msg
    BY TakenLeft, BoundsOK DEF Inject, RunTypes, Bounds
  <1>2. CASE EndsWith(rows, UserKind)
    <2>1. DOMAIN work' = DOMAIN rows
      BY <1>1, <1>2 DEF WithFollowUps
    <2>2. 1 \in DOMAIN rows
      BY LogFacts
    <2> QED BY <2>1, <2>2
  <1>3. CASE ~EndsWith(rows, UserKind)
    <2> DEFINE r == Row("inject", turn, iteration + 1, ToSet(Taken))
    <2>1. work' = Append(rows, r)
      BY <1>1, <1>3 DEF WithFollowUps
    <2>2. r \in RowType
      BY <1>1 DEF Row, RowType, RowKind, UserKind
    <2> HIDE DEF r
    <2> QED BY <2>1, <2>2, AppendRow, LogFacts
  <1> QED BY <1>2, <1>3

\* A run that has appended nothing retried a blank reply or absorbed a follow-up.
LEMMA StillNoRows ==
    ASSUME RunTypes, RunnerNext, work' = <<>>
    PROVE  /\ work = <<>>
           /\ Idling => Idling'
  <1> DEFINE Mine(rows, kind) == Append(rows, Row(kind, turn, iteration + 1, {}))
  <1>1. /\ work \in Log /\ turn \in Msg /\ iteration \in Nat /\ emptyRetries \in Nat /\ cycles \in Nat
        /\ MaxEmptyRetries \in Nat
    BY BoundsOK DEF RunTypes, Bounds
  <1>2. \A rows \in Log : \A kind \in RowKind :
           Mine(rows, kind) \in Log /\ Mine(rows, kind) # <<>>
    <2> TAKE rows \in Log
    <2> TAKE kind \in RowKind
    <2> DEFINE r == Row(kind, turn, iteration + 1, {})
    <2>1. r \in RowType
      BY OursQuiet
    <2> HIDE DEF r
    <2> DEFINE s == Append(rows, r)
    <2>2. s \in Log /\ Len(s) = Len(rows) + 1 /\ Len(rows) \in Nat
      BY <2>1, AppendRow, LogFacts
    <2> HIDE DEF s
    <2>3. s # <<>>
      BY <2>2, LogFacts
    <2> QED BY <2>2, <2>3 DEF r, s
  <1>3. {"call", "result", "text", "prompt"} \subseteq RowKind
    BY DEF RowKind, UserKind
  <1>4. \A rows \in Log : Inject(rows) => rows = <<>> /\ cycles' = cycles + 1
    BY FollowedGrows DEF Inject
  <1>5. stage \in {"tools", "results", "drainError"} => work # <<>>
    BY DEF RunTypes, RunState, Calling, OpenCall, Closed, EndsWith
  <1>6. CASE AskTools
    BY <1>1, <1>2, <1>3, <1>6 DEF AskTools, Ours
  <1>7. CASE ChangeGoal
    BY <1>5, <1>7 DEF ChangeGoal
  <1>8. CASE ToolsDone
    BY <1>1, <1>2, <1>3, <1>4, <1>8 DEF ToolsDone, Ours
  <1>9. CASE ToolsFatal
    <2>1. ~EndsWith(Mine(work, "result"), {"text"})
      BY <1>1, <1>9, ResultCome DEF ToolsFatal, RunTypes, RunState, Asking
    <2>2. work' = Mine(Mine(work, "result"), "text")
      BY <1>9, <2>1 DEF ToolsFatal, WithFinal, Ours
    <2> QED BY <1>1, <1>2, <1>3, <2>2
  <1>10. CASE AskBlank
    <2>1. work = <<>> /\ cycles' = cycles /\ emptyRetries' = emptyRetries + 1
      BY <1>10 DEF AskBlank
    <2>2. CASE emptyRetries + 1 < MaxEmptyRetries
      BY <1>1, <1>10, <2>1, <2>2 DEF AskBlank, Continue, Idling
    <2>3. CASE ~(emptyRetries + 1 < MaxEmptyRetries)
      BY <1>1, <1>10, <2>1, <2>3 DEF AskBlank, Idling
    <2> QED BY <2>2, <2>3
  <1>11. CASE CutOff
    <2> DEFINE a == Row("text", turn, iteration + 1, {})
               b == Row("prompt", turn, iteration + 1, {})
    <2>1. work' = work \o <<a, b>>
      BY <1>11 DEF CutOff, Ours
    <2>2. a \in RowType /\ b \in RowType
      BY <1>1, <1>3, OursQuiet
    <2> HIDE DEF a, b
    <2>3. work' = Append(Append(work, a), b)
      BY <1>1, <2>1, <2>2, TwoMore
    <2>4. Append(work, a) \in Log
      BY <1>1, <2>2, AppendRow
    <2>5. work' \in Log /\ Len(work') = Len(Append(work, a)) + 1 /\ Len(Append(work, a)) \in Nat
      BY <2>2, <2>3, <2>4, AppendRow, LogFacts
    <2> QED BY <2>5, LogFacts
  <1>12. CASE AnswerResumed
    BY <1>1, <1>2, <1>3, <1>4, <1>12 DEF AnswerResumed, Ours
  <1>13. CASE AnswerGiven
    BY <1>1, <1>2, <1>3, <1>13 DEF AnswerGiven, Ours
  <1>14. CASE AskFailed
    <2>1. ~EndsWith(work, {"text"})
      BY <1>14 DEF AskFailed, RunTypes, RunState, Asking
    <2>2. WithFinal(work) = Mine(work, "text") /\ WithPlaceholder(work) = Mine(work, "text")
      BY <2>1, OneTextMore
    <2>3. Inject(work) /\ Continue /\ emptyRetries' = emptyRetries
      BY <1>1, <1>2, <1>3, <1>14, <2>2 DEF AskFailed, DrainOr
    <2> QED BY <1>1, <1>4, <2>3 DEF Continue, Idling
  <1>15. CASE DrainError
    BY <1>1, <1>4, <1>5, <1>15 DEF DrainError, DrainOr
  <1>16. CASE Exhausted
    BY <1>1, <1>4, <1>16 DEF Exhausted, NoInjection, Idling
  <1> QED BY <1>6, <1>7, <1>8, <1>9, <1>10, <1>11, <1>12, <1>13, <1>14, <1>15, <1>16 DEF RunnerNext

-----------------------------------------------------------------------------
(* Openings after each action *)

LEMMA RunCloses ==
    ASSUME MarksInv, ClosedInv, Run
    PROVE  ClosedInv'
  <1>1. RunnerNext
    BY DEF Run
  <1>2. stage \in InRun
    BY <1>1 DEF RunnerNext, AskTools, ChangeGoal, ToolsDone, ToolsFatal, AskBlank, CutOff,
                AnswerResumed, AnswerGiven, AskFailed, DrainError, Exhausted, InRun
  <1>3. RunTypes
    BY <1>2, InRunTypes DEF MarksInv
  <1>4. RunnerFrame
    BY <1>1, <1>3, RunnerFramed
  <1>5. log' = log /\ pending' = pending /\ (checkpoint # None => checkpoint' # None)
    BY <1>4 DEF RunnerFrame, FramedSession
  <1>6. stage' \in InRun \cup {"save"} /\ stage' # "command"
    BY <1>4 DEF RunnerFrame, InRun
  <1>7. stage' \in InRun /\ work' = <<>> => Idling'
    BY <1>1, <1>2, <1>3, StillNoRows DEF ClosedInv
  <1>8. stage' \in {"exhausted", "closing"} => iteration' = MaxIterations
    <2>1. CASE Continue /\ stage \in {"ask", "tools", "results", "finalize", "drainError"}
      <3>1. iteration \in Nat /\ MaxIterations \in Nat /\ iteration < MaxIterations
        BY <1>3, <2>1, BoundsOK DEF RunTypes, Bounds, Counters
      <3> QED BY <2>1, <3>1 DEF Continue
    <2>2. CASE Exhausted
      BY <2>2 DEF Exhausted, ClosedInv
    <2> QED BY <1>1, <2>1, <2>2 DEF RunnerNext, AskTools, ChangeGoal, ToolsDone, ToolsFatal,
                AskBlank, CutOff, AnswerResumed, AnswerGiven, AskFailed, DrainError, DrainOr
  <1>9. stage' = "save" => work' # <<>>
    <2>1. RunInv'
      BY RunInvStep DEF MarksInv, Next, TurnStep
    <2> QED BY <2>1 DEF RunInv, RunState, Closed, EndsWith, InRun
  <1> QED BY <1>5, <1>6, <1>7, <1>8, <1>9 DEF ClosedInv, Filing, InRun

\* The last iteration has a row: what it hands over to a slice is not empty.
LEMMA CloseExhaustedCloses ==
    ASSUME Roomy, MarksInv, ClosedInv, CloseExhausted
    PROVE  ClosedInv'
  <1>1. /\ stage = "closing" /\ UNCHANGED session /\ stage' \in Filing
        /\ work' = WithFinal(work) \/ work' = Front(WithFinal(work))
    BY DEF CloseExhausted, Filing
  <1>2. RunTypes
    BY <1>1, InRunTypes DEF MarksInv, InRun
  <1>3. work # <<>>
    <2>1. /\ iteration = MaxIterations /\ cycles \in 0 .. InjectionCycles
          /\ MaxIterations \in Nat /\ InjectionCycles \in Nat /\ MaxEmptyRetries \in Nat
      BY <1>1, <1>2, BoundsOK DEF ClosedInv, RunTypes, Bounds
    <2>2. ~(iteration <= cycles) /\ ~(iteration < cycles + MaxEmptyRetries)
      BY <2>1 DEF Roomy
    <2> QED BY <1>1, <2>2 DEF ClosedInv, Idling, InRun
  <1>4. work' # <<>>
    <2> DEFINE r == Row("text", turn, iteration + 1, {})
    <2>1. work \in Log /\ ~EndsWith(work, {"text"}) /\ r \in RowType
      BY <1>1, <1>2, BoundsOK DEF RunTypes, RunState, Asking, Row, RowType, RowKind, UserKind, Bounds
    <2>2. WithFinal(work) = Append(work, r)
      BY <2>1, OneTextMore
    <2> HIDE DEF r
    <2>3. Front(Append(work, r)) = work
      BY <2>1, FrontAppend
    <2>4. Append(work, r) # <<>>
      BY <2>1, AppendRow, LogFacts
    <2> QED BY <1>1, <1>3, <2>2, <2>3, <2>4
  <1> QED BY <1>1, <1>4 DEF ClosedInv, Filing, InRun, session

LEMMA SaveTurnCloses ==
    ASSUME MarksInv, ClosedInv, SaveTurn
    PROVE  ClosedInv'
  <1> DEFINE rows == log \o work
  <1>1. stage \in Filing /\ stage' \in {"respond", "finish"}
    BY DEF SaveTurn, Filing
  <1>2. log \in Log /\ work \in Log /\ RunState(stage, work, turn, iteration)
    BY MarksTypes DEF TurnTypes
  <1>3. work # <<>> /\ \A i \in DOMAIN work : work[i].kind # "user"
    BY <1>1, <1>2 DEF ClosedInv, RunState, Closed, RunRows, Filing
  <1>4. Apart(rows) /\ ~EndsWith(rows, {"user"})
    BY <1>2, <1>3, ApartJoined DEF ClosedInv
  <1>5. /\ rows \in Log
        /\ \E a, b : Trimmed(rows, a, b) /\ (b = Len(rows) \/ rows[b].kind \notin UserKind)
    BY SaveTurnMarks
  <1> HIDE DEF rows
  <1>6. PICK a, b : Trimmed(rows, a, b) /\ (b = Len(rows) \/ rows[b].kind \notin UserKind)
    BY <1>5
  <1>7. Apart(log') /\ (EndsWith(log', {"user"}) => b \in DOMAIN rows /\ rows[b].kind = "user")
    BY <1>4, <1>5, <1>6, ApartKept
  <1>8. ~EndsWith(log', {"user"})
    <2>1. SUFFICES ASSUME b \in DOMAIN rows, rows[b].kind = "user"
                   PROVE  FALSE
      BY <1>7
    <2>2. b = Len(rows) /\ rows # <<>>
      BY <1>5, <1>6, <2>1, LogFacts DEF UserKind
    <2> QED BY <1>4, <2>1, <2>2 DEF EndsWith
  <1> QED BY <1>1, <1>7, <1>8 DEF ClosedInv, Filing, InRun

LEMMA MaterializedCloses ==
    ASSUME MarksInv, ClosedInv, MaterializeCheckpoint
    PROVE  Apart(log') /\ ~EndsWith(log', {"user"})
  <1>1. SessionTypeOK /\ log \in Log /\ FileInv
    BY MarksTypes
  <1>2. checkpoint \in CheckpointType /\ log' = log \o CheckpointRows(checkpoint)
    BY <1>1, Materialized DEF FileInv, Opened, MaterializeCheckpoint
  <1> DEFINE rows == CheckpointRows(checkpoint)
  <1>3. /\ rows \in Log /\ Len(rows) \in {1, 2}
        /\ \A i \in 1 .. Len(rows) : rows[i].kind \notin UserKind
    BY <1>2, CheckpointRowsOK
  <1> HIDE DEF rows
  <1>4. rows # <<>> /\ \A i \in DOMAIN rows : rows[i].kind # "user"
    <2>1. DOMAIN rows = 1 .. Len(rows) /\ (rows # <<>> <=> Len(rows) > 0)
      BY <1>3, LogFacts
    <2> QED BY <1>3, <2>1 DEF UserKind
  <1>5. log' = log \o rows
    BY <1>2 DEF rows
  <1> QED BY <1>1, <1>3, <1>4, <1>5, ApartJoined DEF ClosedInv

LEMMA RestoreCloses ==
    ASSUME MarksInv, ClosedInv, Restore
    PROVE  ClosedInv'
  <1>1. stage' = "command" /\ log \in Log /\ SessionTypeOK
    BY MarksTypes DEF Restore
  <1>2. Apart(log') /\ ~EndsWith(log', {"user"})
    <2>1. CASE MaterializeCheckpoint
      BY <2>1, MaterializedCloses
    <2>2. CASE ClosePendingTurn /\ EndsWith(log, UserKind)
      <3> DEFINE r == Row("text", log[Len(log)].turn, 0, {})
      <3>1. Len(log) \in 1 .. Len(log)
        BY <1>1, <2>2, LogFacts DEF EndsWith
      <3>2. log[Len(log)] \in RowType
        BY <1>1, <3>1, LogFacts
      <3>3. r \in RowType /\ r.kind = "text"
        BY <3>2 DEF Row, RowType, RowKind
      <3>4. log' = Append(log, r)
        BY <2>2 DEF ClosePendingTurn
      <3> HIDE DEF r
      <3> QED BY <1>1, <3>3, <3>4, ApartAppended DEF ClosedInv
    <2>3. CASE ClosePendingTurn /\ ~EndsWith(log, UserKind)
      BY <2>3 DEF ClosePendingTurn, ClosedInv, EndsWith, UserKind
    <2>4. CASE NothingToRestore
      BY <2>4 DEF NothingToRestore, ClosedInv, session
    <2> QED BY <2>1, <2>2, <2>3, <2>4 DEF Restore
  <1> QED BY <1>1, <1>2 DEF ClosedInv, Filing, InRun

LEMMA ShortcutCloses ==
    ASSUME MarksInv, ClosedInv, Shortcut
    PROVE  ClosedInv'
  <1> DEFINE a == Row("user", turn, 0, {turn})
             b == Row("text", turn, 0, {})
  <1>1. stage = "command" /\ stage' = "respond" /\ log' = log \o <<a, b>> /\ log \in Log /\ turn \in Msg
    BY MarksTypes DEF Shortcut, TurnTypes
  <1>2. a \in RowType /\ b \in RowType /\ b.kind = "text"
    BY <1>1 DEF Row, RowType, RowKind, UserKind
  <1> HIDE DEF a, b
  <1>3. log' = Append(Append(log, a), b) /\ Append(log, a) \in Log
    BY <1>1, <1>2, TwoMore, AppendRow
  <1>4. Apart(Append(log, a))
    BY <1>1, <1>2, ApartAppended DEF ClosedInv
  <1>5. Apart(log') /\ ~EndsWith(log', {"user"})
    BY <1>2, <1>3, <1>4, ApartAppended
  <1> QED BY <1>1, <1>5 DEF ClosedInv, Filing, InRun

LEMMA BuildCloses ==
    ASSUME MarksInv, ClosedInv, Build
    PROVE  ClosedInv'
  <1>1. /\ stage = "command" /\ stage' = "ask" /\ OpenTurn
        /\ iteration' = 0 /\ emptyRetries' = 0 /\ cycles' = 0
        /\ log \in Log /\ turn \in Msg
    BY MarksTypes, BoundsOK DEF Build, StartRun, ResetRun, TurnTypes, Bounds
  <1>2. Idling'
    BY <1>1 DEF Idling
  <1>3. CASE KeepOpening
    <2> DEFINE r == Row("user", turn, 0, {turn})
    <2>1. r \in RowType /\ log' = Append(log, r) /\ pending' = TRUE
      BY <1>1, <1>3 DEF Row, RowType, RowKind, UserKind, OpenTurn
    <2> HIDE DEF r
    <2>2. Apart(log')
      BY <1>1, <2>1, ApartAppended DEF ClosedInv
    <2> QED BY <1>1, <1>2, <2>1, <2>2 DEF ClosedInv, Filing, InRun
  <1>4. CASE ~KeepOpening
    BY <1>1, <1>2, <1>4 DEF OpenTurn, ClosedInv, Filing, InRun
  <1> QED BY <1>3, <1>4

\* A turn is cut short: its marks stay, or its checkpoint is materialized, or the
\* session is cleared.
LEMMA CutCloses ==
    ASSUME MarksInv, ClosedInv, stage' \in {"idle", "respond"},
           \/ log' = log /\ checkpoint' = checkpoint /\ (pending => pending')
           \/ MaterializeCheckpoint
           \/ log' = <<>>
    PROVE  ClosedInv'
  <1>1. stage' \notin InRun \cup Filing \cup {"command"}
    BY DEF InRun, Filing
  <1>2. CASE log' = log /\ checkpoint' = checkpoint /\ (pending => pending')
    BY <1>1, <1>2 DEF ClosedInv, InRun
  <1>3. CASE MaterializeCheckpoint
    BY <1>1, <1>3, MaterializedCloses DEF ClosedInv, InRun
  <1>4. CASE log' = <<>>
    BY <1>1, <1>4 DEF ClosedInv, Apart, EndsWith, InRun
  <1> QED BY <1>2, <1>3, <1>4

LEMMA IdleCloses ==
    ASSUME MarksInv, ClosedInv, Idle
    PROVE  ClosedInv'
  <1>1. /\ stage' = "idle" /\ log \in Log
        /\ checkpoint' = disk.checkpoint /\ pending' = disk.pending
    BY MarksTypes DEF Idle, CompactIdle, runner, TurnTypes
  <1>2. checkpoint' = checkpoint /\ (pending => pending')
    BY <1>1, MarksTypes DEF FileInv
  <1>3. PICK a : Trimmed(log, a, Len(log))
    BY IdleMarks
  <1>4. Apart(log') /\ (EndsWith(log', {"user"}) => Len(log) \in DOMAIN log /\ log[Len(log)].kind = "user")
    BY <1>1, <1>3, ApartKept DEF ClosedInv
  <1>5. EndsWith(log', {"user"}) => pending' \/ checkpoint' # None
    <2>1. Len(log) \in DOMAIN log => log # <<>>
      OBVIOUS
    <2> QED BY <1>2, <1>4, <2>1 DEF ClosedInv, EndsWith
  <1> QED BY <1>1, <1>4, <1>5 DEF ClosedInv, InRun, Filing

LEMMA ClosedStep ==
    ASSUME Roomy, MarksInv, ClosedInv, [Next]_vars
    PROVE  ClosedInv'
  <1>1. CASE \E m \in Msg : Begin(m)
    BY <1>1 DEF Begin, ClosedInv, session, run, InRun, Filing
  <1>2. CASE \E m \in Msg : Route(m)
    BY <1>2 DEF Route, ClosedInv, Idling, session, run
  <1>3. CASE \E m \in Msg : NewInline(m)
    BY <1>3, CutCloses DEF NewInline, EndTurn
  <1>4. CASE NewShortcut
    BY <1>4, CutCloses DEF NewShortcut, ClearSession
  <1>5. CASE Respond \/ Fail
    BY <1>5, CutCloses DEF Respond, Fail, EndTurn, session
  <1>6. CASE FinishSlice
    BY <1>6, CutCloses DEF FinishSlice, EndTurn, session
  <1>7. CASE Stop
    BY <1>7, CutCloses DEF Stop, RestoreCancelled, NothingSaved, EndTurn, session
  <1>8. CASE Crash
    BY <1>8, CutCloses, MarksTypes DEF Crash, Reload, FileInv, EndTurn
  <1>9. CASE UNCHANGED vars
    BY <1>9 DEF ClosedInv, Idling, vars, session, runner, run
  <1>10. CASE Idle
    BY <1>10, IdleCloses
  <1> QED BY <1>1, <1>2, <1>3, <1>4, <1>5, <1>6, <1>7, <1>8, <1>9, <1>10, RunCloses,
             CloseExhaustedCloses, SaveTurnCloses, RestoreCloses, ShortcutCloses, BuildCloses
             DEF Next, TurnStep, Pickup

LEMMA ClosedInit ==
    ASSUME Init
    PROVE  ClosedInv
  BY DEF Init, InitSession, ClosedInv, Apart, EndsWith, InRun, Filing

\* A turn that was stopped, failed or died in a crash is closed before the next one
\* opens, wherever it was cut short: no two openings are neighbours in the history.
\* With fewer iterations than Roomy asks for, an exhausted run may have no row to hand
\* over to a slice, and leaves its opening open.
THEOREM OpeningsClosed ==
    ASSUME Roomy
    PROVE  Spec => []InterruptedTurnClosed
  <1> DEFINE Inv == MarksInv /\ ClosedInv
  <1>1. Init => Inv
    BY MarksInit, ClosedInit
  <1>2. Inv /\ [Next]_vars => Inv'
    BY MarksStep, ClosedStep
  <1>3. Inv => InterruptedTurnClosed
    BY DEF ClosedInv, Apart, InterruptedTurnClosed
  <1> QED BY <1>1, <1>2, <1>3, PTL DEF Spec
=============================================================================
