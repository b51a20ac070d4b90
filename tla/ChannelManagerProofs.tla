------------------------- MODULE ChannelManagerProofs -------------------------
(***************************************************************************)
(* The outbound delivery implements Feed, what it suppresses has been said *)
(* before, and the answer of every turn reaches its chat, for any turns,   *)
(* chats and bounds.                                                       *)
(***************************************************************************)
EXTENDS ChannelManager, SequenceTheorems, FiniteSetTheorems, TLAPS

\* The last message that has left the queue for good: it is settled or among
\* those being sent.
Frontier == IF pending # <<>> THEN taken - 1 ELSE taken

PendingInv == pending # <<>> => pending = <<taken>> /\ taken > 0

\* What is being sent is the stretch from the settled messages to the frontier.
CurrentInv == current # <<>> =>
    /\ up
    /\ Settled \in Nat /\ Settled < Frontier
    /\ current = FeedOf!Group(Frontier)
    /\ Frontier = Settled + 1 \/ FeedOf!OneStream(Frontier)

OrderInv == TypeOK /\ PendingInv /\ CurrentInv

-----------------------------------------------------------------------------
(* Publishing *)

Published(ms) == ms \in Seq(Message) /\ published' = published \o ms

\* What a turn publishes is its own.
Speaks(t, ms) == Published(ms) /\ \A k \in DOMAIN ms : ms[k].turn = t

LEMMA StreamMessages ==
    ASSUME TurnsTypeOK, NEW t \in Turn, NEW kinds \in Seq(StreamKind), Stream(t, kinds)
    PROVE  \E ms : Speaks(t, ms)
  <1>1. CASE t \in Streaming
    <2> DEFINE ms == [i \in DOMAIN kinds |-> Msg(t, kinds[i], None)]
    <2>1. Len(kinds) \in Nat /\ DOMAIN kinds = 1 .. Len(kinds)
      OBVIOUS
    <2>2. \A i \in DOMAIN kinds : Msg(t, kinds[i], None) \in Message
      BY DEF Msg, Message, TurnsTypeOK, Kind
    <2>3. ms \in Seq(Message)
      BY <2>1, <2>2
    <2>4. \A k \in DOMAIN ms : ms[k].turn = t
      BY DEF Msg
    <2> QED BY <1>1, <2>3, <2>4 DEF Stream, Say, Published, Speaks
  <1>2. CASE t \notin Streaming
    <2>1. <<>> \in Seq(Message) /\ DOMAIN <<>> = {}
      OBVIOUS
    <2> QED BY <1>2, <2>1 DEF Stream, Say, Published, Speaks
  <1> QED BY <1>1, <1>2

LEMMA Silent ==
    ASSUME TurnsTypeOK, NEW t \in Turn, published' = published \/ Say(<<>>)
    PROVE  \E ms : Speaks(t, ms)
  <1>1. <<>> \in Seq(Message) /\ published \o <<>> = published /\ DOMAIN <<>> = {}
    BY DEF TurnsTypeOK
  <1> QED BY <1>1 DEF Speaks, Published, Say

LEMMA OneMessage ==
    ASSUME TurnsTypeOK, NEW t \in Turn, NEW kind \in Kind, NEW x \in Text \cup {None},
           Say(<<Msg(t, kind, x)>>)
    PROVE  \E ms : Speaks(t, ms)
  <1>1. Msg(t, kind, x) \in Message
    BY DEF Msg, Message, TurnsTypeOK
  <1>2. <<Msg(t, kind, x)>> \in Seq(Message)
    BY <1>1
  <1>3. \A k \in DOMAIN <<Msg(t, kind, x)>> : <<Msg(t, kind, x)>>[k].turn = t
    BY DEF Msg
  <1> QED BY <1>2, <1>3 DEF Say, Published, Speaks

LEMMA SegmentTypes ==
    ASSUME TurnsTypeOK, NEW t \in Turn, NextSegment(t)
    PROVE  /\ segment' \in [Turn -> Nat] /\ parts' \in [Turn -> Nat]
           /\ \A u \in Turn : parts'[u] <= MaxParts[u]
  <1>1. segment' \in [Turn -> Nat] /\ parts' \in [Turn -> Nat]
    BY DEF NextSegment, TurnsTypeOK
  <1>2. ASSUME NEW u \in Turn PROVE parts'[u] <= MaxParts[u]
    <2>1. parts[u] <= MaxParts[u] /\ parts' = [parts EXCEPT ![t] = 0] /\ parts \in [Turn -> Nat]
      BY DEF NextSegment, TurnsTypeOK
    <2>2. MaxParts[u] \in Nat
      BY OutputAssumption
    <2>3. 0 <= MaxParts[u]
      BY <2>2
    <2>4. CASE u = t
      BY <2>1, <2>3, <2>4
    <2>5. CASE u # t
      BY <2>1, <2>5
    <2> QED BY <2>4, <2>5
  <1> QED BY <1>1, <1>2

LEMMA StoppedTypes ==
    ASSUME TurnsTypeOK, NEW t \in Turn, NEW how \in {"closing", "failing", "done"},
           NEW why \in Reason, NEW given \in {None, "streamed", "unstreamed"},
           Stopped(t, how, why, given)
    PROVE  /\ phase' \in [Turn -> {"waiting", "asking", "finalizing", "closing", "failing", "done"}]
           /\ reason' \in [Turn -> Reason]
           /\ answer' \in [Turn -> {None, "streamed", "unstreamed"}]
           /\ resumed' \subseteq Turn
  BY DEF Stopped, TurnsTypeOK

LEMMA StopTypes ==
    ASSUME TurnsTypeOK, NEW t \in Turn, NEW how \in {"closing", "failing", "done"},
           NEW why \in Reason, NEW given \in {None, "streamed", "unstreamed"},
           NextSegment(t), Stopped(t, how, why, given), UNCHANGED <<notes, told>>,
           published' \in Seq(Message)
    PROVE  TurnsTypeOK'
  BY StoppedTypes, SegmentTypes DEF TurnsTypeOK

\* A step of a turn publishes some messages, and keeps the types.
LEMMA TurnPublishes ==
    ASSUME TurnsTypeOK, NEW t \in Turn, TurnStep(t)
    PROVE  TurnsTypeOK' /\ \E ms : Speaks(t, ms)
  <1> USE OutputAssumption DEF ending
  <1>0. ASSUME NEW ms, Speaks(t, ms) PROVE published' \in Seq(Message)
    BY <1>0 DEF Speaks, Published, TurnsTypeOK
  <1>k. \A k \in {"delta", "pause", "end"} : <<k>> \in Seq(StreamKind)
    BY DEF StreamKind
  <1>1. CASE Start(t)
    BY <1>1, Silent DEF Start, TurnsTypeOK
  <1>2. CASE Delta(t)
    <2>1. \E ms : Speaks(t, ms)
      BY <1>2, <1>k, StreamMessages DEF Delta
    <2> QED BY <1>0, <1>2, <2>1 DEF Delta, TurnsTypeOK
  <1>3. CASE Pause(t)
    <2>1. \E ms : Speaks(t, ms)
      BY <1>3, <1>k, StreamMessages DEF Pause
    <2> QED BY <1>0, <1>3, <2>1, SegmentTypes DEF Pause, TurnsTypeOK
  <1>4. CASE Blank(t)
    <2>1. \E ms : Speaks(t, ms)
      BY <1>4, <1>k, StreamMessages DEF Blank
    <2> QED BY <1>0, <1>4, <2>1, SegmentTypes DEF Blank, TurnsTypeOK
  <1>5. CASE Conclude(t)
    <2>1. \E ms : Speaks(t, ms)
      BY <1>5, <1>k, StreamMessages DEF Conclude
    <2>2. published' \in Seq(Message) /\ NextSegment(t) /\ UNCHANGED <<notes, told>>
      BY <1>0, <1>5, <2>1 DEF Conclude
    <2>3. \E given \in {None, "streamed", "unstreamed"} : Stopped(t, "closing", reason[t], given)
      BY <1>5 DEF Conclude
    <2>4. reason[t] \in Reason
      BY DEF TurnsTypeOK
    <2> QED BY <2>1, <2>2, <2>3, <2>4, StopTypes
  <1>16. CASE ConcludeBlank(t)
    <2>1. \E ms : Speaks(t, ms)
      BY <1>16, <1>k, StreamMessages DEF ConcludeBlank
    <2> QED BY <1>0, <1>16, <2>1, StopTypes DEF ConcludeBlank, Reason
  <1>6. CASE Fail(t)
    <2>1. \E ms : Speaks(t, ms)
      BY <1>6, <1>k, StreamMessages DEF Fail
    <2> QED BY <1>0, <1>6, <2>1, StopTypes DEF Fail, Reason
  <1>7. CASE FailTool(t)
    BY <1>7, Silent, StoppedTypes DEF FailTool, Reason, TurnsTypeOK
  <1>8. CASE Drained(t)
    BY <1>8, Silent DEF Drained, TurnsTypeOK
  <1>9. CASE Exhaust(t)
    <2>1. <<"delta", "end">> \in Seq(StreamKind)
      BY DEF StreamKind
    <2>2. \E ms : Speaks(t, ms)
      BY <1>9, <2>1, StreamMessages DEF Exhaust
    <2> QED BY <1>0, <1>9, <2>2, StopTypes DEF Exhaust, Reason
  <1>17. CASE HandOver(t)
    BY <1>17, Silent, StoppedTypes DEF HandOver, Reason, TurnsTypeOK
  <1>10. ASSUME NEW x \in Text, Tell(t, x) PROVE TurnsTypeOK' /\ \E ms : Speaks(t, ms)
    <2>1. \E ms : Speaks(t, ms)
      BY <1>10, OneMessage DEF Tell, Kind
    <2> QED BY <1>0, <1>10, <2>1 DEF Tell, TurnsTypeOK
  <1>11. ASSUME NEW x \in Text, Answer(t, x) PROVE TurnsTypeOK' /\ \E ms : Speaks(t, ms)
    <2>1. AnswerKind(t) \in Kind
      BY DEF AnswerKind, Kind
    <2>2. \E ms : Speaks(t, ms)
      BY <1>11, <2>1, OneMessage DEF Answer
    <2> QED BY <1>0, <1>11, <2>2 DEF Answer, Done, TurnsTypeOK
  <1>12. CASE AnswerTold(t)
    <2>1. \E ms : Speaks(t, ms)
      BY <1>12, OneMessage DEF AnswerTold, Kind
    <2> QED BY <1>0, <1>12, <2>1 DEF AnswerTold, Done, TurnsTypeOK
  <1>13. CASE Stop(t)
    <2>1. \E ms : Speaks(t, ms)
      BY <1>13, Silent DEF Stop, Cut
    <2> QED BY <1>0, <1>13, <2>1 DEF Stop, Cut, Done, TurnsTypeOK
  <1>14. CASE Raise(t)
    <2>1. \E ms : Speaks(t, ms)
      BY <1>14, OneMessage DEF Raise, Cut, Kind
    <2> QED BY <1>0, <1>14, <2>1 DEF Raise, Cut, Done, TurnsTypeOK
  <1>15. ASSUME NEW kind \in NoteKind, Note(t, kind) PROVE TurnsTypeOK' /\ \E ms : Speaks(t, ms)
    <2>1. \E ms : Speaks(t, ms)
      BY <1>15, OneMessage DEF Note, Kind
    <2> QED BY <1>0, <1>15, <2>1 DEF Note, TurnsTypeOK
  <1> QED BY <1>1, <1>2, <1>3, <1>4, <1>5, <1>6, <1>7, <1>8, <1>9, <1>10, <1>11, <1>12, <1>13,
             <1>14, <1>15, <1>16, <1>17 DEF TurnStep

-----------------------------------------------------------------------------
(* The messages that were published before keep their positions *)

LEMMA Growth ==
    ASSUME TurnsTypeOK, NEW ms, Published(ms)
    PROVE  /\ Len(published) \in Nat /\ Len(published') = Len(published) + Len(ms) /\ Len(ms) \in Nat
           /\ \A i \in 1 .. Len(published) : published'[i] = published[i] /\ published[i] \in Message
           /\ ms = <<>> => published' = published
           /\ ms # <<>> => Len(published') > Len(published)
  BY DEF Published, TurnsTypeOK

LEMMA PublishedKept ==
    ASSUME TypeOK, NEW t \in Turn, TurnStep(t), UNCHANGED manager
    PROVE  /\ TypeOK'
           /\ FeedOf!Publish \/ UNCHANGED published
           /\ Len(published) \in Nat /\ Len(published') \in Nat /\ Len(published) <= Len(published')
           /\ \A i \in 1 .. Len(published) : published'[i] = published[i]
  <1>1. TurnsTypeOK /\ TurnsTypeOK'
    BY TurnPublishes DEF TypeOK
  <1>2. PICK ms : Published(ms)
    BY <1>1, TurnPublishes DEF Speaks
  <1>3. /\ Len(published) \in Nat /\ Len(published') \in Nat /\ Len(published) <= Len(published')
        /\ \A i \in 1 .. Len(published) : published'[i] = published[i]
        /\ ms = <<>> => published' = published
        /\ ms # <<>> => Len(published') > Len(published)
    BY <1>1, <1>2, Growth
  <1>4. Position \subseteq Position' /\ Len(published) <= Len(published')
    BY <1>3 DEF Position
  <1>5. TypeOK'
    <2>1. /\ pending \in Seq(Position') /\ current \in Seq(Position')
          /\ shown \in [Chat -> Seq(Position')]
          /\ suppressed \subseteq Position' /\ lost \subseteq Position'
      BY <1>4 DEF TypeOK
    <2>2. taken \in 0 .. Len(published')
      BY <1>3 DEF TypeOK
    <2> QED BY <1>1, <2>1, <2>2 DEF TypeOK, manager
  <1>6. UNCHANGED <<Settled, shown>>
    BY DEF manager, Settled
  <1>7. DOMAIN published = 1 .. Len(published)
    BY <1>1 DEF TurnsTypeOK
  <1> QED BY <1>3, <1>5, <1>6, <1>7 DEF FeedOf!Publish

LEMMA TurnOrder ==
    ASSUME OrderInv, NEW t \in Turn, TurnStep(t), UNCHANGED manager
    PROVE  OrderInv' /\ [FeedOf!Next]_<<published, Settled, shown>>
  <1>1. /\ TypeOK'
        /\ FeedOf!Publish \/ UNCHANGED published
        /\ Len(published) \in Nat /\ Len(published') \in Nat /\ Len(published) <= Len(published')
        /\ \A i \in 1 .. Len(published) : published'[i] = published[i]
    BY PublishedKept DEF OrderInv
  <1>2. PendingInv' /\ UNCHANGED <<Settled, Frontier, shown, current, up>>
    BY DEF manager, Settled, Frontier, OrderInv, PendingInv
  <1>3. CurrentInv'
    <2> SUFFICES ASSUME current # <<>> PROVE CurrentInv'
      BY <1>2 DEF CurrentInv
    <2>1. Settled \in Nat /\ Settled < Frontier /\ up /\ current = FeedOf!Group(Frontier)
          /\ (Frontier = Settled + 1 \/ FeedOf!OneStream(Frontier))
      BY DEF OrderInv, CurrentInv
    <2>2. Frontier \in Nat /\ Frontier <= Len(published)
      BY <1>1, <2>1 DEF OrderInv, TypeOK, Frontier, PendingInv
    <2>3. FeedOf!OneStream(Frontier) => FeedOf!OneStream(Frontier)'
      BY <1>1, <1>2, <2>1, <2>2 DEF FeedOf!OneStream
    <2>4. FeedOf!Group(Frontier)' = FeedOf!Group(Frontier)
      BY <1>2 DEF FeedOf!Group
    <2> QED BY <1>2, <2>1, <2>3, <2>4 DEF CurrentInv
  <1> QED BY <1>1, <1>2, <1>3 DEF OrderInv, FeedOf!Next

-----------------------------------------------------------------------------
(* Taking messages in order *)

LEMMA FrontIsNext ==
    ASSUME OrderInv, Ready
    PROVE  /\ up /\ current = <<>> /\ Rest = <<>>
           /\ Front = Settled + 1 /\ Taken = Front /\ Front \in Position /\ Settled \in Nat
           /\ Len(published) \in Nat
  <1>1. current = <<>> /\ up /\ taken \in Nat /\ taken <= Len(published) /\ Len(published) \in Nat
    BY DEF Ready, OrderInv, TypeOK, TurnsTypeOK
  <1>2. CASE pending = <<>>
    BY <1>1, <1>2 DEF Ready, Front, Taken, Rest, Settled, Position
  <1>3. CASE pending # <<>>
    <2>1. pending = <<taken>> /\ taken > 0
      BY <1>3 DEF OrderInv, PendingInv
    <2>2. Head(pending) = taken /\ Tail(pending) = <<>>
      BY <2>1
    <2> QED BY <1>1, <1>3, <2>1, <2>2 DEF Front, Taken, Rest, Settled, Position
  <1> QED BY <1>2, <1>3

\* A position that is passed over is settled, unshown.
LEMMA Passed ==
    ASSUME OrderInv, TakeFront, UNCHANGED <<up, current, published, shown>>
    PROVE  /\ PendingInv' /\ CurrentInv'
           /\ Settled' = Settled + 1 /\ FeedOf!Next
  <1>1. /\ current = <<>> /\ Rest = <<>> /\ Front = Settled + 1 /\ Taken = Front
        /\ Front \in Position /\ Settled \in Nat /\ Len(published) \in Nat
    BY FrontIsNext DEF TakeFront
  <1>2. taken' = Settled + 1 /\ pending' = <<>> /\ current' = <<>>
    BY <1>1 DEF TakeFront
  <1>3. Settled' = Settled + 1
    BY <1>2 DEF Settled
  <1>4. Settled + 1 \in Settled + 1 .. Len(published)
    BY <1>1 DEF Position
  <1>5. FeedOf!Serve(Settled + 1)
    BY <1>3 DEF FeedOf!Serve
  <1> QED BY <1>2, <1>3, <1>4, <1>5 DEF PendingInv, CurrentInv, FeedOf!Next

LEMMA TakeTypes ==
    ASSUME OrderInv, TakeFront
    PROVE  taken' \in 0 .. Len(published) /\ pending' \in Seq(Position)
  <1>1. Rest = <<>> /\ Taken = Front /\ Front \in Position /\ Len(published) \in Nat
    BY FrontIsNext DEF TakeFront
  <1> QED BY <1>1 DEF TakeFront, Position

LEMMA DropOrder ==
    ASSUME OrderInv, Drop, UNCHANGED turns
    PROVE  OrderInv' /\ [FeedOf!Next]_<<published, Settled, shown>>
  <1>1. TypeOK'
    BY TakeTypes DEF Drop, OrderInv, TypeOK, turns, ending, TurnsTypeOK, Position
  <1>2. UNCHANGED <<up, current, published, shown>> /\ TakeFront
    BY DEF Drop, turns
  <1> QED BY <1>1, <1>2, Passed DEF OrderInv

LEMMA SuppressOrder ==
    ASSUME OrderInv, Suppress, UNCHANGED turns
    PROVE  OrderInv' /\ [FeedOf!Next]_<<published, Settled, shown>>
  <1>1. Front \in Position
    BY FrontIsNext DEF Suppress, TakeFront
  <1>2. TypeOK'
    BY <1>1, TakeTypes DEF Suppress, OrderInv, TypeOK, turns, ending, TurnsTypeOK, Position
  <1>3. UNCHANGED <<up, current, published, shown>> /\ TakeFront
    BY DEF Suppress, turns
  <1> QED BY <1>2, <1>3, Passed DEF OrderInv

LEMMA MessageAt ==
    ASSUME TypeOK, NEW i \in Position
    PROVE  published[i].text \in Text \cup {None} /\ published[i].turn \in Turn
  <1>1. published[i] \in Message
    BY DEF TypeOK, TurnsTypeOK, Position
  <1> QED BY <1>1 DEF Message

LEMMA FingerprintTypes ==
    ASSUME OrderInv, NEW i \in Position
    PROVE  Fingerprinted(i) \in [Chat \X (Source \ {None}) -> Text \cup {None}]
  <1>1. published[i].text \in Text \cup {None}
    BY MessageAt DEF OrderInv
  <1>2. fingerprints \in [Chat \X (Source \ {None}) -> Text \cup {None}]
    BY DEF OrderInv, TypeOK
  <1> QED BY <1>1, <1>2 DEF Fingerprinted

LEMMA TakeOrder ==
    ASSUME OrderInv, TakeMessage, UNCHANGED turns
    PROVE  OrderInv' /\ UNCHANGED <<published, Settled, shown>>
  <1>1. /\ up /\ current = <<>> /\ Rest = <<>> /\ Front = Settled + 1 /\ Taken = Front
        /\ Front \in Position /\ Settled \in Nat /\ Len(published) \in Nat
    BY FrontIsNext DEF TakeMessage, TakeFront
  <1>2. taken' = Front /\ pending' = <<>> /\ current' = <<Front>> /\ up'
    BY <1>1 DEF TakeMessage, TakeFront
  <1>3. Head(current') = Front /\ current' # <<>> /\ current' \in Seq(Position)
    BY <1>1, <1>2
  <1>4. Settled' = Settled
    BY <1>1, <1>3 DEF Settled
  <1>5. Frontier' = Settled + 1
    BY <1>1, <1>2 DEF Frontier
  <1>6. FeedOf!Group(Frontier)' = <<Front>>
    <2>1. FeedOf!Group(Frontier)' = [i \in 1 .. 1 |-> Settled + i]
      BY <1>1, <1>4, <1>5 DEF FeedOf!Group
    <2> QED BY <1>1, <2>1
  <1>7. TypeOK'
    BY <1>1, <1>3, TakeTypes, FingerprintTypes
       DEF TakeMessage, OrderInv, TypeOK, turns, ending, TurnsTypeOK, Position
  <1>8. CurrentInv'
    BY <1>1, <1>2, <1>4, <1>5, <1>6 DEF CurrentInv
  <1> QED BY <1>2, <1>4, <1>7, <1>8 DEF OrderInv, PendingInv, TakeMessage, turns

-----------------------------------------------------------------------------
(* Merging *)

\* What a merge takes, is a stretch of one stream behind the settled messages.
LEMMA MergedStretch ==
    ASSUME OrderInv, Ready, published[Front].kind = "delta",
           NEW n \in 0 .. Len(published) - Taken, Joining(n)
    PROVE  /\ Settled + 1 + n \in Settled + 1 .. Len(published)
           /\ Merged(n) = FeedOf!Group(Settled + 1 + n) /\ Merged(n) \in Seq(Position)
           /\ Merged(n) # <<>> /\ Head(Merged(n)) = Settled + 1
           /\ FeedOf!OneStream(Settled + 1 + n)
  <1>1. /\ Front = Settled + 1 /\ Taken = Front /\ Front \in Position
        /\ Settled \in Nat /\ Len(published) \in Nat
    BY FrontIsNext
  <1>2. n \in Nat /\ Settled + 1 + n <= Len(published)
    BY <1>1 DEF Position
  <1> DEFINE joined == [k \in 1 .. n |-> Settled + 1 + k]
  <1>3. joined \in Seq(Position) /\ Len(joined) = n
    <2>1. \A k \in 1 .. n : Settled + 1 + k \in Position
      BY <1>1, <1>2 DEF Position
    <2> QED BY <1>2, <2>1
  <1>4. <<Settled + 1>> \in Seq(Position)
    BY <1>1
  <1>5. Merged(n) = <<Settled + 1>> \o joined
    BY <1>1 DEF Merged
  <1>6. Len(Merged(n)) = n + 1 /\ Merged(n) \in Seq(Position)
    BY <1>2, <1>3, <1>4, <1>5
  <1>7. \A i \in 1 .. n + 1 : Merged(n)[i] = Settled + i
    <2> TAKE i \in 1 .. n + 1
    <2>1. CASE i = 1
      BY <1>3, <1>4, <1>5, <2>1
    <2>2. CASE i # 1
      <3>1. i - 1 \in 1 .. n /\ Merged(n)[i] = joined[i - 1]
        BY <1>2, <1>3, <1>4, <1>5, <2>2
      <3>2. joined[i - 1] = Settled + 1 + (i - 1)
        BY <3>1
      <3> QED BY <1>1, <1>2, <3>1, <3>2
    <2> QED BY <2>1, <2>2
  <1>8. Merged(n) = FeedOf!Group(Settled + 1 + n)
    <2>1. FeedOf!Group(Settled + 1 + n) = [i \in 1 .. n + 1 |-> Settled + i]
      BY <1>1, <1>2 DEF FeedOf!Group
    <2>2. DOMAIN Merged(n) = 1 .. n + 1 /\ Merged(n) = [i \in DOMAIN Merged(n) |-> Merged(n)[i]]
      BY <1>2, <1>6
    <2> QED BY <1>7, <2>1, <2>2
  <1>9. FeedOf!OneStream(Settled + 1 + n)
    <2>1. \A j \in Settled + 1 .. Settled + 1 + n : Joins(Settled + 1, j)
      <3> TAKE j \in Settled + 1 .. Settled + 1 + n
      <3>1. CASE j = Settled + 1
        BY <1>1, <3>1 DEF Joins
      <3>2. CASE j # Settled + 1
        BY <1>1, <1>2, <3>2 DEF Joining
      <3> QED BY <3>1, <3>2
    <2>2. Settled + 1 + n \in Settled + 1 .. Settled + 1 + n
      BY <1>1, <1>2
    <2> QED BY <2>1, <2>2 DEF Joins, FeedOf!OneStream
  <1>10. Merged(n) # <<>> /\ Head(Merged(n)) = Settled + 1
    BY <1>1, <1>2, <1>6, <1>7
  <1>11. Settled + 1 + n \in Settled + 1 .. Len(published)
    <2>1. \A a, b, l \in Nat : a + 1 + b <= l => a + 1 + b \in a + 1 .. l
      OBVIOUS
    <2> QED BY <1>1, <1>2, <2>1
  <1> QED BY <1>6, <1>8, <1>9, <1>10, <1>11

LEMMA CoalesceOrder ==
    ASSUME OrderInv, Coalesce, UNCHANGED turns
    PROVE  OrderInv' /\ [FeedOf!Next]_<<published, Settled, shown>>
  <1>1. /\ up /\ current = <<>> /\ Rest = <<>> /\ Front = Settled + 1 /\ Taken = Front
        /\ Front \in Position /\ Settled \in Nat /\ Len(published) \in Nat
    BY FrontIsNext DEF Coalesce
  <1>2. PICK n \in 0 .. Len(published) - Taken :
          /\ Joining(n)
          /\ current' = IF ChatAt(Front) \in Reachable THEN Merged(n) ELSE <<>>
          /\ IF Taken + n < Len(published)
             THEN taken' = Taken + n + 1 /\ pending' = Append(Rest, Taken + n + 1)
             ELSE taken' = Taken + n /\ pending' = Rest
    BY DEF Coalesce
  <1> DEFINE k == Settled + 1 + n
  <1>3. /\ k \in Settled + 1 .. Len(published)
        /\ Merged(n) = FeedOf!Group(k) /\ Merged(n) \in Seq(Position)
        /\ Merged(n) # <<>> /\ Head(Merged(n)) = Settled + 1
        /\ FeedOf!OneStream(k)
    BY <1>2, MergedStretch DEF Coalesce
  <1>4. UNCHANGED <<published, shown, up>>
    BY DEF Coalesce, turns
  <1>5. /\ PendingInv' /\ Frontier' = k
        /\ taken' \in 0 .. Len(published) /\ pending' \in Seq(Position)
    <2>1. n \in Nat
      BY <1>1, <1>2
    <2>2. CASE k < Len(published)
      <3>1. taken' = k + 1 /\ pending' = <<k + 1>>
        BY <1>1, <1>2, <2>1, <2>2
      <3>2. k + 1 \in Position /\ k + 1 > 0
        BY <1>1, <2>1, <2>2 DEF Position
      <3> QED BY <1>1, <2>1, <2>2, <3>1, <3>2 DEF PendingInv, Frontier
    <2>3. CASE ~(k < Len(published))
      <3>1. taken' = k /\ pending' = <<>>
        BY <1>1, <1>2, <2>1, <2>3
      <3> QED BY <1>1, <1>3, <2>1, <3>1 DEF PendingInv, Frontier
    <2> QED BY <2>2, <2>3
  <1>6. TypeOK'
    <2>1. current' \in Seq(Position)
      BY <1>2, <1>3
    <2> QED BY <1>4, <1>5, <2>1 DEF OrderInv, TypeOK, Coalesce, turns, ending, TurnsTypeOK, Position
  <1>7. CASE ChatAt(Front) \in Reachable
    <2>1. current' = FeedOf!Group(k) /\ current' # <<>> /\ Head(current') = Settled + 1
      BY <1>2, <1>3, <1>7
    <2>2. Settled' = Settled
      BY <1>1, <2>1 DEF Settled
    <2>3. CurrentInv'
      <3>1. FeedOf!Group(Frontier)' = FeedOf!Group(k)
        BY <1>5, <2>2 DEF FeedOf!Group
      <3>2. FeedOf!OneStream(Frontier)'
        BY <1>3, <1>4, <1>5, <2>2 DEF FeedOf!OneStream
      <3> QED BY <1>1, <1>3, <1>4, <1>5, <2>1, <2>2, <3>1, <3>2 DEF CurrentInv
    <2> QED BY <1>4, <1>5, <1>6, <2>2, <2>3 DEF OrderInv
  <1>8. CASE ChatAt(Front) \notin Reachable
    <2>1. current' = <<>>
      BY <1>2, <1>8
    <2>2. Settled' = k
      <3>1. pending' # <<>> => Head(pending') = taken'
        BY <1>5 DEF PendingInv
      <3> QED BY <1>5, <2>1, <3>1 DEF Settled, Frontier
    <2>3. FeedOf!Serve(k)
      BY <1>3, <1>4, <2>2 DEF FeedOf!Serve
    <2> QED BY <1>3, <1>5, <1>6, <2>1, <2>3 DEF OrderInv, CurrentInv, FeedOf!Next
  <1> QED BY <1>7, <1>8

-----------------------------------------------------------------------------
(* Sending *)

\* All that is being sent goes to one chat.
LEMMA SendingOne ==
    ASSUME OrderInv, current # <<>>
    PROVE  /\ up /\ Frontier \in Settled + 1 .. Len(published) /\ Frontier \in Position
           /\ Settled \in Nat /\ Settled + 1 \in Position
           /\ current = FeedOf!Group(Frontier) /\ Head(current) = Settled + 1
           /\ ChatOf[published[Frontier].turn] = ChatAt(Head(current))
           /\ Frontier = Settled + 1 \/ FeedOf!OneStream(Frontier)
  <1>1. /\ up /\ Settled \in Nat /\ Settled < Frontier /\ current = FeedOf!Group(Frontier)
        /\ Frontier = Settled + 1 \/ FeedOf!OneStream(Frontier)
    BY DEF OrderInv, CurrentInv
  <1>2. Frontier \in Int /\ Frontier <= Len(published) /\ Len(published) \in Nat
    BY DEF OrderInv, TypeOK, TurnsTypeOK, Frontier, PendingInv
  <1>3. Head(current) = Settled + 1
    BY <1>1, <1>2 DEF FeedOf!Group
  <1>4. Settled + 1 \in Settled + 1 .. Frontier
    BY <1>1, <1>2
  <1>5. ChatOf[published[Frontier].turn] = ChatAt(Settled + 1)
    BY <1>1, <1>4 DEF ChatAt, FeedOf!OneStream
  <1> QED BY <1>1, <1>2, <1>3, <1>5 DEF Position

LEMMA ReachTypes ==
    ASSUME OrderInv, current # <<>>, Reach
    PROVE  /\ shown' \in [Chat -> Seq(Position)]
           /\ FeedOf!Shown(Frontier)
  <1>1. shown \in [Chat -> Seq(Position)] /\ current \in Seq(Position)
    BY DEF OrderInv, TypeOK
  <1>2. shown' \in [Chat -> Seq(Position)]
    <2>1. \A c \in Chat : shown[c] \o current \in Seq(Position)
      BY <1>1
    <2> QED BY <1>1, <2>1 DEF Reach
  <1>3. FeedOf!Shown(Frontier)
    BY SendingOne DEF Reach, FeedOf!Shown
  <1> QED BY <1>2, <1>3

\* A send that is over settles what was sent.
LEMMA Sent ==
    ASSUME OrderInv, current # <<>>, current' = <<>>, UNCHANGED <<published, taken, pending>>,
           Reach \/ UNCHANGED shown
    PROVE  /\ PendingInv' /\ CurrentInv' /\ shown' \in [Chat -> Seq(Position)]
           /\ FeedOf!Next
  <1>1. /\ Frontier \in Settled + 1 .. Len(published)
        /\ Frontier = Settled + 1 \/ FeedOf!OneStream(Frontier)
    BY SendingOne
  <1>2. Settled' = Frontier
    BY DEF OrderInv, PendingInv, Settled, Frontier
  <1>3. FeedOf!Shown(Frontier) \/ shown' = shown
    BY ReachTypes
  <1>4. FeedOf!Serve(Frontier)
    BY <1>1, <1>2, <1>3 DEF FeedOf!Serve
  <1>5. shown' \in [Chat -> Seq(Position)]
    BY ReachTypes DEF OrderInv, TypeOK
  <1> QED BY <1>1, <1>4, <1>5 DEF OrderInv, PendingInv, CurrentInv, FeedOf!Next

LEMMA SendDoneOrder ==
    ASSUME OrderInv, SendDone, UNCHANGED turns
    PROVE  OrderInv' /\ [FeedOf!Next]_<<published, Settled, shown>>
  <1>1. PendingInv' /\ CurrentInv' /\ shown' \in [Chat -> Seq(Position)] /\ FeedOf!Next
    BY Sent DEF SendDone, turns
  <1>2. 0 \in 0 .. MaxAttempts - 1
    BY ManagerAssumption
  <1>3. TypeOK'
    BY <1>1, <1>2 DEF SendDone, OrderInv, TypeOK, turns, ending, TurnsTypeOK, Position
  <1> QED BY <1>1, <1>3 DEF OrderInv

LEMMA SendFailedOrder ==
    ASSUME OrderInv, SendFailed, UNCHANGED turns
    PROVE  OrderInv' /\ [FeedOf!Next]_<<published, Settled, shown>>
  <1>1. current # <<>> /\ failures' \in 0 .. MaxFailures /\ UNCHANGED <<published, taken, pending>>
    BY ManagerAssumption DEF SendFailed, OrderInv, TypeOK, turns
  <1>2. Reach \/ UNCHANGED shown
    BY DEF SendFailed
  <1>3. CASE LastAttempt
    <2>1. current' = <<>> /\ attempt' = 0 /\ lost' = lost \cup {current[k] : k \in DOMAIN current}
      BY <1>3 DEF SendFailed
    <2>2. PendingInv' /\ CurrentInv' /\ shown' \in [Chat -> Seq(Position)] /\ FeedOf!Next
      BY <1>1, <1>2, <2>1, Sent
    <2>3. lost' \subseteq Position
      BY <2>1 DEF OrderInv, TypeOK
    <2>4. 0 \in 0 .. MaxAttempts - 1
      BY ManagerAssumption
    <2>5. TypeOK'
      BY <1>1, <2>1, <2>2, <2>3, <2>4 DEF SendFailed, OrderInv, TypeOK, turns, ending, TurnsTypeOK, Position
    <2> QED BY <2>2, <2>5 DEF OrderInv
  <1>4. CASE ~LastAttempt
    <2>1. attempt' = attempt + 1 /\ UNCHANGED <<current, lost>>
      BY <1>4 DEF SendFailed
    <2>2. attempt' \in 0 .. MaxAttempts - 1
      BY <1>4, <2>1, ManagerAssumption DEF LastAttempt, OrderInv, TypeOK
    <2>3. shown' \in [Chat -> Seq(Position)] /\ (FeedOf!Shown(Frontier) \/ shown' = shown)
      BY <1>1, <1>2, ReachTypes DEF OrderInv, TypeOK
    <2>4. UNCHANGED <<Settled, Frontier, up>>
      BY <1>1, <2>1 DEF Settled, Frontier, SendFailed
    <2>5. PendingInv' /\ CurrentInv'
      <3>1. FeedOf!Group(Frontier)' = FeedOf!Group(Frontier)
        BY <2>4 DEF FeedOf!Group
      <3>2. FeedOf!OneStream(Frontier) => FeedOf!OneStream(Frontier)'
        BY <1>1, <2>4 DEF FeedOf!OneStream
      <3> QED BY <1>1, <2>1, <2>4, <3>1, <3>2 DEF OrderInv, PendingInv, CurrentInv
    <2>6. TypeOK'
      BY <1>1, <2>1, <2>2, <2>3 DEF SendFailed, OrderInv, TypeOK, turns, ending, TurnsTypeOK, Position
    <2>7. FeedOf!Next
      <3>1. /\ Frontier \in Settled + 1 .. Len(published)
            /\ Frontier = Settled + 1 \/ FeedOf!OneStream(Frontier)
        BY <1>1, SendingOne
      <3>2. FeedOf!Serve(Frontier)
        BY <1>1, <2>3, <2>4, <3>1 DEF FeedOf!Serve
      <3> QED BY <3>1, <3>2 DEF FeedOf!Next
    <2> QED BY <2>5, <2>6, <2>7 DEF OrderInv
  <1> QED BY <1>3, <1>4

LEMMA StopOrder ==
    ASSUME OrderInv, StopAll, UNCHANGED turns
    PROVE  OrderInv' /\ [FeedOf!Next]_<<published, Settled, shown>>
  <1>1. /\ current' = <<>> /\ attempt' = 0 /\ up' = FALSE /\ UNCHANGED <<published, taken, pending>>
        /\ UNCHANGED <<fingerprints, suppressed, lost, failures>> /\ UNCHANGED turns
    BY DEF StopAll, turns
  <1>2. TurnsTypeOK' /\ Position' = Position
    BY <1>1 DEF OrderInv, TypeOK, turns, ending, TurnsTypeOK, Position
  <1>t. shown' \in [Chat -> Seq(Position)] => TypeOK'
    <2>1. attempt' \in 0 .. MaxAttempts - 1 /\ current' \in Seq(Position) /\ up' \in BOOLEAN
      <3>1. 0 \in 0 .. MaxAttempts - 1
        BY ManagerAssumption
      <3>2. <<>> \in Seq(Position) /\ FALSE \in BOOLEAN
        OBVIOUS
      <3> QED BY <1>1, <3>1, <3>2
    <2>2. taken' \in 0 .. Len(published')
      BY <1>1 DEF OrderInv, TypeOK
    <2>3. /\ pending' \in Seq(Position)
          /\ fingerprints' \in [Chat \X (Source \ {None}) -> Text \cup {None}]
          /\ suppressed' \subseteq Position /\ lost' \subseteq Position
          /\ failures' \in 0 .. MaxFailures
      BY <1>1 DEF OrderInv, TypeOK
    <2> QED BY <1>2, <2>1, <2>2, <2>3 DEF TypeOK
  <1>3. CASE current # <<>>
    <2>1. PendingInv' /\ CurrentInv' /\ shown' \in [Chat -> Seq(Position)] /\ FeedOf!Next
      BY <1>1, <1>3, Sent DEF StopAll
    <2>2. TypeOK'
      BY <1>t, <2>1
    <2> QED BY <2>1, <2>2 DEF OrderInv
  <1>4. CASE current = <<>>
    <2>1. UNCHANGED shown
      BY <1>4 DEF StopAll
    <2>2. UNCHANGED Settled
      BY <1>1, <1>4 DEF Settled
    <2>3. TypeOK'
      BY <1>t, <2>1 DEF OrderInv, TypeOK
    <2> QED BY <1>1, <1>4, <2>1, <2>2, <2>3 DEF OrderInv, PendingInv, CurrentInv
  <1> QED BY <1>3, <1>4

-----------------------------------------------------------------------------
(* The theorems *)

LEMMA InitOrder == Init => OrderInv /\ FeedOf!Init
  <1> SUFFICES ASSUME Init PROVE OrderInv /\ FeedOf!Init
    OBVIOUS
  <1>1. TurnsTypeOK
    <2>1. \A t \in Turn : MaxParts[t] \in Nat /\ MaxNotes[t] \in Nat
      BY OutputAssumption
    <2>2. published \in Seq(Message)
      BY DEF Init, InitTurns
    <2>3. \A t \in Turn : parts[t] <= MaxParts[t] /\ notes[t] <= MaxNotes[t]
      <3>1. \A t \in Turn : parts[t] = 0 /\ notes[t] = 0
        BY DEF Init, InitTurns
      <3>2. ASSUME NEW t \in Turn PROVE 0 <= MaxParts[t] /\ 0 <= MaxNotes[t]
        <4>1. MaxParts[t] \in Nat /\ MaxNotes[t] \in Nat
          BY <2>1
        <4> QED BY <4>1
      <3> QED BY <3>1, <3>2
    <2> QED BY <2>2, <2>3 DEF Init, InitTurns, TurnsTypeOK, Reason
  <1>2. TypeOK
    BY <1>1, ManagerAssumption DEF Init, InitTurns, TypeOK, Position
  <1>3. PendingInv /\ CurrentInv
    BY DEF Init, PendingInv, CurrentInv
  <1>4. Settled = 0
    BY DEF Init, Settled
  <1> QED BY <1>2, <1>3, <1>4 DEF OrderInv, Init, InitTurns, FeedOf!Init

LEMMA NextOrder ==
    ASSUME OrderInv, [Next]_vars
    PROVE  OrderInv' /\ [FeedOf!Next]_<<published, Settled, shown>>
  <1>1. CASE Publish
    BY <1>1, TurnOrder DEF Publish
  <1>2. CASE Drop /\ UNCHANGED turns
    BY <1>2, DropOrder
  <1>3. CASE Coalesce /\ UNCHANGED turns
    BY <1>3, CoalesceOrder
  <1>4. CASE Suppress /\ UNCHANGED turns
    BY <1>4, SuppressOrder
  <1>5. CASE TakeMessage /\ UNCHANGED turns
    BY <1>5, TakeOrder
  <1>6. CASE SendDone /\ UNCHANGED turns
    BY <1>6, SendDoneOrder
  <1>7. CASE SendFailed /\ UNCHANGED turns
    BY <1>7, SendFailedOrder
  <1>8. CASE StopAll /\ UNCHANGED turns
    BY <1>8, StopOrder
  <1>9. CASE UNCHANGED vars
    <2>1. UNCHANGED <<Settled, Frontier, published, shown>>
      BY <1>9 DEF vars, turns, manager, Settled, Frontier
    <2>2. TypeOK'
      BY <1>9 DEF vars, turns, ending, manager, OrderInv, TypeOK, TurnsTypeOK, Position
    <2>3. PendingInv' /\ CurrentInv'
      <3>1. FeedOf!Group(Frontier)' = FeedOf!Group(Frontier)
        BY <2>1 DEF FeedOf!Group
      <3>2. FeedOf!OneStream(Frontier) => FeedOf!OneStream(Frontier)'
        BY <2>1 DEF FeedOf!OneStream
      <3> QED BY <1>9, <2>1, <3>1, <3>2 DEF vars, turns, ending, manager, OrderInv, PendingInv, CurrentInv
    <2> QED BY <2>1, <2>2, <2>3 DEF OrderInv
  <1> QED BY <1>1, <1>2, <1>3, <1>4, <1>5, <1>6, <1>7, <1>8, <1>9 DEF Next, Dispatch

\* TypeOK holds in every state: what the dispatcher keeps are positions of
\* published messages, and no message is attempted more often than send_max_retries.
THEOREM OutboundTypeCorrect == Spec => []TypeOK
  <1>1. Init => OrderInv
    BY InitOrder
  <1>2. OrderInv /\ [Next]_vars => OrderInv'
    BY NextOrder
  <1>3. OrderInv => TypeOK
    BY DEF OrderInv
  <1> QED BY <1>1, <1>2, <1>3, PTL DEF Spec

\* The dispatcher implements Feed: whatever is dropped, merged, retried or given
\* up, messages are settled and shown in the order of their publication, and a
\* merged message is a stretch of one stream.
THEOREM DeliveredInOrder == Spec => ImplementsFeed
  <1>1. Init => OrderInv /\ FeedOf!Init
    BY InitOrder
  <1>2. OrderInv /\ [Next]_vars => OrderInv' /\ [FeedOf!Next]_<<published, Settled, shown>>
    BY NextOrder
  <1> QED BY <1>1, <1>2, PTL DEF Spec, ImplementsFeed, FeedOf!Spec

-----------------------------------------------------------------------------
(* What a step does to the copies that a chat was shown *)

\* A turn's step, or none: positions are added at the end.
Arrives ==
    /\ UNCHANGED <<manager, Settled, Frontier>>
    /\ Position \subseteq Position'
    /\ \A i \in Position : published'[i] = published[i]

\* The dispatcher, idle, passes over messages or takes some of them.
Takes ==
    /\ current = <<>> /\ UNCHANGED <<published, shown, lost>>
    /\ attempt' \in {attempt, 0}
    /\ Frontier = Settled /\ Settled <= Settled' /\ Settled' <= Frontier'
    /\ current' = <<>> => Settled' = Frontier'

\* An attempt ends, the last one or not, or it is cancelled.
Sends ==
    /\ current # <<>> /\ UNCHANGED <<published, fingerprints, suppressed, Frontier>>
    /\ Reach \/ UNCHANGED shown
    /\ lost \subseteq lost'
    /\ \/ /\ current' = <<>> /\ attempt' = 0 /\ Settled' = Frontier
          /\ up' => Reach \/ Head(current) \in lost'
       \/ UNCHANGED <<current, Settled>> /\ attempt' = attempt + 1

LEMMA IdleFrontier ==
    ASSUME OrderInv, current = <<>>
    PROVE  Frontier = Settled /\ Settled \in Int
  BY DEF OrderInv, TypeOK, PendingInv, Frontier, Settled

LEMMA SettledTypes ==
    ASSUME OrderInv
    PROVE  Settled \in Nat /\ Frontier \in Nat /\ Settled <= Frontier
  <1>1. CASE current = <<>>
    BY <1>1 DEF OrderInv, TypeOK, PendingInv, Frontier, Settled
  <1>2. CASE current # <<>>
    BY <1>2, SendingOne
  <1> QED BY <1>1, <1>2

LEMMA SettledNext ==
    ASSUME OrderInv'
    PROVE  /\ Settled' \in Nat /\ Frontier' \in Nat /\ Settled' <= Frontier'
           /\ current' = <<>> => Frontier' = Settled'
  <1>1. taken' \in Nat
    BY DEF OrderInv, TypeOK, TurnsTypeOK
  <1>2. pending' # <<>> => pending' = <<taken'>> /\ taken' > 0 /\ Head(pending') = taken'
    BY DEF OrderInv, PendingInv
  <1>3. /\ Frontier' \in Nat
        /\ current' = <<>> => Frontier' = Settled'
    <2>1. CASE pending' # <<>>
      <3>1. taken' - 1 \in Nat
        <4>1. taken' > 0
          BY <1>2, <2>1
        <4>2. \A x \in Nat : x > 0 => x - 1 \in Nat
          OBVIOUS
        <4> QED BY <1>1, <4>1, <4>2
      <3>2. Frontier' = taken' - 1
        BY <2>1 DEF Frontier
      <3>3. current' = <<>> => Settled' = taken' - 1
        BY <1>2, <2>1 DEF Settled
      <3> QED BY <3>1, <3>2, <3>3
    <2>2. CASE pending' = <<>>
      BY <1>1, <2>2 DEF Frontier, Settled
    <2> QED BY <2>1, <2>2
  <1>4. current' # <<>> => Settled' \in Nat /\ Settled' < Frontier'
    BY DEF OrderInv, CurrentInv
  <1> QED BY <1>3, <1>4

LEMMA StepKinds ==
    ASSUME OrderInv, [Next]_vars
    PROVE  Arrives \/ Takes \/ Sends
  <1>0. /\ Settled' \in Nat /\ Frontier' \in Nat /\ Settled' <= Frontier'
        /\ current' = <<>> => Frontier' = Settled'
    BY NextOrder, SettledNext
  <1>1. CASE Publish
    <2>1. PICK t \in Turn : TurnStep(t) /\ UNCHANGED manager
      BY <1>1 DEF Publish
    <2>2. /\ Len(published) \in Nat /\ Len(published') \in Nat /\ Len(published) <= Len(published')
          /\ \A i \in 1 .. Len(published) : published'[i] = published[i]
      BY <2>1, PublishedKept DEF OrderInv
    <2> QED BY <2>1, <2>2 DEF Arrives, manager, Settled, Frontier, Position
  <1>2. CASE UNCHANGED vars
    BY <1>2 DEF vars, turns, manager, Arrives, Settled, Frontier, Position
  <1>3. CASE (Drop \/ Suppress) /\ UNCHANGED turns
    <2>1. current = <<>>
      BY <1>3 DEF Drop, Suppress, TakeFront, Ready
    <2>2. Settled' = Settled + 1
      BY <1>3, Passed DEF Drop, Suppress, turns
    <2>3. Frontier = Settled /\ Settled \in Nat
      BY <2>1, IdleFrontier, SettledTypes
    <2>4. current' = <<>> /\ UNCHANGED <<published, shown, lost, attempt>>
      BY <1>3, <2>1 DEF Drop, Suppress, turns
    <2>5. Frontier' = Settled'
      BY <1>0, <2>4
    <2> QED BY <2>1, <2>2, <2>3, <2>4, <2>5 DEF Takes
  <1>4. CASE TakeMessage /\ UNCHANGED turns
    <2>1. current = <<>> /\ UNCHANGED <<published, shown, lost, attempt>> /\ current' = <<Front>>
      BY <1>4 DEF TakeMessage, TakeFront, Ready, turns
    <2>2. Settled' = Settled
      BY <1>4, TakeOrder
    <2>3. Frontier = Settled /\ Settled \in Nat
      BY <2>1, IdleFrontier, SettledTypes
    <2> QED BY <1>0, <2>1, <2>2, <2>3 DEF Takes
  <1>5. CASE Coalesce /\ UNCHANGED turns
    <2>1. current = <<>> /\ UNCHANGED <<published, shown, lost, attempt>>
      BY <1>5 DEF Coalesce, Ready, turns
    <2>2. Frontier = Settled /\ Settled \in Nat
      BY <2>1, IdleFrontier, SettledTypes
    <2>3. Settled <= Settled'
      <3>1. [FeedOf!Next]_<<published, Settled, shown>>
        BY <1>5, CoalesceOrder
      <3>2. CASE FeedOf!Publish
        BY <2>2, <3>2 DEF FeedOf!Publish
      <3>3. ASSUME NEW k \in Settled + 1 .. Len(published), FeedOf!Serve(k) PROVE Settled <= Settled'
        BY <2>2, <3>3 DEF FeedOf!Serve
      <3> QED BY <2>2, <3>1, <3>2, <3>3 DEF FeedOf!Next
    <2>4. current' = <<>> => Frontier' = Settled'
      BY <1>0
    <2> QED BY <1>0, <2>1, <2>2, <2>3, <2>4 DEF Takes
  <1>6. CASE (SendDone \/ SendFailed) /\ UNCHANGED turns
    <2>1. /\ current # <<>> /\ UNCHANGED <<published, taken, pending, fingerprints, suppressed>>
          /\ Reach \/ UNCHANGED shown
      BY <1>6 DEF SendDone, SendFailed, turns
    <2>2. UNCHANGED Frontier
      BY <2>1 DEF Frontier
    <2>3. current' = <<>> => Settled' = Frontier
      BY <2>1 DEF OrderInv, PendingInv, Settled, Frontier
    <2>4. current' = current => Settled' = Settled
      BY <2>1 DEF Settled
    <2>5. CASE SendDone
      BY <2>1, <2>2, <2>3, <2>5 DEF SendDone, Sends
    <2>6. CASE SendFailed /\ LastAttempt
      <3>1. Head(current) \in {current[k] : k \in DOMAIN current}
        BY <2>1 DEF OrderInv, TypeOK
      <3> QED BY <2>1, <2>2, <2>3, <2>6, <3>1 DEF SendFailed, Sends
    <2>7. CASE SendFailed /\ ~LastAttempt
      BY <2>1, <2>2, <2>4, <2>7 DEF SendFailed, Sends
    <2> QED BY <1>6, <2>5, <2>6, <2>7
  <1>7. CASE StopAll /\ UNCHANGED turns
    <2>1. /\ UNCHANGED <<published, taken, pending, fingerprints, suppressed, lost>>
          /\ current' = <<>> /\ attempt' = 0 /\ ~up'
          /\ (current # <<>> /\ Reach) \/ UNCHANGED shown
      BY <1>7 DEF StopAll, turns
    <2>2. UNCHANGED Frontier
      BY <2>1 DEF Frontier
    <2>3. Settled' = Frontier'
      BY <1>0, <2>1
    <2>4. CASE current # <<>>
      BY <2>1, <2>2, <2>3, <2>4 DEF Sends
    <2>5. CASE current = <<>>
      BY <2>1, <2>2, <2>3, <2>5, IdleFrontier DEF Takes
    <2> QED BY <2>4, <2>5
  <1> QED BY <1>1, <1>2, <1>3, <1>4, <1>5, <1>6, <1>7 DEF Next, Dispatch

LEMMA ShownTypes ==
    ASSUME TypeOK, NEW i \in Position
    PROVE  ChatAt(i) \in Chat /\ shown[ChatAt(i)] \in Seq(Position)
  <1>1. ChatAt(i) \in Chat
    BY MessageAt, OutputAssumption DEF ChatAt
  <1> QED BY <1>1 DEF TypeOK

\* The copies of a message that is sent again are those of before and a new one;
\* the others' stay.
LEMMA ReachCopies ==
    ASSUME OrderInv, current # <<>>, Reach, UNCHANGED published, NEW i \in Position
    PROVE  \/ i \in Settled + 1 .. Frontier /\
              \E k : k \notin ShownAt(i) /\ ShownAt(i)' = ShownAt(i) \cup {k}
           \/ i \notin Settled + 1 .. Frontier /\ ShownAt(i)' = ShownAt(i)
  <1>1. /\ current = [k \in 1 .. Frontier - Settled |-> Settled + k] /\ Settled \in Nat /\ Frontier \in Nat
        /\ Frontier > Settled /\ current \in Seq(Position) /\ shown \in [Chat -> Seq(Position)]
        /\ Frontier = Settled + 1 \/ FeedOf!OneStream(Frontier)
        /\ Head(current) = Settled + 1 /\ Settled + 1 \in Position
        /\ ChatOf[published[Frontier].turn] = ChatAt(Settled + 1)
    <2>1. /\ current = FeedOf!Group(Frontier) /\ Settled \in Nat /\ Frontier \in Nat
          /\ Frontier > Settled
          /\ Frontier = Settled + 1 \/ FeedOf!OneStream(Frontier)
          /\ Head(current) = Settled + 1 /\ Settled + 1 \in Position
          /\ ChatOf[published[Frontier].turn] = ChatAt(Head(current))
      BY SendingOne, SettledTypes
    <2>2. FeedOf!Group(Frontier) = [k \in 1 .. Frontier - Settled |-> Settled + k]
      BY DEF FeedOf!Group
    <2>3. current \in Seq(Position) /\ shown \in [Chat -> Seq(Position)]
      BY DEF OrderInv, TypeOK
    <2> QED BY <2>1, <2>2, <2>3
  <1> DEFINE c == ChatAt(i)
             n == Len(shown[c])
  <1>2. c \in Chat /\ c' = c /\ n \in Nat /\ shown[c] \in Seq(Position)
    BY ShownTypes DEF OrderInv, ChatAt
  <1>3. Len(current) = Frontier - Settled
    BY <1>1
  <1>4. CASE c = ChatAt(Settled + 1)
    <2>1. shown'[c] = shown[c] \o current
      BY <1>1, <1>2, <1>4 DEF Reach
    <2>2. DOMAIN shown'[c] = 1 .. n + (Frontier - Settled)
      BY <1>1, <1>2, <1>3, <2>1
    <2>3. \A k \in 1 .. n : shown'[c][k] = shown[c][k]
      BY <1>1, <1>2, <2>1
    <2>4. \A k \in 1 .. Frontier - Settled : shown'[c][n + k] = Settled + k
      <3> TAKE k \in 1 .. Frontier - Settled
      <3>1. shown'[c][n + k] = current[k]
        BY <1>1, <1>2, <1>3, <2>1
      <3> QED BY <1>1, <3>1
    <2>5. ShownAt(i)' = {k \in DOMAIN shown'[c] : shown'[c][k] = i}
      BY <1>2 DEF ShownAt
    <2>6. ShownAt(i) = {k \in 1 .. n : shown[c][k] = i}
      BY <1>2 DEF ShownAt
    <2>7. \A k \in 1 .. n + (Frontier - Settled) :
             k \in 1 .. n \/ (k - n \in 1 .. Frontier - Settled /\ k = n + (k - n))
      BY <1>1, <1>2
    <2>8. CASE i \in Settled + 1 .. Frontier
      <3> DEFINE new == n + (i - Settled)
      <3>0. i - Settled \in 1 .. Frontier - Settled
        BY <1>1, <2>8
      <3>1. new \in 1 .. n + (Frontier - Settled) /\ new \notin 1 .. n
        BY <1>1, <1>2, <3>0
      <3>2. shown'[c][new] = i
        <4>1. shown'[c][n + (i - Settled)] = Settled + (i - Settled)
          BY <2>4, <3>0
        <4>2. Settled + (i - Settled) = i
          BY <1>1, <2>8
        <4> QED BY <4>1, <4>2
      <3>3. ASSUME NEW k \in 1 .. n + (Frontier - Settled), k \notin 1 .. n, shown'[c][k] = i
            PROVE  k = new
        <4>1. k - n \in 1 .. Frontier - Settled /\ k = n + (k - n)
          BY <2>7, <3>3
        <4>2. i = Settled + (k - n)
          BY <2>4, <3>3, <4>1
        <4> QED BY <1>1, <1>2, <4>1, <4>2
      <3>4. ShownAt(i)' = ShownAt(i) \cup {new}
        BY <1>1, <1>2, <2>2, <2>3, <2>5, <2>6, <3>1, <3>2, <3>3
      <3>5. new \notin ShownAt(i)
        BY <2>6, <3>1
      <3> QED BY <2>8, <3>4, <3>5
    <2>9. CASE i \notin Settled + 1 .. Frontier
      <3>1. ASSUME NEW k \in 1 .. n + (Frontier - Settled), k \notin 1 .. n PROVE shown'[c][k] # i
        <4>1. k - n \in 1 .. Frontier - Settled /\ k = n + (k - n)
          BY <2>7, <3>1
        <4>2. shown'[c][k] = Settled + (k - n)
          BY <2>4, <4>1
        <4>3. Settled + (k - n) \in Settled + 1 .. Frontier
          <5> DEFINE d == k - n
          <5>1. d \in 1 .. Frontier - Settled
            BY <4>1
          <5> HIDE DEF d
          <5>2. Settled + d \in Settled + 1 .. Frontier
            BY <1>1, <5>1
          <5> QED BY <5>2 DEF d
        <4> QED BY <2>9, <4>2, <4>3
      <3>2. ShownAt(i)' = ShownAt(i)
        BY <1>1, <1>2, <2>2, <2>3, <2>5, <2>6, <3>1
      <3> QED BY <2>9, <3>2
    <2> QED BY <2>8, <2>9
  <1>5. CASE c # ChatAt(Settled + 1)
    <2>1. shown'[c] = shown[c]
      BY <1>1, <1>2, <1>5 DEF Reach
    <2>2. i \notin Settled + 1 .. Frontier
      <3> SUFFICES ASSUME i \in Settled + 1 .. Frontier PROVE FALSE
        OBVIOUS
      <3>1. ChatAt(i) = ChatOf[published[Frontier].turn]
        BY <1>1 DEF ChatAt, FeedOf!OneStream
      <3> QED BY <1>1, <1>5, <3>1
    <2>3. ShownAt(i)' = ShownAt(i)
      BY <1>2, <2>1 DEF ShownAt
    <2> QED BY <2>2, <2>3
  <1> QED BY <1>4, <1>5

-----------------------------------------------------------------------------
(* Every copy is an attempt *)

\* The copies there can be: none before a message is taken, then one for every
\* attempt that is over.
Allowance(i) ==
    IF i > Frontier THEN 0 ELSE IF i > Settled THEN attempt ELSE MaxAttempts

CountInv ==
    /\ OrderInv
    /\ current = <<>> => attempt = 0
    /\ \A i \in Position : Cardinality(ShownAt(i)) <= Allowance(i)

LEMMA CopiesFinite ==
    ASSUME TypeOK, NEW i \in Position
    PROVE  IsFiniteSet(ShownAt(i)) /\ Cardinality(ShownAt(i)) \in Nat
  <1>1. shown[ChatAt(i)] \in Seq(Position)
    BY ShownTypes
  <1>2. IsFiniteSet(1 .. Len(shown[ChatAt(i)]))
    BY <1>1, FS_Interval
  <1>3. ShownAt(i) \subseteq 1 .. Len(shown[ChatAt(i)])
    BY <1>1 DEF ShownAt
  <1>4. IsFiniteSet(ShownAt(i))
    BY <1>2, <1>3, FS_Subset
  <1> QED BY <1>4, FS_CardinalityType

\* A message that has just been published has not been shown.
LEMMA NewUnshown ==
    ASSUME OrderInv, OrderInv', UNCHANGED shown, NEW i \in Position', i \notin Position
    PROVE  Cardinality(ShownAt(i)') = 0
  <1>1. ShownAt(i)' = {}
    <2>1. ChatAt(i)' \in Chat
      <3>1. published'[i] \in Message
        BY DEF OrderInv, TypeOK, TurnsTypeOK, Position
      <3>2. published'[i].turn \in Turn
        BY <3>1 DEF Message
      <3> QED BY <3>2, OutputAssumption DEF ChatAt
    <2>2. shown[ChatAt(i)'] \in Seq(Position)
      BY <2>1 DEF OrderInv, TypeOK
    <2>3. \A k \in DOMAIN shown[ChatAt(i)'] : shown[ChatAt(i)'][k] \in Position
      BY <2>2
    <2>4. ShownAt(i)' = {k \in DOMAIN shown'[ChatAt(i)'] : shown'[ChatAt(i)'][k] = i}
      BY DEF ShownAt
    <2> QED BY <2>3, <2>4
  <1> QED BY <1>1, FS_EmptySet

LEMMA CountStep ==
    ASSUME CountInv, [Next]_vars
    PROVE  CountInv'
  <1>1. OrderInv /\ OrderInv' /\ (Arrives \/ Takes \/ Sends)
    BY NextOrder, StepKinds DEF CountInv
  <1>2. /\ attempt \in Nat /\ attempt + 1 <= MaxAttempts /\ attempt' \in Nat /\ MaxAttempts \in Nat
        /\ Settled \in Nat /\ Frontier \in Nat /\ Settled <= Frontier
    BY <1>1, SettledTypes, ManagerAssumption DEF OrderInv, TypeOK
  <1>3. \A i \in Position : Position \subseteq Nat /\ Cardinality(ShownAt(i)) \in Nat
                            /\ Cardinality(ShownAt(i)) <= Allowance(i)
    BY <1>1, CopiesFinite DEF CountInv, OrderInv, Position
  <1>4. CASE Arrives
    <2>1. /\ Position \subseteq Position' /\ \A i \in Position : published'[i] = published[i]
          /\ UNCHANGED <<shown, current, attempt, Settled, Frontier>>
      BY <1>4 DEF Arrives, manager
    <2>2. ASSUME NEW i \in Position' PROVE (Cardinality(ShownAt(i)) <= Allowance(i))'
      <3>1. CASE i \in Position
        <4>1. ShownAt(i)' = ShownAt(i) /\ Allowance(i)' = Allowance(i)
          BY <2>1, <3>1 DEF ShownAt, ChatAt, Allowance
        <4> QED BY <1>3, <3>1, <4>1
      <3>2. CASE i \notin Position
        <4>1. Cardinality(ShownAt(i)') = 0
          BY <1>1, <2>1, <2>2, <3>2, NewUnshown
        <4>2. 0 <= Allowance(i)'
          BY <1>2, <2>1 DEF Allowance
        <4> QED BY <4>1, <4>2
      <3> QED BY <3>1, <3>2
    <2> QED BY <1>1, <2>1, <2>2 DEF CountInv
  <1>5. CASE Takes
    <2>1. /\ current = <<>> /\ UNCHANGED <<published, shown>> /\ attempt = 0 /\ attempt' = 0
          /\ Frontier = Settled /\ Settled <= Settled' /\ Settled' <= Frontier'
      BY <1>5 DEF Takes, CountInv
    <2>2. Position' = Position
      BY <2>1 DEF Position
    <2>3. ASSUME NEW i \in Position PROVE Cardinality(ShownAt(i)') <= Allowance(i)'
      <3>1. ShownAt(i)' = ShownAt(i)
        BY <2>1 DEF ShownAt, ChatAt
      <3>2. CASE i > Frontier
        <4>1. Cardinality(ShownAt(i)) <= 0
          BY <1>3, <3>2 DEF Allowance
        <4>2. Allowance(i)' \in Nat
          BY <1>2, <2>1 DEF Allowance
        <4> QED BY <1>3, <3>1, <4>1, <4>2
      <3>3. CASE ~(i > Frontier)
        <4>1. Cardinality(ShownAt(i)) <= MaxAttempts
          BY <1>2, <1>3, <2>1, <3>3 DEF Allowance
        <4>2. Settled' \in Nat /\ Frontier' \in Nat
          BY <1>1, SettledNext
        <4>3. ~(i > Frontier') /\ ~(i > Settled')
          BY <1>2, <1>3, <2>1, <3>3, <4>2
        <4>4. Allowance(i)' = MaxAttempts
          BY <4>3 DEF Allowance
        <4> QED BY <3>1, <4>1, <4>4
      <3> QED BY <3>2, <3>3
    <2> QED BY <1>1, <2>1, <2>2, <2>3 DEF CountInv
  <1>6. CASE Sends
    <2>1. /\ current # <<>> /\ UNCHANGED <<published, Frontier>>
          /\ Reach \/ UNCHANGED shown
          /\ \/ current' = <<>> /\ attempt' = 0 /\ Settled' = Frontier
             \/ UNCHANGED <<current, Settled>> /\ attempt' = attempt + 1
      BY <1>6 DEF Sends
    <2>2. Position' = Position
      BY <2>1 DEF Position
    <2>3. ASSUME NEW i \in Position PROVE Cardinality(ShownAt(i)') <= Allowance(i)'
      <3>1. CASE i \notin Settled + 1 .. Frontier
        <4>1. ShownAt(i)' = ShownAt(i)
          BY <1>1, <2>1, <3>1, ReachCopies DEF ShownAt, ChatAt
        <4>2. i > Frontier \/ ~(i > Settled)
          BY <1>2, <1>3, <3>1
        <4>3. Allowance(i)' = Allowance(i)
          BY <1>2, <1>3, <2>1, <4>2 DEF Allowance
        <4> QED BY <1>3, <4>1, <4>3
      <3>2. CASE i \in Settled + 1 .. Frontier
        <4>1. /\ Cardinality(ShownAt(i)') \in Nat
              /\ Cardinality(ShownAt(i)') <= Cardinality(ShownAt(i)) + 1
          <5>1. CASE UNCHANGED shown
            <6>1. ShownAt(i)' = ShownAt(i)
              BY <2>1, <5>1 DEF ShownAt, ChatAt
            <6> QED BY <1>3, <6>1
          <5>2. CASE Reach
            <6>1. PICK k : k \notin ShownAt(i) /\ ShownAt(i)' = ShownAt(i) \cup {k}
              BY <1>1, <2>1, <3>2, <5>2, ReachCopies
            <6>2. IsFiniteSet(ShownAt(i))
              BY <1>1, CopiesFinite DEF OrderInv
            <6>3. Cardinality(ShownAt(i) \cup {k}) = Cardinality(ShownAt(i)) + 1
              BY <6>1, <6>2, FS_AddElement
            <6> QED BY <1>3, <6>1, <6>3
          <5> QED BY <2>1, <5>1, <5>2
        <4>2. Cardinality(ShownAt(i)) <= attempt
          BY <1>2, <1>3, <3>2 DEF Allowance
        <4>3. ~(i > Frontier) /\ i > Settled
          BY <1>2, <3>2
        <4>4. Allowance(i)' \in {MaxAttempts, attempt + 1}
          BY <1>2, <2>1, <4>3 DEF Allowance
        <4> QED BY <1>2, <1>3, <4>1, <4>2, <4>4
      <3> QED BY <3>1, <3>2
    <2>4. current' = <<>> => attempt' = 0
      BY <2>1
    <2> QED BY <1>1, <2>2, <2>3, <2>4 DEF CountInv
  <1> QED BY <1>1, <1>4, <1>5, <1>6

\* CopiesBounded holds in every state: neither a failure that has reached the
\* platform nor a merge or a stop makes a chat see a message once more than it
\* is attempted.
THEOREM CopiesLimited == Spec => []CopiesBounded
  <1>1. Init => CountInv
    <2> SUFFICES ASSUME Init PROVE CountInv
      OBVIOUS
    <2>1. Position = {} /\ attempt = 0
      BY DEF Init, InitTurns, Position
    <2> QED BY <2>1, InitOrder DEF CountInv
  <1>2. CountInv /\ [Next]_vars => CountInv'
    BY CountStep
  <1>3. CountInv => CopiesBounded
    <2> SUFFICES ASSUME CountInv, NEW i \in Position PROVE Cardinality(ShownAt(i)) <= MaxAttempts
      BY DEF CopiesBounded
    <2>1. /\ Cardinality(ShownAt(i)) \in Nat /\ Cardinality(ShownAt(i)) <= Allowance(i)
      BY CopiesFinite DEF CountInv, OrderInv
    <2>2. MaxAttempts \in Nat \ {0} /\ attempt \in 0 .. MaxAttempts - 1
      BY ManagerAssumption DEF CountInv, OrderInv, TypeOK
    <2>3. Allowance(i) \in 0 .. MaxAttempts
      BY <2>2 DEF Allowance
    <2> QED BY <2>1, <2>2, <2>3
  <1> QED BY <1>1, <1>2, <1>3, PTL DEF Spec

-----------------------------------------------------------------------------
(* What a fingerprint stands for *)

Delivered(j) == j \in lost \/ ShownAt(j) # {}

\* The message j said x to the chat c, about the source message id.
Says(j, c, id, x) == ChatAt(j) = c /\ published[j].text = x /\ id \in Ids(j)

Sending(j) == current # <<>> /\ j = Head(current)

\* While the dispatcher is up, a fingerprint is that of a message it has taken,
\* and has delivered or is about to.
FingerInv == up => \A c \in Chat : \A id \in Source \ {None} :
    fingerprints[<<c, id>>] # None =>
        \E j \in Position : /\ Says(j, c, id, fingerprints[<<c, id>>]) /\ j <= Frontier
                            /\ Delivered(j) \/ Sending(j)

RepeatInv == OrderInv /\ FingerInv /\ SuppressedRepeats

\* What has been said stays said, and a delivery is never taken back.
LEMMA SaidKept ==
    ASSUME OrderInv, [Next]_vars, NEW j \in Position
    PROVE  /\ j \in Position'
           /\ Delivered(j) => Delivered(j)'
           /\ published'[j] = published[j] /\ ChatAt(j)' = ChatAt(j) /\ Ids(j)' = Ids(j)
           /\ j <= Frontier => j <= Frontier'
           /\ Sending(j) => Sending(j)' \/ Delivered(j)' \/ ~up'
  <1>1. Arrives \/ Takes \/ Sends
    BY StepKinds
  <1>2. published'[j] = published[j] /\ j \in Position'
    BY <1>1 DEF Arrives, Takes, Sends, Position
  <1>3. ChatAt(j)' = ChatAt(j) /\ Ids(j)' = Ids(j)
    BY <1>2 DEF ChatAt, Ids
  <1>4. /\ Settled \in Nat /\ Frontier \in Nat /\ Settled <= Frontier /\ j \in Nat
        /\ Settled' \in Nat /\ Frontier' \in Nat
    BY SettledTypes, SettledNext, NextOrder DEF Position
  <1>5. CASE Arrives
    <2>1. UNCHANGED <<shown, lost, current, Frontier>>
      BY <1>5 DEF Arrives, manager
    <2> QED BY <1>2, <1>3, <2>1 DEF Delivered, ShownAt, Sending
  <1>6. CASE Takes
    <2>1. current = <<>> /\ UNCHANGED <<shown, lost>> /\ Frontier <= Frontier'
      BY <1>4, <1>6 DEF Takes
    <2> QED BY <1>2, <1>3, <1>4, <2>1 DEF Delivered, ShownAt, Sending
  <1>7. CASE Sends
    <2>1. /\ current # <<>> /\ UNCHANGED <<published, Frontier>>
          /\ Reach \/ UNCHANGED shown
          /\ lost \subseteq lost'
          /\ current' = current \/ (up' => Reach \/ Head(current) \in lost')
      BY <1>7 DEF Sends
    <2>2. CASE UNCHANGED shown /\ ~Reach
      BY <1>2, <1>3, <2>1, <2>2 DEF Delivered, ShownAt, Sending
    <2>3. CASE Reach
      <3>1. /\ ShownAt(j) \subseteq ShownAt(j)'
            /\ j \in Settled + 1 .. Frontier => ShownAt(j)' # {}
        <4>1. CASE j \in Settled + 1 .. Frontier
          BY <2>1, <2>3, <4>1, ReachCopies
        <4>2. CASE j \notin Settled + 1 .. Frontier
          BY <2>1, <2>3, <4>2, ReachCopies
        <4> QED BY <4>1, <4>2
      <3>2. Sending(j) => j \in Settled + 1 .. Frontier
        <4>1. Head(current) = Settled + 1 /\ Frontier \in Settled + 1 .. Len(published)
          BY <2>1, SendingOne
        <4> QED BY <1>4, <4>1 DEF Sending
      <3> QED BY <1>2, <1>3, <2>1, <3>1, <3>2 DEF Delivered
    <2> QED BY <1>2, <1>3, <2>1, <2>2, <2>3
  <1> QED BY <1>1, <1>5, <1>6, <1>7

LEMMA FingerStep ==
    ASSUME RepeatInv, [Next]_vars
    PROVE  FingerInv'
  <1> SUFFICES ASSUME up', NEW c \in Chat, NEW id \in Source \ {None}, fingerprints'[<<c, id>>] # None
               PROVE  \E j \in Position' : /\ Says(j, c, id, fingerprints[<<c, id>>])' /\ j <= Frontier'
                                           /\ Delivered(j)' \/ Sending(j)'
    BY DEF FingerInv
  <1>1. OrderInv /\ FingerInv /\ up
    BY DEF RepeatInv, Next, Publish, Dispatch, Drop, Coalesce, Suppress, TakeMessage, SendDone,
           SendFailed, StopAll, vars, manager
  <1>2. CASE fingerprints'[<<c, id>>] = fingerprints[<<c, id>>]
    <2>1. PICK j \in Position : /\ Says(j, c, id, fingerprints[<<c, id>>]) /\ j <= Frontier
                                /\ Delivered(j) \/ Sending(j)
      BY <1>1, <1>2 DEF FingerInv
    <2>2. /\ j \in Position' /\ j <= Frontier'
          /\ Delivered(j)' \/ Sending(j)'
          /\ published'[j] = published[j] /\ ChatAt(j)' = ChatAt(j) /\ Ids(j)' = Ids(j)
      BY <1>1, <2>1, SaidKept
    <2>3. Says(j, c, id, fingerprints[<<c, id>>])'
      BY <1>2, <2>1, <2>2 DEF Says
    <2> QED BY <2>2, <2>3
  <1>3. CASE fingerprints'[<<c, id>>] # fingerprints[<<c, id>>]
    <2>1. TakeMessage /\ UNCHANGED turns
      BY <1>3 DEF Next, Publish, Dispatch, Drop, Coalesce, Suppress, TakeMessage, SendDone,
                  SendFailed, StopAll, vars, manager
    <2>2. Front \in Position /\ current' = <<Front>> /\ fingerprints' = Fingerprinted(Front)
          /\ taken' = Front /\ pending' = <<>> /\ UNCHANGED published
      BY <1>1, <2>1, FrontIsNext DEF TakeMessage, TakeFront, turns
    <2>3. /\ c = ChatAt(Front) /\ id \in Ids(Front)
          /\ fingerprints'[<<c, id>>] = published[Front].text
      <3>1. <<c, id>> \in DOMAIN fingerprints
        BY <1>1 DEF OrderInv, TypeOK
      <3>2. fingerprints'[<<c, id>>] =
              IF c = ChatAt(Front) /\ id \in Ids(Front) /\ published[Front].text # None
              THEN published[Front].text ELSE fingerprints[<<c, id>>]
        BY <2>2, <3>1 DEF Fingerprinted
      <3> QED BY <1>3, <3>2
    <2>4. Frontier' = Front /\ Front \in Nat
      BY <2>2 DEF Frontier, Position
    <2>5. Front \in Position' /\ Says(Front, c, id, fingerprints'[<<c, id>>])
      BY <2>2, <2>3 DEF Says, Position
    <2>6. Front <= Frontier' /\ Head(current') = Front /\ current' # <<>>
      BY <2>2, <2>4
    <2>7. PICK k \in Position' : k = Front /\ k <= Frontier' /\ k = Head(current') /\ current' # <<>>
      BY <2>5, <2>6
    <2>8. Says(k, c, id, fingerprints[<<c, id>>])'
      BY <2>2, <2>5, <2>7 DEF Says, ChatAt, Ids
    <2> QED BY <2>7, <2>8 DEF Sending
  <1> QED BY <1>2, <1>3

LEMMA RepeatStep ==
    ASSUME RepeatInv, [Next]_vars
    PROVE  SuppressedRepeats'
  <1>1. OrderInv /\ FingerInv /\ SuppressedRepeats
    BY DEF RepeatInv
  <1> DEFINE Repeats(i, j) ==
        /\ ChatAt(j) = ChatAt(i) /\ published[j].text = published[i].text
        /\ OriginId[published[i].turn] \in Ids(j)
        /\ j \in lost \/ ShownAt(j) # {}
  <1>2. ASSUME NEW i \in Position, NEW j \in 1 .. i - 1, Repeats(i, j)
        PROVE  Repeats(i, j)'
    <2>1. j \in Position
      BY <1>2 DEF Position
    <2>2. /\ published'[j] = published[j] /\ ChatAt(j)' = ChatAt(j) /\ Ids(j)' = Ids(j)
          /\ published'[i] = published[i] /\ ChatAt(i)' = ChatAt(i)
      BY <1>1, <2>1, SaidKept
    <2>3. Delivered(j)'
      BY <1>1, <1>2, <2>1, SaidKept DEF Delivered
    <2> QED BY <1>2, <2>2, <2>3 DEF Delivered
  <1>3. ASSUME NEW i \in suppressed', i \notin suppressed
        PROVE  i \in Position /\ \E j \in 1 .. i - 1 : Repeats(i, j)
    <2>1. Suppress
      BY <1>3 DEF Next, Publish, Dispatch, Drop, Coalesce, Suppress, TakeMessage, SendDone,
                  SendFailed, StopAll, vars, manager
    <2>2. /\ i = Front /\ Front \in Position /\ Front = Settled + 1 /\ up /\ current = <<>>
          /\ Settled \in Nat /\ Frontier = Settled
      BY <1>1, <1>3, <2>1, FrontIsNext, IdleFrontier DEF Suppress, TakeFront
    <2> DEFINE origin == OriginId[published[i].turn]
    <2>3. /\ origin # None /\ published[i].text # None
          /\ fingerprints[<<ChatAt(i), origin>>] = published[i].text
      BY <2>1, <2>2 DEF Suppress, Repeated
    <2>4. ChatAt(i) \in Chat /\ origin \in Source
      BY <1>1, <2>2, ShownTypes, MessageAt, OutputAssumption DEF OrderInv
    <2>5. PICK j \in Position : /\ Says(j, ChatAt(i), origin, published[i].text) /\ j <= Frontier
                                /\ Delivered(j) \/ Sending(j)
      BY <1>1, <2>2, <2>3, <2>4 DEF FingerInv
    <2>6. j \in 1 .. i - 1
      BY <2>2, <2>5 DEF Position
    <2>7. Repeats(i, j)
      BY <2>2, <2>5 DEF Says, Delivered, Sending
    <2> QED BY <2>2, <2>6, <2>7
  <1>4. ASSUME NEW i \in suppressed' PROVE \E j \in 1 .. i - 1 : Repeats(i, j)'
    <2>1. i \in Position /\ \E j \in 1 .. i - 1 : Repeats(i, j)
      <3>1. CASE i \in suppressed
        BY <1>1, <3>1 DEF SuppressedRepeats, OrderInv, TypeOK
      <3>2. CASE i \notin suppressed
        BY <1>3, <3>2
      <3> QED BY <3>1, <3>2
    <2> QED BY <1>2, <2>1
  <1> QED BY <1>4 DEF SuppressedRepeats

\* SuppressedRepeats holds in every state: a suppressed reply repeats a text
\* about the same message that its chat was shown, or that was given up after
\* every attempt.
THEOREM OnlyRepeatsSuppressed == Spec => []SuppressedRepeats
  <1>1. Init => RepeatInv
    <2> SUFFICES ASSUME Init PROVE RepeatInv
      OBVIOUS
    <2>1. FingerInv
      BY DEF Init, FingerInv
    <2>2. SuppressedRepeats
      BY DEF Init, SuppressedRepeats
    <2> QED BY <2>1, <2>2, InitOrder DEF RepeatInv
  <1>2. RepeatInv /\ [Next]_vars => RepeatInv'
    BY NextOrder, FingerStep, RepeatStep DEF RepeatInv
  <1>3. RepeatInv => SuppressedRepeats
    BY DEF RepeatInv
  <1> QED BY <1>1, <1>2, <1>3, PTL DEF Spec

-----------------------------------------------------------------------------
(* How a turn ends *)

HasDelta(t, s) == \E i \in Position :
    published[i].turn = t /\ published[i].kind = "delta" /\ published[i].segment = s

LastOf(t, i) ==
    /\ published[i].turn = t
    /\ \A j \in Position : published[j].turn = t => j <= i

\* The last message of the turn is the one of its end: of the kind that goes with
\* its reason, or without text since the message tool has said it.
EndsWell(t) == \E i \in Position :
    /\ LastOf(t, i)
    /\ \/ published[i].kind = AnswerKind(t)
       \/ published[i].kind = "reply" /\ published[i].text = None

\* A turn has an answer once its run has stopped; one that was streamed is in the
\* last segment; an error is the last word of a run that did not go on after it.
EndInv(t) ==
    /\ phase[t] \in {"waiting", "asking", "finalizing"} => answer[t] = None
    /\ phase[t] = "failing" => answer[t] = "unstreamed"
    /\ t \in Streaming /\ parts[t] > 0 => HasDelta(t, segment[t])
    /\ answer[t] = "streamed" => t \in Streaming /\ HasDelta(t, segment[t] - 1)
    /\ reason[t] = "error" /\ t \notin resumed =>
          phase[t] \in {"failing", "done"} /\ answer[t] # "streamed"
    /\ phase[t] = "done" /\ answer[t] # None => EndsWell(t)

\* A turn's step leaves the others where they are.
LEMMA OthersStay ==
    ASSUME TurnsTypeOK, NEW t \in Turn, NEW u \in Turn \ {t}, TurnStep(t)
    PROVE  /\ phase'[u] = phase[u] /\ reason'[u] = reason[u] /\ answer'[u] = answer[u]
           /\ (u \in resumed' <=> u \in resumed)
           /\ segment'[u] = segment[u] /\ parts'[u] = parts[u]
  <1> USE DEF TurnsTypeOK, NextSegment, Stopped, Done, ending
  <1>1. CASE Start(t) \/ Delta(t) \/ Pause(t) \/ Blank(t)
    BY <1>1 DEF Start, Delta, Pause, Blank
  <1>2. CASE Conclude(t) \/ ConcludeBlank(t) \/ Fail(t) \/ FailTool(t)
    BY <1>2 DEF Conclude, ConcludeBlank, Fail, FailTool
  <1>3. CASE Drained(t) \/ Exhaust(t) \/ HandOver(t)
    BY <1>3 DEF Drained, Exhaust, HandOver
  <1>4. CASE AnswerTold(t) \/ Stop(t) \/ Raise(t)
    BY <1>4 DEF AnswerTold, Stop, Raise, Cut
  <1>5. CASE \E x \in Text : Tell(t, x) \/ Answer(t, x)
    BY <1>5 DEF Tell, Answer
  <1>6. CASE \E kind \in NoteKind : Note(t, kind)
    BY <1>6 DEF Note
  <1> QED BY <1>1, <1>2, <1>3, <1>4, <1>5, <1>6 DEF TurnStep

\* What is said has its place behind what was said before.
LEMMA SaidLast ==
    ASSUME TurnsTypeOK, NEW t \in Turn, NEW ms, Speaks(t, ms)
    PROVE  /\ Position \subseteq Position' /\ \A i \in Position : published'[i] = published[i]
           /\ Len(published) \in Nat /\ Len(ms) \in Nat
           /\ \A k \in 1 .. Len(ms) : /\ Len(published) + k \in Position'
                                      /\ published'[Len(published) + k] = ms[k]
           /\ \A i \in Position' \ Position : published'[i].turn = t
           /\ \A i \in Position' : i <= Len(published) + Len(ms)
  <1>1. /\ published \in Seq(Message) /\ ms \in Seq(Message) /\ published' = published \o ms
        /\ \A k \in 1 .. Len(ms) : ms[k].turn = t
    BY DEF TurnsTypeOK, Speaks, Published
  <1>2. /\ Len(published) \in Nat /\ Len(ms) \in Nat
        /\ Len(published') = Len(published) + Len(ms)
        /\ \A i \in 1 .. Len(published) : published'[i] = published[i]
        /\ \A k \in 1 .. Len(ms) : published'[Len(published) + k] = ms[k]
    BY <1>1
  <1>3. \A i \in Position' \ Position : \E k \in 1 .. Len(ms) : i = Len(published) + k
    <2> TAKE i \in Position' \ Position
    <2>1. i - Len(published) \in 1 .. Len(ms) /\ i = Len(published) + (i - Len(published))
      BY <1>2 DEF Position
    <2> QED BY <2>1
  <1>4. \A i \in Position' \ Position : published'[i].turn = t
    BY <1>1, <1>2, <1>3
  <1>5. \A k \in 1 .. Len(ms) : Len(published) + k \in Position'
    BY <1>2 DEF Position
  <1> QED BY <1>2, <1>4, <1>5 DEF Position

LEMMA DeltaStays ==
    ASSUME TurnsTypeOK, NEW t \in Turn, NEW ms, Speaks(t, ms), NEW u, NEW s, HasDelta(u, s)
    PROVE  HasDelta(u, s)'
  BY SaidLast DEF HasDelta

\* A turn that is over is not disturbed by others.
LEMMA EndStays ==
    ASSUME TurnsTypeOK, NEW t \in Turn, NEW u \in Turn \ {t}, TurnStep(t), EndInv(u)
    PROVE  EndInv(u)'
  <1>1. PICK ms : Speaks(t, ms)
    BY TurnPublishes
  <1>2. /\ phase'[u] = phase[u] /\ reason'[u] = reason[u] /\ answer'[u] = answer[u]
        /\ (u \in resumed' <=> u \in resumed)
        /\ segment'[u] = segment[u] /\ parts'[u] = parts[u]
    BY OthersStay
  <1>3. \A s : HasDelta(u, s) => HasDelta(u, s)'
    BY <1>1, DeltaStays
  <1>4. /\ u \in Streaming /\ parts'[u] > 0 => HasDelta(u, segment[u])'
        /\ answer'[u] = "streamed" => u \in Streaming /\ HasDelta(u, segment[u] - 1)'
    BY <1>2, <1>3 DEF HasDelta, EndInv
  <1>5. EndsWell(u) => EndsWell(u)'
    <2> SUFFICES ASSUME NEW i \in Position, LastOf(u, i),
                        \/ published[i].kind = AnswerKind(u)
                        \/ published[i].kind = "reply" /\ published[i].text = None
                 PROVE  EndsWell(u)'
      BY DEF EndsWell
    <2>1. i \in Position' /\ published'[i] = published[i] /\ AnswerKind(u)' = AnswerKind(u)
      BY <1>1, <1>2, SaidLast DEF AnswerKind
    <2>2. LastOf(u, i)'
      <3>1. ASSUME NEW j \in Position', published'[j].turn = u PROVE j <= i
        BY <1>1, <3>1, SaidLast DEF LastOf
      <3> QED BY <2>1, <3>1 DEF LastOf
    <2> QED BY <2>1, <2>2 DEF EndsWell
  <1> QED BY <1>2, <1>4, <1>5 DEF EndInv

LEMMA StreamedDelta ==
    ASSUME TurnsTypeOK, NEW t \in Streaming, NEW kinds \in Seq(StreamKind), Len(kinds) > 0,
           kinds[1] = "delta", Stream(t, kinds)
    PROVE  \E i \in Position' : /\ published'[i].turn = t /\ published'[i].kind = "delta"
                                /\ published'[i].segment = segment[t]
  <1> DEFINE ms == [k \in DOMAIN kinds |-> Msg(t, kinds[k], None)]
  <1>1. Len(kinds) \in Nat /\ DOMAIN kinds = 1 .. Len(kinds) /\ 1 \in DOMAIN kinds
    OBVIOUS
  <1>2. t \in Turn /\ \A k \in DOMAIN kinds : Msg(t, kinds[k], None) \in Message
    BY OutputAssumption DEF Msg, Message, TurnsTypeOK, Kind
  <1>3. ms \in Seq(Message) /\ Len(ms) = Len(kinds)
    BY <1>1, <1>2
  <1>4. published' = published \o ms /\ published \in Seq(Message)
    BY DEF Stream, Say, TurnsTypeOK
  <1>5. Len(published) + 1 \in Position' /\ published'[Len(published) + 1] = ms[1]
    BY <1>1, <1>3, <1>4 DEF Position
  <1>6. ms[1] = Msg(t, "delta", None)
    BY <1>1
  <1> QED BY <1>5, <1>6 DEF Msg

\* The outbound message of a turn's end is its last.
LEMMA SaidAtEnd ==
    ASSUME TurnsTypeOK, NEW t \in Turn, NEW kind \in Kind, NEW x \in Text \cup {None},
           Say(<<Msg(t, kind, x)>>),
           kind = AnswerKind(t)' \/ (kind = "reply" /\ x = None)
    PROVE  EndsWell(t)'
  <1> DEFINE ms == <<Msg(t, kind, x)>>
  <1>1. ms \in Seq(Message) /\ Len(ms) = 1 /\ ms[1] = Msg(t, kind, x)
        /\ Len(published) \in Nat
    BY DEF Msg, Message, TurnsTypeOK
  <1>2. Speaks(t, ms)
    BY <1>1 DEF Speaks, Published, Say, Msg
  <1>3. /\ Len(published) + 1 \in Position' /\ published'[Len(published) + 1] = Msg(t, kind, x)
        /\ \A i \in Position' : i <= Len(published) + 1
    <2> HIDE DEF ms
    <2>1. /\ \A k \in 1 .. Len(ms) : /\ Len(published) + k \in Position'
                                      /\ published'[Len(published) + k] = ms[k]
          /\ \A i \in Position' : i <= Len(published) + Len(ms)
      BY <1>2, SaidLast
    <2>2. 1 \in 1 .. Len(ms)
      BY <1>1
    <2>3. Len(published) + 1 \in Position' /\ published'[Len(published) + 1] = ms[1]
      BY <2>1, <2>2
    <2> QED BY <1>1, <2>1, <2>3
  <1> QED BY <1>3 DEF LastOf, EndsWell, Msg

LEMMA EndStep ==
    ASSUME TurnsTypeOK, NEW t \in Turn, TurnStep(t), EndInv(t)
    PROVE  EndInv(t)'
  <1>1. PICK ms : Speaks(t, ms)
    BY TurnPublishes
  <1>2. /\ segment[t] \in Nat /\ parts[t] \in Nat /\ None \notin {"streamed", "unstreamed"}
        /\ phase[t] \in {"waiting", "asking", "finalizing", "closing", "failing", "done"}
    BY OutputAssumption DEF TurnsTypeOK
  <1>3. \A s : HasDelta(t, s) => HasDelta(t, s)'
    BY <1>1, DeltaStays
  <1>e. ASSUME NEW kind \in Kind, NEW x \in Text \cup {None}, Say(<<Msg(t, kind, x)>>),
               kind = AnswerKind(t)' \/ (kind = "reply" /\ x = None)
        PROVE  EndsWell(t)'
    BY <1>e, SaidAtEnd
  \* The run goes on, in this segment or another.
  <1>4. ASSUME phase'[t] \in {"asking", "finalizing"}, answer'[t] = None,
               reason'[t] = "error" => t \in resumed',
               UNCHANGED <<segment, parts>> \/ parts'[t] = 0
        PROVE  EndInv(t)'
    <2>1. t \in Streaming /\ parts'[t] > 0 => HasDelta(t, segment[t])'
      BY <1>3, <1>4 DEF HasDelta, EndInv
    <2> QED BY <1>2, <1>4, <2>1 DEF EndInv
  \* The run stops; if the answer was streamed, a delta of its last segment is there.
  <1>5. ASSUME phase'[t] \in {"closing", "failing"}, parts'[t] = 0,
               phase'[t] = "failing" => answer'[t] = "unstreamed",
               reason'[t] = "error" => t \in resumed' \/ phase'[t] = "failing",
               \/ answer'[t] = "unstreamed"
               \/ /\ t \in Streaming /\ segment'[t] - 1 = segment[t]
                  /\ \E i \in Position' :
                        /\ published'[i].turn = t /\ published'[i].kind = "delta"
                        /\ published'[i].segment = segment[t]
        PROVE  EndInv(t)'
    <2>1. answer'[t] = "streamed" => t \in Streaming /\ HasDelta(t, segment[t] - 1)'
      BY <1>5 DEF HasDelta
    <2> QED BY <1>2, <1>5, <2>1 DEF EndInv
  \* The turn ends.
  <1>6. ASSUME phase[t] \in {"closing", "failing"}, Done(t), UNCHANGED answer, EndsWell(t)'
        PROVE  EndInv(t)'
    <2>1. /\ t \in Streaming /\ parts'[t] > 0 => HasDelta(t, segment[t])'
          /\ answer'[t] = "streamed" => t \in Streaming /\ HasDelta(t, segment[t] - 1)'
      BY <1>3, <1>6 DEF HasDelta, EndInv, Done
    <2>2. phase'[t] = "done" /\ UNCHANGED <<reason, resumed>>
      BY <1>6 DEF Done, TurnsTypeOK
    <2> QED BY <1>2, <1>6, <2>1, <2>2 DEF EndInv
  \* The turn is over without an answer.
  <1>7. ASSUME phase'[t] = "done", answer'[t] = None, UNCHANGED <<segment, parts>>
        PROVE  EndInv(t)'
    <2>2. t \in Streaming /\ parts'[t] > 0 => HasDelta(t, segment[t])'
      BY <1>3, <1>7 DEF HasDelta, EndInv
    <2> QED BY <1>2, <1>7, <2>2 DEF EndInv
  <1> USE DEF TurnsTypeOK, NextSegment, Stopped, ending
  <1>8. CASE Start(t) \/ Pause(t) \/ Blank(t)
    <2>1. /\ phase'[t] \in {"asking", "finalizing"} /\ answer'[t] = None
          /\ reason'[t] = "error" => t \in resumed'
          /\ UNCHANGED <<segment, parts>> \/ parts'[t] = 0
      BY <1>2, <1>8 DEF Start, Pause, Blank, EndInv
    <2> QED BY <1>4, <2>1
  <1>9. CASE Delta(t)
    <2>1. \E i \in Position' : /\ published'[i].turn = t /\ published'[i].kind = "delta"
                               /\ published'[i].segment = segment[t]
      <3>1. <<"delta">> \in Seq(StreamKind) /\ Len(<<"delta">>) > 0 /\ <<"delta">>[1] = "delta"
        BY DEF StreamKind
      <3> QED BY <1>9, <3>1, StreamedDelta DEF Delta
    <2>2. /\ phase'[t] = "asking" /\ answer'[t] = None /\ segment' = segment
          /\ reason'[t] = "error" => t \in resumed'
      BY <1>9 DEF Delta, EndInv
    <2>3. HasDelta(t, segment[t])'
      BY <2>1, <2>2 DEF HasDelta
    <2> QED BY <1>2, <2>2, <2>3 DEF EndInv
  <1>10. CASE Conclude(t)
    <2>0. reason[t] = "error" => t \in resumed
      BY <1>2, <1>10 DEF Conclude, EndInv
    <2>1. /\ phase'[t] = "closing" /\ parts'[t] = 0 /\ segment'[t] - 1 = segment[t]
          /\ reason'[t] = "error" => t \in resumed'
      <3>1. \E given : Stopped(t, "closing", reason[t], given)
        BY <1>10 DEF Conclude
      <3>2. phase'[t] = "closing" /\ reason'[t] = reason[t] /\ resumed' = resumed
        BY <3>1
      <3>3. parts'[t] = 0 /\ segment'[t] - 1 = segment[t]
        BY <1>2, <1>10 DEF Conclude
      <3> QED BY <2>0, <3>2, <3>3
    <2>2. \/ answer'[t] = "unstreamed"
          \/ answer'[t] = "streamed" /\ t \in Streaming /\ parts[t] > 0
      BY <1>10 DEF Conclude
    <2>3. t \in Streaming /\ parts[t] > 0 => \E i \in Position' :
              /\ published'[i].turn = t /\ published'[i].kind = "delta"
              /\ published'[i].segment = segment[t]
      BY <1>3 DEF EndInv, HasDelta
    <2> QED BY <1>5, <2>1, <2>2, <2>3
  <1>11. CASE ConcludeBlank(t) \/ Fail(t) \/ FailTool(t)
    <2>1. phase'[t] = "failing" /\ parts'[t] = 0 /\ answer'[t] = "unstreamed"
      BY <1>11 DEF ConcludeBlank, Fail, FailTool
    <2> QED BY <1>5, <2>1
  <1>12. CASE Drained(t)
    <2>1. /\ phase'[t] = "asking" /\ answer'[t] = None /\ UNCHANGED <<segment, parts>>
          /\ reason'[t] = "error" => t \in resumed'
      BY <1>12 DEF Drained
    <2> QED BY <1>4, <2>1
  <1>13. CASE Exhaust(t)
    <2>1. /\ phase'[t] = "closing" /\ parts'[t] = 0 /\ segment'[t] - 1 = segment[t]
          /\ reason'[t] = "exhausted"
          /\ answer'[t] = IF t \in Streaming THEN "streamed" ELSE "unstreamed"
      BY <1>2, <1>13 DEF Exhaust
    <2>2. /\ <<"delta", "end">> \in Seq(StreamKind) /\ Len(<<"delta", "end">>) > 0
          /\ <<"delta", "end">>[1] = "delta"
      BY DEF StreamKind
    <2>3. t \in Streaming => \E i \in Position' :
              /\ published'[i].turn = t /\ published'[i].kind = "delta"
              /\ published'[i].segment = segment[t]
      BY <1>13, <2>2, StreamedDelta DEF Exhaust
    <2> QED BY <1>5, <2>1, <2>3
  <1>14. ASSUME NEW x \in Text, Tell(t, x) PROVE EndInv(t)'
    <2>1. /\ phase'[t] = "asking" /\ answer'[t] = None /\ UNCHANGED <<segment, parts>>
          /\ reason'[t] = "error" => t \in resumed'
      BY <1>14 DEF Tell, EndInv
    <2> QED BY <1>4, <2>1
  <1>15. ASSUME NEW kind \in NoteKind, Note(t, kind) PROVE EndInv(t)'
    <2>1. /\ phase'[t] = "asking" /\ answer'[t] = None /\ UNCHANGED <<segment, parts>>
          /\ reason'[t] = "error" => t \in resumed'
      BY <1>15 DEF Note, EndInv
    <2> QED BY <1>4, <2>1
  <1>16. ASSUME NEW x \in Text, Answer(t, x) PROVE EndInv(t)'
    <2>1. /\ AnswerKind(t) \in Kind /\ AnswerKind(t)' = AnswerKind(t)
          /\ Say(<<Msg(t, AnswerKind(t), x)>>)
      BY <1>16 DEF AnswerKind, Kind, Answer, Done
    <2>2. EndsWell(t)'
      BY <2>1, <1>e
    <2> QED BY <1>6, <1>16, <2>2 DEF Answer
  <1>17. CASE AnswerTold(t)
    <2>1. "reply" \in Kind
      BY DEF Kind
    <2>2. Say(<<Msg(t, "reply", None)>>)
      BY <1>17 DEF AnswerTold
    <2>3. EndsWell(t)'
      BY <2>1, <2>2, <1>e
    <2> QED BY <1>6, <1>17, <2>3 DEF AnswerTold
  <1>18. CASE Stop(t) \/ Raise(t)
    BY <1>7, <1>18 DEF Stop, Raise, Cut, Done
  <1>19. CASE HandOver(t)
    BY <1>7, <1>19 DEF HandOver
  <1> QED BY <1>8, <1>9, <1>10, <1>11, <1>12, <1>13, <1>14, <1>15, <1>16, <1>17, <1>18, <1>19
          DEF TurnStep

EndsInv == OrderInv /\ \A t \in Turn : EndInv(t)

LEMMA EndsStep ==
    ASSUME EndsInv, [Next]_vars
    PROVE  EndsInv'
  <1>1. OrderInv' /\ TurnsTypeOK
    BY NextOrder DEF EndsInv, OrderInv, TypeOK
  <1>2. ASSUME NEW t \in Turn PROVE EndInv(t)'
    <2>1. EndInv(t)
      BY DEF EndsInv
    <2>2. CASE UNCHANGED turns
      BY <2>1, <2>2 DEF turns, ending, EndInv, HasDelta, EndsWell, LastOf, Position, AnswerKind
    <2>3. ASSUME NEW u \in Turn, TurnStep(u) PROVE EndInv(t)'
      BY <1>1, <2>1, <2>3, EndStep, EndStays
    <2> QED BY <2>2, <2>3 DEF Next, Publish, vars
  <1> QED BY <1>1, <1>2 DEF EndsInv

-----------------------------------------------------------------------------
(* What becomes of a message that is settled *)

Handled(i) ==
    Delivered(i) \/ i \in suppressed \/ Unwanted(i) \/ published[i].kind = "streamed"

SettledInv == up => \A i \in Position : i <= Settled => Handled(i)

LEMMA HandledStays ==
    ASSUME OrderInv, [Next]_vars, NEW i \in Position, Handled(i)
    PROVE  Handled(i)'
  <1>1. /\ Delivered(i) => Delivered(i)'
        /\ published'[i] = published[i] /\ ChatAt(i)' = ChatAt(i)
    BY SaidKept
  <1>2. suppressed \subseteq suppressed'
    BY DEF Next, Publish, Dispatch, Drop, Coalesce, Suppress, TakeMessage, SendDone,
           SendFailed, StopAll, vars, manager
  <1> QED BY <1>1, <1>2 DEF Handled, Unwanted

\* A message that the idle dispatcher passes over is one no send is for.
LEMMA PassedHandled ==
    ASSUME OrderInv, Drop \/ Suppress \/ Coalesce, UNCHANGED turns,
           NEW i \in Position, i > Settled, i <= Settled'
    PROVE  Handled(i)'
  <1>1. Ready
    BY DEF Drop, Suppress, Coalesce, TakeFront
  <1>2. /\ current = <<>> /\ Front = Settled + 1 /\ Front \in Position /\ Settled \in Nat
        /\ Taken = Front /\ i \in Nat
    BY <1>1, FrontIsNext DEF Position
  <1>3. ChatAt(i)' = ChatAt(i) /\ published' = published
    BY DEF ChatAt, turns
  <1>4. CASE Drop \/ Suppress
    <2>1. Settled' = Settled + 1
      BY <1>4, Passed DEF Drop, Suppress, turns
    <2>2. i = Front
      BY <1>2, <2>1
    <2> QED BY <1>3, <1>4, <2>2 DEF Drop, Suppress, Handled, Unwanted
  <1>5. CASE Coalesce
    <2>1. PICK n \in 0 .. Len(published) - Taken :
            /\ Joining(n)
            /\ current' = IF ChatAt(Front) \in Reachable THEN Merged(n) ELSE <<>>
            /\ IF Taken + n < Len(published)
               THEN taken' = Taken + n + 1 /\ pending' = Append(Rest, Taken + n + 1)
               ELSE taken' = Taken + n /\ pending' = Rest
      BY <1>5 DEF Coalesce
    <2> DEFINE k == Settled + 1 + n
    <2>2. /\ k \in Settled + 1 .. Len(published) /\ FeedOf!OneStream(k)
          /\ Merged(n) # <<>> /\ Head(Merged(n)) = Settled + 1
      BY <1>1, <1>5, <2>1, MergedStretch DEF Coalesce
    <2>3. ChatAt(Front) \notin Reachable
      <3> SUFFICES ASSUME ChatAt(Front) \in Reachable PROVE FALSE
        OBVIOUS
      <3>1. Settled' = Settled
        BY <1>2, <2>1, <2>2 DEF Settled
      <3> QED BY <1>2, <3>1
    <2>4. i <= k
      <3>1. current' = <<>> /\ Rest = <<>> /\ n \in Nat
        BY <1>1, <1>2, <2>1, <2>3, FrontIsNext
      <3>2. CASE k < Len(published)
        <4>1. pending' = <<k + 1>>
          BY <1>2, <2>1, <3>1, <3>2
        <4>2. Settled' = k
          BY <1>2, <3>1, <4>1 DEF Settled
        <4> QED BY <1>2, <3>1, <4>2
      <3>3. CASE ~(k < Len(published))
        <4>1. taken' = k /\ pending' = <<>>
          BY <1>2, <2>1, <3>1, <3>3
        <4> QED BY <3>1, <4>1 DEF Settled
      <3> QED BY <3>2, <3>3
    <2>5. ChatAt(i) = ChatAt(Front)
      <3>1. i \in Settled + 1 .. k /\ Front \in Settled + 1 .. k
        BY <1>2, <2>2, <2>4
      <3>2. published[i].turn = published[k].turn /\ published[Front].turn = published[k].turn
        BY <2>2, <3>1 DEF FeedOf!OneStream
      <3> QED BY <3>2 DEF ChatAt
    <2> QED BY <1>3, <2>3, <2>5 DEF Handled, Unwanted
  <1> QED BY <1>4, <1>5

\* An attempt that settles what is being sent has shown it, or given it up.
LEMMA SentHandled ==
    ASSUME OrderInv, SendDone \/ SendFailed, UNCHANGED turns,
           NEW i \in Position, i > Settled, i <= Settled'
    PROVE  Handled(i)'
  <1>1. /\ current # <<>> /\ Settled \in Nat /\ Frontier \in Nat /\ i \in Nat
        /\ current = FeedOf!Group(Frontier) /\ UNCHANGED published
    BY SendingOne, SettledTypes DEF SendDone, SendFailed, Position, turns
  <1>2. i \in Settled + 1 .. Frontier /\ current' = <<>>
    <2>1. current' = current => Settled' = Settled
      BY DEF SendDone, SendFailed, Settled
    <2>2. current' = <<>>
      BY <1>1, <2>1 DEF SendDone, SendFailed
    <2>3. Settled' = Frontier
      BY <2>2 DEF SendDone, SendFailed, OrderInv, PendingInv, Settled, Frontier
    <2> QED BY <1>1, <2>2, <2>3
  <1>3. CASE Reach
    <2>1. ShownAt(i)' # {}
      BY <1>1, <1>2, <1>3, ReachCopies
    <2> QED BY <2>1 DEF Handled, Delivered
  <1>4. CASE ~Reach
    <2>1. lost' = lost \cup {current[k] : k \in DOMAIN current}
      BY <1>1, <1>2, <1>4 DEF SendDone, SendFailed
    <2>2. current = [k \in 1 .. Frontier - Settled |-> Settled + k]
      BY <1>1 DEF FeedOf!Group
    <2>3. i - Settled \in 1 .. Frontier - Settled /\ Settled + (i - Settled) = i
      BY <1>1, <1>2
    <2>4. i \in lost'
      BY <2>1, <2>2, <2>3
    <2> QED BY <2>4 DEF Handled, Delivered
  <1> QED BY <1>3, <1>4

LEMMA SettledStep ==
    ASSUME OrderInv, SettledInv, [Next]_vars
    PROVE  SettledInv'
  <1> SUFFICES ASSUME up', NEW i \in Position', i <= Settled' PROVE Handled(i)'
    BY DEF SettledInv
  <1>1. up
    BY DEF Next, Publish, Dispatch, Drop, Coalesce, Suppress, TakeMessage, SendDone,
           SendFailed, StopAll, vars, manager
  <1>2. Settled \in Nat /\ Frontier \in Nat /\ i \in Nat
    BY SettledTypes DEF Position
  <1>3. CASE i \in Position /\ i <= Settled
    BY <1>1, <1>3, HandledStays DEF SettledInv
  <1>4. CASE ~(i \in Position /\ i <= Settled)
    <2>1. CASE UNCHANGED manager
      <3>1. Settled' = Settled
        BY <2>1 DEF manager, Settled
      <3>2. Settled <= Len(published) /\ Len(published) \in Nat
        <4>1. taken \in 0 .. Len(published) /\ Len(published) \in Nat
          BY DEF OrderInv, TypeOK, TurnsTypeOK
        <4> QED BY <1>2, <4>1, SettledTypes DEF Frontier
      <3> QED BY <1>2, <1>4, <3>1, <3>2 DEF Position
    <2>2. CASE Dispatch /\ UNCHANGED turns
      <3>1. i \in Position /\ i > Settled
        BY <1>2, <1>4, <2>2 DEF turns, Position
      <3>2. CASE TakeMessage
        BY <2>2, <3>1, <3>2, <1>2, TakeOrder
      <3> QED BY <2>2, <3>1, <3>2, PassedHandled, SentHandled DEF Dispatch
    <2>3. CASE StopAll
      BY <2>3 DEF StopAll
    <2> QED BY <2>1, <2>2, <2>3 DEF Next, Publish, vars
  <1> QED BY <1>3, <1>4

-----------------------------------------------------------------------------

AnswerInv == EndsInv /\ SettledInv

LEMMA AnswerShown ==
    ASSUME AnswerInv, NEW t \in Turn, Undisturbed(t), ~Withheld(t)
    PROVE  Carriers(t) # {} /\ \A i \in Carriers(t) : ShownAt(i) # {}
  <1> DEFINE own == {i \in Position : published[i].turn = t}
             final == {i \in own : published[i].kind = "reply" /\ \A j \in own : j <= i}
             deltas == {i \in own : published[i].kind = "delta" /\ published[i].segment = segment[t] - 1}
  <1>1. EndInv(t) /\ SettledInv /\ TypeOK
    BY DEF AnswerInv, EndsInv, OrderInv
  <1>2. Carriers(t) = IF final # {} THEN final ELSE deltas
    BY DEF Carriers
  <1>3. PICK e \in Position :
          /\ LastOf(t, e)
          /\ \/ published[e].kind = AnswerKind(t)
             \/ published[e].kind = "reply" /\ published[e].text = None
    BY <1>1 DEF EndInv, Undisturbed, EndsWell
  <1>4. Carriers(t) # {}
    <2>1. CASE published[e].kind = "reply"
      <3>1. e \in final
        BY <1>3, <2>1 DEF LastOf
      <3> QED BY <1>2, <3>1
    <2>2. CASE published[e].kind # "reply"
      <3>1. answer[t] = "streamed"
        <4>1. t \in Streaming /\ reason[t] # "error"
          BY <1>3, <2>2 DEF AnswerKind
        <4>2. answer[t] \in {"streamed", "unstreamed"}
          BY <1>1 DEF TypeOK, TurnsTypeOK, Undisturbed
        <4> QED BY <4>1, <4>2 DEF Withheld
      <3>2. deltas # {}
        BY <1>1, <3>1 DEF EndInv, HasDelta
      <3> QED BY <1>2, <3>2
    <2> QED BY <2>1, <2>2
  <1>5. ASSUME NEW i \in Carriers(t) PROVE ShownAt(i) # {}
    <2>1. i \in Position /\ published[i].turn = t /\ published[i].kind \in {"reply", "delta"}
      BY <1>2, <1>5
    <2>2. ChatAt(i) \in Reachable /\ published[i].kind \notin NoteKind
      BY <2>1 DEF ChatAt, Undisturbed, NoteKind
    <2>3. i <= Settled
      BY <2>1 DEF Undisturbed, Position
    <2>4. Handled(i)
      BY <1>1, <2>1, <2>3 DEF SettledInv, Undisturbed
    <2>5. i \notin suppressed /\ i \notin lost
      BY <2>1 DEF Undisturbed
    <2> QED BY <2>1, <2>2, <2>4, <2>5 DEF Handled, Unwanted, Delivered
  <1> QED BY <1>4, <1>5

LEMMA StreamedNotRepeated ==
    ASSUME AnswerInv, NEW t \in Turn, phase[t] = "done", answer[t] = "streamed", t \notin resumed,
           NEW i \in Carriers(t), published[i].kind = "reply"
    PROVE  published[i].text = None
  <1>1. EndInv(t) /\ answer[t] # None
    BY OutputAssumption DEF AnswerInv, EndsInv
  <1>2. /\ i \in Position /\ published[i].turn = t
        /\ \A j \in Position : published[j].turn = t => j <= i
    BY DEF Carriers
  <1>3. PICK e \in Position :
          /\ LastOf(t, e)
          /\ \/ published[e].kind = AnswerKind(t)
             \/ published[e].kind = "reply" /\ published[e].text = None
    BY <1>1 DEF EndInv, EndsWell
  <1>4. e = i
    BY <1>2, <1>3 DEF LastOf, Position
  <1>5. t \in Streaming /\ reason[t] # "error"
    BY <1>1 DEF EndInv
  <1> QED BY <1>3, <1>4, <1>5 DEF AnswerKind

\* AnswerShownOnce holds in every state: whatever the order in which turns,
\* merges, suppressions, failed sends and retries come, the answer of a turn
\* that has ended is with its chat as soon as the queue is settled, by the
\* stream or by the outbound message of its end; by both only after an error
\* that the run survived, by neither only if it is Withheld.
THEOREM AnswersReachTheirChat == Spec => []AnswerShownOnce
  <1>1. Init => AnswerInv
    <2> SUFFICES ASSUME Init PROVE AnswerInv
      OBVIOUS
    <2>1. Position = {}
      BY DEF Init, InitTurns, Position
    <2>2. ASSUME NEW t \in Turn PROVE EndInv(t)
      <3>1. /\ phase[t] = "waiting" /\ reason[t] = "completed" /\ answer[t] = None
            /\ parts[t] = 0 /\ None \notin {"streamed", "unstreamed"}
        BY OutputAssumption DEF Init, InitTurns
      <3> QED BY <3>1 DEF EndInv
    <2> QED BY <2>1, <2>2, InitOrder DEF AnswerInv, EndsInv, SettledInv
  <1>2. AnswerInv /\ [Next]_vars => AnswerInv'
    BY EndsStep, SettledStep DEF AnswerInv, EndsInv
  <1>3. AnswerInv => AnswerShownOnce
    <2>1. ASSUME AnswerInv, NEW t \in Turn
          PROVE  /\ Undisturbed(t) /\ ~Withheld(t) =>
                      Carriers(t) # {} /\ \A i \in Carriers(t) : ShownAt(i) # {}
                 /\ phase[t] = "done" /\ answer[t] = "streamed" /\ t \notin resumed =>
                      \A i \in Carriers(t) : published[i].kind = "reply" => published[i].text = None
      BY <2>1, AnswerShown, StreamedNotRepeated
    <2> QED BY <2>1 DEF AnswerShownOnce
  <1> QED BY <1>1, <1>2, <1>3, PTL DEF Spec
=============================================================================
