------------------------- MODULE AgentDispatchProofs -------------------------
(***************************************************************************)
(* Theorems about the session dispatcher, for every set of sessions and of *)
(* messages and every value of the bounds.                                 *)
(***************************************************************************)
EXTENDS AgentDispatch, QueueLemmas, FiniteSetTheorems

(***************************************************************************)
(* Type correctness.                                                       *)
(***************************************************************************)
LEMMA RepublishType ==
    ASSUME TypeOK, NEW s \in Session, NEW rest \in Seq(Msg), Republish(s, rest)
    PROVE  inbound' \in Seq(Msg) /\ deferred' \in [Session -> Seq(Msg)]
  <1>1. inbound \o rest \in Seq(Msg) /\ deferred[s] \in Seq(Msg)
    BY ConcatQueue DEF TypeOK
  <1>2. CASE deferred[s] = <<>>
    BY <1>1, <1>2 DEF Republish, TypeOK
  <1>3. CASE deferred[s] # <<>>
    <2>1. Head(deferred[s]) \in Msg /\ Tail(deferred[s]) \in Seq(Msg)
      BY <1>1, <1>3, TailQueue
    <2>2. Append(inbound \o rest, Head(deferred[s])) \in Seq(Msg)
      BY <1>1, <2>1, AppendQueue
    <2> QED BY <1>3, <2>1, <2>2 DEF Republish, TypeOK
  <1> QED BY <1>2, <1>3

LEMMA EndTurnType ==
    ASSUME TypeOK, NEW m \in Msg, NEW outcome \in Over, NEW result \in {"ok", "error"},
           EndTurn(m, outcome, result)
    PROVE  TypeOK'
  <1> USE KeyAssumption
  <1>1. phase' \in [Msg -> Phases] /\ holder' \in [Session -> Msg \union {None}]
    BY DEF EndTurn, TypeOK, Phases
  <1>2. active' \in [Session -> SUBSET Msg] /\ cancelled' \in SUBSET Msg
    BY DEF EndTurn, Forget, TypeOK
  <1>3. CASE Kind[m] = "direct"
    BY <1>1, <1>2, <1>3 DEF EndTurn, TypeOK
  <1>4. CASE Kind[m] # "direct"
    <2>1. waiter' \in [Msg -> {"none", "waiting", "ok", "error"}]
      BY <1>4 DEF EndTurn, Complete, TypeOK
    <2>2. owner' \in [Session -> Msg \union {None}]
      BY <1>4 DEF EndTurn, GiveUpQueue, TypeOK
    <2>3. pending' \in [Msg -> Seq(Msg)]
      <3>1. <<>> \in Seq(Msg) /\ pending \in [Msg -> Seq(Msg)]
        BY EmptySeq DEF TypeOK
      <3>2. pending' = [pending EXCEPT ![m] = <<>>]
        BY <1>4 DEF EndTurn
      <3> QED BY <3>1, <3>2
    <2>4. inbound' \in Seq(Msg) /\ deferred' \in [Session -> Seq(Msg)]
      <3>1. Republish(Key[m], pending[m])
        BY <1>4 DEF EndTurn
      <3>2. pending[m] \in Seq(Msg) /\ Key[m] \in Session
        BY DEF TypeOK
      <3> QED BY <3>1, <3>2, RepublishType
    <2> QED BY <1>1, <1>2, <2>1, <2>2, <2>3, <2>4 DEF EndTurn, TypeOK
  <1> QED BY <1>3, <1>4

\* A message taken from the bus.
LEMMA ConsumeType ==
    ASSUME TypeOK, NEW m, Consume(m)
    PROVE  m \in Msg /\ inbound' \in Seq(Msg)
  BY TailQueue DEF Consume, TypeOK

LEMMA TakeLockType ==
    ASSUME TypeOK, NEW m \in Msg, TakeLock(m)
    PROVE  /\ phase' \in [Msg -> Phases]
           /\ holder' \in [Session -> Msg \union {None}]
           /\ gateQ' \in Seq(Msg)
           /\ owner' \in [Session -> Msg \union {None}]
  <1> USE KeyAssumption
  <1>1. Key[m] \in Session /\ holder' \in [Session -> Msg \union {None}]
    BY DEF TakeLock, TypeOK
  <1>2. CASE BeginTurn(m) /\ UNCHANGED gateQ
    BY <1>1, <1>2 DEF BeginTurn, TypeOK, Phases, Live, InTurn
  <1>3. CASE phase' = [phase EXCEPT ![m] = "running"] /\ UNCHANGED <<gateQ, owner>>
    BY <1>1, <1>3 DEF TypeOK, Phases, Live, InTurn
  <1>4. CASE /\ phase' = [phase EXCEPT ![m] = "gateWait"]
             /\ gateQ' = Append(gateQ, m)
             /\ UNCHANGED owner
    BY <1>1, <1>4, AppendQueue DEF TypeOK, Phases, Live
  <1> QED BY <1>2, <1>3, <1>4 DEF TakeLock

LEMMA InitType == Init => TypeOK
  BY EmptySeq, BoundAssumption
     DEF Init, TypeOK, Phases, Live, InTurn, Over

\* Each action keeps the types of the state.
LEMMA NextType == TypeOK /\ [Next]_vars => TypeOK'
  <1> SUFFICES ASSUME TypeOK, [Next]_vars PROVE TypeOK'
    OBVIOUS
  <1> USE KeyAssumption
  <1>1. ASSUME NEW m \in Msg, Arrive(m) PROVE TypeOK'
    <2>1. Append(inbound, m) \in Seq(Msg)
      BY AppendQueue DEF TypeOK
    <2> QED BY <1>1, <2>1
            DEF Arrive, Publish, Submit, ProcessDirect, TypeOK, Phases, Live
  <1>2. ASSUME NEW m \in Msg, Route(m) PROVE TypeOK'
    <2>1. CASE RoutePriority(m) \/ RouteCommand(m)
      BY <2>1, ConsumeType DEF RoutePriority, RouteCommand, CancelActiveTasks, TypeOK
    <2>2. CASE RouteDeferred(m)
      <3>1. inbound' \in Seq(Msg) /\ Append(deferred[Key[m]], m) \in Seq(Msg)
        BY <2>2, ConsumeType, AppendQueue DEF RouteDeferred, TypeOK
      <3> QED BY <2>2, <3>1 DEF RouteDeferred, TypeOK
    <2>3. CASE RouteToPending(m)
      <3>1. owner[Key[m]] \in Msg
        BY <2>3 DEF RouteToPending, CanInject, SessionActive, TypeOK
      <3>2. inbound' \in Seq(Msg) /\ Append(pending[owner[Key[m]]], m) \in Seq(Msg)
        BY <2>3, <3>1, ConsumeType, AppendQueue DEF RouteToPending, TypeOK
      <3> QED BY <2>3, <3>1, <3>2 DEF RouteToPending, TypeOK
    <2>4. CASE RouteToTask(m)
      BY <2>4, ConsumeType DEF RouteToTask, Track, TypeOK, Phases, Live
    <2> QED BY <1>2, <2>1, <2>2, <2>3, <2>4 DEF Route
  <1>3. ASSUME NEW m \in Msg, Acquire(m) PROVE TypeOK'
    <2>1. CASE StartUncontended(m)
      BY <2>1, TakeLockType DEF StartUncontended, TypeOK
    <2>2. CASE StartWaiting(m)
      <3>1. Append(lockQ[Key[m]], m) \in Seq(Msg)
        BY AppendQueue DEF TypeOK
      <3> QED BY <2>2, <3>1 DEF StartWaiting, TypeOK, Phases, Live
    <2>3. CASE LockGranted(m)
      <3>1. Tail(lockQ[Key[m]]) \in Seq(Msg)
        BY <2>3, TailQueue DEF LockGranted, TypeOK
      <3> QED BY <2>3, <3>1, TakeLockType DEF LockGranted, TypeOK
    <2>4. CASE GateGranted(m)
      <3>1. Tail(gateQ) \in Seq(Msg)
        BY <2>4, TailQueue DEF GateGranted, TypeOK
      <3> QED BY <2>4, <3>1 DEF GateGranted, BeginTurn, TypeOK, Phases, Live, InTurn
    <2> QED BY <1>3, <2>1, <2>2, <2>3, <2>4 DEF Acquire
  <1>4. ASSUME NEW m \in Msg, DrainInjections(m) PROVE TypeOK'
    <2> DEFINE k == IF Len(pending[m]) < InjectionsPerTurn THEN Len(pending[m])
                                                           ELSE InjectionsPerTurn
    <2>1. pending[m] \in Seq(Msg) /\ k \in 0 .. Len(pending[m])
      <3>1. pending[m] \in Seq(Msg) /\ Len(pending[m]) \in Nat
        BY LenProperties DEF TypeOK
      <3>2. InjectionsPerTurn \in Nat
        BY BoundAssumption
      <3> QED BY <3>1, <3>2
    <2>2. SubSeq(pending[m], k + 1, Len(pending[m])) \in Seq(Msg)
      BY <2>1, DropFirst
    <2>3. pending' \in [Msg -> Seq(Msg)]
      <3>1. pending' = [pending EXCEPT ![m] = SubSeq(@, k + 1, Len(@))]
        BY <1>4 DEF DrainInjections
      <3> HIDE DEF k
      <3> QED BY <2>2, <3>1 DEF TypeOK
    <2>4. cycles' \in [Msg -> 0 .. InjectionCycles]
      <3>1. /\ cycles \in [Msg -> 0 .. InjectionCycles]
            /\ cycles[m] < InjectionCycles
            /\ cycles' = [cycles EXCEPT ![m] = @ + 1]
        BY <1>4 DEF DrainInjections, CyclesLeft, TypeOK
      <3>2. cycles[m] + 1 \in 0 .. InjectionCycles
        BY <3>1, BoundAssumption
      <3> QED BY <3>1, <3>2
    <2>5. phase' \in [Msg -> Phases]
      BY <1>4 DEF DrainInjections, TypeOK, Phases, Over
    <2> QED BY <1>4, <2>3, <2>4, <2>5 DEF DrainInjections, TypeOK
  <1>5. ASSUME NEW m \in Msg, NewCommand(m) PROVE TypeOK'
    BY <1>5 DEF NewCommand, TypeOK, Phases, Live, InTurn
  <1>6. ASSUME NEW m \in Msg, End(m) PROVE TypeOK'
    BY <1>6, EndTurnType DEF End, FinishTurn, FailTurn, Over
  <1>7. ASSUME NEW m \in Msg, Cancel(m) PROVE TypeOK'
    <2>1. CASE CancelTurn(m)
      BY <2>1, EndTurnType DEF CancelTurn, Over
    <2>2. CASE CancelCreated(m)
      BY <2>2 DEF CancelCreated, Forget, TypeOK, Phases, Over
    <2>3. CASE CancelLockWait(m)
      <3>1. inbound' \in Seq(Msg) /\ deferred' \in [Session -> Seq(Msg)]
        BY <2>3, EmptySeq, RepublishType DEF CancelLockWait
      <3>2. lockQ' \in [Session -> Seq(Msg)]
        BY <2>3, RemoveAtQueue DEF CancelLockWait, TypeOK
      <3> QED BY <2>3, <3>1, <3>2 DEF CancelLockWait, Forget, TypeOK, Phases, Over
    <2>4. CASE CancelGateWait(m)
      <3>1. inbound' \in Seq(Msg) /\ deferred' \in [Session -> Seq(Msg)]
        BY <2>4, EmptySeq, RepublishType DEF CancelGateWait
      <3>2. gateQ' \in Seq(Msg)
        BY <2>4, RemoveAtQueue DEF CancelGateWait, TypeOK
      <3> QED BY <2>4, <3>1, <3>2 DEF CancelGateWait, Forget, TypeOK, Phases, Over
    <2> QED BY <1>7, <2>1, <2>2, <2>3, <2>4 DEF Cancel
  <1>8. ASSUME NEW m \in Msg, Command(m) PROVE TypeOK'
    <2>1. CASE StopDone(m)
      <3>1. pending' \in [Msg -> Seq(Msg)]
        BY <2>1, EmptySeq DEF StopDone, TypeOK
      <3>2. phase' \in [Msg -> Phases]
        BY <2>1 DEF StopDone, TypeOK, Phases, Over
      <3> QED BY <2>1, <3>1, <3>2 DEF StopDone, CommandDone, TypeOK
    <2>2. CASE NewDone(m)
      BY <2>2 DEF NewDone, CommandDone, TypeOK, Phases, Over
    <2> QED BY <1>8, <2>1, <2>2 DEF Command
  <1>9. ASSUME NEW m \in Msg, NEW c \in Msg, ContinueTurn(m, c) PROVE TypeOK'
    <2>1. Append(pending[m], c) \in Seq(Msg)
      BY AppendQueue DEF TypeOK
    <2> QED BY <1>9, <2>1 DEF ContinueTurn, TypeOK, Phases, Live, InTurn
  <1>10. ASSUME NEW m \in Msg, NEW c \in Msg, ContinueBlocked(m, c) PROVE TypeOK'
    BY <1>10 DEF ContinueBlocked, TypeOK, Phases, Live, InTurn
  <1>11. CASE UNCHANGED vars
    BY <1>11 DEF vars, TypeOK
  <1> QED BY <1>1, <1>2, <1>3, <1>4, <1>5, <1>6, <1>7, <1>8, <1>9, <1>10, <1>11 DEF Next

\* The state of the dispatcher always has its types; in particular no turn ever
\* exceeds _MAX_INJECTION_CYCLES.
THEOREM TypeCorrect == Spec => []TypeOK
  BY InitType, NextType, PTL DEF Spec
-----------------------------------------------------------------------------
(***************************************************************************)
(* No message is lost or doubled.                                          *)
(***************************************************************************)
\* An automation turn is deferred with its own session.
DeferredKey == \A s \in Session, m \in Msg : Contains(deferred[s], m) => Key[m] = s

QueuesInv == TypeOK /\ DeferredKey /\ NothingLostOrDoubled

\* What run() takes off the bus was nowhere else, and is not there any more.
LEMMA ConsumeQueue ==
    ASSUME QueuesInv, NEW m, Consume(m)
    PROVE  /\ m \in Msg
           /\ phase[m] = "queued"
           /\ runLoop = None
           /\ ~Deferred(m) /\ ~FollowUp(m)
           /\ IsInjective(inbound')
           /\ \A y : Contains(inbound', y) <=> Contains(inbound, y) /\ y # m
  <1>1. /\ inbound \in Seq(Msg) /\ inbound # <<>>
        /\ m = Head(inbound) /\ inbound' = Tail(inbound)
        /\ runLoop = None /\ IsInjective(inbound)
    BY DEF Consume, QueuesInv, TypeOK, NothingLostOrDoubled
  <1>2. /\ m \in Msg /\ Contains(inbound, m)
        /\ IsInjective(inbound')
        /\ \A y : Contains(inbound', y) <=> Contains(inbound, y) /\ y # m
    BY <1>1, TailQueue
  <1> QED BY <1>1, <1>2 DEF QueuesInv, NothingLostOrDoubled, OnBus

\* Republish moves the first deferred turn of s, and what rest holds, to the bus.
LEMMA RepublishQueue ==
    ASSUME QueuesInv, NEW s \in Session, NEW rest \in Seq(Msg), Republish(s, rest),
           IsInjective(rest), \A y \in Msg : Contains(rest, y) => FollowUp(y)
    PROVE  \E D \in SUBSET Msg :
              /\ \A y \in D : Contains(deferred[s], y)
              /\ IsInjective(inbound')
              /\ \A t \in Session : IsInjective(deferred'[t])
              /\ \A y \in Msg : Contains(inbound', y) <=>
                    Contains(inbound, y) \/ Contains(rest, y) \/ y \in D
              /\ \A t \in Session, y \in Msg : Contains(deferred'[t], y) <=>
                    Contains(deferred[t], y) /\ y \notin D
  <1> DEFINE both == inbound \o rest
  <1>1. \A t \in Session : deferred[t] \in Seq(Msg) /\ IsInjective(deferred[t])
    BY DEF QueuesInv, TypeOK, NothingLostOrDoubled
  <1>2. inbound \in Seq(Msg) /\ IsInjective(inbound)
    BY DEF QueuesInv, TypeOK, NothingLostOrDoubled
  <1>3. \A y : ~(Contains(inbound, y) /\ Contains(rest, y))
    <2>1. \A y : Contains(inbound, y) => y \in Msg
      BY <1>2, ElementOfSeq DEF Contains
    <2> QED BY <2>1 DEF QueuesInv, NothingLostOrDoubled, OnBus
  <1>4. /\ both \in Seq(Msg)
        /\ IsInjective(both)
        /\ \A y : Contains(both, y) <=> Contains(inbound, y) \/ Contains(rest, y)
    BY <1>2, <1>3, ConcatQueue
  <1>5. CASE deferred[s] = <<>>
    <2>1. inbound' = both /\ deferred' = deferred
      BY <1>5 DEF Republish
    <2> HIDE DEF both
    <2> WITNESS {} \in SUBSET Msg
    <2> QED BY <1>1, <1>4, <2>1
  <1>6. CASE deferred[s] # <<>>
    <2> DEFINE d == Head(deferred[s])
    <2>1. /\ inbound' = Append(both, d)
          /\ deferred' = [deferred EXCEPT ![s] = Tail(@)]
          /\ deferred' \in [Session -> Seq(Msg)]
      BY <1>6, RepublishType DEF Republish, QueuesInv
    <2> HIDE DEF both
    <2>2. /\ d \in Msg /\ Contains(deferred[s], d)
          /\ IsInjective(Tail(deferred[s]))
          /\ \A y : Contains(Tail(deferred[s]), y) <=> Contains(deferred[s], y) /\ y # d
      BY <1>1, <1>6, TailQueue
    <2> HIDE DEF d
    <2>3. ~Contains(both, d)
      BY <1>4, <2>2 DEF QueuesInv, NothingLostOrDoubled, OnBus, Deferred
    <2>4. /\ IsInjective(inbound')
          /\ \A y : Contains(inbound', y) <=> Contains(both, y) \/ y = d
      BY <1>4, <2>1, <2>2, <2>3, AppendQueue
    <2>5. deferred \in [Session -> Seq(Msg)]
      BY DEF QueuesInv, TypeOK
    <2>6. \A t \in Session : IsInjective(deferred'[t])
      BY <1>1, <2>1, <2>2, <2>5
    <2>7. ASSUME NEW t \in Session, NEW y \in Msg
          PROVE  Contains(deferred'[t], y) <=> Contains(deferred[t], y) /\ y # d
      <3>1. CASE t = s
        BY <2>1, <2>2, <2>5, <3>1
      <3>2. CASE t # s
        <4>1. deferred'[t] = deferred[t]
          BY <2>1, <2>5, <3>2
        <4>2. ~Contains(deferred[t], d)
          BY <2>2, <3>2 DEF QueuesInv, DeferredKey
        <4> QED BY <4>1, <4>2
      <3> QED BY <3>1, <3>2
    <2>8. {d} \in SUBSET Msg
      BY <2>2
    <2> USE <2>8
    <2> WITNESS {d} \in SUBSET Msg
    <2> QED BY <1>4, <2>2, <2>4, <2>6, <2>7
  <1> QED BY <1>5, <1>6

\* A step that touches no queue, and after which the same messages are queued.
LEMMA QueuesKept ==
    ASSUME QueuesInv, UNCHANGED <<inbound, pending, deferred, runLoop>>,
           \A x \in Msg : phase'[x] = "queued" <=> phase[x] = "queued"
    PROVE  DeferredKey' /\ NothingLostOrDoubled'
  BY DEF QueuesInv, DeferredKey, NothingLostOrDoubled, OnBus, Deferred, FollowUp

\* The end of a turn: its follow-ups and one deferred turn go back to the bus.
LEMMA EndTurnQueues ==
    ASSUME QueuesInv, NEW m \in Msg, phase[m] \in InTurn, NEW outcome \in Over,
           NEW result, EndTurn(m, outcome, result)
    PROVE  DeferredKey' /\ NothingLostOrDoubled'
  <1>1. \A x \in Msg : phase'[x] = "queued" <=> phase[x] = "queued"
    BY DEF EndTurn, QueuesInv, TypeOK, InTurn, Over
  <1>2. CASE Kind[m] = "direct"
    BY <1>1, <1>2, QueuesKept DEF EndTurn
  <1>3. CASE Kind[m] # "direct"
    <2>1. /\ Republish(Key[m], pending[m])
          /\ pending' = [pending EXCEPT ![m] = <<>>]
          /\ runLoop' = runLoop
      BY <1>3 DEF EndTurn
    <2>2. /\ Key[m] \in Session
          /\ pending[m] \in Seq(Msg)
          /\ IsInjective(pending[m])
          /\ \A y \in Msg : Contains(pending[m], y) => FollowUp(y)
      BY KeyAssumption DEF QueuesInv, TypeOK, NothingLostOrDoubled, FollowUp
    <2>3. PICK D \in SUBSET Msg :
              /\ \A y \in D : Contains(deferred[Key[m]], y)
              /\ IsInjective(inbound')
              /\ \A t \in Session : IsInjective(deferred'[t])
              /\ \A y \in Msg : Contains(inbound', y) <=>
                    Contains(inbound, y) \/ Contains(pending[m], y) \/ y \in D
              /\ \A t \in Session, y \in Msg : Contains(deferred'[t], y) <=>
                    Contains(deferred[t], y) /\ y \notin D
      BY <2>1, <2>2, RepublishQueue
    <2>4. /\ \A t \in Msg : IsInjective(pending'[t])
          /\ \A t, y \in Msg :
                Contains(pending'[t], y) <=> Contains(pending[t], y) /\ t # m
      BY <2>1, EmptyQueue DEF QueuesInv, TypeOK, NothingLostOrDoubled
    <2>5. \A y \in Msg : OnBus(y)' <=> OnBus(y) \/ Contains(pending[m], y) \/ y \in D
      BY <2>3 DEF OnBus
    <2>6. \A y \in Msg : Deferred(y)' <=> Deferred(y) /\ y \notin D
      BY <2>3 DEF Deferred
    <2>7. \A y \in Msg : FollowUp(y)' <=> FollowUp(y) /\ ~Contains(pending[m], y)
      BY <2>4 DEF FollowUp, QueuesInv, NothingLostOrDoubled
    <2>8. \A y \in D : Deferred(y)
      BY <2>2, <2>3 DEF Deferred
    <2>9. DeferredKey'
      BY <2>3 DEF QueuesInv, DeferredKey
    <2>10. \A x \in Msg : Contains(pending[m], x) => FollowUp(x)
      BY DEF FollowUp
    <2>11. NothingLostOrDoubled'
      BY <1>1, <2>1, <2>3, <2>4, <2>5, <2>6, <2>7, <2>8, <2>10
         DEF QueuesInv, NothingLostOrDoubled
    <2> QED BY <2>9, <2>11
  <1> QED BY <1>2, <1>3

\* A cancelled waiter publishes one deferred turn.
LEMMA CancelWaitQueues ==
    ASSUME QueuesInv, NEW m \in Msg, Republish(Key[m], <<>>),
           UNCHANGED <<pending, runLoop>>,
           \A x \in Msg : phase'[x] = "queued" <=> phase[x] = "queued"
    PROVE  DeferredKey' /\ NothingLostOrDoubled'
  <1>1. PICK D \in SUBSET Msg :
            /\ \A y \in D : Contains(deferred[Key[m]], y)
            /\ IsInjective(inbound')
            /\ \A t \in Session : IsInjective(deferred'[t])
            /\ \A y \in Msg : Contains(inbound', y) <=>
                  Contains(inbound, y) \/ Contains(<<>>, y) \/ y \in D
            /\ \A t \in Session, y \in Msg : Contains(deferred'[t], y) <=>
                  Contains(deferred[t], y) /\ y \notin D
    <2>0. PICK rest \in Seq(Msg) : rest = <<>>
      BY EmptySeq
    <2>1. /\ Key[m] \in Session
          /\ IsInjective(rest)
          /\ \A y \in Msg : Contains(rest, y) => FollowUp(y)
          /\ Republish(Key[m], rest)
      BY <2>0, KeyAssumption, EmptyQueue
    <2>2. \E D \in SUBSET Msg :
            /\ \A y \in D : Contains(deferred[Key[m]], y)
            /\ IsInjective(inbound')
            /\ \A t \in Session : IsInjective(deferred'[t])
            /\ \A y \in Msg : Contains(inbound', y) <=>
                  Contains(inbound, y) \/ Contains(rest, y) \/ y \in D
            /\ \A t \in Session, y \in Msg : Contains(deferred'[t], y) <=>
                  Contains(deferred[t], y) /\ y \notin D
      BY ONLY QueuesInv, <2>0, <2>1, RepublishQueue
    <2> QED BY <2>0, <2>2
  <1>2. \A y \in Msg : OnBus(y)' <=> OnBus(y) \/ y \in D
    BY <1>1, EmptyQueue DEF OnBus
  <1>3. \A y \in Msg : Deferred(y)' <=> Deferred(y) /\ y \notin D
    BY <1>1 DEF Deferred
  <1>4. \A y \in D : Deferred(y)
    BY <1>1, KeyAssumption DEF Deferred
  <1>5. DeferredKey'
    BY <1>1 DEF QueuesInv, DeferredKey
  <1>6. \A y \in Msg : FollowUp(y)' <=> FollowUp(y)
    BY DEF FollowUp
  <1>7. NothingLostOrDoubled'
    BY <1>1, <1>2, <1>3, <1>4, <1>6 DEF QueuesInv, NothingLostOrDoubled
  <1> QED BY <1>5, <1>7

LEMMA InitQueues == Init => DeferredKey /\ NothingLostOrDoubled
  BY EmptyQueue, KeyAssumption, MsgAssumption
     DEF Init, DeferredKey, NothingLostOrDoubled, OnBus, Deferred, FollowUp

LEMMA ArriveQueues ==
    ASSUME QueuesInv, NEW m \in Msg, Arrive(m)
    PROVE  DeferredKey' /\ NothingLostOrDoubled'
  <1>1. CASE ProcessDirect(m)
    BY <1>1, QueuesKept DEF ProcessDirect, QueuesInv, TypeOK
  <1>2. CASE Publish(m) \/ Submit(m)
    <2>1. /\ phase[m] = "unsent"
          /\ phase' = [phase EXCEPT ![m] = "queued"]
          /\ inbound' = Append(inbound, m)
          /\ UNCHANGED <<pending, deferred, runLoop>>
      BY <1>2 DEF Publish, Submit
    <2>2. ~Contains(inbound, m) /\ ~Deferred(m) /\ ~FollowUp(m) /\ runLoop # m
      BY <2>1 DEF QueuesInv, NothingLostOrDoubled, OnBus
    <2>3. /\ IsInjective(inbound')
          /\ \A y : Contains(inbound', y) <=> Contains(inbound, y) \/ y = m
      BY <2>1, <2>2, AppendQueue DEF QueuesInv, TypeOK, NothingLostOrDoubled
    <2>4. \A x \in Msg : phase'[x] = "queued" <=> phase[x] = "queued" \/ x = m
      BY <2>1 DEF QueuesInv, TypeOK
    <2>5. \A x \in Msg : /\ OnBus(x)' <=> OnBus(x) \/ x = m
                         /\ Deferred(x)' <=> Deferred(x)
                         /\ FollowUp(x)' <=> FollowUp(x)
      BY <2>1, <2>3 DEF OnBus, Deferred, FollowUp
    <2>6. DeferredKey'
      BY <2>1 DEF QueuesInv, DeferredKey
    <2> QED BY <2>1, <2>2, <2>3, <2>4, <2>5, <2>6 DEF QueuesInv, NothingLostOrDoubled
  <1> QED BY <1>1, <1>2 DEF Arrive

LEMMA RouteQueues ==
    ASSUME QueuesInv, NEW m \in Msg, Route(m)
    PROVE  DeferredKey' /\ NothingLostOrDoubled'
  <1> USE KeyAssumption
  <1>1. /\ phase[m] = "queued"
        /\ runLoop = None /\ None \notin Msg
        /\ ~Deferred(m) /\ ~FollowUp(m)
        /\ IsInjective(inbound')
        /\ \A y : Contains(inbound', y) <=> Contains(inbound, y) /\ y # m
    <2>1. Consume(m)
      BY DEF Route, RoutePriority, RouteDeferred, RouteCommand, RouteToPending, RouteToTask
    <2> QED BY <2>1, ConsumeQueue, MsgAssumption
  <1>2. \A y \in Msg : OnBus(y)' <=> OnBus(y) /\ y # m
    BY <1>1 DEF OnBus
  <1>3. CASE RoutePriority(m) \/ RouteCommand(m)
    <2>1. runLoop' = m /\ UNCHANGED <<phase, pending, deferred>>
      BY <1>3 DEF RoutePriority, RouteCommand, CancelActiveTasks
    <2>2. \A x \in Msg : (Deferred(x)' <=> Deferred(x)) /\ (FollowUp(x)' <=> FollowUp(x))
      BY <2>1 DEF Deferred, FollowUp
    <2>3. DeferredKey'
      BY <2>1 DEF QueuesInv, DeferredKey
    <2> QED BY <1>1, <1>2, <2>1, <2>2, <2>3 DEF QueuesInv, NothingLostOrDoubled
  <1>4. CASE RouteDeferred(m)
    <2>1. /\ deferred' = [deferred EXCEPT ![Key[m]] = Append(@, m)]
          /\ UNCHANGED <<phase, pending, runLoop>>
      BY <1>4 DEF RouteDeferred
    <2>2. deferred \in [Session -> Seq(Msg)]
      BY DEF QueuesInv, TypeOK
    <2>3. ~Contains(deferred[Key[m]], m) /\ IsInjective(deferred[Key[m]])
      BY <1>1 DEF Deferred, QueuesInv, NothingLostOrDoubled
    <2>4. /\ IsInjective(Append(deferred[Key[m]], m))
          /\ \A y : Contains(Append(deferred[Key[m]], m), y) <=>
                Contains(deferred[Key[m]], y) \/ y = m
      BY <2>2, <2>3, AppendQueue
    <2>5. \A s \in Session : IsInjective(deferred'[s])
      BY <2>1, <2>2, <2>4 DEF QueuesInv, NothingLostOrDoubled
    <2>6. \A s \in Session, y \in Msg : Contains(deferred'[s], y) <=>
              Contains(deferred[s], y) \/ (s = Key[m] /\ y = m)
      BY <2>1, <2>2, <2>4
    <2>7. \A x \in Msg : (Deferred(x)' <=> Deferred(x) \/ x = m) /\ (FollowUp(x)' <=> FollowUp(x))
      BY <2>1, <2>6 DEF Deferred, FollowUp
    <2>8. DeferredKey'
      BY <2>6 DEF QueuesInv, DeferredKey
    <2> QED BY <1>1, <1>2, <2>1, <2>5, <2>7, <2>8 DEF QueuesInv, NothingLostOrDoubled
  <1>5. CASE RouteToPending(m)
    <2> DEFINE o == owner[Key[m]]
    <2>1. /\ o \in Msg
          /\ pending' = [pending EXCEPT ![o] = Append(@, m)]
          /\ UNCHANGED <<phase, deferred, runLoop>>
      BY <1>5 DEF RouteToPending, CanInject, SessionActive, QueuesInv, TypeOK
    <2> HIDE DEF o
    <2>2. pending \in [Msg -> Seq(Msg)]
      BY DEF QueuesInv, TypeOK
    <2>3. ~Contains(pending[o], m) /\ IsInjective(pending[o])
      BY <1>1, <2>1 DEF FollowUp, QueuesInv, NothingLostOrDoubled
    <2>4. /\ IsInjective(Append(pending[o], m))
          /\ \A y : Contains(Append(pending[o], m), y) <=> Contains(pending[o], y) \/ y = m
      BY <2>1, <2>2, <2>3, AppendQueue
    <2>5. \A t \in Msg : IsInjective(pending'[t])
      BY <2>1, <2>2, <2>4 DEF QueuesInv, NothingLostOrDoubled
    <2>6. \A t, y \in Msg : Contains(pending'[t], y) <=>
              Contains(pending[t], y) \/ (t = o /\ y = m)
      BY <2>1, <2>2, <2>4
    <2>7. \A x \in Msg : (Deferred(x)' <=> Deferred(x)) /\ (FollowUp(x)' <=> FollowUp(x) \/ x = m)
      BY <2>1, <2>6 DEF Deferred, FollowUp
    <2>8. \A t \in Msg : ~Contains(pending[t], m)
      BY <1>1 DEF FollowUp
    <2>9. DeferredKey'
      BY <2>1 DEF QueuesInv, DeferredKey
    <2> QED BY <1>1, <1>2, <2>1, <2>5, <2>6, <2>7, <2>8, <2>9
            DEF QueuesInv, NothingLostOrDoubled
  <1>6. CASE RouteToTask(m)
    <2>1. /\ phase' = [phase EXCEPT ![m] = "created"]
          /\ UNCHANGED <<pending, deferred, runLoop>>
      BY <1>6 DEF RouteToTask
    <2>2. \A x \in Msg : phase'[x] = "queued" <=> phase[x] = "queued" /\ x # m
      BY <2>1 DEF QueuesInv, TypeOK
    <2>3. \A x \in Msg : (Deferred(x)' <=> Deferred(x)) /\ (FollowUp(x)' <=> FollowUp(x))
      BY <2>1 DEF Deferred, FollowUp
    <2>4. DeferredKey'
      BY <2>1 DEF QueuesInv, DeferredKey
    <2> QED BY <1>1, <1>2, <2>1, <2>2, <2>3, <2>4 DEF QueuesInv, NothingLostOrDoubled
  <1> QED BY <1>3, <1>4, <1>5, <1>6 DEF Route

LEMMA AcquireQueues ==
    ASSUME QueuesInv, NEW m \in Msg, Acquire(m)
    PROVE  DeferredKey' /\ NothingLostOrDoubled'
  <1>1. /\ UNCHANGED <<inbound, pending, deferred, runLoop>>
        /\ phase[m] \in {"created", "lockWait", "gateWait"}
        /\ \E p \in {"running", "lockWait", "gateWait"} : phase' = [phase EXCEPT ![m] = p]
    BY DEF Acquire, StartUncontended, StartWaiting, LockGranted, GateGranted,
           TakeLock, BeginTurn
  <1>2. \A x \in Msg : phase'[x] = "queued" <=> phase[x] = "queued"
    BY <1>1 DEF QueuesInv, TypeOK
  <1> QED BY <1>1, <1>2, QueuesKept

LEMMA DrainQueues ==
    ASSUME QueuesInv, NEW m \in Msg, DrainInjections(m)
    PROVE  DeferredKey' /\ NothingLostOrDoubled'
  <1> DEFINE k == IF Len(pending[m]) < InjectionsPerTurn THEN Len(pending[m])
                                                         ELSE InjectionsPerTurn
             taken == {pending[m][i] : i \in 1 .. k}
             rest == SubSeq(pending[m], k + 1, Len(pending[m]))
  <1>1. pending[m] \in Seq(Msg) /\ k \in 0 .. Len(pending[m]) /\ IsInjective(pending[m])
    <2>1. pending[m] \in Seq(Msg) /\ Len(pending[m]) \in Nat /\ IsInjective(pending[m])
      BY LenProperties DEF QueuesInv, TypeOK, NothingLostOrDoubled
    <2>2. InjectionsPerTurn \in Nat
      BY BoundAssumption
    <2> QED BY <2>1, <2>2
  <1>2. /\ phase' = [x \in Msg |-> IF x \in taken THEN "injected" ELSE phase[x]]
        /\ pending' = [pending EXCEPT ![m] = rest]
        /\ UNCHANGED <<inbound, deferred, runLoop>>
    BY DEF DrainInjections
  <1> HIDE DEF k
  <1>3. /\ IsInjective(rest)
        /\ \A y : Contains(rest, y) <=> Contains(pending[m], y) /\ y \notin taken
        /\ \A y \in taken : Contains(pending[m], y)
    <2>1. /\ \A y : Contains(rest, y) => Contains(pending[m], y)
          /\ \A y : Contains(pending[m], y) =>
                Contains(rest, y) \/ \E i \in 1 .. k : y = pending[m][i]
          /\ \A i \in 1 .. k : Contains(pending[m], pending[m][i])
          /\ IsInjective(rest)
          /\ \A i \in 1 .. k : ~Contains(rest, pending[m][i])
      BY <1>1, DropFirst
    <2> HIDE DEF rest
    <2> QED BY <2>1
  <1> HIDE DEF taken, rest
  <1>4. \A t \in Msg : IsInjective(pending'[t])
    BY <1>2, <1>3 DEF QueuesInv, TypeOK, NothingLostOrDoubled
  <1>5. \A t, y \in Msg : Contains(pending'[t], y) <=> Contains(pending[t], y) /\ y \notin taken
    <2> SUFFICES ASSUME NEW t \in Msg, NEW y \in Msg
                 PROVE  Contains(pending'[t], y) <=> Contains(pending[t], y) /\ y \notin taken
      OBVIOUS
    <2>1. CASE t = m
      BY <1>2, <1>3, <2>1 DEF QueuesInv, TypeOK
    <2>2. CASE t # m
      <3>1. pending'[t] = pending[t]
        BY <1>2, <2>2 DEF QueuesInv, TypeOK
      <3> QED BY <1>3, <2>2, <3>1 DEF QueuesInv, NothingLostOrDoubled
    <2> QED BY <2>1, <2>2
  <1>6. \A y \in Msg : /\ FollowUp(y)' <=> FollowUp(y) /\ y \notin taken
                       /\ OnBus(y)' <=> OnBus(y)
                       /\ Deferred(y)' <=> Deferred(y)
                       /\ y \in taken => FollowUp(y)
    BY <1>2, <1>3, <1>5 DEF FollowUp, OnBus, Deferred
  <1>7. \A y \in Msg : phase'[y] = "queued" <=> phase[y] = "queued" /\ y \notin taken
    BY <1>2
  <1>8. DeferredKey'
    BY <1>2 DEF QueuesInv, DeferredKey
  <1> QED BY <1>2, <1>4, <1>5, <1>6, <1>7, <1>8 DEF QueuesInv, NothingLostOrDoubled

LEMMA ContinueQueues ==
    ASSUME QueuesInv, NEW m \in Msg, NEW c \in Msg, ContinueTurn(m, c)
    PROVE  DeferredKey' /\ NothingLostOrDoubled'
  <1>1. /\ phase[m] = "running" /\ phase[c] = "unsent"
        /\ pending' = [pending EXCEPT ![m] = Append(@, c)]
        /\ phase' = [phase EXCEPT ![c] = "queued", ![m] = "saving"]
        /\ UNCHANGED <<inbound, deferred, runLoop>>
    BY DEF ContinueTurn, BudgetSpent, Working
  <1>2. ~OnBus(c) /\ ~Deferred(c) /\ ~FollowUp(c) /\ runLoop # c
    BY <1>1 DEF QueuesInv, NothingLostOrDoubled
  <1>3. pending \in [Msg -> Seq(Msg)] /\ ~Contains(pending[m], c) /\ IsInjective(pending[m])
    BY <1>2 DEF QueuesInv, TypeOK, NothingLostOrDoubled, FollowUp
  <1>4. /\ IsInjective(Append(pending[m], c))
        /\ \A y : Contains(Append(pending[m], c), y) <=> Contains(pending[m], y) \/ y = c
    BY <1>3, AppendQueue
  <1>5. \A t \in Msg : IsInjective(pending'[t])
    BY <1>1, <1>3, <1>4 DEF QueuesInv, NothingLostOrDoubled
  <1>6. \A t, y \in Msg : Contains(pending'[t], y) <=>
            Contains(pending[t], y) \/ (t = m /\ y = c)
    BY <1>1, <1>3, <1>4
  <1>7. \A y \in Msg : /\ FollowUp(y)' <=> FollowUp(y) \/ y = c
                       /\ OnBus(y)' <=> OnBus(y)
                       /\ Deferred(y)' <=> Deferred(y)
    BY <1>1, <1>6 DEF FollowUp, OnBus, Deferred
  <1>8. \A y \in Msg : phase'[y] = "queued" <=> phase[y] = "queued" \/ y = c
    BY <1>1 DEF QueuesInv, TypeOK
  <1>9. \A t \in Msg : ~Contains(pending[t], c)
    BY <1>2 DEF FollowUp
  <1>10. DeferredKey'
    BY <1>1 DEF QueuesInv, DeferredKey
  <1>11. \A x \in Msg : phase'[x] = "queued" <=>
            OnBus(x)' \/ Deferred(x)' \/ FollowUp(x)' \/ runLoop' = x
    BY <1>1, <1>7, <1>8 DEF QueuesInv, NothingLostOrDoubled
  <1>12. \A x \in Msg : /\ OnBus(x)' => ~Deferred(x)' /\ ~FollowUp(x)' /\ runLoop' # x
                        /\ Deferred(x)' => ~FollowUp(x)' /\ runLoop' # x
                        /\ FollowUp(x)' => runLoop' # x
    BY <1>1, <1>2, <1>7 DEF QueuesInv, NothingLostOrDoubled
  <1>13. \A x, t, u \in Msg : Contains(pending'[t], x) /\ Contains(pending'[u], x) => t = u
    BY <1>6, <1>9 DEF QueuesInv, NothingLostOrDoubled
  <1>14. IsInjective(inbound') /\ \A s \in Session : IsInjective(deferred'[s])
    BY <1>1 DEF QueuesInv, NothingLostOrDoubled
  <1>15. NothingLostOrDoubled'
    BY <1>5, <1>11, <1>12, <1>13, <1>14 DEF NothingLostOrDoubled
  <1> QED BY <1>10, <1>15

LEMMA StopQueues ==
    ASSUME QueuesInv, NEW m \in Msg, StopDone(m)
    PROVE  DeferredKey' /\ NothingLostOrDoubled'
  <1> DEFINE o == owner[Key[m]]
             dropped == IF o = None THEN {} ELSE ToSet(pending[o])
  <1>1. /\ runLoop = m /\ runLoop' = None /\ None \notin Msg
        /\ phase' = [x \in Msg |-> IF x = m THEN "done"
                                   ELSE IF x \in dropped THEN "dropped" ELSE phase[x]]
        /\ pending' = IF o = None THEN pending ELSE [pending EXCEPT ![o] = <<>>]
        /\ UNCHANGED <<inbound, deferred>>
        /\ o \in Msg \union {None}
    BY KeyAssumption, MsgAssumption DEF StopDone, CommandDone, QueuesInv, TypeOK
  <1>2. \A y \in Msg : y \in dropped <=> o # None /\ Contains(pending[o], y)
    <2>1. \A q \in Seq(Msg) : ToSet(q) = {y \in Msg : Contains(q, y)}
      BY LenProperties, ElementOfSeq DEF ToSet, Contains
    <2>2. o \in Msg => pending[o] \in Seq(Msg)
      BY DEF QueuesInv, TypeOK
    <2> HIDE DEF o
    <2> QED BY <1>1, <2>1, <2>2
  <1> HIDE DEF o, dropped
  <1>3. pending \in [Msg -> Seq(Msg)]
    BY DEF QueuesInv, TypeOK
  <1>4. /\ \A t \in Msg : IsInjective(pending'[t])
        /\ \A t, y \in Msg : Contains(pending'[t], y) <=> Contains(pending[t], y) /\ t # o
    BY <1>1, <1>3, EmptyQueue DEF QueuesInv, NothingLostOrDoubled
  <1>5. \A y \in Msg : y \in dropped => FollowUp(y)
    BY <1>1, <1>2 DEF FollowUp
  <1>6. \A y \in Msg : /\ OnBus(y)' <=> OnBus(y)
                       /\ Deferred(y)' <=> Deferred(y)
    BY <1>1 DEF OnBus, Deferred
  <1>7. \A y \in Msg : FollowUp(y)' <=> FollowUp(y) /\ y \notin dropped
    BY <1>1, <1>2, <1>4 DEF FollowUp, QueuesInv, NothingLostOrDoubled
  <1>8. \A y \in Msg : phase'[y] = "queued" <=> phase[y] = "queued" /\ y # m /\ y \notin dropped
    BY <1>1
  <1>9. DeferredKey'
    BY <1>1 DEF QueuesInv, DeferredKey
  <1> QED BY <1>1, <1>4, <1>5, <1>6, <1>7, <1>8, <1>9 DEF QueuesInv, NothingLostOrDoubled

\* Each action keeps the queues right.
LEMMA NextQueues == QueuesInv /\ [Next]_vars => QueuesInv'
  <1> SUFFICES ASSUME QueuesInv, [Next]_vars PROVE DeferredKey' /\ NothingLostOrDoubled'
    BY NextType DEF QueuesInv
  <1>1. ASSUME NEW m \in Msg, NewCommand(m) PROVE DeferredKey' /\ NothingLostOrDoubled'
    <2>1. \A x \in Msg : phase'[x] = "queued" <=> phase[x] = "queued"
      BY <1>1 DEF NewCommand, QueuesInv, TypeOK
    <2> QED BY <1>1, <2>1, QueuesKept DEF NewCommand
  <1>2. ASSUME NEW m \in Msg, End(m) PROVE DeferredKey' /\ NothingLostOrDoubled'
    BY <1>2, EndTurnQueues DEF End, FinishTurn, FailTurn, CanEnd, InTurn, Over
  <1>3. ASSUME NEW m \in Msg, Cancel(m) PROVE DeferredKey' /\ NothingLostOrDoubled'
    <2>1. CASE CancelTurn(m)
      BY <2>1, EndTurnQueues DEF CancelTurn, Over
    <2>2. CASE CancelCreated(m) \/ CancelLockWait(m) \/ CancelGateWait(m)
      <3>1. \A x \in Msg : phase'[x] = "queued" <=> phase[x] = "queued"
        BY <2>2 DEF CancelCreated, CancelLockWait, CancelGateWait, QueuesInv, TypeOK
      <3>2. CASE CancelCreated(m)
        BY <3>1, <3>2, QueuesKept DEF CancelCreated
      <3>3. CASE CancelLockWait(m) \/ CancelGateWait(m)
        BY <3>1, <3>3, CancelWaitQueues DEF CancelLockWait, CancelGateWait
      <3> QED BY <2>2, <3>2, <3>3
    <2> QED BY <1>3, <2>1, <2>2 DEF Cancel
  <1>4. ASSUME NEW m \in Msg, NewDone(m) PROVE DeferredKey' /\ NothingLostOrDoubled'
    <2>1. /\ runLoop = m /\ runLoop' = None /\ None \notin Msg
          /\ UNCHANGED <<inbound, pending, deferred>>
      BY <1>4, MsgAssumption DEF NewDone, CommandDone
    <2>2. \A x \in Msg : phase'[x] = "queued" <=> phase[x] = "queued" /\ x # m
      BY <1>4 DEF NewDone, QueuesInv, TypeOK
    <2>3. \A y \in Msg : /\ OnBus(y)' <=> OnBus(y)
                         /\ Deferred(y)' <=> Deferred(y)
                         /\ FollowUp(y)' <=> FollowUp(y)
      BY <2>1 DEF OnBus, Deferred, FollowUp
    <2>4. DeferredKey'
      BY <2>1 DEF QueuesInv, DeferredKey
    <2> QED BY <2>1, <2>2, <2>3, <2>4 DEF QueuesInv, NothingLostOrDoubled
  <1>5. ASSUME NEW m \in Msg, NEW c \in Msg, ContinueBlocked(m, c)
        PROVE  DeferredKey' /\ NothingLostOrDoubled'
    <2>1. \A x \in Msg : phase'[x] = "queued" <=> phase[x] = "queued"
      BY <1>5 DEF ContinueBlocked, BudgetSpent, Working, QueuesInv, TypeOK
    <2> QED BY <1>5, <2>1, QueuesKept DEF ContinueBlocked
  <1>6. CASE UNCHANGED vars
    BY <1>6, QueuesKept DEF vars
  <1> QED BY <1>1, <1>2, <1>3, <1>4, <1>5, <1>6, ArriveQueues, RouteQueues, AcquireQueues,
             DrainQueues, ContinueQueues, StopQueues DEF Next, Command

\* NothingLostOrDoubled holds in every state: no interleaving of turns, cancellations,
\* deferrals and full queues loses or duplicates a message that nobody has taken up.
THEOREM MessagesConserved == Spec => []NothingLostOrDoubled
  <1>1. Init => QueuesInv
    BY InitType, InitQueues DEF QueuesInv
  <1>2. QueuesInv => NothingLostOrDoubled
    BY DEF QueuesInv
  <1> QED BY <1>1, <1>2, NextQueues, PTL DEF Spec

-----------------------------------------------------------------------------
(***************************************************************************)
(* Turns are serialized.                                                   *)
(***************************************************************************)
\* The lock of a session names a task of that session.
HolderKey == \A s \in Session : holder[s] # None => Key[holder[s]] = s

LockInv == \A m \in Msg : HoldsLock(m) <=> holder[Key[m]] = m

GateInv == Cardinality(Permits) <= GateSize

SerialInv == TypeOK /\ HolderKey /\ LockInv /\ GateInv

\* A step that neither gives nor takes a lock.
LEMMA LockKept ==
    ASSUME SerialInv, holder' = holder,
           \A x \in Msg : HoldsLock(x)' <=> HoldsLock(x)
    PROVE  HolderKey' /\ LockInv'
  BY DEF SerialInv, HolderKey, LockInv

\* m takes the free lock of its session.
LEMMA LockTaken ==
    ASSUME SerialInv, NEW m \in Msg, holder[Key[m]] = None,
           holder' = [holder EXCEPT ![Key[m]] = m],
           NEW p \in InTurn \union {"gateWait"}, phase' = [phase EXCEPT ![m] = p]
    PROVE  HolderKey' /\ LockInv'
  <1> USE KeyAssumption, MsgAssumption DEF SerialInv, TypeOK
  <1>1. HolderKey'
    BY DEF HolderKey
  <1>2. ASSUME NEW x \in Msg PROVE HoldsLock(x)' <=> holder'[Key[x]] = x
    <2>1. CASE x = m
      BY <2>1 DEF HoldsLock
    <2>2. CASE x # m /\ Key[x] = Key[m]
      BY <2>2 DEF HoldsLock, LockInv
    <2>3. CASE x # m /\ Key[x] # Key[m]
      BY <2>3 DEF HoldsLock, LockInv
    <2> QED BY <2>1, <2>2, <2>3
  <1> QED BY <1>1, <1>2 DEF LockInv

\* m, which holds the lock of its session, releases it.
LEMMA LockReleased ==
    ASSUME SerialInv, NEW m \in Msg, HoldsLock(m),
           holder' = [holder EXCEPT ![Key[m]] = None],
           NEW p, p \notin InTurn \union {"gateWait"}, phase' = [phase EXCEPT ![m] = p]
    PROVE  HolderKey' /\ LockInv'
  <1> USE KeyAssumption, MsgAssumption DEF SerialInv, TypeOK
  <1>1. HolderKey'
    BY DEF HolderKey
  <1>2. ASSUME NEW x \in Msg PROVE HoldsLock(x)' <=> holder'[Key[x]] = x
    <2>1. CASE x = m
      BY <2>1 DEF HoldsLock
    <2>2. CASE x # m /\ Key[x] = Key[m]
      BY <2>2 DEF HoldsLock, LockInv
    <2>3. CASE x # m /\ Key[x] # Key[m]
      BY <2>3 DEF HoldsLock, LockInv
    <2> QED BY <2>1, <2>2, <2>3
  <1> QED BY <1>1, <1>2 DEF LockInv

\* A step after which nobody new has a permit.
LEMMA PermitsKept ==
    ASSUME SerialInv, Permits' \subseteq Permits
    PROVE  GateInv'
  <1>1. IsFiniteSet(Permits)
    BY MsgAssumption, FS_Subset DEF Permits
  <1>2. /\ IsFiniteSet(Permits')
        /\ Cardinality(Permits') <= Cardinality(Permits)
        /\ Cardinality(Permits') \in Nat /\ Cardinality(Permits) \in Nat
    BY <1>1, FS_Subset, FS_CardinalityType
  <1> QED BY <1>2, BoundAssumption DEF SerialInv, GateInv

\* A permit was free, and m alone takes one.
LEMMA PermitTaken ==
    ASSUME SerialInv, NEW m \in Msg, Cardinality(Permits) < GateSize,
           Permits' \subseteq Permits \union {m}
    PROVE  GateInv'
  <1>1. IsFiniteSet(Permits)
    BY MsgAssumption, FS_Subset DEF Permits
  <1>2. /\ IsFiniteSet(Permits \union {m})
        /\ Cardinality(Permits \union {m}) <= Cardinality(Permits) + 1
        /\ Cardinality(Permits) \in Nat
    <2>1. Cardinality(Permits) \in Nat
      BY <1>1, FS_CardinalityType
    <2> HIDE DEF Permits
    <2>2. /\ IsFiniteSet(Permits \union {m})
          /\ Cardinality(Permits \union {m}) =
                IF m \in Permits THEN Cardinality(Permits) ELSE Cardinality(Permits) + 1
      BY <1>1, FS_AddElement
    <2> QED BY <2>1, <2>2
  <1>3. /\ Cardinality(Permits') <= Cardinality(Permits \union {m})
        /\ Cardinality(Permits') \in Nat /\ Cardinality(Permits \union {m}) \in Nat
    BY <1>2, FS_Subset, FS_CardinalityType
  <1> QED BY <1>2, <1>3, BoundAssumption DEF SerialInv, GateInv

\* The two lock conjuncts together, for the steps that keep both.
LEMMA SerialKept ==
    ASSUME SerialInv, holder' = holder,
           \A x \in Msg : (phase'[x] \in InTurn <=> phase[x] \in InTurn)
                        /\ (phase'[x] = "gateWait" <=> phase[x] = "gateWait")
    PROVE  HolderKey' /\ LockInv' /\ GateInv'
  <1>1. \A x \in Msg : HoldsLock(x)' <=> HoldsLock(x)
    BY DEF HoldsLock
  <1>2. Permits' \subseteq Permits
    BY DEF Permits
  <1> QED BY <1>1, <1>2, LockKept, PermitsKept

LEMMA InitSerial == Init => HolderKey /\ LockInv /\ GateInv
  <1> SUFFICES ASSUME Init PROVE HolderKey /\ LockInv /\ GateInv
    OBVIOUS
  <1>1. HolderKey /\ LockInv
    BY KeyAssumption, MsgAssumption DEF Init, HolderKey, LockInv, HoldsLock, InTurn
  <1>2. Permits = {}
    BY DEF Init, Permits, InTurn
  <1> QED BY <1>1, <1>2, FS_EmptySet, BoundAssumption DEF GateInv

\* m gets the lock of its session, and a permit if the gate is open.
LEMMA TakeLockSerial ==
    ASSUME SerialInv, NEW m \in Msg, phase[m] \notin InTurn, holder[Key[m]] = None,
           TakeLock(m)
    PROVE  HolderKey' /\ LockInv' /\ GateInv'
  <1>1. PICK p \in {"running", "gateWait"} :
            /\ phase' = [phase EXCEPT ![m] = p]
            /\ p = "running" /\ Kind[m] # "direct" => Cardinality(Permits) < GateSize
    BY DEF TakeLock, BeginTurn, GateOpen
  <1>2. HolderKey' /\ LockInv'
    BY <1>1, LockTaken DEF TakeLock, InTurn
  <1>3. CASE p = "running" /\ Kind[m] # "direct"
    <2>1. Permits' \subseteq Permits \union {m}
      BY <1>1 DEF Permits, SerialInv, TypeOK
    <2> QED BY <1>1, <1>2, <1>3, <2>1, PermitTaken
  <1>4. CASE ~(p = "running" /\ Kind[m] # "direct")
    <2>1. Permits' \subseteq Permits
      BY <1>1, <1>4 DEF Permits, SerialInv, TypeOK, InTurn
    <2> QED BY <1>2, <2>1, PermitsKept
  <1> QED BY <1>3, <1>4

\* A turn releases the lock and its permit.
LEMMA EndTurnSerial ==
    ASSUME SerialInv, NEW m \in Msg, phase[m] \in InTurn, NEW outcome \in Over,
           NEW result, EndTurn(m, outcome, result)
    PROVE  HolderKey' /\ LockInv' /\ GateInv'
  <1>1. /\ holder' = [holder EXCEPT ![Key[m]] = None]
        /\ phase' = [phase EXCEPT ![m] = outcome]
        /\ outcome \notin InTurn \union {"gateWait"}
        /\ HoldsLock(m)
    BY DEF EndTurn, HoldsLock, InTurn, Over
  <1>2. HolderKey' /\ LockInv'
    BY <1>1, LockReleased
  <1>3. Permits' \subseteq Permits
    BY <1>1 DEF Permits, SerialInv, TypeOK
  <1> QED BY <1>2, <1>3, PermitsKept

\* Each action keeps the turns serialized.
LEMMA NextSerial ==
    ASSUME QueuesInv, SerialInv, [Next]_vars
    PROVE  HolderKey' /\ LockInv' /\ GateInv'
  <1> USE KeyAssumption
  <1>1. phase \in [Msg -> Phases]
    BY DEF QueuesInv, TypeOK
  <1>2. ASSUME NEW m \in Msg, Arrive(m) PROVE HolderKey' /\ LockInv' /\ GateInv'
    BY <1>1, <1>2, SerialKept DEF Arrive, Publish, Submit, ProcessDirect, InTurn
  <1>3. ASSUME NEW m \in Msg, Route(m) PROVE HolderKey' /\ LockInv' /\ GateInv'
    <2>1. CASE RouteToTask(m)
      <3>1. phase[m] = "queued"
        BY <2>1, ConsumeQueue DEF RouteToTask
      <3> QED BY <1>1, <2>1, <3>1, SerialKept DEF RouteToTask, InTurn
    <2>2. CASE ~RouteToTask(m)
      BY <1>3, <2>2, SerialKept
         DEF Route, RoutePriority, RouteDeferred, RouteCommand, RouteToPending
    <2> QED BY <2>1, <2>2
  <1>4. ASSUME NEW m \in Msg, Acquire(m) PROVE HolderKey' /\ LockInv' /\ GateInv'
    <2>1. CASE StartUncontended(m) \/ LockGranted(m)
      BY <2>1, TakeLockSerial DEF StartUncontended, LockFree, LockGranted, InTurn
    <2>2. CASE StartWaiting(m)
      BY <1>1, <2>2, SerialKept DEF StartWaiting, InTurn
    <2>3. CASE GateGranted(m)
      <3>1. /\ phase[m] = "gateWait" /\ phase' = [phase EXCEPT ![m] = "running"]
            /\ holder' = holder /\ Cardinality(Permits) < GateSize
        BY <2>3 DEF GateGranted, BeginTurn
      <3>2. HolderKey' /\ LockInv'
        BY <1>1, <3>1, LockKept DEF HoldsLock, InTurn
      <3>3. Permits' \subseteq Permits \union {m}
        BY <1>1, <3>1 DEF Permits
      <3> QED BY <3>1, <3>2, <3>3, PermitTaken
    <2> QED BY <1>4, <2>1, <2>2, <2>3 DEF Acquire
  <1>5. ASSUME NEW m \in Msg, DrainInjections(m) PROVE HolderKey' /\ LockInv' /\ GateInv'
    <2> DEFINE k == IF Len(pending[m]) < InjectionsPerTurn THEN Len(pending[m])
                                                           ELSE InjectionsPerTurn
               taken == {pending[m][i] : i \in 1 .. k}
    <2>1. \A x \in taken : Contains(pending[m], x)
      <3>1. pending[m] \in Seq(Msg) /\ Len(pending[m]) \in Nat /\ InjectionsPerTurn \in Nat
        BY BoundAssumption, LenProperties DEF QueuesInv, TypeOK
      <3>2. 1 .. k \subseteq 1 .. Len(pending[m])
        BY <3>1
      <3> HIDE DEF k
      <3> QED BY <3>2 DEF Contains
    <2>2. holder' = holder /\ phase' = [x \in Msg |-> IF x \in taken THEN "injected" ELSE phase[x]]
      BY <1>5 DEF DrainInjections
    <2> HIDE DEF taken
    <2>3. \A x \in Msg : x \in taken => phase[x] = "queued"
      BY <2>1 DEF QueuesInv, NothingLostOrDoubled, FollowUp
    <2> QED BY <2>2, <2>3, SerialKept DEF InTurn
  <1>6. ASSUME NEW m \in Msg, NewCommand(m) PROVE HolderKey' /\ LockInv' /\ GateInv'
    BY <1>1, <1>6, SerialKept DEF NewCommand, InTurn
  <1>7. ASSUME NEW m \in Msg, End(m) PROVE HolderKey' /\ LockInv' /\ GateInv'
    BY <1>7, EndTurnSerial DEF End, FinishTurn, FailTurn, CanEnd, InTurn, Over
  <1>8. ASSUME NEW m \in Msg, Cancel(m) PROVE HolderKey' /\ LockInv' /\ GateInv'
    <2>1. CASE CancelTurn(m)
      BY <2>1, EndTurnSerial DEF CancelTurn, Over
    <2>2. CASE CancelCreated(m) \/ CancelLockWait(m)
      BY <1>1, <2>2, SerialKept DEF CancelCreated, CancelLockWait, InTurn
    <2>3. CASE CancelGateWait(m)
      <3>1. /\ phase[m] = "gateWait" /\ HoldsLock(m)
            /\ phase' = [phase EXCEPT ![m] = "cancelled"]
            /\ holder' = [holder EXCEPT ![Key[m]] = None]
        BY <2>3 DEF CancelGateWait, HoldsLock
      <3>2. HolderKey' /\ LockInv'
        BY <3>1, LockReleased DEF InTurn
      <3>3. Permits' \subseteq Permits
        BY <1>1, <3>1 DEF Permits, InTurn
      <3> QED BY <3>2, <3>3, PermitsKept
    <2> QED BY <1>8, <2>1, <2>2, <2>3 DEF Cancel
  <1>9. ASSUME NEW m \in Msg, Command(m) PROVE HolderKey' /\ LockInv' /\ GateInv'
    <2>1. phase[m] = "queued" /\ holder' = holder
      BY <1>9 DEF Command, StopDone, NewDone, CommandDone, QueuesInv, NothingLostOrDoubled
    <2>2. CASE NewDone(m)
      BY <1>1, <2>1, <2>2, SerialKept DEF NewDone, InTurn
    <2>3. CASE StopDone(m)
      <3> DEFINE o == owner[Key[m]]
                 dropped == IF o = None THEN {} ELSE ToSet(pending[o])
      <3>1. phase' = [x \in Msg |-> IF x = m THEN "done"
                                   ELSE IF x \in dropped THEN "dropped" ELSE phase[x]]
        BY <2>3 DEF StopDone
      <3>2. ASSUME NEW x \in Msg, x \in dropped PROVE phase[x] = "queued"
        <4>1. o \in Msg /\ pending[o] \in Seq(Msg)
          BY <3>2 DEF QueuesInv, TypeOK
        <4>2. Contains(pending[o], x)
          BY <3>2, <4>1, LenProperties DEF ToSet, Contains
        <4> QED BY <4>1, <4>2 DEF QueuesInv, NothingLostOrDoubled, FollowUp
      <3> HIDE DEF dropped
      <3> QED BY <2>1, <3>1, <3>2, SerialKept DEF InTurn
    <2> QED BY <1>9, <2>2, <2>3 DEF Command
  <1>10. ASSUME NEW m \in Msg, NEW c \in Msg, ContinueTurn(m, c) \/ ContinueBlocked(m, c)
         PROVE  HolderKey' /\ LockInv' /\ GateInv'
    BY <1>1, <1>10, SerialKept
       DEF ContinueTurn, ContinueBlocked, BudgetSpent, Working, InTurn
  <1>11. CASE UNCHANGED vars
    BY <1>11, SerialKept DEF vars
  <1> QED BY <1>2, <1>3, <1>4, <1>5, <1>6, <1>7, <1>8, <1>9, <1>10, <1>11 DEF Next

\* TurnsSerialized holds in every state: one task per session is past the session
\* lock, and GateSize turns at most run, whatever is cancelled while it waits.
THEOREM SerialTurns == Spec => []TurnsSerialized
  <1> DEFINE Inv == QueuesInv /\ SerialInv
  <1>1. Init => Inv
    BY InitType, InitQueues, InitSerial DEF QueuesInv, SerialInv
  <1>2. Inv /\ [Next]_vars => Inv'
    BY NextType, NextQueues, NextSerial DEF SerialInv
  <1>3. Inv => TurnsSerialized
    BY DEF SerialInv, LockInv, GateInv, TurnsSerialized
  <1> HIDE DEF Inv
  <1> QED BY <1>1, <1>2, <1>3, PTL DEF Spec
-----------------------------------------------------------------------------
(***************************************************************************)
(* Every task of a session is within the reach of its commands.            *)
(***************************************************************************)
ReachInv == TypeOK /\ LiveTaskReachable

LEMMA NextReachable == ReachInv /\ [Next]_vars => LiveTaskReachable'
  <1> SUFFICES ASSUME ReachInv, [Next]_vars PROVE LiveTaskReachable'
    OBVIOUS
  <1> USE KeyAssumption
  <1>1. /\ phase \in [Msg -> Phases] /\ active \in [Session -> SUBSET Msg]
        /\ LiveTaskReachable
    BY DEF ReachInv, TypeOK
  <1>2. ASSUME NEW m \in Msg, Arrive(m) \/ Acquire(m) PROVE LiveTaskReachable'
    <2>1. /\ UNCHANGED <<active, cancelled>>
          /\ \E p \in {"queued", "created", "lockWait", "gateWait", "running"} :
                phase' = [phase EXCEPT ![m] = p]
          /\ Kind[m] = "direct" \/ phase'[m] = "queued"
             \/ phase[m] \in {"created", "lockWait", "gateWait"}
      BY <1>1, <1>2 DEF Arrive, Publish, Submit, ProcessDirect, Acquire, StartUncontended,
                   StartWaiting, LockGranted, GateGranted, TakeLock, BeginTurn
    <2> QED BY <1>1, <2>1 DEF LiveTaskReachable, Live, InTurn
  <1>3. ASSUME NEW m \in Msg, Route(m) PROVE LiveTaskReachable'
    <2>1. CASE RoutePriority(m) \/ RouteCommand(m)
      BY <1>1, <2>1 DEF RoutePriority, RouteCommand, CancelActiveTasks, LiveTaskReachable
    <2>2. CASE RouteDeferred(m) \/ RouteToPending(m)
      BY <1>1, <2>2 DEF RouteDeferred, RouteToPending, LiveTaskReachable
    <2>3. CASE RouteToTask(m)
      BY <1>1, <2>3 DEF RouteToTask, Track, LiveTaskReachable
    <2> QED BY <1>3, <2>1, <2>2, <2>3 DEF Route
  <1>4. ASSUME NEW m \in Msg, DrainInjections(m) PROVE LiveTaskReachable'
    <2>1. /\ \A x \in Msg : phase'[x] \in {"injected", phase[x]}
          /\ UNCHANGED <<active, cancelled>>
      BY <1>4 DEF DrainInjections
    <2> QED BY <1>1, <2>1 DEF LiveTaskReachable, Live, InTurn
  <1>5. ASSUME NEW m \in Msg, NewCommand(m) PROVE LiveTaskReachable'
    BY <1>1, <1>5 DEF NewCommand, LiveTaskReachable
  <1>6. ASSUME NEW m \in Msg, End(m) \/ Cancel(m) PROVE LiveTaskReachable'
    <2>1. /\ \E p \in {"done", "failed", "cancelled"} : phase' = [phase EXCEPT ![m] = p]
          /\ Forget(m)
      BY <1>6 DEF End, FinishTurn, FailTurn, Cancel, CancelTurn, CancelCreated,
                  CancelLockWait, CancelGateWait, EndTurn
    <2> QED BY <1>1, <2>1 DEF LiveTaskReachable, Forget, Live, InTurn
  <1>7. ASSUME NEW m \in Msg, Command(m) PROVE LiveTaskReachable'
    <2>1. /\ \A x \in Msg : phase'[x] \in {"done", "dropped", phase[x]}
          /\ UNCHANGED <<active, cancelled>>
      BY <1>1, <1>7 DEF Command, StopDone, NewDone
    <2> QED BY <1>1, <2>1 DEF LiveTaskReachable, Live, InTurn
  <1>8. ASSUME NEW m \in Msg, NEW c \in Msg, ContinueTurn(m, c) \/ ContinueBlocked(m, c)
        PROVE  LiveTaskReachable'
    BY <1>1, <1>8 DEF ContinueTurn, ContinueBlocked, BudgetSpent, Working, LiveTaskReachable,
                      Live, InTurn
  <1>9. CASE UNCHANGED vars
    BY <1>1, <1>9 DEF vars, LiveTaskReachable
  <1> QED BY <1>2, <1>3, <1>4, <1>5, <1>6, <1>7, <1>8, <1>9 DEF Next

LEMMA ReachInductive == Spec => []ReachInv
  <1>1. Init => ReachInv
    BY InitType DEF Init, LiveTaskReachable, Live, InTurn, ReachInv
  <1>2. ReachInv /\ [Next]_vars => ReachInv'
    BY NextType, NextReachable DEF ReachInv
  <1> QED BY <1>1, <1>2, PTL DEF Spec

\* LiveTaskReachable holds in every state: /stop misses no task but the /new that
\* popped the registry itself.
THEOREM TasksReachable == Spec => []LiveTaskReachable
  <1>1. ReachInv => LiveTaskReachable
    BY DEF ReachInv
  <1> QED BY <1>1, ReachInductive, PTL
-----------------------------------------------------------------------------
(***************************************************************************)
(* A pending queue belongs to the turn that holds the session's lock.      *)
(***************************************************************************)
\* A turn at work has published its queue: only a /stop takes it away, and when
\* it does no such turn is left.
WorkerOwns == \A m \in Msg :
    phase[m] = "running" /\ Kind[m] # "direct" => owner[Key[m]] = m

ActiveKey == \A s \in Session : \A t \in active[s] : Key[t] = s

\* A cancelled task is past the lock only while the command that cancelled it
\* waits for it: /new in a turn of its own cancels tasks that wait for the lock.
CancelledWaits == \A t \in cancelled :
    HoldsLock(t) => runLoop # None /\ t \in awaited[runLoop]

\* While run() executes a command inline, every task of the session is awaited by
\* it, is a /new in a turn of its own, or is on its way out from a wait.
CommandAwaits == runLoop # None => \A t \in Msg :
    phase[t] \in Live /\ Kind[t] # "direct" /\ Key[t] = Key[runLoop] =>
       \/ phase[t] = "clearing"
       \/ t \in awaited[runLoop]
       \/ t \in cancelled /\ ~HoldsLock(t)

\* process_direct never goes to the gate.
GateDispatched == \A m \in Msg : phase[m] = "gateWait" => Kind[m] # "direct"

OwnInv == /\ PendingQueueOwned
          /\ WorkerOwns
          /\ GateDispatched
          /\ ActiveKey
          /\ CancelledWaits
          /\ CommandAwaits

BaseInv == QueuesInv /\ SerialInv /\ ReachInv

\* What the other invariants say, in the form the proofs below use it.
LEMMA BaseFacts ==
    ASSUME BaseInv
    PROVE  /\ None \notin Msg /\ Key \in [Msg -> Session]
           /\ phase \in [Msg -> Phases]
           /\ owner \in [Session -> Msg \union {None}]
           /\ holder \in [Session -> Msg \union {None}]
           /\ pending \in [Msg -> Seq(Msg)]
           /\ active \in [Session -> SUBSET Msg]
           /\ awaited \in [Msg -> SUBSET Msg]
           /\ cancelled \in SUBSET Msg
           /\ runLoop \in Msg \union {None}
           /\ \A m \in Msg : HoldsLock(m) <=> holder[Key[m]] = m
           /\ runLoop # None => phase[runLoop] = "queued"
           /\ LiveTaskReachable
  BY KeyAssumption, MsgAssumption
     DEF BaseInv, QueuesInv, SerialInv, ReachInv, TypeOK, LockInv, NothingLostOrDoubled

\* A step that leaves the tasks, their locks and their queues alone, but for
\* messages that have no task yet.
LEMMA OwnKept ==
    ASSUME BaseInv, OwnInv, UNCHANGED <<holder, owner, active, cancelled, runLoop, awaited>>,
           \A x \in Msg : \/ phase'[x] = phase[x]
                          \/ phase[x] \notin Live /\ (phase'[x] \in Live => Kind[x] = "direct"
                                                                      /\ phase'[x] = "created"),
           \A x \in Msg : pending'[x] # <<>> => owner[Key[x]] = x
    PROVE  OwnInv'
  <1> USE BaseFacts
  <1>1. PendingQueueOwned'
    <2>1. ASSUME NEW s \in Session, owner[s] # None
          PROVE  phase'[owner[s]] \in InTurn /\ holder[s] = owner[s] /\ Kind[owner[s]] # "direct"
      <3>1. owner[s] \in Msg
        BY <2>1
      <3>2. phase[owner[s]] \in InTurn /\ holder[s] = owner[s] /\ Kind[owner[s]] # "direct"
        BY <2>1 DEF OwnInv, PendingQueueOwned
      <3> QED BY <3>1, <3>2 DEF Live
    <2> QED BY <2>1 DEF PendingQueueOwned
  <1>2. WorkerOwns'
    BY DEF OwnInv, WorkerOwns, Live, InTurn
  <1>3. ActiveKey'
    BY DEF OwnInv, ActiveKey
  <1>4. CancelledWaits'
    BY DEF OwnInv, CancelledWaits, HoldsLock, Live, InTurn
  <1>5. CommandAwaits'
    BY DEF OwnInv, CommandAwaits, HoldsLock, Live, InTurn
  <1>6. GateDispatched'
    BY DEF OwnInv, GateDispatched, Live
  <1> QED BY <1>1, <1>2, <1>3, <1>4, <1>5, <1>6 DEF OwnInv

LEMMA ArriveOwn ==
    ASSUME BaseInv, OwnInv, NEW m \in Msg, Arrive(m)
    PROVE  OwnInv'
  <1> USE BaseFacts
  <1>1. \A x \in Msg : pending'[x] # <<>> => owner[Key[x]] = x
    BY DEF Arrive, Publish, Submit, ProcessDirect, OwnInv, PendingQueueOwned
  <1> QED BY <1>1, OwnKept DEF Arrive, Publish, Submit, ProcessDirect, Live, InTurn

\* run() takes a message: a command starts to wait, a follow-up joins the queue of
\* the turn, or a task is created.
LEMMA RouteOwn ==
    ASSUME BaseInv, OwnInv, NEW m \in Msg, Route(m)
    PROVE  OwnInv'
  <1> USE BaseFacts
  <1>1. runLoop = None /\ phase[m] = "queued"
    BY ConsumeQueue
       DEF Route, RoutePriority, RouteDeferred, RouteCommand, RouteToPending, RouteToTask, BaseInv
  <1>2. CASE RoutePriority(m) \/ RouteCommand(m)
    <2>1. /\ UNCHANGED <<phase, holder, owner, pending>>
          /\ active' = [active EXCEPT ![Key[m]] = {}]
          /\ cancelled' = cancelled \union active[Key[m]]
          /\ awaited' = [awaited EXCEPT ![m] = active[Key[m]]]
          /\ runLoop' = m
      BY <1>2 DEF RoutePriority, RouteCommand, CancelActiveTasks
    <2>2. PendingQueueOwned' /\ WorkerOwns' /\ ActiveKey' /\ GateDispatched'
      BY <2>1 DEF OwnInv, PendingQueueOwned, WorkerOwns, ActiveKey, GateDispatched
    <2>3. \A t \in cancelled : ~HoldsLock(t)
      BY <1>1 DEF OwnInv, CancelledWaits
    <2>4. CancelledWaits'
      BY <2>1, <2>3 DEF CancelledWaits, HoldsLock
    <2>5. CommandAwaits'
      BY <2>1, <2>3 DEF CommandAwaits, LiveTaskReachable, HoldsLock
    <2> QED BY <2>2, <2>4, <2>5 DEF OwnInv
  <1>3. CASE RouteDeferred(m)
    <2>1. \A x \in Msg : pending'[x] # <<>> => owner[Key[x]] = x
      BY <1>3 DEF RouteDeferred, OwnInv, PendingQueueOwned
    <2> QED BY <1>3, <2>1, OwnKept DEF RouteDeferred
  <1>4. CASE RouteToPending(m)
    <2> DEFINE o == owner[Key[m]]
    <2>1. o \in Msg /\ pending' = [pending EXCEPT ![o] = Append(@, m)]
      BY <1>4 DEF RouteToPending, CanInject, SessionActive
    <2>2. Key[o] = Key[m]
      <3>1. holder[Key[m]] = o /\ o # None
        BY <2>1 DEF OwnInv, PendingQueueOwned
      <3> QED BY <3>1 DEF BaseInv, SerialInv, HolderKey
    <2>3. \A x \in Msg : pending'[x] # <<>> => owner[Key[x]] = x
      BY <2>1, <2>2 DEF OwnInv, PendingQueueOwned
    <2> QED BY <1>4, <2>3, OwnKept DEF RouteToPending
  <1>5. CASE RouteToTask(m)
    <2>1. /\ UNCHANGED <<holder, owner, pending, cancelled, runLoop, awaited>>
          /\ phase' = [phase EXCEPT ![m] = "created"]
          /\ active' = [active EXCEPT ![Key[m]] = @ \union {m}]
      BY <1>5 DEF RouteToTask, Track
    <2>2. PendingQueueOwned'
      BY <1>1, <2>1 DEF OwnInv, PendingQueueOwned, InTurn
    <2>3. WorkerOwns' /\ ActiveKey' /\ GateDispatched'
      BY <2>1 DEF OwnInv, WorkerOwns, ActiveKey, GateDispatched
    <2>4. CancelledWaits'
      BY <2>1 DEF OwnInv, CancelledWaits, HoldsLock, InTurn
    <2>5. CommandAwaits'
      BY <1>1, <2>1 DEF CommandAwaits
    <2> QED BY <2>2, <2>3, <2>4, <2>5 DEF OwnInv
  <1> QED BY <1>2, <1>3, <1>4, <1>5 DEF Route

\* A task gets further towards its turn; if it gets there, it is alone and
\* publishes its own, empty, queue.
LEMMA AcquireOwn ==
    ASSUME BaseInv, OwnInv, NEW m \in Msg, Acquire(m)
    PROVE  OwnInv'
  <1> USE BaseFacts
  <1>1. /\ UNCHANGED <<pending, active, cancelled, runLoop, awaited>>
        /\ m \notin cancelled
        /\ phase[m] \in {"created", "lockWait", "gateWait"}
        /\ \E p \in {"running", "lockWait", "gateWait"} : phase' = [phase EXCEPT ![m] = p]
    BY DEF Acquire, StartUncontended, StartWaiting, LockGranted, GateGranted,
           TakeLock, BeginTurn
  <1>2. /\ ActiveKey'
        /\ CancelledWaits'
        /\ CommandAwaits'
    BY <1>1 DEF OwnInv, ActiveKey, CancelledWaits, CommandAwaits, HoldsLock, Live, InTurn
  <1>5. GateDispatched'
    <2>1. phase'[m] = "gateWait" => Kind[m] # "direct"
      BY <1>1 DEF Acquire, StartUncontended, StartWaiting, LockGranted, GateGranted,
                  TakeLock, BeginTurn
    <2> QED BY <1>1, <2>1 DEF OwnInv, GateDispatched
  <1>3. CASE StartWaiting(m)
    <2>1. UNCHANGED <<holder, owner>> /\ phase' = [phase EXCEPT ![m] = "lockWait"]
      BY <1>3 DEF StartWaiting
    <2>2. PendingQueueOwned' /\ WorkerOwns'
      BY <1>1, <2>1 DEF OwnInv, PendingQueueOwned, WorkerOwns, InTurn
    <2> QED BY <1>2, <1>5, <2>2 DEF OwnInv
  <1>4. CASE StartUncontended(m) \/ LockGranted(m) \/ GateGranted(m)
    <2>1. /\ owner[Key[m]] = None
          /\ holder' = [holder EXCEPT ![Key[m]] = m]
      <3>1. CASE StartUncontended(m) \/ LockGranted(m)
        BY <3>1 DEF StartUncontended, LockGranted, LockFree, TakeLock, OwnInv, PendingQueueOwned
      <3>2. CASE GateGranted(m)
        <4>1. phase[m] = "gateWait" /\ holder' = holder /\ holder[Key[m]] = m
          BY <3>2 DEF GateGranted, HoldsLock
        <4>2. owner[Key[m]] = None
          BY <4>1 DEF OwnInv, PendingQueueOwned, InTurn
        <4>3. holder = [holder EXCEPT ![Key[m]] = m]
          BY <4>1
        <4> QED BY <4>1, <4>2, <4>3
      <3> QED BY <1>4, <3>1, <3>2
    <2>2. \/ owner' = owner /\ (phase'[m] = "running" => Kind[m] = "direct")
          \/ /\ owner' = [owner EXCEPT ![Key[m]] = m]
             /\ phase'[m] = "running" /\ Kind[m] # "direct"
      <3>1. CASE GateGranted(m)
        <4>1. Kind[m] # "direct"
          BY <3>1 DEF GateGranted, OwnInv, GateDispatched
        <4> QED BY <3>1, <4>1 DEF GateGranted, BeginTurn
      <3>2. CASE StartUncontended(m) \/ LockGranted(m)
        BY <3>2 DEF StartUncontended, LockGranted, TakeLock, BeginTurn
      <3> QED BY <1>4, <3>1, <3>2
    <2>3. WorkerOwns'
      BY <1>1, <2>1, <2>2 DEF OwnInv, WorkerOwns
    <2>4. PendingQueueOwned'
      <3>1. ASSUME NEW s \in Session, owner'[s] # None
            PROVE  /\ phase'[owner'[s]] \in InTurn
                   /\ holder'[s] = owner'[s] /\ Kind[owner'[s]] # "direct"
        <4>1. CASE s = Key[m]
          BY <1>1, <2>1, <2>2, <3>1, <4>1 DEF InTurn
        <4>2. CASE s # Key[m]
          <5>1. /\ owner'[s] = owner[s] /\ owner[s] \in Msg /\ holder'[s] = holder[s]
                /\ phase[owner[s]] \in InTurn
                /\ holder[s] = owner[s] /\ Kind[owner[s]] # "direct"
            BY <2>1, <2>2, <3>1, <4>2 DEF OwnInv, PendingQueueOwned
          <5>2. owner[s] # m
            BY <1>1, <5>1 DEF InTurn
          <5> QED BY <1>1, <5>1, <5>2
        <4> QED BY <4>1, <4>2
      <3>2. \A x \in Msg : pending'[x] # <<>> => owner'[Key[x]] = x
        BY <1>1, <2>1, <2>2 DEF OwnInv, PendingQueueOwned
      <3> QED BY <3>1, <3>2 DEF PendingQueueOwned
    <2> QED BY <1>2, <1>5, <2>3, <2>4 DEF OwnInv
  <1> QED BY <1>3, <1>4 DEF Acquire

\* The turn hands over to its continuation, or waits for room in its own queue.
LEMMA ContinueOwn ==
    ASSUME BaseInv, OwnInv, NEW m \in Msg, NEW c \in Msg,
           ContinueTurn(m, c) \/ ContinueBlocked(m, c)
    PROVE  OwnInv'
  <1> USE BaseFacts
  <1>1. /\ UNCHANGED <<holder, owner, active, cancelled, runLoop, awaited>>
        /\ phase[m] = "running" /\ phase[c] = "unsent" /\ Kind[m] # "direct"
        /\ pending' \in {pending, [pending EXCEPT ![m] = Append(@, c)]}
        /\ \E p \in {"saving", "blocked"}, q \in {"queued", "unsent"} :
              phase' = [phase EXCEPT ![c] = q, ![m] = p]
    <2>1. CASE ContinueTurn(m, c)
      BY <2>1 DEF ContinueTurn, BudgetSpent, Working, Automation
    <2>2. CASE ContinueBlocked(m, c)
      <3>1. phase' = [phase EXCEPT ![c] = "unsent", ![m] = "blocked"]
        BY <2>2 DEF ContinueBlocked, BudgetSpent, Working, Automation
      <3> QED BY <2>2, <3>1 DEF ContinueBlocked, BudgetSpent, Working, Automation
    <2> QED BY <2>1, <2>2
  <1>2. owner[Key[m]] = m
    BY <1>1 DEF OwnInv, WorkerOwns
  <1>6. \A x \in Msg : /\ phase'[x] \in InTurn <=> phase[x] \in InTurn
                       /\ phase'[x] \in Live <=> phase[x] \in Live
                       /\ HoldsLock(x)' <=> HoldsLock(x)
                       /\ phase'[x] = "clearing" <=> phase[x] = "clearing"
    BY <1>1 DEF HoldsLock, Live, InTurn
  <1>7. \A x \in Msg : pending'[x] # <<>> => owner[Key[x]] = x
    BY <1>1, <1>2 DEF OwnInv, PendingQueueOwned
  <1>3. PendingQueueOwned'
    <2>1. \A s \in Session : owner[s] # None => owner[s] \in Msg
      OBVIOUS
    <2> QED BY <1>1, <1>6, <1>7, <2>1 DEF OwnInv, PendingQueueOwned
  <1>4. WorkerOwns' /\ ActiveKey' /\ GateDispatched'
    BY <1>1 DEF OwnInv, WorkerOwns, ActiveKey, GateDispatched
  <1>5. CancelledWaits' /\ CommandAwaits'
    BY <1>1, <1>6 DEF OwnInv, CancelledWaits, CommandAwaits
  <1> QED BY <1>3, <1>4, <1>5 DEF OwnInv

LEMMA DrainOwn ==
    ASSUME BaseInv, OwnInv, NEW m \in Msg, DrainInjections(m)
    PROVE  OwnInv'
  <1> USE BaseFacts
  <1> DEFINE k == IF Len(pending[m]) < InjectionsPerTurn THEN Len(pending[m])
                                                         ELSE InjectionsPerTurn
             taken == {pending[m][i] : i \in 1 .. k}
             rest == SubSeq(pending[m], k + 1, Len(pending[m]))
  <1>1. \A x \in taken : Contains(pending[m], x)
    <2>1. Len(pending[m]) \in Nat /\ InjectionsPerTurn \in Nat
      BY BoundAssumption, LenProperties
    <2>2. 1 .. k \subseteq 1 .. Len(pending[m])
      BY <2>1
    <2> HIDE DEF k
    <2> QED BY <2>2 DEF Contains
  <1>2. /\ phase' = [x \in Msg |-> IF x \in taken THEN "injected" ELSE phase[x]]
        /\ pending' = [pending EXCEPT ![m] = rest]
        /\ pending[m] # <<>>
        /\ UNCHANGED <<holder, owner, active, cancelled, runLoop, awaited>>
    BY DEF DrainInjections
  <1> HIDE DEF taken, rest
  <1>3. \A x \in Msg : x \in taken => phase[x] = "queued"
    BY <1>1 DEF BaseInv, QueuesInv, NothingLostOrDoubled, FollowUp
  <1>4. \A x \in Msg : pending'[x] # <<>> => owner[Key[x]] = x
    BY <1>2 DEF OwnInv, PendingQueueOwned
  <1>5. \A x \in Msg : \/ phase'[x] = phase[x]
                       \/ phase[x] \notin Live /\ phase'[x] \notin Live
    BY <1>2, <1>3 DEF Live, InTurn
  <1> QED BY <1>2, <1>4, <1>5, OwnKept

\* /new in a turn of its own cancels the tasks that wait for the lock it holds.
LEMMA NewCommandOwn ==
    ASSUME BaseInv, OwnInv, NEW m \in Msg, NewCommand(m)
    PROVE  OwnInv'
  <1> USE BaseFacts
  <1>1. /\ phase[m] = "running" /\ phase' = [phase EXCEPT ![m] = "clearing"]
        /\ active' = [active EXCEPT ![Key[m]] = {}]
        /\ cancelled' = cancelled \union (active[Key[m]] \ {m})
        /\ awaited' = [awaited EXCEPT ![m] = active[Key[m]] \ {m}]
        /\ UNCHANGED <<holder, owner, pending, runLoop>>
        /\ holder[Key[m]] = m
        /\ runLoop # m
    BY DEF NewCommand, HoldsLock, InTurn
  <1>2. PendingQueueOwned'
    BY <1>1 DEF OwnInv, PendingQueueOwned, InTurn
  <1>3. WorkerOwns' /\ ActiveKey' /\ GateDispatched'
    BY <1>1 DEF OwnInv, WorkerOwns, ActiveKey, GateDispatched
  <1>4. \A t \in Msg : HoldsLock(t)' <=> HoldsLock(t)
    BY <1>1 DEF HoldsLock, InTurn
  <1>5. \A t \in active[Key[m]] \ {m} : ~HoldsLock(t)
    BY <1>1 DEF OwnInv, ActiveKey
  <1>6. runLoop' # None => awaited'[runLoop'] = awaited[runLoop]
    BY <1>1
  <1>7. CancelledWaits'
    BY <1>1, <1>4, <1>5, <1>6 DEF OwnInv, CancelledWaits
  <1>8. CommandAwaits'
    BY <1>1, <1>4, <1>6 DEF OwnInv, CommandAwaits, Live, InTurn
  <1> QED BY <1>2, <1>3, <1>7, <1>8 DEF OwnInv

\* What is the same whenever a task ends: it is forgotten.
LEMMA ForgetOwn ==
    ASSUME BaseInv, OwnInv, NEW m \in Msg, Forget(m),
           NEW p \in Over, phase' = [phase EXCEPT ![m] = p],
           UNCHANGED <<runLoop, awaited>>
    PROVE  GateDispatched' /\ ActiveKey' /\ CancelledWaits' /\ CommandAwaits'
  <1> USE BaseFacts
  <1>1. /\ active' = [active EXCEPT ![Key[m]] = @ \ {m}]
        /\ cancelled' = cancelled \ {m}
    BY DEF Forget
  <1>2. \A x \in Msg : HoldsLock(x)' => HoldsLock(x)
    BY DEF HoldsLock, InTurn, Over
  <1>3. GateDispatched'
    BY DEF OwnInv, GateDispatched, Over
  <1>4. ActiveKey'
    BY <1>1 DEF OwnInv, ActiveKey
  <1>5. CancelledWaits'
    BY <1>1, <1>2 DEF OwnInv, CancelledWaits
  <1>6. \A x \in Msg : phase'[x] \in Live => x # m /\ phase'[x] = phase[x]
    BY DEF Live, InTurn, Over
  <1>7. CommandAwaits'
    BY <1>1, <1>2, <1>6 DEF OwnInv, CommandAwaits
  <1> QED BY <1>3, <1>4, <1>5, <1>7

\* A turn ends: its queue is given up and empty.
LEMMA EndTurnOwn ==
    ASSUME BaseInv, OwnInv, NEW m \in Msg, phase[m] \in InTurn, NEW outcome \in Over,
           NEW result, EndTurn(m, outcome, result)
    PROVE  OwnInv'
  <1> USE BaseFacts
  <1>1. /\ phase' = [phase EXCEPT ![m] = outcome]
        /\ holder' = [holder EXCEPT ![Key[m]] = None]
        /\ holder[Key[m]] = m
        /\ Forget(m) /\ UNCHANGED <<runLoop, awaited>>
    BY DEF EndTurn, HoldsLock
  <1>2. owner[Key[m]] \in {m, None}
    BY <1>1 DEF OwnInv, PendingQueueOwned
  <1>3. /\ owner' = [owner EXCEPT ![Key[m]] = None]
        /\ \A x \in Msg : pending'[x] = IF x = m THEN <<>> ELSE pending[x]
    <2>1. CASE Kind[m] = "direct"
      <3>1. owner[Key[m]] # m
        BY <2>1 DEF OwnInv, PendingQueueOwned
      <3>2. pending[m] = <<>>
        BY <3>1 DEF OwnInv, PendingQueueOwned
      <3> QED BY <1>2, <2>1, <3>1, <3>2 DEF EndTurn
    <2>2. CASE Kind[m] # "direct"
      <3>1. /\ owner' = [owner EXCEPT ![Key[m]] = IF @ = m THEN None ELSE @]
            /\ pending' = [pending EXCEPT ![m] = <<>>]
        BY <2>2 DEF EndTurn, GiveUpQueue
      <3> QED BY <1>2, <3>1
    <2> QED BY <2>1, <2>2
  <1>4. \A x \in Msg : x # m /\ Key[x] = Key[m] => pending[x] = <<>>
    BY <1>2 DEF OwnInv, PendingQueueOwned
  <1>5. PendingQueueOwned'
    <2>1. ASSUME NEW s \in Session, owner'[s] # None
          PROVE  /\ phase'[owner'[s]] \in InTurn
                 /\ holder'[s] = owner'[s] /\ Kind[owner'[s]] # "direct"
      <3>1. /\ s # Key[m] /\ owner'[s] = owner[s] /\ owner[s] \in Msg
            /\ holder'[s] = holder[s]
        BY <1>1, <1>3, <2>1
      <3>2. /\ phase[owner[s]] \in InTurn
            /\ holder[s] = owner[s] /\ Kind[owner[s]] # "direct"
        BY <2>1, <3>1 DEF OwnInv, PendingQueueOwned
      <3>3. owner[s] # m
        BY <3>1, <3>2 DEF BaseInv, SerialInv, HolderKey
      <3> QED BY <1>1, <3>1, <3>2, <3>3
    <2>2. \A x \in Msg : pending'[x] # <<>> => owner'[Key[x]] = x
      BY <1>3, <1>4 DEF OwnInv, PendingQueueOwned
    <2> QED BY <2>1, <2>2 DEF PendingQueueOwned
  <1>6. WorkerOwns'
    <2>1. \A x \in Msg : phase'[x] = "running" => x # m /\ phase[x] = "running"
      BY <1>1 DEF Over
    <2>2. \A x \in Msg : phase[x] = "running" /\ Key[x] = Key[m] => x = m
      BY <1>1 DEF HoldsLock, InTurn
    <2> QED BY <1>3, <2>1, <2>2 DEF OwnInv, WorkerOwns
  <1> QED BY <1>1, <1>5, <1>6, ForgetOwn DEF OwnInv

\* A task that never got its turn ends.
LEMMA CancelOwn ==
    ASSUME BaseInv, OwnInv, NEW m \in Msg, Cancel(m)
    PROVE  OwnInv'
  <1> USE BaseFacts
  <1>1. CASE CancelTurn(m)
    BY <1>1, EndTurnOwn DEF CancelTurn, Over
  <1>2. CASE CancelCreated(m) \/ CancelLockWait(m) \/ CancelGateWait(m)
    <2>1. /\ phase[m] \notin InTurn
          /\ phase' = [phase EXCEPT ![m] = "cancelled"]
          /\ \/ holder' = holder
             \/ HoldsLock(m) /\ holder' = [holder EXCEPT ![Key[m]] = None]
          /\ Forget(m) /\ UNCHANGED <<owner, pending, runLoop, awaited>>
      BY <1>2 DEF CancelCreated, CancelLockWait, CancelGateWait, HoldsLock, InTurn
    <2>2. PendingQueueOwned'
      <3>1. ASSUME NEW s \in Session, owner[s] # None
            PROVE  /\ phase'[owner[s]] \in InTurn
                   /\ holder'[s] = owner[s] /\ Kind[owner[s]] # "direct"
        <4>1. /\ owner[s] \in Msg /\ phase[owner[s]] \in InTurn
              /\ holder[s] = owner[s] /\ Kind[owner[s]] # "direct"
          BY <3>1 DEF OwnInv, PendingQueueOwned
        <4>2. owner[s] # m
          BY <2>1, <4>1
        <4>3. holder'[s] = holder[s]
          BY <2>1, <4>1, <4>2
        <4> QED BY <2>1, <4>1, <4>2, <4>3
      <3>2. \A x \in Msg : pending'[x] # <<>> => owner'[Key[x]] = x
        BY <2>1 DEF OwnInv, PendingQueueOwned
      <3> QED BY <2>1, <3>1, <3>2 DEF PendingQueueOwned
    <2>3. WorkerOwns'
      BY <2>1 DEF OwnInv, WorkerOwns
    <2>4. "cancelled" \in Over
      BY DEF Over
    <2> QED BY <2>1, <2>2, <2>3, <2>4, ForgetOwn DEF OwnInv
  <1> QED BY <1>1, <1>2 DEF Cancel

\* A command that run() executed inline ends: no task of the session is past the lock
\* any more, but a /new in a turn of its own.
LEMMA CommandOwn ==
    ASSUME BaseInv, OwnInv, NEW m \in Msg, Command(m)
    PROVE  OwnInv'
  <1> USE BaseFacts
  <1> DEFINE o == owner[Key[m]]
             dropped == IF StopDone(m) /\ o # None THEN ToSet(pending[o]) ELSE {}
  <1>1. /\ runLoop = m /\ runLoop' = None /\ phase[m] = "queued"
        /\ \A t \in awaited[m] : phase[t] \notin Live
        /\ UNCHANGED <<holder, active, cancelled, awaited>>
    BY DEF Command, StopDone, NewDone, CommandDone
  <1>2. \A x \in Msg : x \in dropped => phase[x] = "queued"
    <2>1. ASSUME NEW x \in Msg, x \in dropped PROVE phase[x] = "queued"
      <3>1. o \in Msg /\ pending[o] \in Seq(Msg)
        BY <2>1
      <3>2. Contains(pending[o], x)
        BY <2>1, <3>1, LenProperties DEF ToSet, Contains
      <3> HIDE DEF o
      <3> QED BY <3>1, <3>2 DEF BaseInv, QueuesInv, NothingLostOrDoubled, FollowUp
    <2> QED BY <2>1
  <1>3. \A x \in Msg : \/ phase'[x] = phase[x]
                       \/ phase[x] = "queued" /\ phase'[x] \in Over
    BY <1>1, <1>2 DEF Command, StopDone, NewDone, Over
  <1>4. \A x \in Msg : /\ phase'[x] \in Live => phase'[x] = phase[x]
                       /\ HoldsLock(x)' <=> HoldsLock(x)
                       /\ phase[x] \in InTurn => phase'[x] = phase[x]
                       /\ phase'[x] = "running" => phase[x] = "running"
                       /\ phase'[x] = "gateWait" => phase[x] = "gateWait"
    BY <1>3 DEF Live, InTurn, Over, HoldsLock
  <1>5. ActiveKey' /\ GateDispatched' /\ CommandAwaits'
    BY <1>1, <1>4 DEF OwnInv, ActiveKey, GateDispatched, CommandAwaits
  <1>6. CancelledWaits'
    <2>1. \A t \in cancelled : ~HoldsLock(t)
      BY <1>1 DEF OwnInv, CancelledWaits, HoldsLock, Live
    <2> QED BY <1>1, <1>4, <2>1 DEF CancelledWaits
  <1>7. CASE NewDone(m)
    <2>1. UNCHANGED <<owner, pending>>
      BY <1>7 DEF NewDone
    <2> QED BY <1>1, <1>4, <1>5, <1>6, <2>1 DEF OwnInv, PendingQueueOwned, WorkerOwns
  <1>8. CASE StopDone(m)
    <2>1. /\ owner' = [owner EXCEPT ![Key[m]] = None]
          /\ pending' = IF o = None THEN pending ELSE [pending EXCEPT ![o] = <<>>]
      BY <1>8 DEF StopDone
    <2>2. \A x \in Msg : Key[x] = Key[m] => pending'[x] = <<>>
      BY <2>1 DEF OwnInv, PendingQueueOwned
    <2>3. \A x \in Msg : pending'[x] # <<>> => pending'[x] = pending[x]
      BY <2>1
    <2>4. PendingQueueOwned'
      <3>1. ASSUME NEW s \in Session, owner'[s] # None
            PROVE  /\ phase'[owner'[s]] \in InTurn
                   /\ holder'[s] = owner'[s] /\ Kind[owner'[s]] # "direct"
        BY <1>1, <1>4, <2>1, <3>1 DEF OwnInv, PendingQueueOwned
      <3>2. \A x \in Msg : pending'[x] # <<>> => owner'[Key[x]] = x
        BY <2>1, <2>2, <2>3 DEF OwnInv, PendingQueueOwned
      <3> QED BY <3>1, <3>2 DEF PendingQueueOwned
    <2>5. \A t \in Msg : phase[t] = "running" /\ Kind[t] # "direct" => Key[t] # Key[m]
      BY <1>1 DEF OwnInv, CommandAwaits, HoldsLock, Live, InTurn
    <2>6. WorkerOwns'
      BY <1>4, <2>1, <2>5 DEF OwnInv, WorkerOwns
    <2> QED BY <1>5, <1>6, <2>4, <2>6 DEF OwnInv
  <1> QED BY <1>7, <1>8 DEF Command

LEMMA InitOwn == Init => OwnInv
  BY KeyAssumption, MsgAssumption
     DEF Init, OwnInv, PendingQueueOwned, WorkerOwns, GateDispatched, ActiveKey,
         CancelledWaits, CommandAwaits

LEMMA NextOwn == BaseInv /\ OwnInv /\ [Next]_vars => OwnInv'
  <1> SUFFICES ASSUME BaseInv, OwnInv, [Next]_vars PROVE OwnInv'
    OBVIOUS
  <1>1. ASSUME NEW m \in Msg, End(m) PROVE OwnInv'
    BY <1>1, EndTurnOwn DEF End, FinishTurn, FailTurn, CanEnd, InTurn, Over
  <1>2. CASE UNCHANGED vars
    <2>1. \A x \in Msg : pending'[x] # <<>> => owner[Key[x]] = x
      BY <1>2 DEF vars, OwnInv, PendingQueueOwned
    <2> QED BY <1>2, <2>1, OwnKept DEF vars
  <1> QED BY <1>1, <1>2, ArriveOwn, RouteOwn, AcquireOwn, DrainOwn, NewCommandOwn, CancelOwn,
             CommandOwn, ContinueOwn DEF Next

\* All the invariants above, together.
DispatchInv == BaseInv /\ OwnInv

LEMMA InitDispatch == Init => DispatchInv
  <1>1. Init => LiveTaskReachable
    BY DEF Init, LiveTaskReachable, Live, InTurn
  <1> QED BY <1>1, InitType, InitQueues, InitSerial, InitOwn
          DEF DispatchInv, BaseInv, QueuesInv, SerialInv, ReachInv

LEMMA NextDispatch == DispatchInv /\ [Next]_vars => DispatchInv'
  BY NextType, NextQueues, NextSerial, NextReachable, NextOwn
     DEF DispatchInv, BaseInv, SerialInv, ReachInv

\* PendingQueueOwned holds in every state: the queue run() feeds is the one of the turn
\* that holds the session's lock, and no other task has follow-ups waiting in it.
THEOREM QueuesOwned == Spec => []PendingQueueOwned
  <1>1. DispatchInv => PendingQueueOwned
    BY DEF DispatchInv, OwnInv
  <1> QED BY <1>1, InitDispatch, NextDispatch, PTL DEF Spec

-----------------------------------------------------------------------------
(***************************************************************************)
(* Automation turns stay out of conversations.                             *)
(***************************************************************************)
ApartInv == DispatchInv /\ AutomationNeverInjected

\* A step after which no pending queue holds more, no turn that hands over goes
\* on, and nobody is newly injected or dropped but from the queue of another turn.
LEMMA NotInjectedKept ==
    ASSUME ApartInv,
           \A t, x \in Msg : Contains(pending'[t], x) =>
              Contains(pending[t], x) /\ (phase[t] = "saving" => phase'[t] = "saving"),
           \A x \in Msg : phase'[x] \in {"injected", "dropped"} =>
              \/ phase[x] \in {"injected", "dropped"}
              \/ \E t \in Msg : Contains(pending[t], x) /\ phase[t] # "saving"
    PROVE  AutomationNeverInjected'
  BY DEF ApartInv, AutomationNeverInjected

\* /stop takes away the queue of no turn but a /new that waits for others: of the
\* turns it found it has seen the end.
LEMMA StopFindsNew ==
    ASSUME DispatchInv, NEW m \in Msg, CommandDone(m), owner[Key[m]] # None
    PROVE  owner[Key[m]] \in Msg /\ phase[owner[Key[m]]] = "clearing"
  <1> USE BaseFacts DEF DispatchInv
  <1> DEFINE o == owner[Key[m]]
  <1>1. /\ o \in Msg /\ phase[o] \in InTurn /\ holder[Key[m]] = o /\ Kind[o] # "direct"
    BY DEF OwnInv, PendingQueueOwned
  <1>2. Key[o] = Key[m]
    BY <1>1 DEF BaseInv, SerialInv, HolderKey
  <1>3. runLoop = m /\ runLoop # None /\ (o \in awaited[m] => phase[o] \notin Live)
    BY DEF CommandDone
  <1>4. phase[o] \in Live /\ HoldsLock(o)
    BY <1>1 DEF Live, HoldsLock
  <1> HIDE DEF o
  <1>5. phase[o] = "clearing"
    BY <1>1, <1>2, <1>3, <1>4 DEF OwnInv, CommandAwaits
  <1> QED BY <1>1, <1>5 DEF o

LEMMA NextNotInjected == ApartInv /\ [Next]_vars => AutomationNeverInjected'
  <1> SUFFICES ASSUME ApartInv, [Next]_vars PROVE AutomationNeverInjected'
    OBVIOUS
  <1> USE BaseFacts DEF DispatchInv
  <1>0. BaseInv /\ OwnInv /\ DispatchInv /\ AutomationNeverInjected
    BY DEF ApartInv
  <1>1. phase \in [Msg -> Phases] /\ pending \in [Msg -> Seq(Msg)]
    BY <1>0
  <1>2. ASSUME NEW m \in Msg, Arrive(m) \/ Acquire(m) \/ NewCommand(m) \/ NewDone(m)
        PROVE  AutomationNeverInjected'
    <2>1. /\ pending' = pending
          /\ \E p \in {"queued", "created", "lockWait", "gateWait", "running", "clearing", "done"} :
                phase' = [phase EXCEPT ![m] = p]
      BY <1>2 DEF Arrive, Publish, Submit, ProcessDirect, Acquire, StartUncontended,
                  StartWaiting, LockGranted, GateGranted, TakeLock, BeginTurn, NewCommand, NewDone
    <2>2. CASE NewDone(m)
      <3>1. phase[m] = "queued"
        BY <1>0, <2>2 DEF NewDone, CommandDone
      <3> QED BY <1>1, <2>1, <3>1, NotInjectedKept
    <2>3. CASE Arrive(m) \/ Acquire(m) \/ NewCommand(m)
      <3>1. phase[m] # "saving"
        BY <2>3 DEF Arrive, Publish, Submit, ProcessDirect, Acquire, StartUncontended,
                    StartWaiting, LockGranted, GateGranted, NewCommand
      <3> QED BY <1>1, <2>1, <3>1, NotInjectedKept
    <2> QED BY <1>2, <2>2, <2>3
  <1>3. ASSUME NEW m \in Msg, Route(m) PROVE AutomationNeverInjected'
    <2>1. CASE RouteToPending(m)
      <3> DEFINE o == owner[Key[m]]
      <3>1. /\ Kind[m] \notin Automation /\ o \in Msg
            /\ pending' = [pending EXCEPT ![o] = Append(@, m)]
            /\ phase' = phase
        BY <1>0, <2>1 DEF RouteToPending, CanInject, SessionActive, Automation
      <3> HIDE DEF o
      <3>2. \A t, x \in Msg : Contains(pending'[t], x) => Contains(pending[t], x) \/ x = m
        BY <1>1, <3>1, AppendQueue
      <3> QED BY <1>0, <3>1, <3>2 DEF AutomationNeverInjected
    <2>2. CASE RouteToTask(m)
      <3>1. /\ pending' = pending
            /\ phase' = [phase EXCEPT ![m] = "created"] /\ phase[m] = "queued"
        BY <1>0, <2>2, ConsumeQueue DEF RouteToTask, BaseInv
      <3> QED BY <1>1, <3>1, NotInjectedKept
    <2>3. CASE RoutePriority(m) \/ RouteDeferred(m) \/ RouteCommand(m)
      BY <1>1, <2>3, NotInjectedKept DEF RoutePriority, RouteDeferred, RouteCommand
    <2> QED BY <1>3, <2>1, <2>2, <2>3 DEF Route
  <1>4. ASSUME NEW m \in Msg, DrainInjections(m) PROVE AutomationNeverInjected'
    <2> DEFINE k == IF Len(pending[m]) < InjectionsPerTurn THEN Len(pending[m])
                                                           ELSE InjectionsPerTurn
               taken == {pending[m][i] : i \in 1 .. k}
               rest == SubSeq(pending[m], k + 1, Len(pending[m]))
    <2>1. pending[m] \in Seq(Msg) /\ k \in 0 .. Len(pending[m])
      <3>1. Len(pending[m]) \in Nat /\ InjectionsPerTurn \in Nat
        BY <1>1, LenProperties, BoundAssumption
      <3> QED BY <1>1, <3>1
    <2>2. /\ phase' = [x \in Msg |-> IF x \in taken THEN "injected" ELSE phase[x]]
          /\ pending' = [pending EXCEPT ![m] = rest]
          /\ phase[m] = "running"
      BY <1>4 DEF DrainInjections, Working
    <2> HIDE DEF k
    <2>3. /\ \A x : Contains(rest, x) => Contains(pending[m], x)
          /\ \A x \in taken : Contains(pending[m], x)
      BY <2>1, DropFirst
    <2> HIDE DEF taken, rest
    <2>4. \A x \in Msg : x \in taken => phase[x] = "queued"
      BY <1>0, <2>3 DEF BaseInv, QueuesInv, NothingLostOrDoubled, FollowUp
    <2>5. \A t, x \in Msg : Contains(pending'[t], x) => Contains(pending[t], x)
      BY <1>1, <2>2, <2>3
    <2>6. \A t \in Msg : phase[t] = "saving" => phase'[t] = "saving"
      BY <2>2, <2>4
    <2> QED BY <2>2, <2>3, <2>5, <2>6, NotInjectedKept
  <1>5. ASSUME NEW m \in Msg, End(m) \/ Cancel(m) PROVE AutomationNeverInjected'
    <2>1. \E p \in {"done", "failed", "cancelled"} : phase' = [phase EXCEPT ![m] = p]
      BY <1>5 DEF End, FinishTurn, FailTurn, Cancel, CancelTurn, CancelCreated,
                  CancelLockWait, CancelGateWait, EndTurn
    <2>2. \/ pending' = [pending EXCEPT ![m] = <<>>]
          \/ pending' = pending /\ (Kind[m] = "direct" \/ phase[m] # "saving")
      BY <1>5 DEF End, FinishTurn, FailTurn, Cancel, CancelTurn, CancelCreated,
                  CancelLockWait, CancelGateWait, EndTurn
    <2>3. Kind[m] = "direct" => pending[m] = <<>>
      BY <1>0 DEF OwnInv, PendingQueueOwned
    <2>4. \A t, x \in Msg : Contains(pending'[t], x) =>
             Contains(pending[t], x) /\ (t = m => phase[m] # "saving")
      BY <1>1, <2>2, <2>3, EmptyQueue
    <2> QED BY <1>1, <2>1, <2>4, NotInjectedKept
  <1>6. ASSUME NEW m \in Msg, StopDone(m) PROVE AutomationNeverInjected'
    <2> DEFINE o == owner[Key[m]]
               dropped == IF o = None THEN {} ELSE ToSet(pending[o])
    <2>1. /\ phase' = [x \in Msg |-> IF x = m THEN "done"
                                     ELSE IF x \in dropped THEN "dropped" ELSE phase[x]]
          /\ pending' = IF o = None THEN pending ELSE [pending EXCEPT ![o] = <<>>]
          /\ o \in Msg \union {None}
      BY <1>0, <1>6 DEF StopDone
    <2>2. \A x \in dropped : o \in Msg /\ Contains(pending[o], x)
      BY <1>1, <2>1, LenProperties DEF ToSet, Contains
    <2>3. o # None => phase[o] = "clearing"
      BY <1>0, <1>6, StopFindsNew DEF StopDone
    <2>4. phase[m] = "queued"
      BY <1>0, <1>6 DEF StopDone, CommandDone
    <2> HIDE DEF o, dropped
    <2>5. \A x \in Msg : x \in dropped => phase[x] = "queued"
      BY <1>0, <2>2 DEF BaseInv, QueuesInv, NothingLostOrDoubled, FollowUp
    <2>6. \A t, x \in Msg : Contains(pending'[t], x) => Contains(pending[t], x)
      BY <1>1, <2>1, EmptyQueue
    <2>7. \A t \in Msg : phase[t] = "saving" => phase'[t] = "saving"
      BY <2>1, <2>4, <2>5
    <2>8. \A x \in dropped : o \in Msg /\ Contains(pending[o], x) /\ phase[o] # "saving"
      BY <2>1, <2>2, <2>3, MsgAssumption
    <2> QED BY <2>1, <2>6, <2>7, <2>8, NotInjectedKept
  <1>7. ASSUME NEW m \in Msg, NEW c \in Msg, ContinueTurn(m, c) PROVE AutomationNeverInjected'
    <2>1. /\ Kind[c] \in Automation =>
                Kind[c] = "autoCont" /\ Kind[m] \in Automation /\ Key[c] = Key[m]
          /\ phase[c] = "unsent" /\ phase[m] = "running" /\ m # c
          /\ pending' = [pending EXCEPT ![m] = Append(@, c)]
          /\ phase' = [phase EXCEPT ![c] = "queued", ![m] = "saving"]
      BY <1>7 DEF ContinueTurn, BudgetSpent, Working, Automation
    <2>2. \A t, x \in Msg : Contains(pending'[t], x) =>
             Contains(pending[t], x) \/ (x = c /\ t = m)
      BY <1>1, <2>1, AppendQueue
    <2>3. \A t \in Msg : phase[t] = "saving" => phase'[t] = "saving"
      BY <1>1, <2>1
    <2>4. /\ phase'[m] = "saving"
          /\ \A x \in Msg : phase'[x] \in {"injected", "dropped"} => phase'[x] = phase[x]
      BY <1>1, <2>1
    <2> QED BY <1>0, <2>1, <2>2, <2>3, <2>4 DEF AutomationNeverInjected
  <1>8. ASSUME NEW m \in Msg, NEW c \in Msg, ContinueBlocked(m, c)
        PROVE  AutomationNeverInjected'
    BY <1>1, <1>8, NotInjectedKept DEF ContinueBlocked, BudgetSpent, Working
  <1>9. CASE UNCHANGED vars
    BY <1>9, NotInjectedKept DEF vars
  <1> QED BY <1>2, <1>3, <1>4, <1>5, <1>6, <1>7, <1>8, <1>9 DEF Next, Command

LEMMA ApartInductive == Spec => []ApartInv
  <1>1. Init => ApartInv
    <2>1. Init => AutomationNeverInjected
      BY EmptyQueue DEF Init, AutomationNeverInjected
    <2> QED BY <2>1, InitDispatch DEF ApartInv
  <1>2. ApartInv /\ [Next]_vars => ApartInv'
    BY NextDispatch, NextNotInjected DEF ApartInv
  <1> QED BY <1>1, <1>2, PTL DEF Spec

\* AutomationNeverInjected holds in every state: no cron or local-trigger turn, and no
\* continuation of one, ends injected into another turn or dropped by /stop, and what
\* of it is in a pending queue is the continuation its own predecessor hands over to.
THEOREM AutomationApart == Spec => []AutomationNeverInjected
  <1>1. ApartInv => AutomationNeverInjected
    BY DEF ApartInv
  <1> QED BY <1>1, ApartInductive, PTL
-----------------------------------------------------------------------------
(***************************************************************************)
(* The dispatcher implements SessionService: every step of the event loop  *)
(* is a step of the service, or leaves it alone.                           *)
(***************************************************************************)

\* Only follow-ups and continuations of its own session are in the pending queue
\* of a turn.
FollowUpsOnly == \A t, x \in Msg : Contains(pending[t], x) =>
    Key[x] = Key[t] /\ Kind[x] \in {"user", "cont", "autoCont"}

\* A task is cancelled only by a command given to its session.
CancelCause == \A t \in cancelled : \E c \in Msg :
    Kind[c] \in {"stop", "new"} /\ Key[c] = Key[t] /\ phase[c] # "unsent"

RefInv == ApartInv /\ FollowUpsOnly /\ CancelCause

\* What the prefix of a queue that a drain takes looks like.
LEMMA DrainTakes ==
    ASSUME NEW q \in Seq(Msg)
    PROVE  LET k == IF Len(q) < InjectionsPerTurn THEN Len(q) ELSE InjectionsPerTurn
               taken == {q[i] : i \in 1 .. k}
           IN  /\ \A x \in taken : x \in Msg /\ Contains(q, x)
               /\ \A x : Contains(SubSeq(q, k + 1, Len(q)), x) => Contains(q, x)
               /\ Cardinality(taken) <= InjectionsPerTurn
  <1> DEFINE k == IF Len(q) < InjectionsPerTurn THEN Len(q) ELSE InjectionsPerTurn
             taken == {q[i] : i \in 1 .. k}
  <1>1. k \in 0 .. Len(q) /\ k \in Nat /\ k <= InjectionsPerTurn /\ InjectionsPerTurn \in Nat
    <2>1. Len(q) \in Nat /\ InjectionsPerTurn \in Nat
      BY LenProperties, BoundAssumption
    <2> QED BY <2>1
  <1> HIDE DEF k
  <1>2. /\ \A x : Contains(SubSeq(q, k + 1, Len(q)), x) => Contains(q, x)
        /\ \A x \in taken : Contains(q, x)
    BY <1>1, DropFirst
  <1>3. \A x \in taken : x \in Msg
    BY <1>1, ElementOfSeq
  <1>4. Cardinality(taken) <= InjectionsPerTurn
    <2>1. IsFiniteSet(1 .. k) /\ Cardinality(1 .. k) = k
      BY <1>1, FS_Interval
    <2>2. IsFiniteSet(taken) /\ Cardinality(taken) <= Cardinality(1 .. k)
      <3> DEFINE f == [i \in 1 .. k |-> q[i]]
      <3>1. f \in [1 .. k -> taken] /\ \A x \in taken : \E i \in 1 .. k : f[i] = x
        OBVIOUS
      <3> HIDE DEF f, taken
      <3>2. f \in Surjection(1 .. k, taken)
        BY <3>1 DEF Surjection
      <3> QED BY <2>1, <3>2, FS_Surjection
    <2>3. Cardinality(taken) \in Nat
      BY <2>2, FS_CardinalityType
    <2> HIDE DEF taken
    <2> QED BY <1>1, <2>1, <2>2, <2>3
  <1> HIDE DEF taken
  <1> QED BY <1>2, <1>3, <1>4 DEF k, taken

-----------------------------------------------------------------------------
(***************************************************************************)
(* The two invariants the refinement adds.                                 *)
(***************************************************************************)
LEMMA NextFollowUpsOnly == RefInv /\ [Next]_vars => FollowUpsOnly'
  <1> SUFFICES ASSUME RefInv, [Next]_vars PROVE FollowUpsOnly'
    OBVIOUS
  <1> USE BaseFacts DEF RefInv, ApartInv, DispatchInv
  <1>1. ASSUME \A t, x \in Msg : Contains(pending'[t], x) => Contains(pending[t], x)
        PROVE  FollowUpsOnly'
    BY <1>1 DEF FollowUpsOnly
  <1>2. ASSUME NEW t \in Msg, pending' = [pending EXCEPT ![t] = <<>>] PROVE FollowUpsOnly'
    BY <1>1, <1>2, EmptyQueue
  <1>3. ASSUME NEW m \in Msg, RouteToPending(m) PROVE FollowUpsOnly'
    <2> DEFINE o == owner[Key[m]]
    <2>1. /\ Kind[m] \in {"user", "cont"} /\ o \in Msg
          /\ pending' = [pending EXCEPT ![o] = Append(@, m)]
      BY <1>3 DEF RouteToPending, CanInject, SessionActive
    <2>2. Key[o] = Key[m]
      <3>1. holder[Key[m]] = o /\ o # None
        BY <2>1 DEF OwnInv, PendingQueueOwned
      <3> QED BY <3>1 DEF BaseInv, SerialInv, HolderKey
    <2> HIDE DEF o
    <2>3. \A t, x \in Msg : Contains(pending'[t], x) => Contains(pending[t], x) \/ (x = m /\ t = o)
      BY <2>1, AppendQueue
    <2> QED BY <2>1, <2>2, <2>3 DEF FollowUpsOnly
  <1>4. ASSUME NEW m \in Msg, NEW c \in Msg, ContinueTurn(m, c) PROVE FollowUpsOnly'
    <2>1. /\ Kind[c] \in {"cont", "autoCont"} /\ Key[c] = Key[m]
          /\ pending' = [pending EXCEPT ![m] = Append(@, c)]
      BY <1>4 DEF ContinueTurn, BudgetSpent
    <2>2. \A t, x \in Msg : Contains(pending'[t], x) => Contains(pending[t], x) \/ (x = c /\ t = m)
      BY <2>1, AppendQueue
    <2> QED BY <2>1, <2>2 DEF FollowUpsOnly
  <1>5. ASSUME NEW m \in Msg, DrainInjections(m) PROVE FollowUpsOnly'
    <2> DEFINE k == IF Len(pending[m]) < InjectionsPerTurn THEN Len(pending[m])
                                                           ELSE InjectionsPerTurn
               rest == SubSeq(pending[m], k + 1, Len(pending[m]))
    <2>1. pending' = [pending EXCEPT ![m] = rest]
      BY <1>5 DEF DrainInjections
    <2>2. \A x : Contains(rest, x) => Contains(pending[m], x)
      BY DrainTakes
    <2> HIDE DEF rest
    <2> QED BY <1>1, <2>1, <2>2
  <1>6. CASE pending' = pending
    BY <1>1, <1>6
  <1>7. ASSUME NEW m \in Msg, End(m) \/ Cancel(m) \/ Command(m)
        PROVE  pending' = pending \/ \E t \in Msg : pending' = [pending EXCEPT ![t] = <<>>]
    BY <1>7 DEF End, FinishTurn, FailTurn, Cancel, CancelTurn, CancelCreated, CancelLockWait,
                CancelGateWait, EndTurn, Command, StopDone, NewDone
  <1>8. ASSUME NEW m \in Msg,
               \/ Arrive(m) \/ Acquire(m) \/ NewCommand(m)
               \/ Route(m) /\ ~RouteToPending(m)
        PROVE  pending' = pending
    BY <1>8 DEF Arrive, Publish, Submit, ProcessDirect, Acquire, StartUncontended, StartWaiting,
                LockGranted, GateGranted, NewCommand, Route, RoutePriority, RouteDeferred,
                RouteCommand, RouteToTask
  <1>9. ASSUME NEW m \in Msg, NEW c \in Msg, ContinueBlocked(m, c) PROVE pending' = pending
    BY <1>9 DEF ContinueBlocked
  <1>10. CASE UNCHANGED vars
    BY <1>6, <1>10 DEF vars
  <1> QED BY <1>2, <1>3, <1>4, <1>5, <1>6, <1>7, <1>8, <1>9, <1>10 DEF Next

LEMMA NextCancelCause == RefInv /\ [Next]_vars => CancelCause'
  <1> SUFFICES ASSUME RefInv, [Next]_vars PROVE CancelCause'
    OBVIOUS
  <1> USE BaseFacts DEF RefInv, ApartInv, DispatchInv
  <1>1. \A x \in Msg : phase[x] # "unsent" => phase'[x] # "unsent"
    <2>1. ASSUME NEW m \in Msg, Arrive(m) \/ Acquire(m) \/ NewCommand(m)
          PROVE  \E p \in Phases : p # "unsent" /\ phase' = [phase EXCEPT ![m] = p]
      BY <2>1 DEF Arrive, Publish, Submit, ProcessDirect, Acquire, StartUncontended,
                  StartWaiting, LockGranted, GateGranted, TakeLock, BeginTurn, NewCommand,
                  Phases, Live, InTurn
    <2>2. ASSUME NEW m \in Msg, Route(m)
          PROVE  phase' = phase \/ phase' = [phase EXCEPT ![m] = "created"]
      BY <2>2 DEF Route, RoutePriority, RouteDeferred, RouteCommand, RouteToPending, RouteToTask
    <2>3. ASSUME NEW m \in Msg, DrainInjections(m)
          PROVE  \A x \in Msg : phase'[x] \in {"injected", phase[x]}
      BY <2>3 DEF DrainInjections
    <2>4. ASSUME NEW m \in Msg, End(m) \/ Cancel(m)
          PROVE  \E p \in {"done", "failed", "cancelled"} : phase' = [phase EXCEPT ![m] = p]
      BY <2>4 DEF End, FinishTurn, FailTurn, Cancel, CancelTurn, CancelCreated,
                  CancelLockWait, CancelGateWait, EndTurn
    <2>5. ASSUME NEW m \in Msg, Command(m)
          PROVE  \A x \in Msg : phase'[x] \in {"done", "dropped", phase[x]}
      BY <2>5 DEF Command, StopDone, NewDone
    <2>6. ASSUME NEW m \in Msg, NEW c \in Msg, ContinueTurn(m, c) \/ ContinueBlocked(m, c)
          PROVE  \A x \in Msg : phase'[x] \in {"queued", "saving", "blocked", phase[x]}
      BY <2>6 DEF ContinueTurn, ContinueBlocked
    <2>7. CASE UNCHANGED vars
      BY <2>7 DEF vars
    <2> QED BY <2>1, <2>2, <2>3, <2>4, <2>5, <2>6, <2>7 DEF Next
  <1>2. ASSUME cancelled' \subseteq cancelled PROVE CancelCause'
    BY <1>1, <1>2 DEF CancelCause
  <1>3. ASSUME NEW m \in Msg, cancelled' \subseteq cancelled \union active[Key[m]],
               Kind[m] \in {"stop", "new"}, phase[m] # "unsent"
        PROVE  CancelCause'
    <2>1. \A t \in active[Key[m]] : t \in Msg /\ Key[t] = Key[m]
      BY DEF OwnInv, ActiveKey
    <2>2. phase'[m] # "unsent"
      BY <1>1, <1>3
    <2>3. \A t \in cancelled : \E c \in Msg :
             Kind[c] \in {"stop", "new"} /\ Key[c] = Key[t] /\ phase'[c] # "unsent"
      BY <1>1 DEF CancelCause
    <2> QED BY <1>3, <2>1, <2>2, <2>3 DEF CancelCause
  <1>4. ASSUME NEW m \in Msg, RoutePriority(m) \/ RouteCommand(m) PROVE CancelCause'
    <2>1. phase[m] = "queued"
      BY <1>4, ConsumeQueue DEF RoutePriority, RouteCommand, BaseInv
    <2> QED BY <1>3, <1>4, <2>1 DEF RoutePriority, RouteCommand, CancelActiveTasks
  <1>5. ASSUME NEW m \in Msg, NewCommand(m) PROVE CancelCause'
    BY <1>3, <1>5 DEF NewCommand
  <1>6. ASSUME NEW m \in Msg,
               \/ Arrive(m) \/ Acquire(m) \/ DrainInjections(m) \/ End(m) \/ Cancel(m) \/ Command(m)
               \/ Route(m) /\ ~RoutePriority(m) /\ ~RouteCommand(m)
        PROVE  cancelled' \subseteq cancelled
    BY <1>6 DEF Arrive, Publish, Submit, ProcessDirect, Acquire, StartUncontended, StartWaiting,
                LockGranted, GateGranted, DrainInjections, End, FinishTurn, FailTurn, Cancel,
                CancelTurn, CancelCreated, CancelLockWait, CancelGateWait, EndTurn, Forget,
                Command, StopDone, NewDone, Route, RouteDeferred, RouteToPending, RouteToTask
  <1>7. ASSUME NEW m \in Msg, NEW c \in Msg, ContinueTurn(m, c) \/ ContinueBlocked(m, c)
        PROVE  cancelled' \subseteq cancelled
    BY <1>7 DEF ContinueTurn, ContinueBlocked
  <1>8. CASE UNCHANGED vars
    BY <1>2, <1>8 DEF vars
  <1> QED BY <1>2, <1>4, <1>5, <1>6, <1>7, <1>8 DEF Next

-----------------------------------------------------------------------------
(***************************************************************************)
(* The steps of the dispatcher, as steps of the service.                   *)
(***************************************************************************)
\* The status of a message, by its phase, before and after a step.
LEMMA StatusIs ==
    ASSUME phase \in [Msg -> Phases], phase' \in [Msg -> Phases], NEW m \in Msg
    PROVE  /\ status[m] = "unsent" <=> phase[m] = "unsent"
           /\ status[m] = "waiting" <=> phase[m] \in {"queued", "created", "lockWait", "gateWait"}
           /\ status[m] = "serving" <=> phase[m] \in InTurn
           /\ status[m] = "over" <=> phase[m] \in Over
           /\ phase'[m] = "unsent" => status'[m] = "unsent"
           /\ phase'[m] \in {"queued", "created", "lockWait", "gateWait"} => status'[m] = "waiting"
           /\ phase'[m] \in InTurn => status'[m] = "serving"
           /\ phase'[m] \in Over => status'[m] = "over"
  <1>1. phase[m] \in Phases /\ phase'[m] \in Phases
    OBVIOUS
  <1> QED BY <1>1 DEF status, StatusOf, Phases, Live, Over, InTurn

LEMMA ServiceMove ==
    ASSUME NEW S \in SUBSET Msg, NEW to,
           \A x \in Msg : status'[x] = IF x \in S THEN to ELSE status[x]
    PROVE  Service!Move(S, to)
  <1>1. status' = [x \in Msg |-> status'[x]]
    BY DEF status
  <1> QED BY <1>1 DEF Service!Move

\* The service counts as the dispatcher does.
LEMMA ServiceCardinality == \A S : Service!Cardinality(S) = Cardinality(S)
  BY DEF Service!Cardinality, Cardinality

\* A step that moves no message from one status to another.
LEMMA ServiceStutter ==
    ASSUME \A x \in Msg : status'[x] = status[x]
    PROVE  UNCHANGED status
  <1>1. status = [x \in Msg |-> status[x]] /\ status' = [x \in Msg |-> status'[x]]
    BY DEF status
  <1> QED BY <1>1

\* A task past the session lock and the gate is served: alone in its session, and
\* within the permits.
LEMMA ServeStep ==
    ASSUME RefInv, phase' \in [Msg -> Phases], NEW m \in Msg,
           phase[m] \in {"created", "lockWait", "gateWait"},
           phase' = [phase EXCEPT ![m] = "running"],
           holder[Key[m]] \in {m, None},
           Kind[m] # "direct" => Cardinality(Permits) < GateSize
    PROVE  Service!Serve(m)
  <1> USE BaseFacts DEF RefInv, ApartInv, DispatchInv
  <1>1. phase \in [Msg -> Phases] /\ phase' \in [Msg -> Phases]
    OBVIOUS
  <1>2. status[m] = "waiting"
    BY <1>1, StatusIs
  <1>3. Service!Serving(Key[m]) = {}
    <2>1. \A x \in Msg : Key[x] = Key[m] => phase[x] \notin InTurn
      <3>1. \A x \in Msg : phase[x] \in InTurn => holder[Key[x]] = x
        BY DEF HoldsLock
      <3> QED BY <3>1 DEF InTurn
    <2> QED BY <1>1, <2>1, StatusIs DEF Service!Serving
  <1>4. Service!Gated = Permits
    BY <1>1, StatusIs DEF Service!Gated, Permits
  <1>5. \A x \in Msg : status'[x] = IF x \in {m} THEN "serving" ELSE status[x]
    <2>1. status'[m] = "serving"
      BY <1>1, StatusIs DEF InTurn
    <2>2. \A x \in Msg : x # m => status'[x] = status[x]
      BY <1>1 DEF status
    <2> QED BY <2>1, <2>2
  <1>6. {m} \in SUBSET Msg
    OBVIOUS
  <1>7. Service!Move({m}, "serving")
    BY <1>5, <1>6, ServiceMove
  <1>8. Kind[m] # "direct" => Service!Cardinality(Service!Gated) < GateSize
    BY <1>4, ServiceCardinality
  <1> QED BY ONLY <1>2, <1>3, <1>7, <1>8 DEF Service!Serve

\* Messages that wait and are over after the step, in the hands of a command.
LEMMA EndWaitingStep ==
    ASSUME RefInv, phase' \in [Msg -> Phases], NEW c \in Msg, NEW S \in SUBSET Msg,
           Kind[c] \in {"stop", "new"}, phase[c] # "unsent",
           \A x \in S : /\ Key[x] = Key[c]
                        /\ phase[x] \in {"queued", "created", "lockWait", "gateWait"}
                        /\ phase'[x] \in Over,
           \A x \in Msg \ S : phase'[x] = phase[x]
    PROVE  Service!Next
  <1> USE BaseFacts DEF RefInv, ApartInv, DispatchInv
  <1>1. phase \in [Msg -> Phases] /\ phase' \in [Msg -> Phases]
    OBVIOUS
  <1>2. status[c] # "unsent" /\ S \subseteq Service!Waiting(Key[c])
    BY <1>1, StatusIs DEF Service!Waiting
  <1>3. \A x \in Msg : status'[x] = IF x \in S THEN "over" ELSE status[x]
    <2>1. \A x \in S : status'[x] = "over"
      BY <1>1, StatusIs
    <2>2. \A x \in Msg \ S : status'[x] = status[x]
      BY <1>1 DEF status
    <2> QED BY <2>1, <2>2
  <1>4. Service!EndWaiting(c, S) /\ c \in Service!Commands
    BY <1>2, <1>3, ServiceMove DEF Service!EndWaiting, Service!Commands
  <1> QED BY <1>4 DEF Service!Next, Service!EndWaiting

\* A turn is over.
LEMMA FinishStep ==
    ASSUME RefInv, phase' \in [Msg -> Phases], NEW m \in Msg, phase[m] \in InTurn, NEW outcome \in Over,
           phase' = [phase EXCEPT ![m] = outcome]
    PROVE  Service!Finish(m)
  <1> USE BaseFacts DEF RefInv, ApartInv, DispatchInv
  <1>1. phase \in [Msg -> Phases] /\ phase' \in [Msg -> Phases]
    OBVIOUS
  <1>2. status[m] = "serving" /\ status'[m] = "over"
    BY <1>1, StatusIs
  <1>3. \A x \in Msg : x # m => status'[x] = status[x]
    BY <1>1 DEF status
  <1>4. \A x \in Msg : status'[x] = IF x \in {m} THEN "over" ELSE status[x]
    BY <1>2, <1>3
  <1>5. {m} \in SUBSET Msg
    OBVIOUS
  <1>6. Service!Move({m}, "over")
    BY <1>4, <1>5, ServiceMove
  <1> QED BY <1>2, <1>6 DEF Service!Finish

\* A message is accepted.
LEMMA ArriveStep ==
    ASSUME RefInv, phase' \in [Msg -> Phases], NEW m \in Msg, phase[m] = "unsent",
           phase'[m] \in {"queued", "created"},
           \A x \in Msg : x # m => phase'[x] = phase[x] \/ (phase[x] = "running" /\ phase'[x] = "saving")
    PROVE  Service!Arrive(m)
  <1> USE BaseFacts DEF RefInv, ApartInv, DispatchInv
  <1>1. phase \in [Msg -> Phases] /\ phase' \in [Msg -> Phases]
    OBVIOUS
  <1>2. status[m] = "unsent" /\ status'[m] = "waiting"
    BY <1>1, StatusIs
  <1>3. \A x \in Msg : x # m => status'[x] = status[x]
    <2>1. ASSUME NEW x \in Msg, phase'[x] = phase[x] PROVE status'[x] = status[x]
      BY <1>1, <2>1 DEF status
    <2>2. ASSUME NEW x \in Msg, phase[x] = "running", phase'[x] = "saving"
          PROVE  status'[x] = status[x]
      BY <1>1, <2>2, StatusIs DEF InTurn
    <2> QED BY <2>1, <2>2
  <1>4. \A x \in Msg : status'[x] = IF x \in {m} THEN "waiting" ELSE status[x]
    BY <1>2, <1>3
  <1>5. {m} \in SUBSET Msg
    OBVIOUS
  <1>6. Service!Move({m}, "waiting")
    BY <1>4, <1>5, ServiceMove
  <1> QED BY <1>2, <1>6 DEF Service!Arrive

\* Follow-ups of the session join the turn that is being served.
LEMMA AbsorbStep ==
    ASSUME RefInv, phase' \in [Msg -> Phases], NEW m \in Msg, DrainInjections(m)
    PROVE  Service!Next
  <1> USE BaseFacts DEF RefInv, ApartInv, DispatchInv
  <1> DEFINE k == IF Len(pending[m]) < InjectionsPerTurn THEN Len(pending[m])
                                                         ELSE InjectionsPerTurn
             taken == {pending[m][i] : i \in 1 .. k}
  <1>1. /\ \A x \in taken : x \in Msg /\ Contains(pending[m], x)
        /\ Cardinality(taken) <= InjectionsPerTurn
    <2>1. pending[m] \in Seq(Msg)
      OBVIOUS
    <2> QED BY ONLY <2>1, DrainTakes
  <1>2. /\ phase[m] = "running"
        /\ phase' = [x \in Msg |-> IF x \in taken THEN "injected" ELSE phase[x]]
    BY DEF DrainInjections, Working
  <1> HIDE DEF k, taken
  <1>3. phase \in [Msg -> Phases]
    OBVIOUS
  <1>4. \A x \in taken : /\ Key[x] = Key[m] /\ Kind[x] \in {"user", "cont"}
                         /\ phase[x] = "queued"
    <2>1. \A x \in taken : Key[x] = Key[m] /\ Kind[x] \in {"user", "cont", "autoCont"}
      BY <1>1 DEF FollowUpsOnly
    <2>2. \A x \in taken : Kind[x] \notin Automation
      BY <1>1, <1>2 DEF AutomationNeverInjected
    <2>3. \A x \in taken : phase[x] = "queued"
      BY <1>1 DEF BaseInv, QueuesInv, NothingLostOrDoubled, FollowUp
    <2> QED BY <2>1, <2>2, <2>3 DEF Automation
  <1>5. status[m] = "serving"
    BY <1>2, <1>3, StatusIs DEF InTurn
  <1>6. taken \subseteq {x \in Service!Waiting(Key[m]) : Kind[x] \in {"user", "cont"}}
    BY <1>1, <1>3, <1>4, StatusIs DEF Service!Waiting
  <1>7. \A x \in Msg : status'[x] = IF x \in taken THEN "over" ELSE status[x]
    <2>1. ASSUME NEW x \in taken PROVE status'[x] = "over"
      <3>1. x \in Msg /\ phase'[x] \in Over
        BY <1>1, <1>2 DEF Over
      <3> QED BY <1>3, <3>1, StatusIs
    <2>2. \A x \in Msg \ taken : status'[x] = status[x]
      BY <1>2 DEF status
    <2> QED BY <2>1, <2>2
  <1>8. taken \in SUBSET Msg
    BY <1>1
  <1>9. Service!Move(taken, "over")
    BY <1>7, <1>8, ServiceMove
  <1>10. Service!Cardinality(taken) <= InjectionsPerTurn
    BY <1>1, ServiceCardinality
  <1>11. Service!Absorb(m, taken)
    BY ONLY <1>5, <1>6, <1>9, <1>10 DEF Service!Absorb
  <1> QED BY <1>8, <1>11 DEF Service!Next, Service!Absorb

\* Tasks that get further towards their turn.
LEMMA AcquireStep ==
    ASSUME RefInv, phase' \in [Msg -> Phases], NEW m \in Msg, Acquire(m)
    PROVE  Service!Next \/ UNCHANGED status
  <1> USE BaseFacts DEF RefInv, ApartInv, DispatchInv
  <1>1. /\ phase[m] \in {"created", "lockWait", "gateWait"}
        /\ \/ \E p \in {"lockWait", "gateWait"} : phase' = [phase EXCEPT ![m] = p]
           \/ /\ phase' = [phase EXCEPT ![m] = "running"]
              /\ holder[Key[m]] \in {m, None}
              /\ Kind[m] # "direct" => Cardinality(Permits) < GateSize
    <2>1. CASE StartUncontended(m) \/ LockGranted(m)
      BY <2>1 DEF StartUncontended, LockGranted, LockFree, TakeLock, BeginTurn, GateOpen
    <2>2. CASE StartWaiting(m)
      BY <2>2 DEF StartWaiting
    <2>3. CASE GateGranted(m)
      BY <2>3 DEF GateGranted, BeginTurn, HoldsLock
    <2> QED BY <2>1, <2>2, <2>3 DEF Acquire
  <1>2. CASE /\ phase' = [phase EXCEPT ![m] = "running"]
             /\ holder[Key[m]] \in {m, None}
             /\ Kind[m] # "direct" => Cardinality(Permits) < GateSize
    <2>1. Service!Serve(m)
      BY <1>1, <1>2, ServeStep
    <2> QED BY <2>1 DEF Service!Next
  <1>3. ASSUME NEW p \in {"lockWait", "gateWait"}, phase' = [phase EXCEPT ![m] = p]
        PROVE  UNCHANGED status
    <2>1. phase \in [Msg -> Phases]
      OBVIOUS
    <2>2. status[m] = "waiting" /\ status'[m] = "waiting"
      BY <1>1, <1>3, <2>1, StatusIs
    <2>3. \A x \in Msg : x # m => status'[x] = status[x]
      BY <1>3 DEF status
    <2> QED BY <2>2, <2>3, ServiceStutter
  <1> QED BY <1>1, <1>2, <1>3

\* A command that run() executed inline ends, and with it what it drops.
LEMMA CommandStep ==
    ASSUME RefInv, phase' \in [Msg -> Phases], NEW m \in Msg, Command(m)
    PROVE  Service!Next
  <1> USE BaseFacts DEF RefInv, ApartInv, DispatchInv
  <1> DEFINE o == owner[Key[m]]
             dropped == IF StopDone(m) /\ o # None THEN ToSet(pending[o]) ELSE {}
             S == {m} \union dropped
  <1>1. /\ phase[m] = "queued" /\ Kind[m] \in {"stop", "new"}
        /\ phase'[m] = "done"
        /\ \A x \in Msg : x # m => phase'[x] = IF x \in dropped THEN "dropped" ELSE phase[x]
    BY DEF Command, StopDone, NewDone, CommandDone
  <1>2. \A x \in dropped : x \in Msg /\ Key[x] = Key[m] /\ phase[x] = "queued"
    <2>1. ASSUME NEW x \in dropped PROVE x \in Msg /\ Key[x] = Key[m] /\ phase[x] = "queued"
      <3>1. /\ o \in Msg /\ pending[o] \in Seq(Msg)
            /\ holder[Key[m]] = o
        BY DEF OwnInv, PendingQueueOwned
      <3>2. x \in Msg /\ Contains(pending[o], x)
        BY <3>1, LenProperties, ElementOfSeq DEF ToSet, Contains
      <3> HIDE DEF o
      <3>3. Key[o] = Key[m]
        BY <3>1 DEF BaseInv, SerialInv, HolderKey
      <3>4. Key[x] = Key[m]
        BY <3>1, <3>2, <3>3 DEF FollowUpsOnly
      <3>5. phase[x] = "queued"
        BY <3>1, <3>2 DEF BaseInv, QueuesInv, NothingLostOrDoubled, FollowUp
      <3> QED BY <3>2, <3>4, <3>5
    <2> QED BY <2>1
  <1> HIDE DEF dropped
  <1>3. /\ S \in SUBSET Msg
        /\ \A x \in S : /\ Key[x] = Key[m]
                        /\ phase[x] \in {"queued", "created", "lockWait", "gateWait"}
                        /\ phase'[x] \in Over
        /\ \A x \in Msg \ S : phase'[x] = phase[x]
    BY <1>1, <1>2 DEF Over
  <1> HIDE DEF S
  <1> QED BY <1>1, <1>3, EndWaitingStep

\* Every step of the dispatcher is one of the service.
LEMMA NextService ==
    ASSUME RefInv, phase' \in [Msg -> Phases], [Next]_vars
    PROVE  Service!Next \/ UNCHANGED status
  <1> USE BaseFacts DEF RefInv, ApartInv, DispatchInv
  <1>1. ASSUME phase' = phase PROVE UNCHANGED status
    BY <1>1 DEF status
  <1>2. ASSUME NEW m \in Msg, Arrive(m) PROVE Service!Next
    <2>1. Service!Arrive(m)
      BY <1>2, ArriveStep DEF Arrive, Publish, Submit, ProcessDirect
    <2> QED BY <2>1 DEF Service!Next
  <1>3. ASSUME NEW m \in Msg, Route(m) PROVE UNCHANGED status
    <2>1. CASE RouteToTask(m)
      <3>1. phase[m] = "queued" /\ phase \in [Msg -> Phases]
        BY <2>1, ConsumeQueue DEF RouteToTask, BaseInv
      <3>2. phase' = [phase EXCEPT ![m] = "created"]
        BY <2>1 DEF RouteToTask
      <3>3. status[m] = "waiting" /\ status'[m] = "waiting"
        BY <3>1, <3>2, StatusIs
      <3>4. \A x \in Msg : x # m => status'[x] = status[x]
        BY <3>2 DEF status
      <3> QED BY <3>3, <3>4, ServiceStutter
    <2>2. CASE ~RouteToTask(m)
      BY <1>1, <1>3, <2>2 DEF Route, RoutePriority, RouteDeferred, RouteCommand, RouteToPending
    <2> QED BY <2>1, <2>2
  <1>4. ASSUME NEW m \in Msg, NewCommand(m) PROVE UNCHANGED status
    <2>1. phase[m] = "running" /\ phase' = [phase EXCEPT ![m] = "clearing"]
      BY <1>4 DEF NewCommand
    <2>2. status[m] = "serving" /\ status'[m] = "serving"
      <3>1. phase \in [Msg -> Phases]
        OBVIOUS
      <3> QED BY <2>1, <3>1, StatusIs DEF InTurn
    <2>3. \A x \in Msg : x # m => status'[x] = status[x]
      BY <2>1 DEF status
    <2> QED BY <2>2, <2>3, ServiceStutter
  <1>5. ASSUME NEW m \in Msg, End(m) \/ CancelTurn(m) PROVE Service!Next
    <2>1. phase[m] \in InTurn /\ \E p \in Over : phase' = [phase EXCEPT ![m] = p]
      BY <1>5 DEF End, FinishTurn, FailTurn, CanEnd, CancelTurn, EndTurn, InTurn, Over
    <2>2. Service!Finish(m)
      BY <2>1, FinishStep
    <2> QED BY <2>2 DEF Service!Next
  <1>6. ASSUME NEW m \in Msg, CancelCreated(m) \/ CancelLockWait(m) \/ CancelGateWait(m)
        PROVE  Service!Next
    <2>1. /\ m \in cancelled
          /\ phase[m] \in {"queued", "created", "lockWait", "gateWait"}
          /\ phase' = [phase EXCEPT ![m] = "cancelled"]
      BY <1>6 DEF CancelCreated, CancelLockWait, CancelGateWait
    <2>2. PICK c \in Msg : Kind[c] \in {"stop", "new"} /\ Key[c] = Key[m] /\ phase[c] # "unsent"
      BY <2>1 DEF CancelCause
    <2>3. {m} \in SUBSET Msg
      OBVIOUS
    <2>4. /\ \A x \in {m} : /\ Key[x] = Key[c]
                            /\ phase[x] \in {"queued", "created", "lockWait", "gateWait"}
                            /\ phase'[x] \in Over
          /\ \A x \in Msg \ {m} : phase'[x] = phase[x]
      BY <2>1, <2>2 DEF Over
    <2> QED BY <2>2, <2>3, <2>4, EndWaitingStep
  <1>7. ASSUME NEW m \in Msg, NEW c \in Msg, ContinueTurn(m, c) PROVE Service!Next
    <2>1. /\ phase[m] = "running" /\ phase[c] = "unsent"
          /\ phase' = [phase EXCEPT ![c] = "queued", ![m] = "saving"]
      BY <1>7 DEF ContinueTurn, BudgetSpent, Working
    <2>2. /\ phase'[c] = "queued"
          /\ \A x \in Msg : x # c =>
                phase'[x] = phase[x] \/ (phase[x] = "running" /\ phase'[x] = "saving")
      BY <2>1
    <2>3. Service!Arrive(c)
      BY <2>1, <2>2, ArriveStep
    <2> QED BY <2>3 DEF Service!Next
  <1>8. ASSUME NEW m \in Msg, NEW c \in Msg, ContinueBlocked(m, c) PROVE UNCHANGED status
    <2>1. phase[m] = "running" /\ phase' = [phase EXCEPT ![m] = "blocked"]
      BY <1>8 DEF ContinueBlocked, BudgetSpent, Working
    <2>2. status[m] = "serving" /\ status'[m] = "serving"
      <3>1. phase \in [Msg -> Phases]
        OBVIOUS
      <3> QED BY <2>1, <3>1, StatusIs DEF InTurn
    <2>3. \A x \in Msg : x # m => status'[x] = status[x]
      BY <2>1 DEF status
    <2> QED BY <2>2, <2>3, ServiceStutter
  <1>9. CASE UNCHANGED vars
    BY <1>1, <1>9 DEF vars
  <1> QED BY <1>2, <1>3, <1>4, <1>5, <1>6, <1>7, <1>8, <1>9, AcquireStep, AbsorbStep, CommandStep
          DEF Next, Cancel

LEMMA InitService == Init => Service!Init
  <1>1. StatusOf("unsent") = "unsent"
    BY DEF StatusOf, InTurn, Over
  <1> QED BY <1>1 DEF Init, status, Service!Init

\* ImplementsService: with its locks, queues, cancellations and deferrals hidden, the
\* dispatcher is SessionService. Turns of a session are served one at a time and
\* GateSize in all; only a command to the session ends messages that still wait.
THEOREM DispatcherImplementsService == Spec => ImplementsService
  <1>1. Init => RefInv
    <2>1. Init => FollowUpsOnly /\ CancelCause /\ AutomationNeverInjected
      BY EmptyQueue DEF Init, FollowUpsOnly, CancelCause, AutomationNeverInjected
    <2> QED BY <2>1, InitDispatch DEF RefInv, ApartInv
  <1>2. RefInv /\ [Next]_vars => RefInv'
    BY NextDispatch, NextNotInjected, NextFollowUpsOnly, NextCancelCause DEF RefInv, ApartInv
  <1>3. RefInv /\ RefInv' /\ [Next]_vars => [Service!Next]_status
    <2> SUFFICES ASSUME RefInv, RefInv', [Next]_vars PROVE Service!Next \/ UNCHANGED status
      OBVIOUS
    <2>1. phase' \in [Msg -> Phases]
      BY DEF RefInv, ApartInv, DispatchInv, BaseInv, ReachInv, TypeOK
    <2> QED BY <2>1, NextService
  <1> QED BY <1>1, <1>2, <1>3, InitService, PTL DEF Spec, ImplementsService, Service!Spec
=============================================================================
