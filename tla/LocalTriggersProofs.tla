------------------------- MODULE LocalTriggersProofs -------------------------
(***************************************************************************)
(* Theorems about LocalTriggers: type correctness, the three safety        *)
(* invariants, and the refinement of DeliveryQueue, for any number of      *)
(* triggers, deliveries, attempts and any batch size.                      *)
(*                                                                         *)
(* The inductive invariant adds to the properties what the runner's phase  *)
(* says of the batch (PhaseInv), what exists (Known), where the files of a *)
(* delivery can be (Copies), and the attempts of a file against the turns  *)
(* already run (Counted).                                                  *)
(***************************************************************************)
EXTENDS LocalTriggers, TLAPS

\* The runner is past the submission of the first delivery of the batch.
Submitted == phase \in {"serving", "settling"}
Copying == phase \in {"retrying", "stopping"}

\* The phase against the batch and the copy in progress.
PhaseInv ==
    /\ phase \in {"down", "recovering", "polling"} => batch = {}
    /\ moving # None => phase = "recovering" \/ Copying
    /\ Copying => moving # None /\ Oldest(moving, batch)
    /\ phase = "settling" => \A d \in batch : Oldest(d, batch) => record[d] \in {"ok", "error"}

\* Only what was enqueued has files, a target, turns and a place in the batch.
Known ==
    /\ In(inbox) \union In(processing) \union In(failed) \union batch \subseteq 1 .. created
    /\ \A d \in 1 .. created : target[d] \in Trigger
    /\ \A d \in Delivery : d > created => turns[d] = 0

\* Where the copies of a delivery can be.
Copies ==
    /\ In(inbox) \intersect In(failed) = {}
    /\ phase \notin {"down", "recovering"} => In(processing) \subseteq batch
    /\ \A d \in batch : d # moving => d \notin In(inbox) \union In(failed)
    /\ \A d \in In(processing) :
          /\ d \in In(inbox) => ~LastAttempt(processing[d])
          /\ d \in In(failed) => LastAttempt(processing[d])
    /\ moving # None => moving \in In(inbox) \union In(failed)
    /\ \A d \in batch : d \in In(processing) \/ trigger[target[d]] = "deleted"

\* No file has used up its attempts, and no delivery has had more turns than
\* its attempts account for.
Counted ==
    /\ \A d \in In(inbox) : inbox[d] < MaxAttempts /\ turns[d] <= inbox[d]
    /\ \A d \in In(processing) : processing[d] < MaxAttempts /\ turns[d] <= processing[d] + 1
    /\ \A d \in batch : d # moving =>
          /\ attempts[d] \in 0 .. (MaxAttempts - 1)
          /\ d \in In(processing) => processing[d] = attempts[d]
          /\ turns[d] <= attempts[d] + 1
          /\ turns[d] = attempts[d] + 1 => Submitted /\ Oldest(d, batch)
    /\ TurnsBounded

StoreInv == TypeOK /\ PhaseInv /\ Known /\ Copies /\ Counted /\ DeliveryAccounted

LEMMA CreateStep ==
  ASSUME StoreInv, NEW t \in Trigger, Create(t)
  PROVE  StoreInv'
<1> USE LimitAssumption, NoneAssumption
    DEF StoreInv, TypeOK, Phases, Statuses, Delivery, File, Absent, In, Oldest,
        files, runner, Create, LockFree
<1>1. TypeOK'
  BY DEF Counted, PhaseInv, Submitted, Copying, LastAttempt
<1>2. PhaseInv'
  BY DEF PhaseInv, Copying, Known
<1>3. Known'
  BY DEF Known, PhaseInv
<1>4. Copies'
  BY DEF Copies, LastAttempt, PhaseInv, Copying, Known
<1>5. Counted'
  BY DEF Counted, Submitted, Copying, TurnsBounded, LastAttempt, PhaseInv, Known
<1>6. DeliveryAccounted'
  BY DEF DeliveryAccounted, PhaseInv, Copies, Known, Copying
<1> QED BY <1>1, <1>2, <1>3, <1>4, <1>5, <1>6

LEMMA EnableStep ==
  ASSUME StoreInv, NEW t \in Trigger, NEW on \in BOOLEAN, Enable(t, on)
  PROVE  StoreInv'
<1> USE LimitAssumption, NoneAssumption
    DEF StoreInv, TypeOK, Phases, Statuses, Delivery, File, Absent, In, Oldest,
        files, runner, Enable, Awaiting
<1>1. TypeOK'
  BY DEF Counted, PhaseInv, Submitted, Copying, LastAttempt
<1>2. PhaseInv'
  BY DEF PhaseInv, Copying, Known
<1>3. Known'
  BY DEF Known, PhaseInv
<1>4. Copies'
  BY DEF Copies, LastAttempt, PhaseInv, Copying, Known
<1>5. Counted'
  BY DEF Counted, Submitted, Copying, TurnsBounded, LastAttempt, PhaseInv, Known
<1>6. DeliveryAccounted'
  BY DEF DeliveryAccounted, PhaseInv, Copies, Known, Copying
<1> QED BY <1>1, <1>2, <1>3, <1>4, <1>5, <1>6

LEMMA DeleteStep ==
  ASSUME StoreInv, NEW t \in Trigger, Delete(t)
  PROVE  StoreInv'
<1> USE LimitAssumption, NoneAssumption
    DEF StoreInv, TypeOK, Phases, Statuses, Delivery, File, Absent, In, Oldest,
        files, runner, Delete, Awaiting, Remove, DeliveriesOf
<1>1. TypeOK'
  BY DEF Counted, PhaseInv, Submitted, Copying, LastAttempt
<1>2. PhaseInv'
  BY DEF PhaseInv, Copying, Known
<1>3. Known'
  BY DEF Known, PhaseInv
<1>4. Copies'
  BY DEF Copies, LastAttempt, PhaseInv, Copying, Known
<1>5. Counted'
  BY DEF Counted, Submitted, Copying, TurnsBounded, LastAttempt, PhaseInv, Known
<1>6. DeliveryAccounted'
  BY DEF DeliveryAccounted, PhaseInv, Copies, Known, Copying
<1> QED BY <1>1, <1>2, <1>3, <1>4, <1>5, <1>6

LEMMA CrashInDeleteStep ==
  ASSUME StoreInv, NEW t \in Trigger, CrashInDelete(t)
  PROVE  StoreInv'
<1> USE LimitAssumption, NoneAssumption
    DEF StoreInv, TypeOK, Phases, Statuses, Delivery, File, Absent, In, Oldest,
        files, runner, CrashInDelete, Awaiting, Remove, DeliveriesOf, GoDown
<1>1. TypeOK'
  BY DEF Counted, PhaseInv, Submitted, Copying, LastAttempt
<1>2. PhaseInv'
  BY DEF PhaseInv, Copying, Known
<1>3. Known'
  BY DEF Known, PhaseInv
<1>4. Copies'
  BY DEF Copies, LastAttempt, PhaseInv, Copying, Known
<1>5. Counted'
  BY DEF Counted, Submitted, Copying, TurnsBounded, LastAttempt, PhaseInv, Known
<1>6. DeliveryAccounted'
  BY DEF DeliveryAccounted, PhaseInv, Copies, Known, Copying
<1> QED BY <1>1, <1>2, <1>3, <1>4, <1>5, <1>6

LEMMA EnqueueStep ==
  ASSUME StoreInv, NEW t \in Trigger, NEW recorded \in BOOLEAN, Enqueue(t, recorded)
  PROVE  StoreInv'
<1> USE LimitAssumption, NoneAssumption
    DEF StoreInv, TypeOK, Phases, Statuses, Delivery, File, Absent, In, Oldest,
        files, runner, Enqueue, LockFree
<1>1. TypeOK'
  BY DEF Counted, PhaseInv, Submitted, Copying, LastAttempt
<1>2. PhaseInv'
  BY DEF PhaseInv, Copying, Known
<1>3. Known'
  BY DEF Known, PhaseInv
<1>4. Copies'
  <2>1. In(inbox)' = In(inbox) \union {created + 1}
    OBVIOUS
  <2>2. created + 1 \notin In(processing) \union In(failed) \union batch
    <3>1. created + 1 \notin 1 .. created
      OBVIOUS
    <3> HIDE DEF In
    <3> QED BY <3>1 DEF Known
  <2>5. \A e \in batch : trigger'[target'[e]] = trigger[target[e]]
    BY <2>2
  <2>3. moving = None /\ moving' = None /\ phase' = phase /\ batch' = batch
    OBVIOUS
  <2>4. /\ In(processing)' = In(processing) /\ In(failed)' = In(failed)
        /\ processing' = processing /\ trigger' = trigger
    OBVIOUS
  <2>6. Copies
    OBVIOUS
  <2> HIDE DEF In, Oldest, StoreInv, TypeOK, Enqueue
  <2> QED BY <2>1, <2>2, <2>3, <2>4, <2>5, <2>6 DEF Copies
<1>5. Counted'
  BY DEF Counted, Submitted, Copying, TurnsBounded, LastAttempt, PhaseInv, Known
<1>6. DeliveryAccounted'
  BY DEF DeliveryAccounted, PhaseInv, Copies, Known, Copying
<1> QED BY <1>1, <1>2, <1>3, <1>4, <1>5, <1>6

LEMMA StartStep ==
  ASSUME StoreInv, Start
  PROVE  StoreInv'
<1> USE LimitAssumption, NoneAssumption
    DEF StoreInv, TypeOK, Phases, Statuses, Delivery, File, Absent, In, Oldest,
        files, runner, Start
<1>1. TypeOK'
  BY DEF Counted, PhaseInv, Submitted, Copying, LastAttempt
<1>2. PhaseInv'
  BY DEF PhaseInv, Copying, Known
<1>3. Known'
  BY DEF Known, PhaseInv
<1>4. Copies'
  BY DEF Copies, LastAttempt, PhaseInv, Copying, Known
<1>5. Counted'
  BY DEF Counted, Submitted, Copying, TurnsBounded, LastAttempt, PhaseInv, Known
<1>6. DeliveryAccounted'
  BY DEF DeliveryAccounted, PhaseInv, Copies, Known, Copying
<1> QED BY <1>1, <1>2, <1>3, <1>4, <1>5, <1>6

LEMMA RecoverStep ==
  ASSUME StoreInv, NEW d \in Delivery, Recover(d)
  PROVE  StoreInv'
<1> USE LimitAssumption, NoneAssumption
    DEF StoreInv, TypeOK, Phases, Statuses, Delivery, File, Absent, In, Oldest,
        files, runner, Recover, CopyForRetry
<1>1. TypeOK'
  <2>1. processing[d] \in 0 .. (MaxAttempts - 1)
    BY DEF Counted
  <2>2. processing[d] + 1 \in File
    BY <2>1
  <2>3. inbox' \in [Delivery -> File] /\ failed' \in [Delivery -> File]
    <3> HIDE DEF File, Delivery, In, Oldest
    <3> QED BY <2>2
  <2> QED BY <2>3
<1>2. PhaseInv'
  BY DEF PhaseInv, Copying, Known
<1>3. Known'
  BY DEF Known, PhaseInv
<1>4. Copies'
  <2>1. phase' = "recovering" /\ batch' = {} /\ moving' = d /\ moving = None
    BY DEF PhaseInv, Copying
  <2>2. d \in In(processing) /\ In(processing)' = In(processing) /\ processing' = processing
    OBVIOUS
  <2>3. CASE LastAttempt(processing[d])
    <3>1. In(failed)' = In(failed) \union {d} /\ In(inbox)' = In(inbox)
      BY <2>3
    <3>2. d \notin In(inbox)
      BY <2>2, <2>3 DEF Copies
    <3> HIDE DEF In, Oldest
    <3> QED BY <2>1, <2>2, <2>3, <3>1, <3>2 DEF Copies
  <2>4. CASE ~LastAttempt(processing[d])
    <3>1. In(inbox)' = In(inbox) \union {d} /\ In(failed)' = In(failed)
      BY <2>4
    <3>2. d \notin In(failed)
      BY <2>2, <2>4 DEF Copies
    <3> HIDE DEF In, Oldest
    <3> QED BY <2>1, <2>2, <2>4, <3>1, <3>2 DEF Copies
  <2> QED BY <2>3, <2>4
<1>5. Counted'
  BY DEF Counted, Submitted, Copying, TurnsBounded, LastAttempt, PhaseInv, Copies, Known
<1>6. DeliveryAccounted'
  BY DEF DeliveryAccounted, PhaseInv, Copies, Known, Copying
<1> QED BY <1>1, <1>2, <1>3, <1>4, <1>5, <1>6

LEMMA RecoveredStep ==
  ASSUME StoreInv, NEW d \in Delivery, Recovered(d)
  PROVE  StoreInv'
<1> USE LimitAssumption, NoneAssumption
    DEF StoreInv, TypeOK, Phases, Statuses, Delivery, File, Absent, In, Oldest,
        files, runner, Recovered, UnlinkRetried
<1>1. TypeOK'
  BY DEF Counted, PhaseInv, Submitted, Copying, LastAttempt
<1>2. PhaseInv'
  BY DEF PhaseInv, Copying, Known
<1>3. Known'
  BY DEF Known, PhaseInv
<1>4. Copies'
  BY DEF Copies, LastAttempt, PhaseInv, Copying, Known
<1>5. Counted'
  BY DEF Counted, Submitted, Copying, TurnsBounded, LastAttempt, PhaseInv, Copies, Known
<1>6. DeliveryAccounted'
  <2>1. moving = d /\ d \in In(inbox) \union In(failed)
    BY DEF Copies
  <2>2. /\ In(inbox)' = In(inbox) /\ In(failed)' = In(failed)
        /\ In(processing)' = In(processing) \ {d}
    OBVIOUS
  <2> HIDE DEF In, Oldest
  <2> QED BY <2>1, <2>2 DEF DeliveryAccounted
<1> QED BY <1>1, <1>2, <1>3, <1>4, <1>5, <1>6

LEMMA PollStep ==
  ASSUME StoreInv, Poll
  PROVE  StoreInv'
<1> USE LimitAssumption, NoneAssumption
    DEF StoreInv, TypeOK, Phases, Statuses, Delivery, File, Absent, In, Oldest,
        files, runner, Poll, RecoveryOver
<1>1. TypeOK'
  BY DEF Counted, PhaseInv, Submitted, Copying, LastAttempt
<1>2. PhaseInv'
  BY DEF PhaseInv, Copying, Known
<1>3. Known'
  BY DEF Known, PhaseInv
<1>4. Copies'
  BY DEF Copies, LastAttempt, PhaseInv, Copying, Known
<1>5. Counted'
  BY DEF Counted, Submitted, Copying, TurnsBounded, LastAttempt, PhaseInv, Known
<1>6. DeliveryAccounted'
  BY DEF DeliveryAccounted, PhaseInv, Copies, Known, Copying
<1> QED BY <1>1, <1>2, <1>3, <1>4, <1>5, <1>6

LEMMA ClaimDeliveryStep ==
  ASSUME StoreInv, NEW d \in Delivery, ClaimDelivery(d)
  PROVE  StoreInv'
<1> USE LimitAssumption, NoneAssumption
    DEF StoreInv, TypeOK, Phases, Statuses, Delivery, File, Absent, In, Oldest,
        files, runner, ClaimDelivery, Claiming
<1>1. TypeOK'
  BY DEF Counted, PhaseInv, Submitted, Copying, LastAttempt
<1>2. PhaseInv'
  BY DEF PhaseInv, Copying, Known
<1>3. Known'
  BY DEF Known, PhaseInv
<1>4. Copies'
  <2>1. d \in In(inbox) /\ d \notin In(failed) /\ moving = None /\ moving' = None
    BY DEF Copies
  <2>2. In(processing) \subseteq batch
    BY DEF Copies
  <2>3. /\ In(inbox)' = In(inbox) \ {d} /\ In(failed)' = In(failed)
        /\ In(processing)' = In(processing) \union {d}
        /\ \A e \in In(processing) : e # d => processing'[e] = processing[e]
    OBVIOUS
  <2>4. batch' = batch \union {d} /\ trigger' = trigger /\ target' = target
    OBVIOUS
  <2> HIDE DEF In, Oldest
  <2> QED BY <2>1, <2>2, <2>3, <2>4 DEF Copies, LastAttempt
<1>5. Counted'
  <2>1. /\ d \in In(inbox) /\ d \notin batch /\ moving = None /\ moving' = None
        /\ inbox[d] \in 0 .. (MaxAttempts - 1) /\ turns[d] <= inbox[d]
    BY DEF Counted, Copies
  <2>2. inbox'[d] = Absent /\ processing'[d] = inbox[d] /\ attempts'[d] = inbox[d]
    OBVIOUS
  <2>3. \A e \in Delivery : e # d =>
           inbox'[e] = inbox[e] /\ processing'[e] = processing[e] /\ attempts'[e] = attempts[e]
    OBVIOUS
  <2>4. batch' = batch \union {d} /\ turns' = turns
    OBVIOUS
  <2>5. \A e \in batch : turns[e] # attempts[e] + 1
    BY <2>1 DEF Counted, Submitted
  <2> HIDE DEF Oldest
  <2> QED BY <2>1, <2>2, <2>3, <2>4, <2>5 DEF Counted, TurnsBounded
<1>6. DeliveryAccounted'
  BY DEF DeliveryAccounted, PhaseInv, Copies, Known, Copying
<1> QED BY <1>1, <1>2, <1>3, <1>4, <1>5, <1>6

LEMMA ClaimOverStep ==
  ASSUME StoreInv, ClaimOver
  PROVE  StoreInv'
<1> USE LimitAssumption, NoneAssumption
    DEF StoreInv, TypeOK, Phases, Statuses, Delivery, File, Absent, In, Oldest,
        files, runner, ClaimOver
<1>1. TypeOK'
  BY DEF Counted, PhaseInv, Submitted, Copying, LastAttempt
<1>2. PhaseInv'
  BY DEF PhaseInv, Copying, Known
<1>3. Known'
  BY DEF Known, PhaseInv
<1>4. Copies'
  BY DEF Copies, LastAttempt, PhaseInv, Copying, Known
<1>5. Counted'
  BY DEF Counted, Submitted, Copying, TurnsBounded, LastAttempt, PhaseInv, Known
<1>6. DeliveryAccounted'
  BY DEF DeliveryAccounted, PhaseInv, Copies, Known, Copying
<1> QED BY <1>1, <1>2, <1>3, <1>4, <1>5, <1>6

LEMMA SubmitStep ==
  ASSUME StoreInv, NEW d \in Delivery, Submit(d)
  PROVE  StoreInv'
<1> USE LimitAssumption, NoneAssumption
    DEF StoreInv, TypeOK, Phases, Statuses, Delivery, File, Absent, In, Oldest,
        files, runner, Submit
<1>1. TypeOK'
  BY DEF Counted, PhaseInv, Submitted, Copying, LastAttempt
<1>2. PhaseInv'
  BY DEF PhaseInv, Copying, Known
<1>3. Known'
  BY DEF Known, PhaseInv
<1>4. Copies'
  BY DEF Copies, LastAttempt, PhaseInv, Copying, Known
<1>5. Counted'
  <2>1. d \in batch /\ d # moving /\ moving' = moving
    BY DEF PhaseInv, Copying
  <2>2. attempts[d] \in 0 .. (MaxAttempts - 1) /\ turns[d] <= attempts[d]
    BY <2>1 DEF Counted, Submitted
  <2>3. d \notin In(inbox)
    BY <2>1 DEF Copies
  <2>4. d \in In(processing) => processing[d] = attempts[d]
    BY <2>1 DEF Counted
  <2>5. /\ turns'[d] = turns[d] + 1
        /\ \A e \in Delivery : e # d => turns'[e] = turns[e]
    OBVIOUS
  <2>6. \A e \in batch : e # d /\ e # moving => turns[e] # attempts[e] + 1
    BY DEF Counted, Submitted
  <2>7. phase' = "serving" /\ Oldest(d, batch)'
    OBVIOUS
  <2> HIDE DEF Oldest
  <2> QED BY <2>1, <2>2, <2>3, <2>4, <2>5, <2>6, <2>7 DEF Counted, Submitted, TurnsBounded
<1>6. DeliveryAccounted'
  BY DEF DeliveryAccounted, PhaseInv, Copies, Known, Copying
<1> QED BY <1>1, <1>2, <1>3, <1>4, <1>5, <1>6

LEMMA DropDeliveryStep ==
  ASSUME StoreInv, NEW d \in Delivery, DropDelivery(d)
  PROVE  StoreInv'
<1> USE LimitAssumption, NoneAssumption
    DEF StoreInv, TypeOK, Phases, Statuses, Delivery, File, Absent, In, Oldest,
        files, runner, DropDelivery, Settle
<1>1. TypeOK'
  BY DEF Counted, PhaseInv, Submitted, Copying, LastAttempt
<1>2. PhaseInv'
  BY DEF PhaseInv, Copying, Known
<1>3. Known'
  BY DEF Known, PhaseInv
<1>4. Copies'
  BY DEF Copies, LastAttempt, PhaseInv, Copying, Known
<1>5. Counted'
  BY DEF Counted, Submitted, Copying, TurnsBounded, LastAttempt, PhaseInv, Known
<1>6. DeliveryAccounted'
  BY DEF DeliveryAccounted, PhaseInv, Copies, Known, Copying
<1> QED BY <1>1, <1>2, <1>3, <1>4, <1>5, <1>6

LEMMA TurnEndsStep ==
  ASSUME StoreInv, NEW d \in Delivery, TurnEnds(d)
  PROVE  StoreInv'
<1> USE LimitAssumption, NoneAssumption
    DEF StoreInv, TypeOK, Phases, Statuses, Delivery, File, Absent, In, Oldest,
        files, runner, TurnEnds, Settle
<1>1. TypeOK'
  BY DEF Counted, PhaseInv, Submitted, Copying, LastAttempt
<1>2. PhaseInv'
  BY DEF PhaseInv, Copying, Known
<1>3. Known'
  BY DEF Known, PhaseInv
<1>4. Copies'
  BY DEF Copies, LastAttempt, PhaseInv, Copying, Known
<1>5. Counted'
  BY DEF Counted, Submitted, Copying, TurnsBounded, LastAttempt, PhaseInv, Known
<1>6. DeliveryAccounted'
  BY DEF DeliveryAccounted, PhaseInv, Copies, Known, Copying
<1> QED BY <1>1, <1>2, <1>3, <1>4, <1>5, <1>6

LEMMA CompleteDeliveryStep ==
  ASSUME StoreInv, NEW d \in Delivery, CompleteDelivery(d)
  PROVE  StoreInv'
<1> USE LimitAssumption, NoneAssumption
    DEF StoreInv, TypeOK, Phases, Statuses, Delivery, File, Absent, In, Oldest,
        files, runner, CompleteDelivery, NextDelivery
<1>1. TypeOK'
  BY DEF Counted, PhaseInv, Submitted, Copying, LastAttempt
<1>2. PhaseInv'
  BY DEF PhaseInv, Copying, Known
<1>3. Known'
  BY DEF Known, PhaseInv
<1>4. Copies'
  BY DEF Copies, LastAttempt, PhaseInv, Copying, Known
<1>5. Counted'
  <2>1. moving = None /\ moving' = None
    BY DEF PhaseInv, Copying
  <2>2. \A e \in batch \ {d} : turns[e] # attempts[e] + 1
    BY <2>1 DEF Counted, Submitted
  <2>3. processing'[d] = Absent /\ \A e \in Delivery : e # d => processing'[e] = processing[e]
    OBVIOUS
  <2>4. batch' = batch \ {d} /\ inbox' = inbox /\ turns' = turns /\ attempts' = attempts
    OBVIOUS
  <2> HIDE DEF Oldest
  <2> QED BY <2>1, <2>2, <2>3, <2>4 DEF Counted, TurnsBounded
<1>6. DeliveryAccounted'
  BY DEF DeliveryAccounted, PhaseInv, Copies, Known, Copying
<1> QED BY <1>1, <1>2, <1>3, <1>4, <1>5, <1>6

LEMMA InterruptStep ==
  ASSUME StoreInv, NEW d \in Delivery, NEW to \in {"retrying", "stopping"}, Interrupt(d, to)
  PROVE  StoreInv'
<1> USE LimitAssumption, NoneAssumption
    DEF StoreInv, TypeOK, Phases, Statuses, Delivery, File, Absent, In, Oldest,
        files, runner, Interrupt, CopyForRetry
<1> DEFINE n == attempts[d]
<1>0. /\ d \in batch /\ moving = None /\ moving' = d
      /\ n \in 0 .. (MaxAttempts - 1)
      /\ turns[d] <= n + 1
      /\ d \notin In(inbox) \union In(failed)
      /\ d \in In(processing) => processing[d] = n
  BY DEF PhaseInv, Copies, Counted, Copying
<1>1. TypeOK'
  <2>1. n + 1 \in File
    BY <1>0
  <2>2. inbox' \in [Delivery -> File] /\ failed' \in [Delivery -> File]
    <3> HIDE DEF File, Delivery, In, Oldest, n
    <3> QED BY <2>1 DEF n
  <2>3. attempts' \in [Delivery -> File]
    BY <2>1, Zenon
  <2> QED BY <1>0, <2>2, <2>3
<1>2. PhaseInv'
  BY <1>0 DEF PhaseInv, Copying
<1>3. Known'
  BY DEF Known, PhaseInv
<1>4. Copies'
  <2>1. In(processing)' = In(processing) /\ processing' = processing /\ batch' = batch
    OBVIOUS
  <2>2. In(processing) \subseteq batch /\ trigger' = trigger /\ target' = target
    BY DEF Copies
  <2>3. CASE LastAttempt(n)
    <3>1. In(failed)' = In(failed) \union {d} /\ In(inbox)' = In(inbox)
      BY <2>3, <1>0
    <3> HIDE DEF In, Oldest, n
    <3> QED BY <1>0, <2>1, <2>2, <2>3, <3>1 DEF Copies
  <2>4. CASE ~LastAttempt(n)
    <3>1. In(inbox)' = In(inbox) \union {d} /\ In(failed)' = In(failed)
      BY <2>4, <1>0
    <3> HIDE DEF In, Oldest, n
    <3> QED BY <1>0, <2>1, <2>2, <2>4, <3>1 DEF Copies
  <2> QED BY <2>3, <2>4
<1>5. Counted'
  <2>1. \A e \in Delivery : e # d => inbox'[e] = inbox[e] /\ attempts'[e] = attempts[e]
    BY DEF LastAttempt
  <2>2. d \in In(inbox)' => inbox'[d] = n + 1 /\ n + 1 < MaxAttempts
    BY <1>0 DEF LastAttempt
  <2>3. \A e \in batch : e # d => turns[e] # attempts[e] + 1
    BY <1>0 DEF Counted, Submitted
  <2>4. processing' = processing /\ turns' = turns /\ batch' = batch
    OBVIOUS
  <2> HIDE DEF Oldest, n
  <2> QED BY <1>0, <2>1, <2>2, <2>3, <2>4 DEF Counted, Submitted, TurnsBounded
<1>6. DeliveryAccounted'
  BY DEF DeliveryAccounted, PhaseInv, Copies, Known, Copying
<1> QED BY <1>1, <1>2, <1>3, <1>4, <1>5, <1>6

LEMMA RetriedStep ==
  ASSUME StoreInv, NEW d \in Delivery, Retried(d)
  PROVE  StoreInv'
<1> USE LimitAssumption, NoneAssumption
    DEF StoreInv, TypeOK, Phases, Statuses, Delivery, File, Absent, In, Oldest,
        files, runner, Retried, UnlinkRetried, NextDelivery
<1>1. TypeOK'
  BY DEF Counted, PhaseInv, Submitted, Copying, LastAttempt
<1>2. PhaseInv'
  BY DEF PhaseInv, Copying, Known
<1>3. Known'
  BY DEF Known, PhaseInv
<1>4. Copies'
  BY DEF Copies, LastAttempt, PhaseInv, Copying, Known
<1>5. Counted'
  BY DEF Counted, Submitted, Copying, TurnsBounded, LastAttempt, PhaseInv, Copies, Known
<1>6. DeliveryAccounted'
  BY DEF DeliveryAccounted, PhaseInv, Copies, Known, Copying
<1> QED BY <1>1, <1>2, <1>3, <1>4, <1>5, <1>6

LEMMA StoppedStep ==
  ASSUME StoreInv, NEW d \in Delivery, Stopped(d)
  PROVE  StoreInv'
<1> USE LimitAssumption, NoneAssumption
    DEF StoreInv, TypeOK, Phases, Statuses, Delivery, File, Absent, In, Oldest,
        files, runner, Stopped, UnlinkRetried
<1>1. TypeOK'
  BY DEF Counted, PhaseInv, Submitted, Copying, LastAttempt
<1>2. PhaseInv'
  BY DEF PhaseInv, Copying, Known
<1>3. Known'
  BY DEF Known, PhaseInv
<1>4. Copies'
  BY DEF Copies, LastAttempt, PhaseInv, Copying, Known
<1>5. Counted'
  BY DEF Counted, Submitted, Copying, TurnsBounded, LastAttempt, PhaseInv, Copies, Known
<1>6. DeliveryAccounted'
  BY DEF DeliveryAccounted, PhaseInv, Copies, Known, Copying
<1> QED BY <1>1, <1>2, <1>3, <1>4, <1>5, <1>6

LEMMA CrashStep ==
  ASSUME StoreInv, Crash
  PROVE  StoreInv'
<1> USE LimitAssumption, NoneAssumption
    DEF StoreInv, TypeOK, Phases, Statuses, Delivery, File, Absent, In, Oldest,
        files, runner, Crash, GoDown
<1>1. TypeOK'
  BY DEF Counted, PhaseInv, Submitted, Copying, LastAttempt
<1>2. PhaseInv'
  BY DEF PhaseInv, Copying, Known
<1>3. Known'
  BY DEF Known, PhaseInv
<1>4. Copies'
  BY DEF Copies, LastAttempt, PhaseInv, Copying, Known
<1>5. Counted'
  BY DEF Counted, Submitted, Copying, TurnsBounded, LastAttempt, PhaseInv, Known
<1>6. DeliveryAccounted'
  BY DEF DeliveryAccounted, PhaseInv, Copies, Known, Copying
<1> QED BY <1>1, <1>2, <1>3, <1>4, <1>5, <1>6

\* Every step of the store or its runner keeps the invariant.
LEMMA StepKeepsStoreInv == StoreInv /\ [Next]_vars => StoreInv'
<1> SUFFICES ASSUME StoreInv, [Next]_vars PROVE StoreInv'
  OBVIOUS
<1>1. CASE UNCHANGED vars
  <2>1. /\ In(inbox)' = In(inbox) /\ In(processing)' = In(processing)
        /\ In(failed)' = In(failed)
    BY <1>1 DEF vars, In
  <2> QED BY <1>1, <2>1 DEF vars, StoreInv, TypeOK, PhaseInv, Copying, Known, Copies,
                            Counted, TurnsBounded, Submitted, DeliveryAccounted, Oldest
<1>2. ASSUME NEW t \in Trigger, Manage(t) PROVE StoreInv'
  BY <1>2, CreateStep, EnableStep, DeleteStep, CrashInDeleteStep DEF Manage
<1>3. ASSUME NEW t \in Trigger, NEW recorded \in BOOLEAN, Enqueue(t, recorded)
      PROVE  StoreInv'
  BY <1>3, EnqueueStep
<1>4. ASSUME NEW d \in Delivery, Stop(d) PROVE StoreInv'
  BY <1>4, InterruptStep DEF Stop
<1>5. ASSUME NEW d \in Delivery, Step(d) PROVE StoreInv'
  BY <1>5, RecoverStep, RecoveredStep, ClaimDeliveryStep, SubmitStep, DropDeliveryStep,
     TurnEndsStep, CompleteDeliveryStep, InterruptStep, RetriedStep, StoppedStep DEF Step
<1>6. CASE Run
  BY <1>5, <1>6, StartStep, PollStep, ClaimOverStep DEF Run
<1>7. CASE Crash
  BY <1>7, CrashStep
<1> QED BY <1>1, <1>2, <1>3, <1>4, <1>6, <1>7 DEF Next

LEMMA InitStoreInv == Init => StoreInv
<1> SUFFICES ASSUME Init PROVE StoreInv
  OBVIOUS
<1> USE LimitAssumption, NoneAssumption DEF Init
<1>1. In(inbox) = {} /\ In(processing) = {} /\ In(failed) = {}
  BY DEF In
<1>2. TypeOK
  BY DEF TypeOK, Phases, Statuses, File, Absent
<1> QED BY <1>1, <1>2 DEF StoreInv, PhaseInv, Copying, Known, Copies, Counted, TurnsBounded,
                          DeliveryAccounted, Delivery

\* StoreInv holds in every reachable state of the store.
THEOREM StoreInvariant == Spec => []StoreInv
BY InitStoreInv, StepKeepsStoreInv, PTL DEF Spec

\* The store and its runner keep their types: in particular no file ever counts
\* more than MaxAttempts attempts.
THEOREM StoreTypeCorrect == Spec => []TypeOK
BY StoreInvariant, PTL DEF StoreInv

\* No accepted delivery is lost, wherever the gateway crashes.
THEOREM DeliveriesAccounted == Spec => []DeliveryAccounted
BY StoreInvariant, PTL DEF StoreInv

\* A delivery gets MaxAttempts agent turns at most, crashes included.
THEOREM TurnsLimited == Spec => []TurnsBounded
<1>1. StoreInv => TurnsBounded
  BY DEF StoreInv, Counted
<1> QED BY <1>1, StoreInvariant, PTL

\* A delivery has one file at most while the store is unlocked and the gateway
\* up, and what the runner holds cannot be claimed again.
THEOREM OneCopyOnly == Spec => []OneCopy
<1>1. StoreInv => OneCopy
  <2> SUFFICES ASSUME StoreInv, LockFree, phase # "down" PROVE OneCopy
    BY DEF OneCopy
  <2>1. phase \notin {"down", "recovering"} /\ \A d \in batch : d # moving
    BY NoneAssumption DEF StoreInv, TypeOK, Delivery, LockFree
  <2>2. Copies
    BY DEF StoreInv
  <2> QED BY <2>1, <2>2 DEF Copies, OneCopy
<1> QED BY <1>1, StoreInvariant, PTL
-----------------------------------------------------------------------------
(***************************************************************************)
(* The store implements DeliveryQueue.                                     *)
(***************************************************************************)
\* While no turn and no delivery begins, the open deliveries only become fewer:
\* a step that closes some, or a stutter.
LEMMA ClosingStep ==
  ASSUME StoreInv, created' = created, turns' = turns, Open' \subseteq Open
  PROVE  Queue!Next \/ UNCHANGED <<status, turns>>
<1> DEFINE D == Open \ Open'
<1>1. Open \subseteq 1 .. created /\ Open \subseteq Delivery
  <2>1. Open \subseteq 1 .. created
    BY DEF Open, StoreInv, Known
  <2>2. created \in 0 .. MaxDeliveries
    BY DEF StoreInv, TypeOK
  <2> QED BY <2>1, <2>2, LimitAssumption DEF Delivery
<1>2. \A d \in D : status[d] = "open"
  BY <1>1 DEF status, StoreInv, TypeOK, Delivery
<1>3. status' = [d \in Delivery |-> IF d \in D THEN "closed" ELSE status[d]]
  BY <1>1 DEF status, StoreInv, TypeOK, Delivery
<1>4. D \in SUBSET Delivery
  BY <1>1
<1> HIDE DEF D
<1>5. Queue!Close(D)
  BY <1>2, <1>3 DEF Queue!Close
<1> QED BY <1>4, <1>5 DEF Queue!Next

\* An enqueued delivery is accepted; the others stay as they are.
LEMMA EnqueueAccepts ==
  ASSUME StoreInv, NEW t \in Trigger, NEW recorded \in BOOLEAN, Enqueue(t, recorded)
  PROVE  Queue!Next
<1> DEFINE d == created + 1
<1>1. /\ d \in Delivery /\ created' = d /\ turns' = turns
      /\ created \in Nat /\ d \notin 1 .. created
  BY LimitAssumption DEF Enqueue, StoreInv, TypeOK, Delivery
<1>2. Open' = Open \union {d}
  BY <1>1 DEF Enqueue, Open, In, Absent, runner, StoreInv, TypeOK
<1>3. Open \subseteq 1 .. created
  BY DEF Open, StoreInv, Known
<1>4. status[d] = "none" /\ status' = [status EXCEPT ![d] = "open"]
  <2>1. /\ d > created /\ ~(d > created') /\ d \in Open'
        /\ \A e \in Delivery : e # d =>
              /\ e > created <=> e > created'
              /\ e \in Open <=> e \in Open'
    BY <1>1, <1>2 DEF Delivery
  <2> HIDE DEF d, Open, Delivery
  <2>2. status[d] = "none"
    BY <1>1, <2>1 DEF status
  <2>3. \A e \in Delivery : status'[e] = IF e = d THEN "open" ELSE status[e]
    <3>1. status'[d] = "open"
      BY <1>1, <2>1 DEF status
    <3>2. ASSUME NEW e \in Delivery, e # d PROVE status'[e] = status[e]
      <4>1. e > created <=> e > created'
        BY <2>1, <3>2
      <4>2. e \in Open <=> e \in Open'
        BY <2>1, <3>2
      <4> QED BY <4>1, <4>2 DEF status
    <3> QED BY <3>1, <3>2
  <2>4. status = [e \in Delivery |-> status[e]] /\ status' = [e \in Delivery |-> status'[e]]
    BY DEF status
  <2> HIDE DEF status
  <2> QED BY <1>1, <2>2, <2>3, <2>4
<1> HIDE DEF d
<1>5. Queue!Accept(d)
  BY <1>1, <1>4 DEF Queue!Accept
<1> QED BY <1>1, <1>5 DEF Queue!Next

\* A submitted turn is an attempt on an open delivery that has attempts left.
LEMMA SubmitAttempts ==
  ASSUME StoreInv, NEW d \in Delivery, Submit(d)
  PROVE  Queue!Next
<1>1. d \in batch /\ d <= created
  BY DEF Submit, Oldest, StoreInv, Known
<1>2. status[d] = "open"
  BY <1>1 DEF status, Open, StoreInv, TypeOK, Delivery
<1>3. turns[d] < MaxAttempts
  <2>1. d # moving
    BY <1>1, NoneAssumption DEF Submit, StoreInv, PhaseInv, Copying, Delivery
  <2> QED BY <1>1, <2>1, LimitAssumption
          DEF StoreInv, Counted, Submitted, Submit, TypeOK, Delivery
<1>4. status' = status
  BY DEF Submit, status, Open, In, files
<1>5. turns' = [turns EXCEPT ![d] = @ + 1]
  BY DEF Submit
<1>6. Queue!Attempt(d)
  BY <1>2, <1>3, <1>4, <1>5 DEF Queue!Attempt
<1> QED BY <1>6 DEF Queue!Next

\* Every step of the store is a step of DeliveryQueue or a stutter.
LEMMA StoreStepRefines ==
  ASSUME StoreInv, [Next]_vars
  PROVE  Queue!Next \/ UNCHANGED <<status, turns>>
<1> USE DEF Open, In, Absent, files, runner, Delivery
<1>1. CASE UNCHANGED vars
  BY <1>1 DEF vars, status
<1>2. ASSUME NEW t \in Trigger, Manage(t)
      PROVE  Queue!Next \/ UNCHANGED <<status, turns>>
  <2>1. created' = created /\ turns' = turns
    BY <1>2 DEF Manage, Create, Enable, Delete, CrashInDelete
  <2>2. Open' \subseteq Open
    BY <1>2 DEF Manage, Create, Enable, Delete, CrashInDelete, Remove, GoDown
  <2> QED BY <2>1, <2>2, ClosingStep
<1>3. ASSUME NEW t \in Trigger, NEW recorded \in BOOLEAN, Enqueue(t, recorded)
      PROVE  Queue!Next
  BY <1>3, EnqueueAccepts
<1>4. ASSUME NEW d \in Delivery, NEW to \in {"retrying", "stopping"}, Interrupt(d, to)
      PROVE  Queue!Next \/ UNCHANGED <<status, turns>>
  <2>1. created' = created /\ turns' = turns
    BY <1>4 DEF Interrupt
  <2>2. Open' \subseteq Open
    BY <1>4 DEF Interrupt, CopyForRetry, Oldest, StoreInv, TypeOK
  <2> QED BY <2>1, <2>2, ClosingStep
<1>5. ASSUME NEW d \in Delivery, Step(d), ~Submit(d),
             ~Interrupt(d, "retrying")
      PROVE  Queue!Next \/ UNCHANGED <<status, turns>>
  <2> USE <1>5 DEF Step
  <2>1. created' = created /\ turns' = turns
    BY DEF Recover, Recovered, ClaimDelivery, DropDelivery, TurnEnds, Settle,
           CompleteDelivery, Retried, Stopped
  <2>2. Open' \subseteq Open
    BY DEF Recover, CopyForRetry, Recovered, UnlinkRetried, ClaimDelivery, DropDelivery,
           TurnEnds, Settle, CompleteDelivery, NextDelivery, Retried, Stopped, Oldest,
           StoreInv, TypeOK
  <2> QED BY <2>1, <2>2, ClosingStep
<1>6. CASE Start \/ Poll \/ ClaimOver \/ Crash
  <2>1. created' = created /\ turns' = turns
    BY <1>6 DEF Start, Poll, ClaimOver, Crash
  <2>2. Open' \subseteq Open
    BY <1>6 DEF Start, Poll, ClaimOver, Crash, GoDown
  <2> QED BY <2>1, <2>2, ClosingStep
<1>7. ASSUME NEW d \in Delivery, Step(d) \/ Stop(d)
      PROVE  Queue!Next \/ UNCHANGED <<status, turns>>
  BY <1>4, <1>5, <1>7, SubmitAttempts DEF Stop
<1> QED BY <1>1, <1>2, <1>3, <1>6, <1>7 DEF Next, Run

\* The store and its runner implement DeliveryQueue: a delivery gets turns only
\* while it is open, MaxAttempts at most, and is never opened again.
THEOREM StoreImplementsQueue == Spec => ImplementsQueue
<1>1. Init => Queue!Init
  <2> SUFFICES ASSUME Init PROVE Queue!Init
    OBVIOUS
  <2>1. \A d \in Delivery : d > created
    BY DEF Init, Delivery
  <2> QED BY <2>1 DEF Init, Queue!Init, status
<1>2. StoreInv /\ [Next]_vars => [Queue!Next]_<<status, turns>>
  BY StoreStepRefines
<1> QED BY <1>1, <1>2, StoreInvariant, PTL DEF Spec, ImplementsQueue, Queue!Spec
=============================================================================
