---------------------------- MODULE LocalTriggers ----------------------------
(***************************************************************************)
(* nanobot's local triggers: the file queue of LocalTriggerStore and the   *)
(* gateway task run_local_trigger_queue that turns each delivery into an   *)
(* agent turn.                                                             *)
(*                                                                         *)
(* Three parties: the command line process that enqueues, the web handlers *)
(* of the gateway that create, switch and delete triggers, and the runner. *)
(* The gateway may crash between any two file operations; every operation  *)
(* of the store holds one file lock.  Handlers share the runner's event    *)
(* loop, so they run only where the runner awaits.                         *)
(***************************************************************************)
EXTENDS Integers, FiniteSets

CONSTANTS
    Trigger,        \* trigger ids; an id is never used again
    None,           \* no trigger, no delivery
    MaxDeliveries,  \* how many deliveries are ever enqueued: a bound of the model
    MaxAttempts,    \* _MAX_DELIVERY_ATTEMPTS (10)
    BatchSize       \* the limit of claim_deliveries (20)

ASSUME NoneAssumption == None \notin Trigger \union (1 .. MaxDeliveries)
ASSUME LimitAssumption ==
    /\ MaxDeliveries \in Nat
    /\ MaxAttempts \in Nat \ {0}
    /\ BatchSize \in Nat \ {0}

\* A delivery is named by its place in the order of creation, as its file is.
Delivery == 1 .. MaxDeliveries

\* A file holds the attempts of its delivery.
Absent == -1
File == {Absent} \union (0 .. MaxAttempts)

VARIABLES
    trigger,     \* trigger[t]: its entry in triggers.json
    created,     \* the deliveries 1..created have been enqueued
    target,      \* target[d]: the trigger delivery d is for
    inbox,       \* inbox[d]: the file of d in inbox/
    processing,  \* processing[d]: the file of d in processing/
    failed,      \* failed[d]: the file of d in failed/
    record,      \* record[d]: the status in the run record of d
    phase,       \* what the gateway's runner is doing
    batch,       \* the claimed deliveries it has not finished
    attempts,    \* attempts[d]: delivery.attempts of a claimed d, in memory
    moving,      \* the delivery _retry_delivery_unlocked has copied, not yet unlinked
    turns        \* turns[d]: the agent turns submitted for d (a history variable)

vars == <<trigger, created, target, inbox, processing, failed, record, phase,
          batch, attempts, moving, turns>>

files == <<inbox, processing, failed>>
runner == <<phase, batch, attempts, moving>>

Phases == {"down", "recovering", "polling", "claiming", "delivering", "serving",
           "settling", "retrying", "stopping"}
Statuses == {"none", "queued", "processing", "ok", "error", "retrying", "interrupted"}

TypeOK ==
    /\ trigger \in [Trigger -> {"none", "enabled", "disabled", "deleted"}]
    /\ created \in 0 .. MaxDeliveries
    /\ target \in [Delivery -> Trigger \union {None}]
    /\ inbox \in [Delivery -> File]
    /\ processing \in [Delivery -> File]
    /\ failed \in [Delivery -> File]
    /\ record \in [Delivery -> Statuses]
    /\ phase \in Phases
    /\ batch \in SUBSET Delivery
    /\ attempts \in [Delivery -> File]
    /\ moving \in Delivery \union {None}
    /\ turns \in [Delivery -> Nat]

Init ==
    /\ trigger = [t \in Trigger |-> "none"]
    /\ created = 0
    /\ target = [d \in Delivery |-> None]
    /\ inbox = [d \in Delivery |-> Absent]
    /\ processing = [d \in Delivery |-> Absent]
    /\ failed = [d \in Delivery |-> Absent]
    /\ record = [d \in Delivery |-> "none"]
    /\ phase = "down"
    /\ batch = {}
    /\ attempts = [d \in Delivery |-> Absent]
    /\ moving = None
    /\ turns = [d \in Delivery |-> 0]

In(dir) == {d \in Delivery : dir[d] # Absent}

\* The first of the deliveries in D: paths are taken in the order of their names.
Oldest(d, D) == d \in D /\ \A e \in D : d <= e

\* Nobody is inside "with self._lock".
LockFree == phase \notin {"recovering", "claiming"} /\ moving = None

\* The runner awaits: the other handlers of the gateway can run.
Awaiting == phase \in {"polling", "serving"}

(***************************************************************************)
(* Triggers: the /trigger command and the web handlers.                    *)
(***************************************************************************)
Create(t) ==
    /\ LockFree
    /\ trigger[t] = "none"
    /\ trigger' = [trigger EXCEPT ![t] = "enabled"]
    /\ UNCHANGED <<created, target, files, record, runner, turns>>

Enable(t, on) ==
    /\ Awaiting
    /\ trigger[t] \in {"enabled", "disabled"}
    /\ trigger' = [trigger EXCEPT ![t] = IF on THEN "enabled" ELSE "disabled"]
    /\ UNCHANGED <<created, target, files, record, runner, turns>>

\* The files of D are unlinked wherever they are.
Remove(D) ==
    /\ inbox' = [d \in Delivery |-> IF d \in D THEN Absent ELSE inbox[d]]
    /\ processing' = [d \in Delivery |-> IF d \in D THEN Absent ELSE processing[d]]
    /\ failed' = [d \in Delivery |-> IF d \in D THEN Absent ELSE failed[d]]

\* Mutant of DeliveriesOf: the file's trigger id is not compared.
AnyDelivery(t) == {d \in Delivery : t \in Trigger}

DeliveriesOf(t) == {d \in Delivery : target[d] = t}

\* delete: triggers.json first, then the files of the trigger's deliveries.
Delete(t) ==
    /\ Awaiting
    /\ trigger[t] \in {"enabled", "disabled"}
    /\ trigger' = [trigger EXCEPT ![t] = "deleted"]
    /\ Remove(DeliveriesOf(t))
    /\ UNCHANGED <<created, target, record, runner, turns>>

(***************************************************************************)
(* "nanobot trigger", in a process of its own.                             *)
(***************************************************************************)
\* enqueue: the inbox file, then the run record. The process may die between
\* the two (recorded = FALSE).
Enqueue(t, recorded) ==
    /\ LockFree
    /\ trigger[t] = "enabled"
    /\ created < MaxDeliveries
    /\ created' = created + 1
    /\ target' = [target EXCEPT ![created'] = t]
    /\ inbox' = [inbox EXCEPT ![created'] = 0]
    /\ record' = IF recorded THEN [record EXCEPT ![created'] = "queued"] ELSE record
    /\ UNCHANGED <<trigger, processing, failed, runner, turns>>

(***************************************************************************)
(* _retry_delivery_unlocked: a copy with one attempt more goes to inbox/,  *)
(* or to failed/ when the attempts are used up; then the processing file   *)
(* is unlinked.                                                            *)
(***************************************************************************)
\* Mutant of LastAttempt: one attempt too many.
LastAttemptLate(n) == n >= MaxAttempts

LastAttempt(n) == n + 1 >= MaxAttempts

\* The copy of d, which has n attempts so far.
CopyForRetry(d, n) ==
    /\ IF LastAttempt(n)
       THEN failed' = [failed EXCEPT ![d] = n + 1] /\ UNCHANGED inbox
       ELSE inbox' = [inbox EXCEPT ![d] = n + 1] /\ UNCHANGED failed
    /\ moving' = d
    /\ UNCHANGED processing

UnlinkRetried(d) ==
    /\ moving = d
    /\ moving' = None
    /\ processing' = [processing EXCEPT ![d] = Absent]
    /\ UNCHANGED <<inbox, failed>>

(***************************************************************************)
(* The runner starts: recover_processing_deliveries, under one lock.       *)
(***************************************************************************)
Start ==
    /\ phase = "down"
    /\ phase' = "recovering"
    /\ UNCHANGED <<trigger, created, target, files, record, batch, attempts, moving, turns>>

Recover(d) ==
    /\ phase = "recovering"
    /\ moving = None
    /\ Oldest(d, In(processing))
    /\ CopyForRetry(d, processing[d])
    /\ UNCHANGED <<trigger, created, target, record, phase, batch, attempts, turns>>

Recovered(d) ==
    /\ phase = "recovering"
    /\ UnlinkRetried(d)
    /\ UNCHANGED <<trigger, created, target, record, phase, batch, attempts, turns>>

\* Mutant of RecoveryOver: the files are left for later.
RecoverySkipped == phase = "recovering"

RecoveryOver == phase = "recovering" /\ moving = None /\ In(processing) = {}

Poll ==
    /\ RecoveryOver
    /\ phase' = "polling"
    /\ UNCHANGED <<trigger, created, target, files, record, batch, attempts, moving, turns>>

(***************************************************************************)
(* claim_deliveries: up to BatchSize files move, one rename each.          *)
(***************************************************************************)
Claiming == phase \in {"polling", "claiming"} /\ moving = None

ClaimDelivery(d) ==
    /\ Claiming
    /\ Cardinality(batch) < BatchSize
    /\ Oldest(d, In(inbox))
    /\ inbox' = [inbox EXCEPT ![d] = Absent]
    /\ processing' = [processing EXCEPT ![d] = inbox[d]]
    /\ attempts' = [attempts EXCEPT ![d] = inbox[d]]
    /\ batch' = batch \union {d}
    /\ phase' = "claiming"
    /\ UNCHANGED <<trigger, created, target, failed, record, moving, turns>>

ClaimOver ==
    /\ phase = "claiming"
    /\ In(inbox) = {} \/ Cardinality(batch) >= BatchSize
    /\ phase' = "delivering"
    /\ UNCHANGED <<trigger, created, target, files, record, batch, attempts, moving, turns>>

(***************************************************************************)
(* The loop over the batch. Each outcome writes the run record, then       *)
(* complete_delivery unlinks the file.                                     *)
(***************************************************************************)
\* The trigger is there and enabled: the turn is submitted and awaited.
Submit(d) ==
    /\ phase = "delivering"
    /\ Oldest(d, batch)
    /\ trigger[target[d]] = "enabled"
    /\ record' = [record EXCEPT ![d] = "processing"]
    /\ turns' = [turns EXCEPT ![d] = @ + 1]
    /\ phase' = "serving"
    /\ UNCHANGED <<trigger, created, target, files, batch, attempts, moving>>

Settle(d, status) ==
    /\ record' = [record EXCEPT ![d] = status]
    /\ phase' = "settling"
    /\ UNCHANGED <<trigger, created, target, files, batch, attempts, moving, turns>>

\* _TerminalDeliveryError
DropDelivery(d) ==
    /\ phase = "delivering"
    /\ Oldest(d, batch)
    /\ trigger[target[d]] # "enabled"
    /\ Settle(d, "error")

\* The turn answers, or raises AutomationTurnError: both are final.
TurnEnds(d) ==
    /\ phase = "serving"
    /\ Oldest(d, batch)
    /\ Settle(d, "ok") \/ Settle(d, "error")

\* The runner has finished d.
NextDelivery(d) ==
    /\ batch' = batch \ {d}
    /\ phase' = IF batch' = {} THEN "polling" ELSE "delivering"
    /\ UNCHANGED attempts

CompleteDelivery(d) ==
    /\ phase = "settling"
    /\ Oldest(d, batch)
    /\ processing' = [processing EXCEPT ![d] = Absent]
    /\ NextDelivery(d)
    /\ UNCHANGED <<trigger, created, target, inbox, failed, record, moving, turns>>

\* Any other exception from submit_turn ("retrying"), or the cancellation of the
\* runner when the gateway shuts down ("stopping").
Interrupt(d, to) ==
    /\ phase = "serving"
    /\ Oldest(d, batch)
    /\ CopyForRetry(d, attempts[d])
    /\ attempts' = [attempts EXCEPT ![d] = @ + 1]
    /\ phase' = to
    /\ UNCHANGED <<trigger, created, target, record, batch, turns>>

Retried(d) ==
    /\ phase = "retrying"
    /\ UnlinkRetried(d)
    /\ record' = [record EXCEPT ![d] =
                     IF attempts[d] >= MaxAttempts THEN "error" ELSE "retrying"]
    /\ NextDelivery(d)
    /\ UNCHANGED <<trigger, created, target, turns>>

\* The rest of the batch stays in processing/ until the next start.
Stopped(d) ==
    /\ phase = "stopping"
    /\ UnlinkRetried(d)
    /\ record' = [record EXCEPT ![d] = "interrupted"]
    /\ phase' = "down"
    /\ batch' = {}
    /\ UNCHANGED <<trigger, created, target, attempts, turns>>

(***************************************************************************)
(* Crashes of the gateway: the files stay as they are.                     *)
(***************************************************************************)
GoDown == phase' = "down" /\ batch' = {} /\ moving' = None /\ UNCHANGED attempts

Crash ==
    /\ phase # "down"
    /\ GoDown
    /\ UNCHANGED <<trigger, created, target, files, record, turns>>

\* In the middle of delete(t): some of its files are still there.
CrashInDelete(t) ==
    /\ Awaiting
    /\ trigger[t] \in {"enabled", "disabled"}
    /\ trigger' = [trigger EXCEPT ![t] = "deleted"]
    /\ \E D \in SUBSET DeliveriesOf(t) : Remove(D)
    /\ GoDown
    /\ UNCHANGED <<created, target, record, turns>>

Manage(t) ==
    \/ Create(t)
    \/ \E on \in BOOLEAN : Enable(t, on)
    \/ Delete(t)
    \/ CrashInDelete(t)

Step(d) ==
    \/ Recover(d)
    \/ Recovered(d)
    \/ ClaimDelivery(d)
    \/ Submit(d)
    \/ DropDelivery(d)
    \/ TurnEnds(d)
    \/ CompleteDelivery(d)
    \/ Interrupt(d, "retrying")
    \/ Retried(d)
    \/ Stopped(d)

Stop(d) == Interrupt(d, "stopping")

Run == Start \/ Poll \/ ClaimOver \/ \E d \in Delivery : Step(d)

Next ==
    \/ \E t \in Trigger : Manage(t)
    \/ \E t \in Trigger, recorded \in BOOLEAN : Enqueue(t, recorded)
    \/ \E d \in Delivery : Stop(d)
    \/ Run
    \/ Crash

Spec == Init /\ [][Next]_vars

Crashes == Crash \/ \E t \in Trigger : CrashInDelete(t)

\* The event loop goes on running the runner and every submitted turn ends;
\* the gateway is started again after a crash and does not crash for ever.
\* Nobody is obliged to enqueue.
FairSpec ==
    /\ Spec
    /\ WF_vars(Run)
    /\ <>[][~Crashes]_vars
-----------------------------------------------------------------------------
(***************************************************************************)
(* Properties.                                                             *)
(***************************************************************************)
\* Every delivery the store accepted is in one of the three directories, has a
\* final run record, or belonged to a trigger that was deleted: a crash between
\* any two file operations of claim, retry, recovery or completion loses none.
DeliveryAccounted ==
    \A d \in 1 .. created :
       \/ d \in In(inbox) \union In(processing) \union In(failed)
       \/ record[d] \in {"ok", "error"}
       \/ trigger[target[d]] = "deleted"

\* _MAX_DELIVERY_ATTEMPTS bounds the agent turns run for a delivery, however
\* crashes, restarts, errors and a deletion are interleaved with its retries.
TurnsBounded == \A d \in Delivery : turns[d] <= MaxAttempts

\* Outside recovery and the locked sections, a delivery has one file at most,
\* everything in processing/ is in the batch at hand, and nothing in the batch
\* can be claimed a second time.
OneCopy ==
    LockFree /\ phase # "down" =>
       /\ In(processing) \subseteq batch
       /\ batch \intersect (In(inbox) \union In(failed)) = {}
       /\ In(inbox) \intersect In(failed) = {}

\* Every delivery leaves the queue: answered, dropped or moved to failed/.
EveryDeliverySettled ==
    \A d \in Delivery : d <= created ~> d \notin In(inbox) \union In(processing)

\* The state of DeliveryQueue that a state of the store stands for.
Open == In(inbox) \union In(processing) \union batch

status == [d \in Delivery |-> IF d > created THEN "none"
                              ELSE IF d \in Open THEN "open" ELSE "closed"]

Queue == INSTANCE DeliveryQueue WITH status <- status, turns <- turns

\* The store and its runner implement DeliveryQueue.
ImplementsQueue == Queue!Spec
=============================================================================
