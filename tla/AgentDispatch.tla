---------------------------- MODULE AgentDispatch ----------------------------
(***************************************************************************)
(* The session dispatcher of nanobot's AgentLoop: the run loop that routes *)
(* inbound messages, one asyncio task per dispatched message, the lock of  *)
(* each session, the concurrency gate, the pending queue of a running turn *)
(* (mid-turn injection), deferred automation turns and their waiters, and  *)
(* the /stop and /new commands that cancel the tasks of a session.         *)
(*                                                                         *)
(* A step of the model runs from one point where an asyncio task can       *)
(* really suspend to the next; Queue.put on the unbounded bus and          *)
(* put_nowait do not suspend.                                              *)
(***************************************************************************)
EXTENDS Naturals, FiniteSets, SequencesExt

CONSTANTS
    Session,            \* session keys, as _effective_session_key returns them
    Msg,                \* inbound messages; a message is also the name of its task
    None,               \* no message
    Key,                \* Key[m]: the session of m
    Kind,               \* Kind[m]: what the dispatcher tells apart, see Kinds
    GateSize,           \* NANOBOT_MAX_CONCURRENT_REQUESTS (3); any bound >= |Msg| is "no gate"
    PendingMax,         \* capacity of a pending queue (20)
    InjectionsPerTurn,  \* _MAX_INJECTIONS_PER_TURN (3)
    InjectionCycles     \* _MAX_INJECTION_CYCLES (5)

\* user: a chat message;          auto: a cron or local-trigger turn;
\* direct: a process_direct call; new: the /new command (dispatchable);
\* stop: the /stop command (priority);
\* cont: a sustained-goal continuation that a turn queues for itself;
\* autoCont: the continuation of an automation turn, with that turn's metadata.
Kinds == {"user", "auto", "direct", "new", "stop", "cont", "autoCont"}

\* What automation_turns.py goes by is the metadata, which a continuation copies.
Automation == {"auto", "autoCont"}

ASSUME KeyAssumption  == Key \in [Msg -> Session]
ASSUME KindAssumption == Kind \in [Msg -> Kinds]
ASSUME MsgAssumption  == IsFiniteSet(Msg) /\ None \notin Msg
ASSUME BoundAssumption ==
    /\ GateSize \in Nat \ {0}
    /\ PendingMax \in Nat \ {0}
    /\ InjectionsPerTurn \in Nat \ {0}
    /\ InjectionCycles \in Nat

VARIABLES
    inbound,    \* MessageBus.inbound
    phase,      \* phase[m]: where message m, or the task that serves it, stands
    lockQ,      \* lockQ[s]: the waiters of _session_locks[s], in order
    holder,     \* holder[s]: the task that holds _session_locks[s]
    gateQ,      \* the waiters of _concurrency_gate, in order
    active,     \* active[s]: _active_tasks[s]
    owner,      \* owner[s]: the task whose queue is _pending_queues[s]
    pending,    \* pending[m]: the queue of task m, its local "pending"
    cycles,     \* cycles[m]: injection_cycles of the turn of m
    deferred,   \* deferred[s]: _deferred_automation_turns[s]
    waiter,     \* waiter[m]: the future of submit(m), for an automation turn
    cancelled,  \* tasks with a cancellation requested and not yet delivered
    runLoop,    \* the command run() is executing inline, or None
    awaited     \* awaited[m]: the tasks _cancel_active_tasks of command m waits for

vars == <<inbound, phase, lockQ, holder, gateQ, active, owner, pending, cycles,
          deferred, waiter, cancelled, runLoop, awaited>>

\* A task inside "async with lock, gate": it holds the lock, a permit, a queue.
InTurn == {"running", "clearing", "blocked", "saving"}
Live   == InTurn \union {"created", "lockWait", "gateWait"}
Over   == {"done", "failed", "cancelled", "injected", "dropped"}
Phases == Live \union Over \union {"unsent", "queued"}

TypeOK ==
    /\ inbound \in Seq(Msg)
    /\ phase \in [Msg -> Phases]
    /\ lockQ \in [Session -> Seq(Msg)]
    /\ holder \in [Session -> Msg \union {None}]
    /\ gateQ \in Seq(Msg)
    /\ active \in [Session -> SUBSET Msg]
    /\ owner \in [Session -> Msg \union {None}]
    /\ pending \in [Msg -> Seq(Msg)]
    /\ cycles \in [Msg -> 0 .. InjectionCycles]
    /\ deferred \in [Session -> Seq(Msg)]
    /\ waiter \in [Msg -> {"none", "waiting", "ok", "error"}]
    /\ cancelled \in SUBSET Msg
    /\ runLoop \in Msg \union {None}
    /\ awaited \in [Msg -> SUBSET Msg]

Init ==
    /\ inbound = <<>>
    /\ phase = [m \in Msg |-> "unsent"]
    /\ lockQ = [s \in Session |-> <<>>]
    /\ holder = [s \in Session |-> None]
    /\ gateQ = <<>>
    /\ active = [s \in Session |-> {}]
    /\ owner = [s \in Session |-> None]
    /\ pending = [m \in Msg |-> <<>>]
    /\ cycles = [m \in Msg |-> 0]
    /\ deferred = [s \in Session |-> <<>>]
    /\ waiter = [m \in Msg |-> "none"]
    /\ cancelled = {}
    /\ runLoop = None
    /\ awaited = [m \in Msg |-> {}]

(***************************************************************************)
(* Arrivals: channels, the automation services and the direct API.         *)
(***************************************************************************)
Publish(m) ==
    /\ phase[m] = "unsent"
    /\ Kind[m] \in {"user", "new", "stop"}
    /\ phase' = [phase EXCEPT ![m] = "queued"]
    /\ inbound' = Append(inbound, m)
    /\ UNCHANGED <<lockQ, holder, gateQ, active, owner, pending, cycles, deferred,
                   waiter, cancelled, runLoop, awaited>>

\* AutomationTurnCoordinator.submit while the loop runs: the waiter first, then
\* the bus.
Submit(m) ==
    /\ phase[m] = "unsent"
    /\ Kind[m] = "auto"
    /\ waiter' = [waiter EXCEPT ![m] = "waiting"]
    /\ phase' = [phase EXCEPT ![m] = "queued"]
    /\ inbound' = Append(inbound, m)
    /\ UNCHANGED <<lockQ, holder, gateQ, active, owner, pending, cycles, deferred,
                   cancelled, runLoop, awaited>>

\* process_direct runs in its caller's task, outside _active_tasks.
ProcessDirect(m) ==
    /\ phase[m] = "unsent"
    /\ Kind[m] = "direct"
    /\ phase' = [phase EXCEPT ![m] = "created"]
    /\ UNCHANGED <<inbound, lockQ, holder, gateQ, active, owner, pending, cycles,
                   deferred, waiter, cancelled, runLoop, awaited>>

(***************************************************************************)
(* run(): one inbound message at a time, in the order of its checks.       *)
(***************************************************************************)
\* run() is at its consume_inbound and m is the message it gets.
Consume(m) ==
    /\ runLoop = None
    /\ inbound # <<>>
    /\ m = Head(inbound)
    /\ inbound' = Tail(inbound)

SessionActive(m) == owner[Key[m]] # None

\* Mutant of CancelActiveTasks: the tasks are awaited, not cancelled.
AwaitActiveTasks(m) ==
    /\ active' = [active EXCEPT ![Key[m]] = {}]
    /\ awaited' = [awaited EXCEPT ![m] = active[Key[m]]]
    /\ runLoop' = m
    /\ UNCHANGED cancelled

\* _cancel_active_tasks: pop the tasks of the session, cancel them, await them.
\* Command m runs it inline from run().
CancelActiveTasks(m) ==
    /\ active' = [active EXCEPT ![Key[m]] = {}]
    /\ cancelled' = cancelled \union active[Key[m]]
    /\ awaited' = [awaited EXCEPT ![m] = active[Key[m]]]
    /\ runLoop' = m

\* /stop goes first, whatever the session is doing.
RoutePriority(m) ==
    /\ Consume(m)
    /\ Kind[m] = "stop"
    /\ CancelActiveTasks(m)
    /\ UNCHANGED <<phase, lockQ, holder, gateQ, owner, pending, cycles, deferred, waiter>>

\* defer_if_active: an automation turn never joins the turn in progress.
RouteDeferred(m) ==
    /\ Consume(m)
    /\ Kind[m] \in Automation
    /\ SessionActive(m)
    /\ deferred' = [deferred EXCEPT ![Key[m]] = Append(@, m)]
    /\ UNCHANGED <<phase, lockQ, holder, gateQ, active, owner, pending, cycles,
                   waiter, cancelled, runLoop, awaited>>

\* A command for an active session is executed from run() itself.
RouteCommand(m) ==
    /\ Consume(m)
    /\ Kind[m] = "new"
    /\ SessionActive(m)
    /\ CancelActiveTasks(m)
    /\ UNCHANGED <<phase, lockQ, holder, gateQ, owner, pending, cycles, deferred, waiter>>

\* Mutant of CanInject: automation turns are follow-ups like any other.
CanInjectAutomation(m) ==
    /\ Kind[m] \in {"user", "cont"} \union Automation
    /\ SessionActive(m)
    /\ Len(pending[owner[Key[m]]]) < PendingMax

\* The pending queue of the session's turn has room for m.
CanInject(m) ==
    /\ Kind[m] \in {"user", "cont"}
    /\ SessionActive(m)
    /\ Len(pending[owner[Key[m]]]) < PendingMax

RouteToPending(m) ==
    /\ Consume(m)
    /\ CanInject(m)
    /\ pending' = [pending EXCEPT ![owner[Key[m]]] = Append(@, m)]
    /\ UNCHANGED <<phase, lockQ, holder, gateQ, active, owner, cycles, deferred,
                   waiter, cancelled, runLoop, awaited>>

\* Mutant of Track: the task replaces the tasks already registered.
TrackOnlyLast(m) == active' = [active EXCEPT ![Key[m]] = {m}]

\* _active_tasks.setdefault(key, []).append(task)
Track(m) == active' = [active EXCEPT ![Key[m]] = @ \union {m}]

\* No turn in progress, or its pending queue is full: a task for m.
RouteToTask(m) ==
    /\ Consume(m)
    /\ Kind[m] # "stop"
    /\ SessionActive(m) => Kind[m] \in {"user", "cont"} /\ ~CanInject(m)
    /\ phase' = [phase EXCEPT ![m] = "created"]
    /\ Track(m)
    /\ UNCHANGED <<lockQ, holder, gateQ, owner, pending, cycles, deferred, waiter,
                   cancelled, runLoop, awaited>>

(***************************************************************************)
(* _dispatch: "async with lock, gate", both first come, first served.      *)
(***************************************************************************)
Permits == {m \in Msg : phase[m] \in InTurn /\ Kind[m] # "direct"}

\* Mutant of GateOpen: one permit too many.
GateOpenOffByOne == gateQ = <<>> /\ Cardinality(Permits) <= GateSize

\* Semaphore.acquire does not wait: a permit is free and nobody is in line.
GateOpen == gateQ = <<>> /\ Cardinality(Permits) < GateSize

\* Past the gate: the turn starts, with a fresh queue for its session.
BeginTurn(m) ==
    /\ phase' = [phase EXCEPT ![m] = "running"]
    /\ owner' = [owner EXCEPT ![Key[m]] = m]

\* m has just got the lock of its session and goes on to the gate.
TakeLock(m) ==
    /\ holder' = [holder EXCEPT ![Key[m]] = m]
    /\ \/ /\ Kind[m] = "direct"             \* process_direct uses the lock only
          /\ phase' = [phase EXCEPT ![m] = "running"]
          /\ UNCHANGED <<gateQ, owner>>
       \/ /\ Kind[m] # "direct"
          /\ GateOpen
          /\ BeginTurn(m)
          /\ UNCHANGED gateQ
       \/ /\ Kind[m] # "direct"
          /\ ~GateOpen
          /\ phase' = [phase EXCEPT ![m] = "gateWait"]
          /\ gateQ' = Append(gateQ, m)
          /\ UNCHANGED owner

\* Mutant of LockFree: whoever comes enters.
LockIgnored(s) == s \in Session

\* Lock.acquire does not wait: the lock is free and nobody is in line.
LockFree(s) == holder[s] = None /\ lockQ[s] = <<>>

StartUncontended(m) ==
    /\ phase[m] = "created"
    /\ m \notin cancelled
    /\ LockFree(Key[m])
    /\ TakeLock(m)
    /\ UNCHANGED <<inbound, lockQ, active, pending, cycles, deferred, waiter,
                   cancelled, runLoop, awaited>>

StartWaiting(m) ==
    /\ phase[m] = "created"
    /\ m \notin cancelled
    /\ ~LockFree(Key[m])
    /\ phase' = [phase EXCEPT ![m] = "lockWait"]
    /\ lockQ' = [lockQ EXCEPT ![Key[m]] = Append(@, m)]
    /\ UNCHANGED <<inbound, holder, gateQ, active, owner, pending, cycles, deferred,
                   waiter, cancelled, runLoop, awaited>>

\* The first waiter wakes up. A cancelled one does not acquire: it leaves.
LockGranted(m) ==
    /\ phase[m] = "lockWait"
    /\ m \notin cancelled
    /\ holder[Key[m]] = None
    /\ lockQ[Key[m]] # <<>>
    /\ m = Head(lockQ[Key[m]])
    /\ lockQ' = [lockQ EXCEPT ![Key[m]] = Tail(@)]
    /\ TakeLock(m)
    /\ UNCHANGED <<inbound, active, pending, cycles, deferred, waiter, cancelled,
                   runLoop, awaited>>

GateGranted(m) ==
    /\ phase[m] = "gateWait"
    /\ m \notin cancelled
    /\ gateQ # <<>>
    /\ m = Head(gateQ)
    /\ Cardinality(Permits) < GateSize
    /\ gateQ' = Tail(gateQ)
    /\ BeginTurn(m)
    /\ UNCHANGED <<inbound, lockQ, holder, active, pending, cycles, deferred, waiter,
                   cancelled, runLoop, awaited>>

(***************************************************************************)
(* Inside a turn.                                                          *)
(***************************************************************************)
\* Mid-turn work of m: it processes a message that is not a command.
Working(m) ==
    /\ phase[m] = "running"
    /\ Kind[m] # "new"
    /\ m \notin cancelled

\* _try_drain_injections drains only while this holds.
CyclesLeft(m) == cycles[m] < InjectionCycles

\* The runner drains up to InjectionsPerTurn follow-ups into the conversation.
DrainInjections(m) ==
    /\ Working(m)
    /\ pending[m] # <<>>
    /\ CyclesLeft(m)
    /\ LET k == IF Len(pending[m]) < InjectionsPerTurn THEN Len(pending[m])
                                                       ELSE InjectionsPerTurn
           taken == {pending[m][i] : i \in 1 .. k}
       IN  /\ phase' = [x \in Msg |-> IF x \in taken THEN "injected" ELSE phase[x]]
           /\ pending' = [pending EXCEPT ![m] = SubSeq(@, k + 1, Len(@))]
    /\ cycles' = [cycles EXCEPT ![m] = @ + 1]
    /\ UNCHANGED <<inbound, lockQ, holder, gateQ, active, owner, deferred, waiter,
                   cancelled, runLoop, awaited>>

\* The iteration budget is spent while the session has an active goal, whatever
\* kind of turn it is; c is the continuation, with the metadata of m. A direct
\* call has no queue to put it in. The number of continuations in Msg stands for
\* the bound of 12 rounds.
BudgetSpent(m, c) ==
    /\ Working(m)
    /\ \/ Kind[m] \in {"user", "cont"} /\ Kind[c] = "cont"
       \/ Kind[m] \in Automation /\ Kind[c] = "autoCont"
    /\ Key[c] = Key[m]
    /\ phase[c] = "unsent"

\* maybe_continue_turn puts the continuation into the turn's own queue; the
\* finally of _dispatch will publish it.
ContinueTurn(m, c) ==
    /\ BudgetSpent(m, c)
    /\ Len(pending[m]) < PendingMax
    /\ pending' = [pending EXCEPT ![m] = Append(@, c)]
    /\ phase' = [phase EXCEPT ![c] = "queued", ![m] = "saving"]
    /\ UNCHANGED <<inbound, lockQ, holder, gateQ, active, owner, cycles, deferred,
                   waiter, cancelled, runLoop, awaited>>

\* The same with a full queue: put() suspends, and the one consumer of that
\* queue is this very turn. The drain at the budget boundary makes room while
\* cycles are left, but the goal may ask for a last answer behind it, and
\* follow-ups arrive during that request.
ContinueBlocked(m, c) ==
    /\ BudgetSpent(m, c)
    /\ Len(pending[m]) >= PendingMax
    /\ phase' = [phase EXCEPT ![m] = "blocked"]
    /\ UNCHANGED <<inbound, lockQ, holder, gateQ, active, owner, pending, cycles,
                   deferred, waiter, cancelled, runLoop, awaited>>

\* /new on an idle session runs inside its own turn: _cancel_active_tasks pops
\* that task too; cancelling oneself and awaiting oneself cancel out.
NewCommand(m) ==
    /\ phase[m] = "running"
    /\ Kind[m] = "new"
    /\ m \notin cancelled
    /\ phase' = [phase EXCEPT ![m] = "clearing"]
    /\ active' = [active EXCEPT ![Key[m]] = {}]
    /\ cancelled' = cancelled \union (active[Key[m]] \ {m})
    /\ awaited' = [awaited EXCEPT ![m] = active[Key[m]] \ {m}]
    /\ UNCHANGED <<inbound, lockQ, holder, gateQ, owner, pending, cycles, deferred,
                   waiter, runLoop>>

(***************************************************************************)
(* The end of a task.                                                      *)
(***************************************************************************)
\* Mutant of Republish: the follow-ups left in the queue are dropped.
RepublishDeferredOnly(s, rest) ==
    IF deferred[s] = <<>>
    THEN UNCHANGED <<inbound, deferred>>
    ELSE /\ inbound' = Append(inbound, Head(deferred[s]))
         /\ deferred' = [deferred EXCEPT ![s] = Tail(@)]

\* Mutant of Republish: the deferred turns stay where they are.
RepublishRestOnly(s, rest) == inbound' = inbound \o rest /\ UNCHANGED deferred

\* publish_next_deferred_turn: the first deferred turn of s goes back to the
\* bus, behind the follow-ups in rest.
Republish(s, rest) ==
    IF deferred[s] = <<>>
    THEN /\ inbound' = inbound \o rest
         /\ UNCHANGED deferred
    ELSE /\ inbound' = Append(inbound \o rest, Head(deferred[s]))
         /\ deferred' = [deferred EXCEPT ![s] = Tail(@)]

\* coordinator.complete(m, ...)
Complete(m, result) ==
    waiter' = [waiter EXCEPT ![m] = IF @ = "waiting" THEN result ELSE @]

\* The done callback of the task, or run() no longer tracking it.
Forget(m) ==
    /\ active' = [active EXCEPT ![Key[m]] = @ \ {m}]
    /\ cancelled' = cancelled \ {m}

\* Mutant of GiveUpQueue: the queue of an ended turn stays published.
KeepQueue(m) == UNCHANGED owner

\* The turn gives up its own queue only.
GiveUpQueue(m) == owner' = [owner EXCEPT ![Key[m]] = IF @ = m THEN None ELSE @]

\* The except/finally part of _dispatch for a turn that has begun: complete the
\* waiter, give up the pending queue, republish what it still holds, release.
EndTurn(m, outcome, result) ==
    /\ phase' = [phase EXCEPT ![m] = outcome]
    /\ holder' = [holder EXCEPT ![Key[m]] = None]
    /\ IF Kind[m] = "direct"
       THEN UNCHANGED <<inbound, owner, pending, deferred, waiter>>
       ELSE /\ Complete(m, result)
            /\ GiveUpQueue(m)
            /\ pending' = [pending EXCEPT ![m] = <<>>]
            /\ Republish(Key[m], pending[m])
    /\ Forget(m)
    /\ UNCHANGED <<lockQ, gateQ, cycles, runLoop, awaited>>

\* The turn has nothing more to wait for.
CanEnd(m) ==
    /\ m \notin cancelled
    /\ \/ phase[m] = "running" /\ Kind[m] # "new"
       \/ phase[m] = "saving"
       \/ phase[m] = "clearing" /\ \A t \in awaited[m] : phase[t] \notin Live

FinishTurn(m) == CanEnd(m) /\ EndTurn(m, "done", "ok")

\* An exception anywhere in the turn; the user gets an error message.
FailTurn(m) == CanEnd(m) /\ EndTurn(m, "failed", "error")

\* CancelledError is delivered inside the turn.
CancelTurn(m) ==
    /\ m \in cancelled
    /\ phase[m] \in InTurn
    /\ EndTurn(m, "cancelled", "error")

\* ... before the task ever ran: its coroutine does not start, no finally runs.
CancelCreated(m) ==
    /\ m \in cancelled
    /\ phase[m] = "created"
    /\ phase' = [phase EXCEPT ![m] = "cancelled"]
    /\ Forget(m)
    /\ UNCHANGED <<inbound, lockQ, holder, gateQ, owner, pending, cycles, deferred,
                   waiter, runLoop, awaited>>

\* ... while it waits for the lock or the gate: the outer finally publishes the
\* next deferred turn, and completes no waiter.
CancelLockWait(m) ==
    /\ m \in cancelled
    /\ phase[m] = "lockWait"
    /\ phase' = [phase EXCEPT ![m] = "cancelled"]
    /\ \E i \in DOMAIN lockQ[Key[m]] :
          /\ lockQ[Key[m]][i] = m
          /\ lockQ' = [lockQ EXCEPT ![Key[m]] = RemoveAt(@, i)]
    /\ Republish(Key[m], <<>>)
    /\ Forget(m)
    /\ UNCHANGED <<holder, gateQ, owner, pending, cycles, waiter, runLoop, awaited>>

CancelGateWait(m) ==
    /\ m \in cancelled
    /\ phase[m] = "gateWait"
    /\ phase' = [phase EXCEPT ![m] = "cancelled"]
    /\ \E i \in DOMAIN gateQ : gateQ[i] = m /\ gateQ' = RemoveAt(gateQ, i)
    /\ holder' = [holder EXCEPT ![Key[m]] = None]
    /\ Republish(Key[m], <<>>)
    /\ Forget(m)
    /\ UNCHANGED <<lockQ, owner, pending, cycles, waiter, runLoop, awaited>>

(***************************************************************************)
(* The end of a command run inline.                                        *)
(***************************************************************************)
CommandDone(m) ==
    /\ runLoop = m
    /\ \A t \in awaited[m] : phase[t] \notin Live
    /\ runLoop' = None

\* cmd_stop then pops the session's pending queue, if one is left, and drops
\* what it holds.
StopDone(m) ==
    /\ CommandDone(m)
    /\ Kind[m] = "stop"
    /\ LET o == owner[Key[m]]
           dropped == IF o = None THEN {} ELSE ToSet(pending[o])
       IN  /\ phase' = [x \in Msg |-> IF x = m THEN "done"
                                      ELSE IF x \in dropped THEN "dropped"
                                      ELSE phase[x]]
           /\ pending' = IF o = None THEN pending ELSE [pending EXCEPT ![o] = <<>>]
    /\ owner' = [owner EXCEPT ![Key[m]] = None]
    /\ UNCHANGED <<inbound, lockQ, holder, gateQ, active, cycles, deferred, waiter,
                   cancelled, awaited>>

\* cmd_new then clears and saves the session.
NewDone(m) ==
    /\ CommandDone(m)
    /\ Kind[m] = "new"
    /\ phase' = [phase EXCEPT ![m] = "done"]
    /\ UNCHANGED <<inbound, lockQ, holder, gateQ, active, owner, pending, cycles,
                   deferred, waiter, cancelled, awaited>>

Arrive(m) == Publish(m) \/ Submit(m) \/ ProcessDirect(m)

Route(m) ==
    \/ RoutePriority(m)
    \/ RouteDeferred(m)
    \/ RouteCommand(m)
    \/ RouteToPending(m)
    \/ RouteToTask(m)

Acquire(m) ==
    \/ StartUncontended(m)
    \/ StartWaiting(m)
    \/ LockGranted(m)
    \/ GateGranted(m)

End(m) == FinishTurn(m) \/ FailTurn(m)

Cancel(m) ==
    \/ CancelTurn(m)
    \/ CancelCreated(m)
    \/ CancelLockWait(m)
    \/ CancelGateWait(m)

Command(m) == StopDone(m) \/ NewDone(m)

Next ==
    \/ \E m \in Msg :
          \/ Arrive(m)
          \/ Route(m)
          \/ Acquire(m)
          \/ DrainInjections(m)
          \/ NewCommand(m)
          \/ End(m)
          \/ Cancel(m)
          \/ Command(m)
    \/ \E m, c \in Msg : ContinueTurn(m, c) \/ ContinueBlocked(m, c)

Spec == Init /\ [][Next]_vars

\* The event loop runs every task that can run; a turn's provider calls and
\* tools have timeouts and its iterations are bounded, so a turn ends. Nobody
\* is obliged to send a message.
Fairness ==
    /\ WF_vars(\E m \in Msg : Route(m))
    /\ \A m \in Msg :
          /\ WF_vars(Acquire(m))
          /\ WF_vars(NewCommand(m))
          /\ WF_vars(End(m))
          /\ WF_vars(Cancel(m))
          /\ WF_vars(Command(m))

FairSpec == Spec /\ Fairness
-----------------------------------------------------------------------------
(***************************************************************************)
(* Properties.                                                             *)
(***************************************************************************)
HoldsLock(m) == phase[m] \in InTurn \union {"gateWait"}

\* At most one task per session is past the session lock, it is the one the
\* lock names, and at most GateSize dispatched turns run at once: the
\* "async with lock, gate" of _dispatch against cancellation at every wait.
TurnsSerialized ==
    /\ \A m \in Msg : HoldsLock(m) <=> holder[Key[m]] = m
    /\ Cardinality(Permits) <= GateSize

\* A pending queue that run() can still feed belongs to the turn that holds the
\* session's lock, and only such a turn has follow-ups queued: no follow-up is
\* put into, or left in, the queue of a turn that is over ("a later task waiting
\* on the lock must not be able to steal cleanup ownership").
PendingQueueOwned ==
    /\ \A s \in Session : owner[s] # None =>
          phase[owner[s]] \in InTurn /\ holder[s] = owner[s] /\ Kind[owner[s]] # "direct"
    /\ \A m \in Msg : pending[m] # <<>> => owner[Key[m]] = m

\* The places where an accepted message that nobody has taken up can be.
OnBus(m) == Contains(inbound, m)
Deferred(m) == \E s \in Session : Contains(deferred[s], m)
FollowUp(m) == \E t \in Msg : Contains(pending[t], m)

\* Every message that was accepted and is not yet taken up is on the bus, in a
\* pending queue, deferred or in run()'s hands: in one of these, and once. A
\* message that has a task or is over is in none of them. It is re-published by
\* two finally blocks, a full queue and the deferral, in tasks that /stop and
\* /new may cancel at every wait ("rather than silently lost").
NothingLostOrDoubled ==
    /\ \A m \in Msg : phase[m] = "queued" <=>
          OnBus(m) \/ Deferred(m) \/ FollowUp(m) \/ runLoop = m
    /\ IsInjective(inbound)
    /\ \A s \in Session : IsInjective(deferred[s])
    /\ \A t \in Msg : IsInjective(pending[t])
    /\ \A m \in Msg :
          /\ OnBus(m) => ~Deferred(m) /\ ~FollowUp(m) /\ runLoop # m
          /\ Deferred(m) => ~FollowUp(m) /\ runLoop # m
          /\ FollowUp(m) => runLoop # m
    /\ \A m, t \in Msg : Contains(pending[t], m) =>
          \A u \in Msg : Contains(pending[u], m) => t = u

\* An automation turn never joins another turn's conversation ("without mixing
\* them into live injections"), and /stop drops none. The one thing of it that
\* passes through a pending queue is the continuation an automation turn of the
\* session hands over to, behind the last drain and before its own finally.
AutomationNeverInjected ==
    \A m \in Msg : Kind[m] \in Automation =>
       /\ phase[m] \notin {"injected", "dropped"}
       /\ \A t \in Msg : Contains(pending[t], m) =>
             /\ Kind[m] = "autoCont" /\ Key[m] = Key[t]
             /\ Kind[t] \in Automation /\ phase[t] = "saving"

\* Every task of a session that /stop is meant to stop can be found by it: the
\* task is registered, already being cancelled, or is the /new that popped the
\* registry itself.
LiveTaskReachable ==
    \A m \in Msg : phase[m] \in Live /\ Kind[m] # "direct" =>
       m \in active[Key[m]] \union cancelled \/ phase[m] = "clearing"

\* An automation turn cancelled while its task waits for the lock or the gate is
\* reported to the worker that submitted it, as one cancelled later is ("A
\* cancelled agent turn should not cancel the local-trigger worker").
CancelledTurnReported ==
    [][\A m \in Msg : phase[m] \in {"lockWait", "gateWait"} /\ phase'[m] = "cancelled"
          => waiter'[m] # "waiting"]_vars

\* submit() returns: every automation turn gets a response or an error.
AutomationAnswered ==
    \A m \in Msg : waiter[m] = "waiting" ~> waiter[m] \in {"ok", "error"}

\* Every message the bus accepted is served, injected or refused with an error.
EveryMessageTakenUp == \A m \in Msg : phase[m] = "queued" ~> phase[m] \in Over

\* run() stays responsive: a command it executes inline, and the tasks that
\* command cancels and awaits, come to an end.
CommandReturns == runLoop # None ~> runLoop = None

\* A turn that spent its budget hands over to its continuation and stops ("the
\* current runner slice should stop").
ContinuedTurnStops ==
    \A m \in Msg : phase[m] \in {"saving", "blocked"} ~> phase[m] \in Over

\* The state of SessionService that a state of the dispatcher stands for.
StatusOf(p) ==
    CASE p = "unsent" -> "unsent"
      [] p \in {"queued", "created", "lockWait", "gateWait"} -> "waiting"
      [] p \in InTurn -> "serving"
      [] p \in Over -> "over"

status == [m \in Msg |-> StatusOf(phase[m])]

Service == INSTANCE SessionService WITH status <- status

\* The dispatcher implements SessionService.
ImplementsService == Service!Spec
=============================================================================
