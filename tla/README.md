# A formal model of nanobot and its GUI agent (GUIClaw)

TLA+ specifications of the concurrent core of GUIClaw: the agent runtime nanobot
(`src/GUIClaw/nanobot`) and the runs of its GUI agent (`src/GUIClaw/guiclaw`). Beside
them are the TLC configurations that check them on small instances and the theorems about
them that TLAPS proves for every value of the constants. `PROJECT.json` ties every
definition to the lines it models, lists the runs, the hazards of the code and the
properties that cover them.

Contents: [the system](#1-the-system), [the modules](#2-the-modules),
[runs](#3-runs), [fairness](#4-fairness), [proofs](#5-proofs),
[findings](#6-what-the-models-found), [what is left out](#7-what-is-not-modelled),
[plan](#8-plan).

## 1. The system

Chat channels, the cron service, local triggers, sub-agents and the command line
publish inbound messages on a bus. One coroutine, `AgentLoop.run`, takes them off
the bus and gives each to the session it belongs to; a turn of a session calls
the model and tools until it has an answer, saves the session and publishes the
answer, which the channel manager sends out.

| component | state | operations | what makes it correct |
|---|---|---|---|
| dispatcher (`agent/loop.py`) | inbound queue, `_active_tasks`, `_session_locks`, `_concurrency_gate`, `_pending_queues` | `run`, `_dispatch`, `process_direct`, cancellation | one turn per session, few in all; no message lost, doubled or fed to a dead turn |
| automation turns (`agent/automation_turns.py`) | waiters (futures), `_deferred_automation_turns` | `submit`, `defer_if_active`, `complete`, `publish_next_deferred_turn` | never mixed into another turn, nor its continuation; every waiter hears of its turn |
| commands (`command/builtin.py`) | none of their own | `/stop`, `/new` cancel the session's tasks and wait for them | every live task can be found; `run` is not blocked for ever |
| goal continuation (`session/turn_continuation.py`) | a message in the turn's own queue | `maybe_continue_turn` | the slice stops, the next one owns the answer |
| runner (`agent/runner.py`) | messages of the run, iteration, injection, retry and recovery counters | model/tool loop, injection drain, checkpoints | every bound holds on every path; calls and results stay together; what was drained is kept |
| local triggers (`triggers/`) | `triggers.json`, `inbox/`, `processing/`, `failed/`, run records | enqueue (a process of its own), claim, retry, complete, recover, delete | at least one and at most 10 turns per delivery across crashes; nothing lost |
| cron (`cron/service.py`) | `jobs.json`, `action.jsonl`, the store in memory, `_timer_task`, `_timer_active` | add, remove, enable, run, tick, save, load, merge | no change lost between two instances or two tasks; no run lost |
| turn persistence (`agent/loop.py`, `session/manager.py`) | session file, runtime checkpoint, pending-user flag | RESTORE, COMPACT, COMMAND, BUILD, RUN, SAVE, RESPOND | a stop or a crash at any await leaves a transcript a provider accepts; what the file loses is archived; nothing is said twice; an answer is saved before it is sent |
| session memory (`agent/memory.py`, `agent/autocompact.py`) | session objects and their cache, `last_consolidated`, `history.jsonl`, the consolidation lock | consolidate, compact an idle session, cap the file, `/new` | a message is in the prompt's part of the session or leaves it for the archive, once |
| GUI runs (`agent/tools/gui.py`, `guiclaw/agent.py`) | plan, budget, steps, retries, `result.json` | plan, subtask, attempt, step, extraction | the budget is kept, `result.json` is true, a call ends |
| GUI background display (`guiclaw/backends/background*.py`) | the lease of the process, the virtual display, `DISPLAY` | lease, preflight, observe, execute, shutdown | one run at a time, each on its own display, the host's restored |
| sub-agents (`agent/subagent.py`) | running tasks by session | spawn, announce, cancel by session | a result is announced once, or its session was cancelled |
| channel manager (`channels/manager.py`) | outbound queue, send retries | dispatch, coalesce, retry | bounded retries, order of the deltas of a stream, an answer shown by one of its two ways |
| pairing store (`pairing/store.py`) | codes and paired users in a file | issue, redeem, revoke | a code is redeemed once |
| channels, providers, tools, API, SDK, UIs, GUI skills and memory | connections, devices | I/O | see section 7 |

How they interact, and where it is hard:

- *Interleaving.* Everything in the gateway is one asyncio event loop. State is
  read before an `await` and used after it: `run` looks at `_pending_queues`, the
  turn that owns the queue removes it in a `finally`, `/stop` pops it too.
- *Cancellation.* `/stop` and `/new` cancel tasks at whatever they wait for: before
  the first step, on the lock, on the gate, in the turn. Four different sets of
  `finally` blocks run.
- *Processes.* The trigger command line and the cron command line write files
  that the gateway reads; a file lock serialises single operations, not sequences
  of them.
- *Crashes.* Trigger deliveries, cron jobs and sessions live in files that are
  updated by several operations each; the messages of a run, the summary a
  consolidation waits for and the pending queues are in memory only.
- *Identity.* A handler may hold a session or job object that a cache or store has
  replaced since; what it saves then goes over what others saved.
- *The environment.* `DISPLAY` belongs to the process; every background GUI run
  points it to its own display.
- *Limits.* Pending queue (20), permits (3), injections per drain (3), injection
  cycles (5), iterations of a run, blank replies (2), length recoveries (3), delivery
  attempts (10), batch (20), file cap (2000), steps and retries of a GUI call.

## 2. The modules

### AgentDispatch (with SessionService, MCDispatch)

The dispatcher: `run` (loop.py 1121-1222), `_dispatch` (1224-1397),
`process_direct`, the automation coordinators, `/stop` and `/new`, the drain of
injections, the put of a goal continuation.

A message is also the name of its task. `phase[m]` says where it stands:

    unsent -> queued -> created -> lockWait -> gateWait -> running -> done
                 |                                            |   \-> failed
                 |-> injected (by another turn)               |-> saving / blocked
                 \-> dropped  (by /stop)                      |-> clearing (/new)
                                                 (anywhere) -> cancelled

`inbound` is the bus; `lockQ`/`holder` a session's `asyncio.Lock`; `gateQ` the
semaphore's waiters (the permits in use are counted from the phases); `active`
is `_active_tasks`; `owner`/`pending` are `_pending_queues` and the local
`pending` of `_dispatch`, which survives the removal from the dictionary;
`deferred` and `waiter` belong to the automation coordinators; `cancelled` holds
the tasks with a cancellation requested and not yet delivered; `runLoop` and
`awaited` say that `run` is inside an inline command and what it waits for.

An action runs from one real suspension point to the next. `Queue.put` on the
unbounded bus and `put_nowait` never suspend, so the whole `finally` of a turn
(complete the waiter, give up the queue, republish the rest, publish the next
deferred turn, release the lock and permit) is one action, `EndTurn`. An
uncontended lock or gate does not suspend either (`StartUncontended`, `TakeLock`),
a contended one does (`lockWait`, `gateWait`). `run`'s checks become the guards of
`RoutePriority`, `RouteDeferred`, `RouteCommand`, `RouteToPending` and
`RouteToTask`, in that order. What a turn does with the model and tools is the
single phase `running`, which may end well, end with an exception, drain
injections or spend its budget and continue. A continuation is the last thing a turn's queue
gets from the turn itself, and no drain follows it (`saving`): this is why the one automation
message that `AutomationNeverInjected` allows in a pending queue is never injected.

`SessionService` is what callers are promised: a message waits, is served by a
turn of its own (one per session, `GateSize` in all) or absorbed by the session's
turn, and is over; only a command ends waiting messages otherwise. The mapping
(`StatusOf`) forgets locks, queues and tasks.

Behaviours of the code the model contains and that are worth knowing:

- A message that meets a full pending queue gets its own task and waits on the
  lock; when the turn ends, the earlier messages left in its queue go to the back
  of the bus, so the later message overtakes them.
- `/stop` waits for the cancelled turn first, and that turn's `finally` republishes
  its follow-ups; the drain `/stop` does afterwards usually finds nothing, and the
  follow-ups are served after `/stop`.
- A task cancelled before its first step runs no `finally` at all.
- `/new` on an idle session pops its own task from `_active_tasks`.
- Only `/stop` frees a turn that is blocked on its own queue.
- Whether a spent turn goes on is decided by the session's goal alone
  (turn_continuation.py:104-139, 201-231), so a cron or trigger turn in a session with an
  active goal continues too. The continuation carries a copy of the automation metadata
  (kind `autoCont`) and sits in the turn's own pending queue until the `finally` republishes
  it. On its way back it is routed like any automation turn: it is deferred if the
  session is active. The waiter of the first turn is completed when that turn hands over,
  with no response; nobody waits for what the continuation answers.

### LocalTriggers (with DeliveryQueue, MCTriggers)

`LocalTriggerStore` and `run_local_trigger_queue`. A delivery is numbered by its
creation, as its file name is; `inbox`, `processing` and `failed` map it to the
attempts in its file in that directory, or `Absent`; `record` is the status in its
run record; `phase`, `batch`, `attempts`, `moving` are the runner; `turns` is a
history variable that counts the agent turns submitted.

The command-line process enqueues whenever the file lock is free. The web
handlers that create, switch and delete triggers run on the runner's event loop,
so only where it awaits (between polls, and while a turn is served); creation
also happens from the command line. Each step of the runner is one file operation:
a claim is a rename, a retry is a write of the copy and then an unlink (`moving`
is the delivery in between), a completion an unlink; `Crash` may fall between any
two, and `CrashInDelete` leaves any subset of a deleted trigger's files.

`DeliveryQueue` is what remains of it without files: a delivery is accepted once,
gets turns while it is open, `MaxAttempts` at most, is closed, and stays closed.

### CronService (with Agenda, MCCron)

`cron/service.py` in the gateway, an instance in another process (the command
line agent, whose cron tool adds, lists and removes), and the handlers that use
it. `disk` is `jobs.json`; `added` and `dels` are the lines of `action.jsonl`, which
an instance that is not running writes instead of the file; `store` is `_store`;
`timer` is `_timer_task` (none, sleeping, or inside `_on_timer`), `timerActive` the flag
of the same name, `due`/`current` the loop of a tick, `manual` the locals of
`run_job`. A job is `enabled`, the time it is due next, and the time of a one-shot job;
`next` stands for all that a run records. `clock` moves freely.

An action goes from one await to the next, and a handler includes the load
(`_load_store` with `_merge_action`), the save and the re-arming it does: `Loaded` is what
`_load_store` returns, `LoadOnly` and `LoadAndSave` are the two ways to go on, `Arm` is
`_arm_timer`. What makes the module hard is in the code: any load outside a tick
replaces the job objects that somebody may be holding, so a tick and a manual run
carry `stale`, whether `_store` still has their objects; `_arm_timer` cancels the timer
task also inside a tick; and a cancelled tick (`unwinding`) clears `_timer_active` when
it is gone, which for a system job, whose tools may take time to stop, can be inside
the next tick. The other process looks a job up (`FindOutside`) and appends the line
later (`RemoveOutside`). The gateway may exit or crash at every await (`Crash`) and
between the two writes of a merge (`CrashInMerge`).

Three history variables serve the properties: `fate[j]` is what has to be true of a
job (never added, kept, gone, or either), `served` the due times for which a tick
has started a job, `disturbed` whether a tick was ever cancelled. Bounds of the
model: `MaxTime`, one manual run at a time, one cancelled tick per job at a time.

`Agenda` is what remains of it without files, stores and tasks: jobs are listed, by the
gateway, which drops the tick in progress, or from elsewhere, which does not; a tick takes
listed jobs whose time has come, each once, and executes one after the other; one job may
run by hand beside it; a one-shot job that has run is `finished` until the list is written.
The list is `jobs.json` with the journal applied (`Listed`), `elsewhere` are the jobs the journal
names, `finished` those the store of the gateway has dropped and the file still lists (`Dropped`),
`agenda` is what is due behind the current job. Agenda permits what the code does and
little more: that a job which has run is forgotten to be finished only after a tick was
dropped, and that the end of the process may undo changes from elsewhere that are not merged
yet, and no others. Apart from that, no step of it takes from the list a job that nobody
removed and that has not run.

Behaviours of the code the model contains and that are worth knowing:

- A crash after `_merge_action` cleared the journal and before it saved the store
  loses that journal's changes, and no others.
- A tick whose protection was cleared by a cancelled one loses the records of the
  jobs it runs, but no jobs.
- A manual run that ends after `stop()` arms the timer of the stopped service.
- A one-shot job whose time passes while the gateway is down has no next run.

### TurnPersistence (History, SessionFile, RunnerLoop, Conversation, MCTurns)

The turns of one session, layer by layer. `History` says what a row of
`Session.messages` is: its kind, the turn and the iteration that wrote it and, for a
user row, the inbound messages whose text it carries (`said`). The calls of an iteration
are one row, their results another. `SessionFile` is the session in memory (`log`,
`checkpoint`, `pending`, `goal`) and `disk`, what the last `save()` wrote; it has
`_restore_runtime_checkpoint`, `_restore_pending_user_turn`, `clear`, and the two ways by which rows
leave: `EnforceFileCap`, which is part of every SAVE (`FileRun`), and `CompactIdle`, between turns (`Idle`).
`archived` is a history variable: the rows that left by either. `FileCap` counts rows, where the code counts
messages, of which the calls and results of an iteration are several. Whether a row was summarised or dumped, and
what a consolidation had archived of it before, is SessionMemory's; so is a compaction that runs beside
a turn. `RunnerLoop` is
`AgentRunner._run_core`: `stage` is the await the run is in, `work` the messages it has
appended, the four counters are the locals of the loop, `queue` the turn's pending queue of
`QueueMax`. `TurnPersistence` puts the states
of `_process_message` around it, the bus and the pending queue before it (`place[m]` says
where a message is or what became of it), and /stop, /new, exceptions and a crash beside
it. A tool result and the drain behind it, a checkpoint and its save are one action, as no
await separates them.

`Conversation` is what the user is promised: the file grows in order, is a transcript that a
provider accepts (no row twice, no result without its call, no call without its result unless
that one was archived), loses rows to the archive, where they stay, or to /new, and has the
answer of a turn, itself or the archive, before the answer is sent.

Behaviours of the code the model contains and that are worth knowing:

- The checkpoint holds the last iteration only (loop.py:1322-1329). A turn stopped or
  crashed after two iterations with tools loses the rows of the first, and the
  follow-ups it had drained (`cut`); `tests/agent/test_stop_preserves_context.py` stops
  turns after one.
- A follow-up drained while the run has appended nothing is merged into the turn's
  opening message, which is in the file already and is not saved again: the model sees it,
  the history does not have it (`absorbed`).
- The cap's window starts at a user row. If the newest rows have none, it starts at the last user
  row and goes forward (manager.py:332-341), so that the *newest* rows leave, the answer of the turn
  that is being saved among them, and a call may be parted from its result. `enforce_file_cap`'s
  docstring speaks of "archiving and trimming old prefixes" (manager.py:390). The prompt that is
  made from the file later is repaired before it is sent (agent/context_governance.py:232-258),
  which is outside the model.
- An idle compaction may keep nothing at all, if what is not consolidated has no user row and ends
  in results whose calls were consolidated.
- A spent turn with an active goal awaits the put of its slice (turn_continuation.py:129). With its queue full
  it is `blocked`, holding its session, until a stop, a /new or the end of the process: finding 2, from the
  side of the turn. `EveryTurnEnds` says that this is the one turn that does not end.
- After an error, the runner drains once more (`drainError`) and may go on; its
  `stop_reason` and `error` keep the error of the iteration before.
- `clear()` keeps the metadata: an active goal and the pending-user flag survive /new.
- With fewer iterations than injection cycles and empty retries together (`Roomy` in
  TurnPersistenceProofs), a run can be exhausted without a row of its own. If it hands over to
  a slice, and another message is served before the slice, the user's message stays open: with one
  iteration, no cycles and two retries a goal, two chats and a slice are enough.
  `InterruptedTurnClosed` is proved under `Roomy`, which the code's bounds satisfy (200
  iterations, 5 cycles, 2 retries). The run `turns` has smaller bounds, and too few
  messages for this to happen.

### SessionMemory (with MCMemory)

What becomes of the messages of one session: `Consolidator.maybe_consolidate_by_tokens` before and
after a turn, `compact_idle_session`, `enforce_file_cap`, /new with its background archive, the
checkpoint saves of a running turn, /stop, and crashes. Messages are numbered as they are written.
`obj` has the session objects somebody holds, by identity; `cache`, `held`, `inner` say who holds
which: the session manager, the turn, the party in the consolidation lock. `history[r]` counts how
often message `r` went to `history.jsonl` as it left the live part of the session, as a summary or
as a dump. Which stretch a consolidation takes, and which legal suffix a cap or a compaction keeps,
depends on tokens and on the kinds of rows and is left open: any stretch.

The summary of an idle compaction is of the whole part that is not consolidated, the suffix it keeps with it
(memory.py:930-933, 1137-1144; `tests/agent/test_consolidator.py:559-580` and `772-779` assert it). Only if the
request fails are the removed rows alone dumped. So a message that was kept may be live and in
`history.jsonl` at once, and goes there again when it leaves the session. `history[r]` therefore counts how
often `r` *left* for the archive, and `echoed` has the messages whose text is there ahead of
that: `ArchivedOnce` says that nothing leaves twice, and that only echoed messages are in both.

Three of the properties hold "as long as nobody writes around the lock". `around` is a
history variable that says when somebody has: a save of an object the cache has
replaced, a write while a compaction that has read the session already is under way, a /new
beside the lock or a direct call, or a crash with a /new's snapshot unarchived. The code does all of
these, and what happens then is in the model:

- /new while a consolidation is in the lock: the consolidation saves the cleared object
  with its old offset and puts it into the cache again. New messages are behind the
  offset and in no prompt, and the chunk is archived twice. A compaction that resumes
  after /new writes the old end of the conversation back.
- `compact_idle_session` computes what it keeps before it awaits the summary
  (memory.py:1113-1154): rows written meanwhile by a restore, a shortcut command or a direct
  call, which is in no list of active sessions, are overwritten.
- A turn that fetched its session before the compaction replaced it saves its own object,
  and the compaction is undone.
- The snapshot that /new archives in the background is lost if the process ends first.

### GuiRuns (with BackgroundRuntime, MCGui)

Calls of `gui_task` in background mode. `BackgroundRuntime` is the process-wide lease
(`_active_run`) and the wrapper around the desktop backend: `preflight` waits for the lease,
starts a virtual display, remembers and sets `DISPLAY`; every `observe` and `execute` sets it
again; `shutdown` restores it and gives the lease back. `GuiRuns` is a call: `at[r]` is the
await it is in; `plan`, `subtask` and `left` are the loop of `_run_multi_app` with
`remaining_steps`; `attempt` the retries of `GuiAgent.run`; `step` and `streak` the loop of
`_run_once`; `result` is `run.success` in `result.json`, which `TrajectoryRecorder.finish` writes
after each subtask and `finalize_run_result` at the end. `solved`, `spent`, `retried`, `aborted` and
`leaked` are history variables. The model's decisions (act, ask the user, finish, a useless
reply) and failures of devices are choices; a timeout or an exception may end a step at any of
its awaits, and the call may be cancelled at every await.

Behaviours of the code the model contains and that are worth knowing:

- A preflight that fails after the display was started (background.py:116-118) gives the
  lease back and leaves `DISPLAY` and `_display_info` as they are: the retry takes the dead
  display for a ready one and works without the lease (`leaked`).
- `finish()` of the first subtask writes success into `result.json`; if the call is then
  cancelled, or extraction raises, the file keeps saying so (`aborted`).
- The budget of a workflow is charged with the steps of a subtask's last attempt only
  (`retried`); a step that timed out after its action is counted and not recorded.
- A stagnation limit of 0, the default, switches the check off, and skipped steps are then
  bounded by the limit of steps alone.

### ChannelManager (with TurnOutput, Feed, MCOutbound)

What turns publish on `bus.outbound` and what the dispatcher task of
`channels/manager.py` makes of it. In `TurnOutput` a turn is reduced to its output: the
deltas of a stream in segments (`segment` is `stream_segment`), each closed by an end, which is
a pause if the turn goes on; notes on progress; the message tool; and the outbound message
of its end, which `_assemble_outbound` marks as streamed or not (`AnswerKind`) by the `stop_reason` (`reason`).
Which way through the runner a turn takes (blank answers, tool calls malformed twice, an error, a second
drain, the last iteration, a slice that goes on instead of an answer) is a choice. `answer` and
`resumed` are history variables: how the model gave the answer the turn ended with, and whether its run
had gone on after an error.

`published` has every message ever put on the queue, and all else is a position in it:
`taken` how far the dispatcher has read, `pending` the list it keeps messages in that it took off the queue
and could not merge, `current` what is being sent (several positions if deltas were merged),
`attempt` the loop of `_send_with_retry`, `fingerprints` the texts by which a repeated reply is
recognised. Nothing is awaited between taking a message and its send, so filters, merge and
suppression are one action each (`Drop`, `Coalesce`, `Suppress`, `TakeMessage`); a send that
raises may have reached the platform or not (`SendFailed`), and `StopAll` cancels it where it is.

`Feed` is what a chat is promised: messages are settled in the order of publication, whichever
chat they are for, and only a stretch of one stream's deltas is shown as one. In the refinement
`settled` is what precedes the message being sent, or the first one not looked at yet.

Behaviours of the code the model contains and that are worth knowing:

- Two requests do not stream: the finalization after blank responses (runner.py:540) and the request
  without tools after two malformed responses (runner.py:853-864). Their answers are marked as streamed like any
  other of a streaming turn (loop.py:1680), and the dispatcher drops what is marked so (manager.py:521): no
  chat is shown them (`Withheld`). Unless the run had an error before: then they are not marked and are shown.
- Follow-ups drained after an error or an empty answer (runner.py:478, 609, 626) make a turn stream on after
  the end of its stream was signalled, and `stop_reason` stays what it was. After an error the answer that
  follows is streamed, is not marked as streamed, and is sent a second time as a message.
- `AnswerShownOnce` makes exactly these two exceptions, and says nothing of a turn that was cut, lost a message
  in all attempts or had one suppressed.
- A spent turn that hands over to a slice streams no answer and publishes no message of its end
  (loop.py:1109-1119, 1294-1299); the slice's end is the next one a chat sees.
- Deltas are merged up to the end of their segment. The code would also merge an end that carries
  content (manager.py:569-579), and no turn publishes one: `on_stream_end` sends it empty.
- A fingerprint is recorded before the reply is sent. If all attempts fail, a repetition
  that would have delivered the text is suppressed all the same; this is the last
  disjunct of `SuppressedRepeats`. An answer that was streamed leaves no fingerprint, and its
  repetition is not suppressed.
- A retry after a failure that had reached the platform shows the message again, a merged one
  as a whole (`CopiesBounded`).

## 3. Runs

`CHECK_DEADLOCK FALSE` in all runs but `memory`: the instances have finitely many messages,
deliveries or calls and nobody is obliged to send one, so the system does come to rest.

Two runs have a `CONSTRAINT`, `OneScenario`: of all messages (or turns) of the instance, those
of one scenario arrive. Nobody is obliged to send a message and no fairness says so, so a state
beyond it only has a message more, and every behaviour of a scenario is explored to its end.

| run | instance | states | shows |
|---|---|---|---|
| `dispatch_commands` | a user message, an automation turn, `/new`, `/stop`, a direct call in one session and a user message in another; or three user messages, a continuation and `/stop` in one session; or two automation turns, the continuation of one, a user message and `/stop`; gate 1, queue 1, 1 injection, 1 cycle | 163,029 | the five safety properties and `ImplementsService`; in the second scenario the queue overflows and the turn blocks on itself, and `/stop` and `/new` still return (`CommandReturns`) |
| `dispatch_liveness` | a user message and its continuation, two automation turns and the continuation of one, another session; queue 2; no commands | 49,194 | every waiter is answered, every message is taken up |
| `dispatch_orphan` | a user message, an automation turn, `/stop`, another session | - | violated: `CancelledTurnReported` (finding 1) |
| `dispatch_blocked` | three user messages and a continuation | - | violated: `ContinuedTurnStops` (finding 2) |
| `triggers` | 2 triggers, 2 deliveries, 2 attempts, batch 2 | 377,146 | the three invariants, `ImplementsQueue`, and `EveryDeliverySettled` under fairness, across crashes, deletion, retries |
| `cron_store` | a one-shot job and a system job, two units of time | 43,991 | `JobsKept`, `TimerArmed`, `ServedOnceUndisturbed`, `ImplementsAgenda`, and `DueJobRuns` under fairness |
| `outbound` | two streaming turns to two chats, without failures; one with blank, malformed and failed responses, drains after them, and two failing sends, 2 attempts; one to a channel that is not there; a turn that uses the message tool and the announcement of its sub-agent, with failing sends and `stop_all` | 522,135 | the three invariants, `ImplementsFeed`, and `QueueDrains` under fairness |
| `cron_rerun` | an interval job and a one-shot job | - | violated: `ServedOnce` (finding 3) |
| `cron_manual` | an interval job and a system job | - | violated: `ManualRunRecorded` (finding 4) |
| `turns` | a goal request, a chat message or command, a continuation slice; 2 iterations, 2 blank replies, 1 recovery, 1 injection, 1 cycle, a queue of 1, a cap of 3 rows, compactions until 2 rows have left, one stop, exception or crash | 590,441 | the five invariants, `ImplementsConversation`, and `EveryTurnEnds` under fairness |
| `memory` | 3 messages, file cap 2, suffix 1 | 772,249 | the three invariants, and `CompactionEnds` under fairness |
| `gui` | a call with 2 subtasks, 2 steps and 2 attempts, a call with one of each; stagnation limit 1 | 134,642 | the four invariants, and `EveryRunEnds` under fairness |

The real limits are 3 permits, 20 queued follow-ups, 3 injections, 5 cycles, 10 attempts of a
delivery and 3 of a send, 20 in a batch. The runs use 1 to 3 so that three or four messages reach
every limit, overflow it and come back under it; two sessions and one permit are enough for a
session to wait at the gate with its lock held; two triggers and two deliveries for one to be
deleted while the other's delivery is served. The safety properties are proved for every value of
the bounds (section 5). For cron, two units of time let a job come due, run, and come due again; a
one-shot job and a system job differ in every way the service distinguishes (deletion after the run,
protection, slow cancellation), and are due together in one tick. For turns, two iterations are
enough for a tool call with a follow-up behind it and for a run that is exhausted, and three
messages for a turn, its follow-up and the slice it hands over to; the invariants were also checked
by hand with three iterations, before the cap and the compactions were added (11 million states). A
queue of one is full with one follow-up, so that the slice of a spent turn finds it full; a cap of
three rows is exceeded by a call, its result and an answer behind an opening, in every form of the
window; `MaxArchived` ends the compactions of an instance, not those of the cap. Three messages and
a cap of two let a session be consolidated, compacted and cut, in every order, with one message of
each kind left; four and a cap of three were checked by hand, without `echoed` (4 million states).
Two GUI calls compete for the lease, and two subtasks, steps and attempts let a budget be split,
spent and retried. Two deltas to a segment and two segments let a merge stop at a pause, an end or
another stream; two failing sends let a message be retried and given up.

The type invariants are proved (section 5), and only the run `turns` checks its own again.

The properties of AgentDispatch: `TurnsSerialized` (a task past the lock is the one the lock names,
at most `GateSize` dispatched turns), `PendingQueueOwned` (a queue that can be fed belongs to a turn
in progress, and nobody else has follow-ups), `NothingLostOrDoubled` (an accepted message nobody has
taken up is in one place, once), `AutomationNeverInjected` (no automation turn, nor the continuation
of one, is taken in or dropped by another turn; the only one in a pending queue is a continuation in
the queue of the turn that handed over to it), `LiveTaskReachable` (`/stop` can find every task),
`AutomationAnswered`, `EveryMessageTakenUp`, `CommandReturns`. Of LocalTriggers: `DeliveryAccounted`
(a delivery is in a directory, settled, or its trigger deleted), `TurnsBounded`, `OneCopy` (outside
locked sections a delivery has one file, and a claimed one cannot be claimed again),
`EveryDeliverySettled`. Of CronService: `JobsKept` (an accepted job is listed until it is removed or
has had its one run, a removed one does not come back), `TimerArmed` (a gateway that is up has a
timer task), `ServedOnceUndisturbed` (one execution per due time while no tick is cancelled),
`ImplementsAgenda` (also checked by hand with an interval and a one-shot job, 658,095 states),
`DueJobRuns` (a due job runs, is removed or disabled, however its ticks are cancelled). Of the
turns: `TypeOK`, `MarksFresh` (memory and file agree; a mark belongs to the turn that runs or to the
last one that was interrupted, and its rows are not in the history yet), `InterruptedTurnClosed` (no
two user openings without a reply in between), `SaidOnce` (the text of a message is in the history
and the run once, though it may have been queued, drained, cut and republished, and not there at all
once it is archived), `FollowUpsFiled` (what a run drained is in its messages and then in the
history or the archive), `ImplementsConversation`, `EveryTurnEnds` (or waits for room in its own
queue). Of SessionMemory: `Remembered` (a message is in the part of the session a prompt is made of,
or in the archive), `ArchivedOnce` (it leaves for the archive once, and is in both only if a
compaction kept and summarised it), `CacheCurrent`, `CompactionEnds` (the lock is handed on, whoever
was cancelled in it or in the line for it). Of the GUI runs: `LeaseHeld`, `DisplayRestored`,
`ResultHonest`, `StepBudget`, `EveryRunEnds`. Of ChannelManager: `SuppressedRepeats` (what is
suppressed repeats a text of the same chat about the same message, which was shown or given up),
`AnswerShownOnce` (a chat is shown the answer of a turn that is over, by the stream or by a message
and not by both, but for the two exceptions of section 2), `CopiesBounded`, `ImplementsFeed`,
`QueueDrains`.

Each of them is broken by a mutation of a definition the map ties to code (listed under "mutants"):
a permit too many, a queue left published, follow-ups dropped when the turn ends, a lock ignored,
one task remembered instead of all, deferred turns not published, tasks awaited but not cancelled;
an attempt too many, a deletion that does not compare the trigger, a recovery that is skipped; a
journal cleared though nothing was merged, a timer not armed after a cancelled tick, a tick that
reloads the store, a next run not computed, an edit that leaves a tick going; a length recovery too
many, marks that survive the save of their turn, an opening saved without its flag, follow-ups
republished though they were drained, a checkpoint materialized without its results, a run that
waits when it is exhausted; a cap that counts the offset wrongly, an offset that does not move, a
/new that is not saved, a lock kept by a cancelled turn; a lease granted twice, a shutdown that
keeps `DISPLAY` or the lease, an outcome that is not routed into `result.json`, a budget that is not
charged; a merge of any two deltas, a queue that is waited for while a message is pending, an
attempt too many, an answer marked as streamed whatever the reason, a repetition looked up by chat
alone.

## 4. Fairness

*Dispatcher* (`Fairness`): weak fairness of `Route` (the loop keeps taking messages),
and for each message of acquiring the lock and gate, of the end of its turn, of
the delivery of a cancellation and of the end of a command. The event loop runs
every runnable task; provider calls and tools have timeouts and the iterations
of a turn are bounded, so a turn that is not blocked ends. No fairness on
arrivals, injections or continuations. A blocked turn has no action that ends it,
so fairness does not hide finding 2. `AutomationAnswered` and `EveryMessageTakenUp`
are checked without commands: `/stop` may strand an automation turn (finding 1). The
messages of that instance cannot fill a queue of two, so no turn waits for itself there (finding 2).

*Local triggers* (`FairSpec`): weak fairness of the runner, which includes its restart
(`Start`), the end of every turn it submits, and finitely many crashes. The end of
a turn is what the dispatcher shows under `AutomationAnswered`; finding 1 is exactly
the case where it fails.

*Cron* (`FairSpec`): weak fairness of the timer task, of the end of a cancelled tick and of
manual runs, all of them tasks of the event loop whose work has timeouts. Edits and
halts of the gateway come to an end at some point, since every one of them may cancel
the tick that is executing; polling does not, so `DueJobRuns` shows that the web
interface and the list tool cannot keep a job from running. No fairness on the clock,
the users, the other process or startup.

*Turns* (`FairSpec`): weak fairness of the steps of the turn (requests and tools time out, the event
loop resumes what is ready) and of taking a message off the bus; none of stops, exceptions and
crashes, of which there are `MaxTroubles`, none of senders, and none of compactions. A blocked turn
has no step, so fairness does not free it.

*Session memory* (`FairSpec`): weak fairness of the party in the consolidation lock and of handing
the lock on; none of turns, /new or /stop.

*GUI runs* (`FairSpec`): weak fairness of the steps of each call, whose requests, steps and actions
have timeouts; none of new calls or cancellation. A call waiting for the lease relies on the
holder's end, which is what `EveryRunEnds` shows; `asyncio.Condition` wakes the waiters when the
lease is given back.

*Outbound* (`FairSpec`): weak fairness of the dispatcher, whose sends return or raise; the
sends that fail are `MaxFailures` in all. None of turns or of `stop_all`.

## 5. Proofs

`QueueLemmas` has the facts about sequences both sides need (membership, distinct
elements and removal). The rest proves, for every set of messages, sessions,
triggers and every bound:

| theorem | property | module |
|---|---|---|
| `TypeCorrect` | `TypeOK` | AgentDispatchProofs |
| `MessagesConserved` | `NothingLostOrDoubled` | AgentDispatchProofs |
| `SerialTurns` | `TurnsSerialized` | AgentDispatchProofs |
| `AutomationApart` | `AutomationNeverInjected` | AgentDispatchProofs |
| `TasksReachable` | `LiveTaskReachable` | AgentDispatchProofs |
| `QueuesOwned` | `PendingQueueOwned` | AgentDispatchProofs |
| `DispatcherImplementsService` | `ImplementsService` | AgentDispatchProofs |
| `StoreTypeCorrect`, `DeliveriesAccounted`, `TurnsLimited`, `OneCopyOnly` | `TypeOK`, `DeliveryAccounted`, `TurnsBounded`, `OneCopy` | LocalTriggersProofs |
| `StoreImplementsQueue` | `ImplementsQueue` | LocalTriggersProofs |
| `CronTypeCorrect`, `AlwaysArmed`, `NoJobLost` | `TypeOK`, `TimerArmed`, `JobsKept` | CronServiceProofs |
| `ServedOncePerTime` | `ServedOnceUndisturbed` | CronServiceProofs |
| `CronImplementsAgenda` | `ImplementsAgenda` | CronServiceProofs |
| `TypesCorrect`, `MarksStayFresh` | `TypeOK`, `MarksFresh` | TurnPersistenceProofs |
| `NothingSaidTwice`, `FollowUpsKept` | `SaidOnce`, `FollowUpsFiled` | TurnPersistenceProofs |
| `PromisesKept` | `ImplementsConversation` | TurnPersistenceProofs |
| `OpeningsClosed` (under `Roomy`) | `InterruptedTurnClosed` | TurnPersistenceProofs |
| `TypeCorrect`, `NothingForgotten` | `TypeOK`, `Remembered` | SessionMemoryProofs |
| `NothingTwice`, `CacheIsFile` | `ArchivedOnce`, `CacheCurrent` | SessionMemoryProofs |
| `TypeCorrect`, `DisplayIsOwn`, `DisplayGivenBack` | `TypeOK`, `LeaseHeld`, `DisplayRestored` | GuiRunsProofs |
| `ResultIsHonest`, `BudgetKept` | `ResultHonest`, `StepBudget` | GuiRunsProofs |
| `OutboundTypeCorrect` | `TypeOK` | ChannelManagerProofs |
| `DeliveredInOrder` | `ImplementsFeed` | ChannelManagerProofs |
| `CopiesLimited`, `OnlyRepeatsSuppressed` | `CopiesBounded`, `SuppressedRepeats` | ChannelManagerProofs |
| `AnswersReachTheirChat` | `AnswerShownOnce` | ChannelManagerProofs |

Assumptions: `KeyAssumption`, `KindAssumption`, `MsgAssumption` (finitely many messages, `None` not
one of them), `BoundAssumption` (positive bounds; no cycles at all is allowed) for the dispatcher;
`NoneAssumption` and `LimitAssumption` (positive attempts and batch) for the triggers;
`JobAssumption` (one-shot and system jobs are disjoint sets of jobs), `TimeAssumption` and
`NoneAssumption` for cron; `RunnerAssumption` (positive bounds, retries and cycles may be none),
`TroublesAssumption` and `FileAssumption` (a cap of two rows or more) for the turns;
`MemoryAssumption` (a positive cap, and `None` neither a party nor an object) for the session
memory; `RuntimeAssumption` (the host's display is not a call's) and `GuiAssumption` (positive
limits) for the GUI runs; `OutputAssumption` (types of what a turn answers to and of its bounds;
`None` is neither a text nor a way to give an answer) and `ManagerAssumption` (at least one attempt)
for the outbound delivery. TLC evaluates them in every run.

*Dispatcher.* None of the properties is inductive alone, and they are proved in
layers, each using the ones before:

1. `QueuesInv`: types, `NothingLostOrDoubled`, and that a deferred turn waits under its
   own session (else the turn published at the end of another session would be
   unaccounted for).
2. `SerialInv`: `lockQ` holds exactly the tasks in `lockWait`, once, under their own
   session; `gateQ` exactly those in `gateWait`; a holder belongs to its session.
   Without it a cancelled waiter might still be granted the lock. The step that
   grants the gate needs `Cardinality` of the permits, hence finiteness of `Msg`.
3. `ReachInv`: every live task is registered, cancelled or clearing.
4. `OwnInv`: the owner of a published queue is a turn that holds its lock, only
   dispatched tasks are registered or at the gate, a task that is being cancelled
   or awaited by a command is one of the command's session. The last parts are
   what makes `/stop` safe: when it pops the queue, every task it awaited is over.
5. `ApartInv`: an automation message in a pending queue is the continuation in the queue of the automation
   turn that handed over and is ending. It needs the layers before it: what `/stop` drops is the queue of
   a `/new` at most (`StopFindsNew`), never that of a turn that is handing over, and what a turn that ends
   leaves behind goes to the bus.

The refinement (`RefInv`) adds that follow-ups are of the kinds `Absorb` allows and
that a cancelled task has a command of its session as cause, so that every
cancellation of a waiting task maps to `EndWaiting`. Each action then maps to one
step of SessionService or to a stutter: arrivals to `Arrive`, the grant of the last
of lock and gate to `Serve`, a drain to `Absorb`, the end of a turn to `Finish`.

*Local triggers.* `StoreInv` adds to the types: what each phase of the runner says of
`batch` and `moving` (`PhaseInv`); that files, records and turns exist only for
enqueued deliveries (`Known`); where the copies of a delivery can be, in particular
that a file in both `inbox` and `processing` is either `moving` or left by a crash
(`Copies`); and that the attempts in the files count the turns, with the one turn
being served not yet counted (`Counted`). `Counted` is what makes `TurnsBounded`
inductive: a retry that crashed between copy and unlink is counted again by the
recovery, so attempts may run ahead of turns and never behind.

*Cron.* Five layers. `TypeInv` adds to the types that a tick has a current job, one of
its due ones, exactly while the timer task is inside `_on_timer`. `PhaseInv` adds that
nothing runs before `start` and that a manual run which began while the gateway was up
gives `_running` back as true; this is what `TimerArmed` needs, since the end of that run
may come after any number of edits. `BookInv` says of the file *and* of the store
that, with the journal, each holds the jobs it has to (`Book`), and that what the journal
still adds is not in the store yet (`Apart`): a tick saves its store over the file
without looking at the journal, so `JobsKept`, which is about the file, is not
inductive. `LoadedBook` is the heart of it: what a load returns is right with the journal
the load leaves behind, whether it merged, kept the store of a tick, or found
nothing to merge. `OnceInv` says, as long as no tick was cancelled, that the flag is up
exactly during ticks, and that no job in the store (in the file, outside a tick) is
still due for a time that has been served, the current job's excepted.
`AgendaInv` relates store, tick and file, cancelled ticks or not: the store has no job the file
has not; outside of the ticks the two have the same jobs, unless a tick was cancelled; a tick has each
of its jobs once, at a time that has come, and none that the journal is still to add.

The refinement of Agenda needs it because the gateway never writes the list: it writes its store
over the file. So the proof is about what a store has to do with the file, once for a load
(`LoadReads`: a load leaves the list alone, and the dropped jobs too unless a tick was cancelled)
and once for a save (`SavedJobs`, `SaveWrites`: the file gets the list without the dropped jobs).
Both are facts about maps from jobs, without a step. Each handler is a load, a change
and a save, and a lemma per group of actions (ticks, edits, runs by hand, startup, halts, the other
process) puts them together into a step of Agenda or a stutter.

*Turns.* The rows of a history are proved about first, in lemmas on appending, joining and taking
off the last row. So is what the cap
and a compaction keep: a stretch of a transcript that starts at no result is one, with the rows that are gone
(`WellFormed(rows, gone)`), and rows that were in order stay in order. Then four layers:

1. `RunInv`: types, the counters within the iterations, and what the messages of a run
   look like at each await (`RunState`): whether tool calls are open, which row may be
   last, and that the rows are the turn's, in order and each call answered.
2. `MarksInv`: the file is the session in memory, up to the flag a shortcut clears, and
   a user row under that flag is all there is of its turn (`FileInv`); the place of a message says
   which turn, queue or reply it is in (`PlaceInv`); and, at each stage, which checkpoint and
   flag there can be and of which turn (`StageInv`). A restored checkpoint adds rows behind the
   opening of their own turn only, which `MarksFresh` says and needs two facts for: the history
   has no more than the opening of the checkpoint's turn, and only rows of turns that have begun.
3. `SaidInv`: the history and the run repeat no message, and none that the archive has; a message is
   in the run exactly while it is `working`; one that is still to be served is in neither history
   nor archive, and neither is that of a turn before its command stage is over. A message that is
   republished has therefore left no text behind, whatever cut its turn short.
4. `ClosedInv`, on top of the second: an opening that is the last row of the history has a mark, the flag
   or a checkpoint, which the next turn closes it by before its command stage; and what a run files
   has a row. The last is where the bounds come in: a run that has no row yet has spent its
   iterations on injection cycles and on retries of blank replies (`Idling`), and with `Roomy` these
   are used up before the iterations are. The bound is only needed for the run that hands over to
   a slice, since any other ends in a text.

Each action is then a step of Conversation or a stutter: what is saved or compacted is an `Extend`,
`/new` a `Forget`, the answer a `Reply`. A row that leaves is archived and does not come back: a
later row of the same turn has a higher iteration, and one of the same iteration another kind
(`NoneGone`).

*Session memory.* `Inv` has four parts, and three of them hold whatever is written around the
lock:

1. `ObjectInv`: the objects that the cache, the turn and the party in the lock hold have values,
   and so has the file. At most three objects are held, so there is always a fourth for the next
   load (`FreshObject`); without this a load might overwrite an object somebody still holds.
2. `LineInv`: each party is in the line for the lock at most once, and waits exactly while it is there;
   who archives is the holder; the turn stands behind the consolidation that the turn before it
   left in the background, which is why that one is over when the turn has had the lock.
3. `RowsInv`: the counts and what is being archived are of the right types; a count stops at two, which
   stands for more.
4. `Memory`, as long as nobody wrote around the lock: `FileInv` (each message written is in the live
   part of the file or in a snapshot or counted in `history`, and in one of these unless a crash came
   between; the rows of a file are distinct and none is in the snapshot), `CacheInv` (the cached object is
   what the file says, and the party in the lock has that object and no older one), and `ChunkInv`
   (what the holder archives is the stretch of the file it is about to mark, or, for a compaction,
   with what it keeps the whole live part). `Remembered` and `ArchivedOnce` are not inductive without
   the last two: a consolidation moves the offset of the object it holds over a chunk it chose
   before it awaited the model.

`echoed` changes nothing of this: it is written by compactions, and read by `ArchivedOnce` alone.
`FileInv` is one operator, `Kept`, of a file, a snapshot, the counts and the number of messages. So the
proofs about it are lemmas on values: a row appended, an offset moved over a chunk, the front of the rows
dropped, all of them dropped into a snapshot, a snapshot archived.

*GUI runs.* `Inv` has two parts. `CallsInv` says of each call, by itself, that its counters are in
their ranges; that a call in a step has budget left; that before the end as many subtasks are
solved as were finished, and at the end `result.json` agrees; and that the steps recorded so far
and the budget left are `MaxSteps` together, up to the steps of the attempt that is running,
which are charged at its end. A step belongs to one call and leaves the others alone (`Own`), so
this part is proved for the call that takes it. `DisplayInv` is about the display they
share: who is past the lease is its holder, who is driving has the display up, `DISPLAY` is the
holder's or the host's, and the original a backend remembers is the host's, which fails after a
leak and is what `DisplayRestored` needs.

*Outbound.* `OrderInv` says that at most one message is pending, the last one taken, and that what
is being sent is the whole stretch from the settled messages to the `Frontier`, the last one that
has left the queue for good; if it is more than one message, they are deltas of one stream. So every
step serves the next stretch, publishes, or is a stutter of Feed. From there every step is of one of
three kinds (`StepKinds`): messages arrive, the idle dispatcher takes some, or an attempt ends.
`CountInv` bounds the copies of a message by an allowance: none beyond the frontier, one for each
attempt so far while it is being sent, `MaxAttempts` afterwards; a merge starts with copies of none
of its messages, which needs the frontier. `FingerInv` says that a fingerprint is that of a message
which was shown or given up, or is being sent: a shutdown in between is what it makes an exception
of, since nothing is suppressed after it. For `AnswerShownOnce`, `EndInv` relates the way a turn
ends to what it has published (an answer that was streamed has a delta in the last segment; a run
that is stopped by an error, and has not gone on after it, has no streamed answer; and the last
message of a turn that ended with an answer is the one of its end), and `SettledInv` says what can
have become of a message that is settled while the dispatcher is up: delivered, given up after every
attempt, suppressed, unwanted by its chat, or marked as streamed. The property is about the last
message of a turn and follows from the two.

Only model-checked: the liveness properties (`AutomationAnswered`, `EveryMessageTakenUp`,
`CommandReturns`, `EveryDeliverySettled`, `DueJobRuns`, `EveryTurnEnds`, `CompactionEnds`,
`EveryRunEnds`, `QueueDrains`), which rest on fairness and are out of the prover's reach.

## 6. What the models found

1. **A cancelled automation turn that has not begun is never reported**
   (`dispatch_orphan`, loop.py:1393). The `except` branch completes the coordinator's
   waiter only when the turn is past lock and gate; before that, only the outer
   `finally` runs, which publishes the next deferred turn. The future `submit` awaits is
   never resolved. For local triggers the worker is one loop over all deliveries, so
   it stands still until the gateway is restarted.
2. **A turn can wait for ever for room in its own queue** (`dispatch_blocked`,
   turn_continuation.py:129): with the pending queue full and the injection cycles
   used up, `await put()` has no other reader than the turn.
3. **An edit during a tick makes the job run again** (`cron_rerun`, service.py:537):
   `add_job`, `remove_job`, `enable_job`, `update_job` and the end of a manual run call
   `_arm_timer`, which cancels the timer task in the middle of a job. Nothing is recorded
   of that job, and the next tick executes it again for the same due time.
4. **A poll during a manual run loses its record** (`cron_manual`, service.py:849):
   `run_job` does not set `_timer_active`, so a load while the job executes replaces the
   object that the run is recorded in: last run, history and the next time are lost.

Some behaviours contradict a test's or docstring's words in a situation it does not speak of, and
are only described: `retry_delivery` writes the file of a delivery again whose trigger was deleted
while its turn was served (local_store.py:239), and the copy is dropped at its next claim, or stays
in `failed/`; and recovery that uses up the last attempt moves a delivery to `failed/` while its run
record goes on saying that it is processing (local_store.py:227). The file cap may drop the newest
rows where its docstring speaks of old prefixes (manager.py:390). An answer may be shown twice after
a drained error, or not at all after a finalization or two malformed responses. The lists in section
2 have the others.

## 7. What is not modelled

Inside the modelled parts: texts, metadata, workspaces; `submit` while
the loop is not running (it dispatches directly; `_running` is set before the
workers start); a delivery that is submitted again under its id while the continuation of its first
turn is under way; a command handler that raises inside `run`. In the trigger store:
renaming a trigger, the status written on the trigger itself, unreadable files
(moved aside as `.bad`), a disk that refuses a write. In the cron service: jobs without
a bound chat, which `_enforce_agent_binding` disables; a corrupt `jobs.json`; failing
writes; one-shot jobs that are kept after their run (no handler creates one); an update that
turns an interval job into a one-shot job or back; the
run-record files; `enable` and `update` lines of the journal, which no other process writes.

In the channel manager: starting and stopping the channels, notices of the web interface, runtime
events (turn end, goal state), a channel whose `send` raises `CancelledError` by itself, media. In the turns:
the shrinking and repair of a prompt before a request, token usage, media, ephemeral turns (whose session
is neither capped nor consolidated). In the
session memory: dream, the estimate of tokens, archived texts. In the GUI runs: what the model sees, skills
executed inside a step, post-processing, runs outside background mode (which have no lease: two of
them share a device).

Not at all: the parts whose difficulty is not in their states. Chat channels, providers and tools
are I/O and formatting around third-party services. The API server, SDK, gateway, command line and
user interfaces publish to the bus or call `process_direct`, which the dispatcher module has. The
pairing store has no await between its read and its write. A sub-agent is a runner of its own whose
announcement is an inbound message. GUI skills, shortcut validation and GUI memory transform
recorded data; the inner backends are device I/O.

## 8. Plan

Written: AgentDispatch, SessionService, LocalTriggers, DeliveryQueue, CronService, Agenda, the turns of
a session, SessionMemory, GuiRuns, ChannelManager. Every safety invariant, action property and
refinement that a passing run checks is proved. What is left is a composition of AgentDispatch and
LocalTriggers, which would show the effect of finding 1 on the serial trigger worker: the
future that `submit` awaits, `phase[m]` of the automation turn, and the runner's `serving` in one state.
