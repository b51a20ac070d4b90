----------------------------- MODULE CronService -----------------------------
(***************************************************************************)
(* nanobot's cron service: the store in memory, jobs.json, the journal     *)
(* that instances which are not running append to, the timer task and the  *)
(* ticks it starts, and the runs started from the web interface.           *)
(*                                                                         *)
(* The gateway is one event loop: a step goes from one await to the next.  *)
(* Another process (the command line agent) has an instance that is never  *)
(* started.  The gateway may crash at every await and inside a merge.      *)
(***************************************************************************)
EXTENDS Naturals

CONSTANTS
    Job,        \* job ids; an id is never used again
    OneShot,    \* the "at" jobs: they are deleted after their run
    SystemJob,  \* dream, heartbeat: registered at startup, protected
    None,       \* no job
    MaxTime     \* the clock stops here: a bound of the model

ASSUME JobAssumption == OneShot \subseteq Job /\ SystemJob \subseteq Job \ OneShot
ASSUME TimeAssumption == MaxTime \in Nat

Time == 0 .. MaxTime

\* A job: next is next_run_at_ms (0 for null) and stands for everything a run
\* records with it; at is schedule.at_ms of a one-shot job.
JobRecord == [enabled : BOOLEAN, next : 0 .. MaxTime + 1, at : Time]
ASSUME NoneAssumption ==
    None \notin Job /\ None \notin JobRecord /\ None \notin Job \X Time

Table == [Job -> JobRecord \union {None}]
Empty == [j \in Job |-> None]

VARIABLES
    clock,        \* the time
    disk,         \* jobs.json
    added, dels,  \* action.jsonl: its "add" and its "del" lines
    outside,      \* the job the other process has found and is about to remove
    phase,        \* the gateway: down, registered (before start), up, stopping
    running,      \* _running
    store,        \* _store
    timer,        \* _timer_task: none, sleeping, or running (inside _on_timer)
    timerActive,  \* _timer_active
    due,          \* due_jobs of that tick that are not finished, with their times
    current,      \* the one it executes, or None
    stale,        \* the tick works on jobs that _store no longer holds
    unwinding,    \* the jobs of ticks that are cancelled and not yet gone
    manual,       \* run_job: its locals and the task it runs in
    fate,         \* fate[j]: what must be true of j (a history variable)
    served,       \* the due times a tick has started a job for (another)
    disturbed     \* a tick has been cancelled in the middle (another)

journal == <<added, dels>>
tick == <<timer, timerActive, due, current, stale, unwinding>>
gateway == <<phase, running, store, tick, manual>>
history == <<fate, served, disturbed>>
vars == <<clock, disk, journal, outside, gateway, history>>

NoRun == [phase |-> "idle", job |-> None, stale |-> FALSE, was |-> FALSE]
Run == [phase : {"idle", "asked", "running"}, job : Job \union {None},
        stale : BOOLEAN, was : BOOLEAN]

TypeOK ==
    /\ clock \in Time
    /\ disk \in Table
    /\ added \in Table
    /\ dels \in SUBSET Job
    /\ outside \in Job \union {None}
    /\ phase \in {"down", "registered", "up", "stopping"}
    /\ running \in BOOLEAN
    /\ store \in Table
    /\ timer \in {"none", "sleeping", "running"}
    /\ timerActive \in BOOLEAN
    /\ due \in SUBSET (Job \X Time)
    /\ current \in (Job \X Time) \union {None}
    /\ stale \in BOOLEAN
    /\ unwinding \in SUBSET Job
    /\ manual \in Run
    /\ fate \in [Job -> {"none", "kept", "gone", "either"}]
    /\ served \in SUBSET (Job \X Time)
    /\ disturbed \in BOOLEAN

Init ==
    /\ clock = 0
    /\ disk = Empty
    /\ added = Empty
    /\ dels = {}
    /\ outside = None
    /\ phase = "down"
    /\ running = FALSE
    /\ store = Empty
    /\ timer = "none"
    /\ timerActive = FALSE
    /\ due = {}
    /\ current = None
    /\ stale = FALSE
    /\ unwinding = {}
    /\ manual = NoRun
    /\ fate = [j \in Job |-> "none"]
    /\ served = {}
    /\ disturbed = FALSE

ClockTicks ==
    /\ clock < MaxTime
    /\ clock' = clock + 1
    /\ UNCHANGED <<disk, journal, outside, gateway, history>>

(***************************************************************************)
(* Schedules.                                                              *)
(***************************************************************************)
\* _compute_next_run, for a one-shot job at time "at" and for any other one
\* time unit from now.
NextRun(j, at) ==
    IF j \in OneShot THEN IF at > clock THEN at ELSE 0
                     ELSE clock + 1

\* The times a schedule may name, past ones too.
Schedules(j) == IF j \in OneShot THEN Time ELSE {0}

NewJob(j, at) == [enabled |-> TRUE, next |-> NextRun(j, at), at |-> at]

IsDue(r) == r # None /\ r.enabled /\ r.next # 0 /\ r.next <= clock

(***************************************************************************)
(* _load_store and _merge_action.                                          *)
(***************************************************************************)
\* jobs.json with the journal applied. A job is added before it is removed.
Merged == [j \in Job |-> IF j \in dels THEN None
                         ELSE IF added[j] # None THEN added[j]
                         ELSE disk[j]]

\* The journal has a line that applies: a "del" of an unknown job is skipped.
Effective == added # Empty \/ \E j \in dels : disk[j] # None

\* Mutant of Loaded: a tick in progress does not keep its store.
LoadedAlways == Merged

\* What _load_store returns: during a tick, the store it is working on.
Loaded == IF timerActive THEN store ELSE Merged

\* A running instance clears the journal and saves the store after a merge.
Merges(run) == run /\ ~timerActive /\ Effective

\* Mutant of ClearJournal: also when the store of a tick was kept.
ClearJournalAlways(run) ==
    IF run /\ Effective THEN added' = Empty /\ dels' = {} ELSE UNCHANGED journal

ClearJournal(run) ==
    IF Merges(run) THEN added' = Empty /\ dels' = {} ELSE UNCHANGED journal

\* A load replaces the job objects a manual run is working on.
Orphan(m) == [m EXCEPT !.stale = @ \/ (m.phase = "running" /\ ~timerActive)]

\* _load_store and nothing else.
LoadOnly(run) ==
    /\ ClearJournal(run)
    /\ store' = Loaded
    /\ disk' = IF Merges(run) THEN Loaded ELSE disk

\* _load_store, a change that makes it S, _save_store.
LoadAndSave(run, S) ==
    /\ ClearJournal(run)
    /\ store' = S
    /\ disk' = S

(***************************************************************************)
(* _arm_timer of a running instance.                                       *)
(***************************************************************************)
NoTick ==
    /\ due' = {}
    /\ current' = None
    /\ stale' = FALSE

\* The timer task is cancelled, also in the middle of _on_timer. One tick at a
\* time unwinds from a job: a bound of the model.
CancelTimer ==
    /\ timer = "running" => current[1] \notin unwinding
    /\ unwinding' = IF timer = "running" THEN unwinding \union {current[1]} ELSE unwinding
    /\ disturbed' = (disturbed \/ timer = "running")
    /\ NoTick

\* Mutant of Arm: a tick in progress is cancelled and no timer follows it.
ArmIfIdle ==
    /\ CancelTimer
    /\ timer' = IF timer = "running" THEN "none" ELSE "sleeping"

Arm == CancelTimer /\ timer' = "sleeping"

(***************************************************************************)
(* Startup of the gateway.                                                 *)
(***************************************************************************)
\* register_system_job for each system job, before start: not running yet, so
\* the journal is merged and stays.
Register ==
    /\ phase = "down"
    /\ phase' = "registered"
    /\ store' = [j \in Job |-> IF j \in SystemJob THEN NewJob(j, 0) ELSE Merged[j]]
    /\ disk' = store'
    /\ fate' = [j \in Job |-> IF j \in SystemJob THEN "kept" ELSE fate[j]]
    /\ UNCHANGED <<clock, journal, outside, running, tick, manual, served, disturbed>>

\* start: every enabled job gets a new time, from now.
Start ==
    /\ phase = "registered"
    /\ phase' = "up"
    /\ running' = TRUE
    /\ LoadAndSave(TRUE,
          [j \in Job |-> IF Merged[j] # None /\ Merged[j].enabled
                         THEN [Merged[j] EXCEPT !.next = NextRun(j, Merged[j].at)]
                         ELSE Merged[j]])
    /\ Arm
    /\ UNCHANGED <<clock, outside, timerActive, manual, fate, served>>

(***************************************************************************)
(* The tools and web handlers of the gateway.                              *)
(***************************************************************************)
\* A list or a lookup: the handlers poll.
Poll ==
    /\ phase = "up"
    /\ LoadOnly(running)
    /\ stale' = (stale \/ (timer = "running" /\ ~timerActive))
    /\ manual' = Orphan(manual)
    /\ UNCHANGED <<clock, outside, phase, running, timer, timerActive, due, current,
                   unwinding, history>>

\* Mutant of Edit: a tick in progress goes on with the jobs it has.
EditBesideTick(S) ==
    /\ phase = "up"
    /\ LoadAndSave(running, S)
    /\ manual' = Orphan(manual)
    /\ IF timer = "running" THEN UNCHANGED <<timer, due, current, stale, unwinding, disturbed>>
                            ELSE Arm
    /\ UNCHANGED <<clock, outside, phase, running, timerActive, served>>

\* Load, change, save, arm.
Edit(S) ==
    /\ phase = "up"
    /\ LoadAndSave(running, S)
    /\ manual' = Orphan(manual)
    /\ Arm
    /\ UNCHANGED <<clock, outside, phase, running, timerActive, served>>

AddJob(j, at) ==
    /\ fate[j] = "none"
    /\ j \notin SystemJob
    /\ Edit([Loaded EXCEPT ![j] = NewJob(j, at)])
    /\ fate' = [fate EXCEPT ![j] = "kept"]

RemoveJob(j) ==
    /\ j \notin SystemJob
    /\ Loaded[j] # None
    /\ Edit([Loaded EXCEPT ![j] = None])
    /\ fate' = [fate EXCEPT ![j] = "gone"]

EnableJob(j, on) ==
    /\ j \notin SystemJob
    /\ Loaded[j] # None
    /\ Edit([Loaded EXCEPT ![j].enabled = on,
                           ![j].next = IF on THEN NextRun(j, Loaded[j].at) ELSE 0])
    /\ UNCHANGED fate

\* update_job with the schedule that the web handler accepts.
UpdateJob(j, at) ==
    /\ j \notin SystemJob
    /\ Loaded[j] # None
    /\ j \in OneShot => at > clock \/ at = Loaded[j].at
    /\ Edit([Loaded EXCEPT ![j].at = at,
                           ![j].next = IF Loaded[j].enabled THEN NextRun(j, at) ELSE 0])
    /\ UNCHANGED fate

(***************************************************************************)
(* The other process: an instance that is not running uses the journal.    *)
(***************************************************************************)
AddOutside(j, at) ==
    /\ fate[j] = "none"
    /\ j \notin SystemJob
    /\ added' = [added EXCEPT ![j] = NewJob(j, at)]
    /\ fate' = [fate EXCEPT ![j] = "kept"]
    /\ UNCHANGED <<clock, disk, dels, outside, gateway, served, disturbed>>

\* remove_job finds the job, and appends the line only then.
FindOutside(j) ==
    /\ outside = None
    /\ j \notin SystemJob
    /\ Merged[j] # None
    /\ outside' = j
    /\ UNCHANGED <<clock, disk, journal, gateway, history>>

RemoveOutside ==
    /\ outside # None
    /\ dels' = dels \union {outside}
    /\ outside' = None
    /\ fate' = [fate EXCEPT ![outside] = "gone"]
    /\ UNCHANGED <<clock, disk, added, gateway, served, disturbed>>

(***************************************************************************)
(* _execute_job after on_job: job j is recorded in the object the task     *)
(* holds, which _store may no longer hold (an orphan).                     *)
(***************************************************************************)
\* Mutant of Recorded: the next run is not computed.
RecordedNoNext(j, orphan) ==
    IF j \in OneShot THEN [store EXCEPT ![j] = None] ELSE store

Recorded(j, orphan) ==
    IF store[j] = None THEN store
    ELSE IF j \in OneShot THEN [store EXCEPT ![j] = None]
    ELSE IF orphan THEN store
    ELSE [store EXCEPT ![j].next = NextRun(j, 0)]

\* The fate of a one-shot job that has run.
Finished(j, f) == fate' = IF j \in OneShot THEN [fate EXCEPT ![j] = f] ELSE fate

(***************************************************************************)
(* The timer task. A cancelled run of a user's job, which only waits for a *)
(* future, is gone before the next tick begins; one of a system job takes  *)
(* as long as its tools need.                                              *)
(***************************************************************************)
TickFires ==
    /\ timer = "sleeping"
    /\ running
    /\ unwinding \subseteq SystemJob
    /\ manual' = Orphan(manual)
    /\ UNCHANGED <<clock, outside, phase, running, unwinding, fate, disturbed>>

\* Nothing is due: _on_timer saves and the timer is armed again.
TickIdle ==
    /\ TickFires
    /\ \A j \in Job : ~IsDue(Loaded[j])
    /\ LoadAndSave(running, Loaded)
    /\ timerActive' = FALSE
    /\ UNCHANGED <<timer, due, current, stale, served>>

Execute(d) ==
    /\ current' = d
    /\ served' = served \union {d}

TickBegins ==
    /\ TickFires
    /\ LoadOnly(running)
    /\ timer' = "running"
    /\ timerActive' = TRUE
    /\ due' = {<<j, Loaded[j].next>> : j \in {i \in Job : IsDue(Loaded[i])}}
    /\ stale' = FALSE
    /\ \E d \in due' : Execute(d)

JobDone ==
    /\ timer = "running"
    /\ store' = Recorded(current[1], stale)
    /\ Finished(current[1], "either")
    /\ UNCHANGED <<clock, journal, outside, phase, running, unwinding, manual,
                   disturbed>>

NextJob ==
    /\ JobDone
    /\ due' = due \ {current}
    /\ \E d \in due' : Execute(d)
    /\ UNCHANGED <<disk, timer, timerActive, stale>>

TickEnds ==
    /\ JobDone
    /\ due = {current}
    /\ disk' = store'
    /\ timerActive' = FALSE
    /\ timer' = "sleeping"
    /\ NoTick
    /\ UNCHANGED served

\* The finally of a cancelled _on_timer.
Unwound(j) ==
    /\ j \in unwinding
    /\ unwinding' = unwinding \ {j}
    /\ timerActive' = FALSE
    /\ UNCHANGED <<clock, disk, journal, outside, phase, running, store, timer, due,
                   current, stale, manual, history>>

(***************************************************************************)
(* run_job, in a task of its own.                                          *)
(***************************************************************************)
CanRun(j) == Loaded[j] # None /\ Loaded[j].enabled

\* The web handler: the job is there and enabled; the task is created. One at a
\* time: a bound of the model.
AskRun(j) ==
    /\ phase = "up"
    /\ manual.phase = "idle"
    /\ j \notin SystemJob
    /\ CanRun(j)
    /\ LoadOnly(running)
    /\ stale' = (stale \/ (timer = "running" /\ ~timerActive))
    /\ manual' = [NoRun EXCEPT !.phase = "asked", !.job = j]
    /\ UNCHANGED <<clock, outside, phase, running, timer, timerActive, due, current,
                   unwinding, history>>

RunStarts ==
    /\ manual.phase = "asked"
    /\ LoadOnly(TRUE)
    /\ UNCHANGED <<clock, outside, phase, timerActive, fate, served>>

RunBegins ==
    /\ RunStarts
    /\ CanRun(manual.job)
    /\ running' = TRUE
    /\ manual' = [manual EXCEPT !.phase = "running", !.was = running]
    /\ stale' = (stale \/ (timer = "running" /\ ~timerActive))
    /\ UNCHANGED <<timer, due, current, unwinding, disturbed>>

\* The finally of run_job.
RestoreRunning(was) ==
    /\ running' = was
    /\ manual' = NoRun
    /\ IF was THEN Arm ELSE UNCHANGED <<timer, due, current, stale, unwinding,
                                               disturbed>>

RunRefused ==
    /\ RunStarts
    /\ ~CanRun(manual.job)
    /\ RestoreRunning(running)

RunDone ==
    /\ manual.phase = "running"
    /\ store' = Recorded(manual.job, manual.stale)
    /\ disk' = store'
    /\ Finished(manual.job, "gone")
    /\ RestoreRunning(manual.was)
    /\ UNCHANGED <<clock, journal, outside, phase, timerActive, served>>

(***************************************************************************)
(* Shutdown and crash.                                                     *)
(***************************************************************************)
Stop ==
    /\ phase = "up"
    /\ phase' = "stopping"
    /\ running' = FALSE
    /\ timer' = "none"
    /\ CancelTimer
    /\ UNCHANGED <<clock, disk, journal, outside, store, timerActive, manual, fate, served>>

GoDown ==
    /\ phase' = "down"
    /\ running' = FALSE
    /\ store' = Empty
    /\ timer' = "none"
    /\ timerActive' = FALSE
    /\ unwinding' = {}
    /\ NoTick
    /\ manual' = NoRun
    /\ UNCHANGED <<clock, disk, outside, served, disturbed>>

\* The gateway exits, or crashes at an await.
Crash ==
    /\ phase # "down"
    /\ GoDown
    /\ UNCHANGED <<journal, fate>>

\* _merge_action has cleared the journal and not yet saved the store.
CrashInMerge ==
    /\ phase # "down"
    /\ Merges(TRUE)
    /\ GoDown
    /\ added' = Empty
    /\ dels' = {}
    /\ fate' = [j \in Job |-> IF added[j] # None \/ j \in dels THEN "either" ELSE fate[j]]

Edits ==
    \E j \in Job :
       \/ \E at \in Schedules(j) : AddJob(j, at) \/ UpdateJob(j, at)
       \/ RemoveJob(j)
       \/ \E on \in BOOLEAN : EnableJob(j, on)
       \/ AskRun(j)

Outside ==
    \/ \E j \in Job : FindOutside(j) \/ \E at \in Schedules(j) : AddOutside(j, at)
    \/ RemoveOutside

Boot == Register \/ Start
Timer == TickIdle \/ TickBegins \/ NextJob \/ TickEnds
Unwind == \E j \in Job : Unwound(j)
Manual == RunBegins \/ RunRefused \/ RunDone
Halts == Stop \/ Crash \/ CrashInMerge

Next ==
    \/ ClockTicks
    \/ Boot
    \/ Poll
    \/ Edits
    \/ Outside
    \/ Timer
    \/ Unwind
    \/ Manual
    \/ Halts

Spec == Init /\ [][Next]_vars

\* The event loop runs the timer task, and the runs it starts or cancels come
\* to an end. Users stop editing and the gateway stops halting at some point;
\* polling goes on for ever.
FairSpec ==
    /\ Spec
    /\ WF_vars(Timer)
    /\ WF_vars(Unwind)
    /\ WF_vars(Manual)
    /\ <>[][~Edits]_vars
    /\ <>[][~Halts]_vars
-----------------------------------------------------------------------------
(***************************************************************************)
(* Properties.                                                             *)
(***************************************************************************)
\* What every instance lists: jobs.json with the journal applied. A job that was
\* accepted is listed until it is removed or has had its one run, and a removed
\* one does not come back, whatever ticks, merges and stale stores are saved; a
\* crash inside a merge can only affect the jobs of that journal.
JobsKept ==
    \A j \in Job :
       /\ fate[j] = "kept" => Merged[j] # None
       /\ fate[j] \in {"none", "gone"} => Merged[j] = None

\* A gateway that is up has a timer, asleep or executing: every path that
\* cancels the timer task, and every end of a tick, leaves a new one.
TimerArmed == phase = "up" => running /\ timer # "none"

\* A due job runs, is removed or disabled, however its tick is cancelled.
DueJobRuns ==
    \A j \in Job :
       phase = "up" /\ IsDue(store[j]) ~> phase # "up" \/ ~IsDue(store[j])

\* "During on_job execution, the in-memory next_run_at_ms update must not be
\* lost": a manual run that ends leaves its record in the store.
ManualRunRecorded ==
    [][RunDone => LET j == manual.job
                  IN store[j] # None /\ j \notin OneShot => store'[j].next = NextRun(j, 0)]_vars

\* No job is executed twice for one due time, however the handlers poll, other
\* instances write the journal and the gateway crashes, as long as no tick is
\* cancelled ("list_jobs() during _on_timer should not replace the active store
\* and re-run the same due job").
ServesAgain == current' \notin {None, current} /\ current' \in served
ServedOnceUndisturbed == [][~disturbed => ~ServesAgain]_vars

\* ... in any case ("Each job should have run exactly once, not looped").
ServedOnce == [][~ServesAgain]_vars

\* What the other instances, the tick and the runs by hand have before them: the
\* jobs that every instance lists, those the journal names, and those the store
\* of a tick has dropped and the file has not.
Known == {j \in Job : fate[j] # "none"}
Listed == {j \in Job : Merged[j] # None}
Elsewhere == {j \in Job : added[j] # None \/ j \in dels}
Dropped == {j \in Listed \ Elsewhere : phase # "down" /\ store[j] = None}
ByHand == IF manual.phase = "running" THEN manual.job ELSE None

AgendaOf == INSTANCE Agenda WITH
    known <- Known, listed <- Listed, elsewhere <- Elsewhere, finished <- Dropped,
    agenda <- due \ {current}, byHand <- ByHand

\* Files, stores and tasks keep the promises of Agenda: only jobs on the list are
\* executed, a tick executes each of its jobs once, a change by the gateway takes
\* the rest from it, and the list changes only as it is asked to or when a
\* one-shot job has run, whatever is loaded, merged, saved over or lost.
ImplementsAgenda == AgendaOf!Spec
=============================================================================
