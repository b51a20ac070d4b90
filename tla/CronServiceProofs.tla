-------------------------- MODULE CronServiceProofs --------------------------
(***************************************************************************)
(* Theorems about CronService: type correctness, the three safety          *)
(* properties and the refinement of Agenda, for any set of jobs and any    *)
(* length of time.                                                         *)
(*                                                                         *)
(* The invariants come in layers: TypeInv (types, and what a tick is),     *)
(* PhaseInv (timer and _running in each phase of the gateway), BookInv     *)
(* (file, store and journal each hold the jobs they have to), OnceInv      *)
(* (the due times, while no tick has been cancelled) and AgendaInv (store  *)
(* and tick against file and journal).                                     *)
(***************************************************************************)
EXTENDS CronService, TLAPS

-----------------------------------------------------------------------------
(***************************************************************************)
(* Types.                                                                  *)
(***************************************************************************)
\* A tick has due jobs exactly while the timer task is inside _on_timer, and a
\* manual run has a job.
TickShape ==
    /\ timer = "running" <=> current # None
    /\ current # None => current \in due
    /\ current = None => due = {}
    /\ manual.phase # "idle" => manual.job \in Job

TypeInv == TypeOK /\ TickShape

LEMMA MergedType ==
  ASSUME TypeOK
  PROVE  Merged \in Table /\ Loaded \in Table
<1>1. Merged \in Table
  BY DEF TypeOK, Table, Merged
<1> QED BY <1>1 DEF Loaded, TypeOK

LEMMA NextRunType ==
  ASSUME TypeOK, NEW j \in Job, NEW at \in Time
  PROVE  /\ NextRun(j, at) \in 0 .. MaxTime + 1
         /\ NewJob(j, at) \in JobRecord
<1>1. NextRun(j, at) \in 0 .. MaxTime + 1
  BY TimeAssumption DEF TypeOK, Time, NextRun
<1> QED BY <1>1 DEF NewJob, JobRecord

LEMMA RecordType ==
  ASSUME NEW r \in JobRecord, NEW on \in BOOLEAN, NEW n \in 0 .. MaxTime + 1,
         NEW t \in Time
  PROVE  /\ [r EXCEPT !.next = n] \in JobRecord
         /\ [r EXCEPT !.enabled = on, !.next = n] \in JobRecord
         /\ [r EXCEPT !.at = t, !.next = n] \in JobRecord
         /\ r.at \in Time /\ r.next \in 0 .. MaxTime + 1 /\ r.enabled \in BOOLEAN
BY DEF JobRecord

LEMMA RecordedType ==
  ASSUME TypeOK, NEW j \in Job, NEW orphan \in BOOLEAN
  PROVE  Recorded(j, orphan) \in Table
<1>1. 0 \in Time
  BY TimeAssumption DEF Time
<1>2. NextRun(j, 0) \in 0 .. MaxTime + 1
  BY <1>1, NextRunType
<1>3. CASE store[j] = None
  BY <1>3 DEF Recorded, TypeOK
<1>4. CASE store[j] # None
  <2>1. store[j] \in JobRecord
    BY <1>4 DEF TypeOK, Table
  <2>2. [store[j] EXCEPT !.next = NextRun(j, 0)] \in JobRecord
    BY <2>1, <1>2 DEF JobRecord
  <2> QED BY <2>2, <1>4 DEF Recorded, TypeOK, Table
<1> QED BY <1>3, <1>4

LEMMA JournalType ==
  ASSUME TypeOK, NEW run, ClearJournal(run)
  PROVE  added' \in Table /\ dels' \in SUBSET Job
BY DEF TypeOK, ClearJournal, journal, Empty, Table

LEMMA EmptyType == Empty \in Table
BY DEF Empty, Table

\* What _arm_timer and stop leave of a tick.
LEMMA CancelType ==
  ASSUME TypeInv, CancelTimer, timer' \in {"none", "sleeping"},
         manual'.phase # "idle" => manual'.job \in Job
  PROVE  /\ due' \in SUBSET (Job \X Time)
         /\ current' \in (Job \X Time) \union {None}
         /\ stale' \in BOOLEAN
         /\ unwinding' \in SUBSET Job
         /\ disturbed' \in BOOLEAN
         /\ TickShape'
<1>1. timer = "running" => current[1] \in Job
  BY DEF TypeInv, TypeOK, TickShape
<1> QED BY <1>1 DEF TypeInv, TypeOK, CancelTimer, NoTick, TickShape

\* ... and what every edit does.
LEMMA EditType ==
  ASSUME TypeInv, NEW S \in Table, Edit(S), fate' \in [Job -> {"none", "kept", "gone", "either"}]
  PROVE  TypeInv'
<1>1. added' \in Table /\ dels' \in SUBSET Job
  BY JournalType DEF Edit, LoadAndSave, TypeInv
<1>2. manual' \in Run /\ (manual'.phase # "idle" => manual'.job \in Job)
  BY DEF Edit, Orphan, TypeInv, TypeOK, TickShape, Run
<1>3. store' \in Table /\ disk' \in Table
  BY DEF Edit, LoadAndSave
<1>4. CancelTimer /\ timer' = "sleeping"
  BY DEF Edit, Arm
<1>5. /\ due' \in SUBSET (Job \X Time)
      /\ current' \in (Job \X Time) \union {None}
      /\ stale' \in BOOLEAN
      /\ unwinding' \in SUBSET Job
      /\ disturbed' \in BOOLEAN
      /\ TickShape'
  BY <1>2, <1>4, CancelType
<1> QED BY <1>1, <1>2, <1>3, <1>4, <1>5 DEF Edit, TypeInv, TypeOK

LEMMA InitType == Init => TypeInv
<1>1. NoRun \in Run
  BY DEF NoRun, Run
<1>2. Empty \in Table
  BY EmptyType
<1>3. 0 \in Time
  BY TimeAssumption DEF Time
<1>4. Init => TypeOK
  BY <1>1, <1>2, <1>3 DEF Init, TypeOK
<1>5. Init => TickShape
  BY DEF Init, TickShape, NoRun
<1> QED BY <1>4, <1>5 DEF TypeInv

LEMMA BootType ==
  ASSUME TypeInv, Boot
  PROVE  TypeInv'
<1>0. 0 \in Time /\ Merged \in Table /\ TypeOK
  BY TimeAssumption, MergedType DEF Time, TypeInv
<1>1. CASE Register
  <2>1. store' \in Table
    BY <1>0, <1>1, NextRunType DEF Register, Table
  <2> QED BY <1>1, <2>1 DEF Register, TypeInv, TypeOK, TickShape, tick, journal
<1>2. CASE Start
  <2>1. ASSUME NEW j \in Job, Merged[j] # None
        PROVE  [Merged[j] EXCEPT !.next = NextRun(j, Merged[j].at)] \in JobRecord
    <3>1. Merged[j] \in JobRecord
      BY <1>0, <2>1 DEF Table
    <3>2. NextRun(j, Merged[j].at) \in 0 .. MaxTime + 1
      BY <1>0, <3>1, NextRunType DEF JobRecord
    <3> QED BY <3>1, <3>2 DEF JobRecord
  <2>2. store' \in Table /\ disk' = store'
    BY <1>0, <1>2, <2>1 DEF Start, LoadAndSave, Table
  <2>3. added' \in Table /\ dels' \in SUBSET Job
    BY <1>0, <1>2, JournalType DEF Start, LoadAndSave
  <2>4. /\ due' \in SUBSET (Job \X Time)
        /\ current' \in (Job \X Time) \union {None}
        /\ stale' \in BOOLEAN
        /\ unwinding' \in SUBSET Job
        /\ disturbed' \in BOOLEAN
        /\ TickShape'
    BY <1>2, CancelType DEF Start, Arm, TypeInv, TickShape
  <2> QED BY <1>2, <2>2, <2>3, <2>4 DEF Start, Arm, TypeInv, TypeOK
<1> QED BY <1>1, <1>2 DEF Boot

LEMMA EditsType ==
  ASSUME TypeInv, Edits
  PROVE  TypeInv'
<1>0. 0 \in Time /\ Loaded \in Table /\ TypeOK
  BY TimeAssumption, MergedType DEF Time, TypeInv
<1>1. PICK j \in Job : \/ \E at \in Schedules(j) : AddJob(j, at) \/ UpdateJob(j, at)
                       \/ RemoveJob(j)
                       \/ \E on \in BOOLEAN : EnableJob(j, on)
                       \/ AskRun(j)
  BY DEF Edits
<1>2. Schedules(j) \subseteq Time
  BY <1>0 DEF Schedules
<1>3. Loaded[j] # None => Loaded[j] \in JobRecord /\ Loaded[j].at \in Time
  BY <1>0 DEF Table, JobRecord
<1>4. ASSUME NEW at \in Schedules(j), AddJob(j, at)
      PROVE  TypeInv'
  <2>1. [Loaded EXCEPT ![j] = NewJob(j, at)] \in Table
    BY <1>0, <1>2, NextRunType DEF Table
  <2> QED BY <1>4, <2>1, EditType DEF AddJob, TypeInv, TypeOK
<1>5. ASSUME NEW at \in Schedules(j), UpdateJob(j, at)
      PROVE  TypeInv'
  <2> DEFINE r == [Loaded[j] EXCEPT !.at = at,
                     !.next = IF Loaded[j].enabled THEN NextRun(j, at) ELSE 0]
  <2>1. NextRun(j, at) \in 0 .. MaxTime + 1 /\ 0 \in 0 .. MaxTime + 1
    BY <1>0, <1>2, NextRunType, TimeAssumption
  <2>2. r \in JobRecord
    BY <1>2, <1>3, <1>5, <2>1 DEF UpdateJob, JobRecord
  <2>3. [Loaded EXCEPT ![j].at = at,
                       ![j].next = IF Loaded[j].enabled THEN NextRun(j, at) ELSE 0]
          = [Loaded EXCEPT ![j] = r]
    BY <1>0 DEF Table
  <2>4. [Loaded EXCEPT ![j] = r] \in Table
    BY <1>0, <2>2 DEF Table
  <2> QED BY <1>5, <2>3, <2>4, EditType DEF UpdateJob, TypeInv, TypeOK
<1>6. CASE RemoveJob(j)
  <2>1. [Loaded EXCEPT ![j] = None] \in Table
    BY <1>0 DEF Table
  <2> QED BY <1>6, <2>1, EditType DEF RemoveJob, TypeInv, TypeOK
<1>7. ASSUME NEW on \in BOOLEAN, EnableJob(j, on)
      PROVE  TypeInv'
  <2> DEFINE r == [Loaded[j] EXCEPT !.enabled = on,
                     !.next = IF on THEN NextRun(j, Loaded[j].at) ELSE 0]
  <2>0. Loaded[j] # None
    BY <1>7 DEF EnableJob
  <2>1. NextRun(j, Loaded[j].at) \in 0 .. MaxTime + 1 /\ 0 \in 0 .. MaxTime + 1
    BY <1>0, <1>3, <2>0, NextRunType, TimeAssumption
  <2>2. r \in JobRecord
    BY <1>3, <2>0, <2>1 DEF JobRecord
  <2>3. [Loaded EXCEPT ![j].enabled = on,
                       ![j].next = IF on THEN NextRun(j, Loaded[j].at) ELSE 0]
          = [Loaded EXCEPT ![j] = r]
    BY <1>0 DEF Table
  <2>4. [Loaded EXCEPT ![j] = r] \in Table
    BY <1>0, <2>2 DEF Table
  <2> QED BY <1>7, <2>3, <2>4, EditType DEF EnableJob, TypeInv, TypeOK
<1>8. CASE AskRun(j)
  <2>1. added' \in Table /\ dels' \in SUBSET Job
    BY <1>0, <1>8, JournalType DEF AskRun, LoadOnly
  <2>2. manual' \in Run /\ manual'.job \in Job
    BY <1>8 DEF AskRun, NoRun, Run
  <2> QED BY <1>0, <1>8, <2>1, <2>2 DEF AskRun, LoadOnly, TypeInv, TypeOK, TickShape, history
<1> QED BY <1>1, <1>4, <1>5, <1>6, <1>7, <1>8

LEMMA OutsideType ==
  ASSUME TypeInv, Outside
  PROVE  TypeInv'
<1>1. \A j \in Job : Schedules(j) \subseteq Time
  BY TimeAssumption DEF Schedules, Time
<1>2. ASSUME NEW j \in Job, NEW at \in Schedules(j), AddOutside(j, at)
      PROVE  TypeInv'
  <2>1. NewJob(j, at) \in JobRecord
    BY <1>1, NextRunType DEF TypeInv
  <2> QED BY <1>2, <2>1 DEF AddOutside, TypeInv, TypeOK, TickShape, Table, gateway, tick
<1>3. ASSUME NEW j \in Job, FindOutside(j)
      PROVE  TypeInv'
  BY <1>3 DEF FindOutside, TypeInv, TypeOK, TickShape, gateway, tick, history, journal
<1>4. CASE RemoveOutside
  BY <1>4 DEF RemoveOutside, TypeInv, TypeOK, TickShape, gateway, tick
<1> QED BY <1>2, <1>3, <1>4 DEF Outside

LEMMA TimerType ==
  ASSUME TypeInv, Timer
  PROVE  TypeInv'
<1>0. Loaded \in Table /\ TypeOK
  BY MergedType DEF TypeInv
<1>1. CASE TickIdle
  <2>1. added' \in Table /\ dels' \in SUBSET Job
    BY <1>0, <1>1, JournalType DEF TickIdle, LoadAndSave
  <2>2. manual' \in Run /\ (manual'.phase # "idle" => manual'.job \in Job)
    BY <1>0, <1>1 DEF TickIdle, TickFires, Orphan, TypeInv, TypeOK, TickShape, Run
  <2> QED BY <1>0, <1>1, <2>1, <2>2 DEF TickIdle, TickFires, LoadAndSave, TypeInv, TypeOK, TickShape
<1>2. CASE TickBegins
  <2>1. added' \in Table /\ dels' \in SUBSET Job
    BY <1>0, <1>2, JournalType DEF TickBegins, LoadOnly
  <2>2. manual' \in Run /\ (manual'.phase # "idle" => manual'.job \in Job)
    BY <1>0, <1>2 DEF TickBegins, TickFires, Orphan, TypeInv, TypeOK, TickShape, Run
  <2>3. \A j \in Job : IsDue(Loaded[j]) => Loaded[j].next \in Time
    <3>1. \A j \in Job : IsDue(Loaded[j]) => Loaded[j] \in JobRecord
      BY <1>0 DEF Table, IsDue
    <3> QED BY <1>0, <3>1, TimeAssumption DEF IsDue, JobRecord, Time, TypeOK
  <2>4. due' \subseteq Job \X Time
    BY <1>2, <2>3 DEF TickBegins
  <2>5. PICK d \in due' : Execute(d)
    BY <1>2 DEF TickBegins
  <2>6. d # None
    BY <2>4, <2>5, NoneAssumption
  <2> QED BY <1>0, <1>2, <2>1, <2>2, <2>4, <2>5, <2>6
          DEF TickBegins, TickFires, LoadOnly, Execute, TypeInv, TypeOK, TickShape
<1>3. CASE NextJob \/ TickEnds
  <2>1. timer = "running" /\ current \in Job \X Time /\ current[1] \in Job
    BY <1>3 DEF NextJob, TickEnds, JobDone, TypeInv, TypeOK, TickShape
  <2>2. store' \in Table
    BY <1>0, <1>3, <2>1, RecordedType DEF NextJob, TickEnds, JobDone, TypeOK
  <2>3. fate' \in [Job -> {"none", "kept", "gone", "either"}]
    BY <1>0, <1>3, <2>1 DEF NextJob, TickEnds, JobDone, Finished, TypeOK
  <2>4. CASE NextJob
    <3>1. due' = due \ {current} /\ \E d \in due' : Execute(d)
      BY <2>4 DEF NextJob
    <3>2. PICK d \in due' : Execute(d)
      BY <3>1
    <3>3. due' \subseteq Job \X Time /\ d # None
      BY <1>0, <3>1, NoneAssumption DEF TypeOK
    <3> QED BY <1>0, <2>1, <2>2, <2>3, <2>4, <3>2, <3>3
            DEF NextJob, JobDone, Execute, TypeInv, TypeOK, TickShape, journal
  <2>5. CASE TickEnds
    BY <1>0, <2>1, <2>2, <2>3, <2>5 DEF TickEnds, JobDone, NoTick, TypeInv, TypeOK, TickShape, journal
  <2> QED BY <1>3, <2>4, <2>5
<1> QED BY <1>1, <1>2, <1>3 DEF Timer

LEMMA RestoreType ==
  ASSUME TypeInv, NEW was \in BOOLEAN, RestoreRunning(was)
  PROVE  /\ running' \in BOOLEAN
         /\ manual' \in Run
         /\ timer' \in {"none", "sleeping", "running"}
         /\ due' \in SUBSET (Job \X Time)
         /\ current' \in (Job \X Time) \union {None}
         /\ stale' \in BOOLEAN
         /\ unwinding' \in SUBSET Job
         /\ disturbed' \in BOOLEAN
         /\ TickShape'
<1>1. manual' \in Run /\ manual'.phase = "idle"
  BY DEF RestoreRunning, NoRun, Run
<1>2. CASE was
  BY <1>1, <1>2, CancelType DEF RestoreRunning, Arm
<1>3. CASE ~was
  BY <1>1, <1>3 DEF RestoreRunning, TypeInv, TypeOK, TickShape
<1> QED BY <1>1, <1>2, <1>3 DEF RestoreRunning

LEMMA ManualType ==
  ASSUME TypeInv, Manual
  PROVE  TypeInv'
<1>0. Loaded \in Table /\ TypeOK
  BY MergedType DEF TypeInv
<1>1. ASSUME RunStarts
      PROVE  /\ added' \in Table /\ dels' \in SUBSET Job
             /\ store' \in Table /\ disk' \in Table
  <2>1. added' \in Table /\ dels' \in SUBSET Job
    BY <1>0, <1>1, JournalType DEF RunStarts, LoadOnly
  <2> QED BY <1>0, <1>1, <2>1 DEF RunStarts, LoadOnly, TypeOK
<1>2. CASE RunBegins
  <2>1. manual' \in Run /\ manual'.job \in Job
    BY <1>0, <1>2 DEF RunBegins, RunStarts, TypeInv, TypeOK, TickShape, Run
  <2> QED BY <1>0, <1>1, <1>2, <2>1 DEF RunBegins, RunStarts, TypeInv, TypeOK, TickShape
<1>3. CASE RunRefused
  BY <1>0, <1>1, <1>3, RestoreType DEF RunRefused, RunStarts, TypeInv, TypeOK
<1>4. CASE RunDone
  <2>1. manual.job \in Job /\ manual.stale \in BOOLEAN /\ manual.was \in BOOLEAN
    BY <1>0, <1>4 DEF RunDone, TypeInv, TypeOK, TickShape, Run
  <2>2. store' \in Table /\ disk' \in Table
    BY <1>0, <1>4, <2>1, RecordedType DEF RunDone
  <2>3. fate' \in [Job -> {"none", "kept", "gone", "either"}]
    BY <1>0, <1>4, <2>1 DEF RunDone, Finished, TypeOK
  <2> QED BY <1>0, <1>4, <2>1, <2>2, <2>3, RestoreType DEF RunDone, TypeInv, TypeOK, journal
<1> QED BY <1>2, <1>3, <1>4 DEF Manual

LEMMA HaltsType ==
  ASSUME TypeInv, Halts
  PROVE  TypeInv'
<1>1. CASE Stop
  BY <1>1, CancelType DEF Stop, TypeInv, TypeOK, TickShape, journal
<1>2. NoRun \in Run /\ NoRun.phase = "idle" /\ Empty \in Table
  BY EmptyType DEF NoRun, Run
<1>3. CASE Crash
  BY <1>2, <1>3 DEF Crash, GoDown, NoTick, TypeInv, TypeOK, TickShape, journal
<1>4. CASE CrashInMerge
  <2>1. fate' \in [Job -> {"none", "kept", "gone", "either"}]
    BY <1>4 DEF CrashInMerge, TypeInv, TypeOK
  <2>2. added' \in Table /\ dels' \in SUBSET Job
    BY <1>2, <1>4 DEF CrashInMerge
  <2> QED BY <1>2, <1>4, <2>1, <2>2 DEF CrashInMerge, GoDown, NoTick, TypeInv, TypeOK, TickShape
<1> QED BY <1>1, <1>3, <1>4 DEF Halts

LEMMA OtherType ==
  ASSUME TypeInv, ClockTicks \/ Poll \/ Unwind \/ UNCHANGED vars
  PROVE  TypeInv'
<1>1. CASE ClockTicks
  BY <1>1, TimeAssumption DEF ClockTicks, TypeInv, TypeOK, TickShape, Time, journal, gateway, tick, history
<1>2. CASE Poll
  <2>1. added' \in Table /\ dels' \in SUBSET Job
    BY <1>2, JournalType DEF Poll, LoadOnly, TypeInv
  <2>2. manual' \in Run /\ (manual'.phase # "idle" => manual'.job \in Job)
    BY <1>2 DEF Poll, Orphan, TypeInv, TypeOK, TickShape, Run
  <2> QED BY <1>2, <2>1, <2>2, MergedType DEF Poll, LoadOnly, TypeInv, TypeOK, TickShape, history
<1>3. CASE Unwind
  BY <1>3 DEF Unwind, Unwound, TypeInv, TypeOK, TickShape, journal, history
<1>4. CASE UNCHANGED vars
  BY <1>4 DEF vars, TypeInv, TypeOK, TickShape, journal, gateway, tick, history
<1> QED BY <1>1, <1>2, <1>3, <1>4

LEMMA TypeStep == TypeInv /\ [Next]_vars => TypeInv'
BY BootType, EditsType, OutsideType, TimerType, ManualType, HaltsType, OtherType DEF Next

LEMMA TypeInvariant == Spec => []TypeInv
BY InitType, TypeStep, PTL DEF Spec

\* Every reachable state is well typed: a time is never later than one interval
\* from now, and only jobs have entries, due times and runs.
THEOREM CronTypeCorrect == Spec => []TypeOK
BY TypeInvariant, PTL DEF TypeInv

-----------------------------------------------------------------------------
(***************************************************************************)
(* The timer.                                                              *)
(***************************************************************************)
Loading == phase \in {"up", "stopping"}

\* Before start nothing runs; a manual run that began while the gateway was up
\* gives _running back as TRUE.
PhaseInv ==
    /\ TimerArmed
    /\ ~Loading => ~running /\ timer = "none" /\ ~timerActive /\ manual.phase = "idle"
    /\ phase = "up" /\ manual.phase = "running" => manual.was

LEMMA PhaseInit == Init => PhaseInv
BY DEF Init, PhaseInv, TimerArmed, Loading, NoRun

LEMMA PhaseStep ==
  ASSUME TypeInv, PhaseInv, [Next]_vars
  PROVE  PhaseInv'
<1> USE DEF PhaseInv, TimerArmed, Loading
<1>0. TypeOK
  BY DEF TypeInv
<1>1. CASE Boot
  <2>1. CASE Register
    BY <2>1 DEF Register, tick
  <2>2. CASE Start
    <3>1. phase = "registered" /\ phase' = "up" /\ running' = TRUE /\ Arm /\ UNCHANGED manual
      BY <2>2 DEF Start
    <3> QED BY <3>1 DEF Arm
  <2> QED BY <1>1, <2>1, <2>2 DEF Boot
<1>2. CASE Edits
  <2>1. ASSUME NEW S, Edit(S)
        PROVE  PhaseInv'
    BY <1>0, <2>1 DEF Edit, Arm, Orphan, TypeOK, Run
  <2>2. ASSUME NEW j \in Job, AskRun(j)
        PROVE  PhaseInv'
    BY <1>0, <2>2 DEF AskRun, NoRun
  <2> QED BY <1>2, <2>1, <2>2 DEF Edits, AddJob, UpdateJob, RemoveJob, EnableJob
<1>3. CASE Timer
  <2>1. CASE TickIdle
    BY <1>0, <2>1 DEF TickIdle, TickFires, Orphan, TypeOK, Run
  <2>2. CASE TickBegins
    BY <1>0, <2>2 DEF TickBegins, TickFires, Orphan, TypeOK, Run
  <2>3. CASE NextJob
    BY <2>3 DEF NextJob, JobDone
  <2>4. CASE TickEnds
    BY <2>4 DEF TickEnds, JobDone
  <2> QED BY <1>3, <2>1, <2>2, <2>3, <2>4 DEF Timer
<1>4. CASE Manual
  <2>1. CASE RunBegins
    BY <1>0, <2>1 DEF RunBegins, RunStarts, TypeOK, Run
  <2>2. ASSUME NEW was \in BOOLEAN, RestoreRunning(was), Loading, UNCHANGED <<phase, timerActive>>,
               phase = "up" => was
        PROVE  PhaseInv'
    BY <1>0, <2>2 DEF RestoreRunning, Arm, NoRun, TypeOK
  <2>3. CASE RunRefused
    BY <1>0, <2>2, <2>3 DEF RunRefused, RunStarts, TypeOK
  <2>4. CASE RunDone
    BY <1>0, <2>2, <2>4 DEF RunDone, TypeOK, Run
  <2> QED BY <1>4, <2>1, <2>3, <2>4 DEF Manual
<1>5. CASE Halts
  <2>1. CASE Stop
    BY <2>1 DEF Stop
  <2>2. CASE GoDown
    BY <2>2 DEF GoDown, NoRun
  <2> QED BY <1>5, <2>1, <2>2 DEF Halts, Crash, CrashInMerge
<1>6. CASE Poll
  BY <1>0, <1>6 DEF Poll, Orphan, TypeOK, Run
<1>7. CASE Unwind
  BY <1>7 DEF Unwind, Unwound
<1>8. CASE ClockTicks \/ Outside \/ UNCHANGED vars
  <2>1. UNCHANGED gateway
    BY <1>8 DEF ClockTicks, Outside, FindOutside, AddOutside, RemoveOutside, vars
  <2> QED BY <2>1 DEF gateway, tick
<1> QED BY <1>1, <1>2, <1>3, <1>4, <1>5, <1>6, <1>7, <1>8 DEF Next

LEMMA PhaseInvariant == Spec => []PhaseInv
<1>1. TypeInv /\ PhaseInv /\ [Next]_vars => PhaseInv'
  BY PhaseStep
<1> QED BY <1>1, PhaseInit, TypeInvariant, PTL DEF Spec

\* A gateway that is up is running and has a timer task, whatever edits, manual
\* runs and ticks cancel it.
THEOREM AlwaysArmed == Spec => []TimerArmed
BY PhaseInvariant, PTL DEF PhaseInv

-----------------------------------------------------------------------------
(***************************************************************************)
(* The jobs: the file, the store and the journal against their fate.       *)
(***************************************************************************)
\* A table t and a journal with lines a and d hold the jobs they have to.
Book(t, a, d, f) ==
    \A j \in Job :
       /\ f[j] = "kept" => j \notin d /\ (a[j] # None \/ t[j] # None)
       /\ f[j] \in {"none", "gone"} => j \in d \/ (a[j] = None /\ t[j] = None)

\* What the journal adds is not in t yet.
Apart(t, a) == \A j \in Job : a[j] # None => t[j] = None

\* A table with the same jobs.
SameJobs(s, t) == \A j \in Job : s[j] = None <=> t[j] = None

BookInv ==
    /\ Book(disk, added, dels, fate)
    /\ Loading => Book(store, added, dels, fate) /\ Apart(store, added)
    /\ \A j \in dels : fate[j] \in {"gone", "either"} /\ j \notin SystemJob
    /\ outside # None => outside \notin SystemJob
    /\ manual.phase # "idle" =>
          added[manual.job] = None /\ fate[manual.job] # "none"

JobInv == TypeInv /\ PhaseInv /\ BookInv

LEMMA BookIsJobsKept == Book(disk, added, dels, fate) <=> JobsKept
<1>1. ASSUME NEW j \in Job
      PROVE  /\ Merged[j] # None <=> j \notin dels /\ (added[j] # None \/ disk[j] # None)
             /\ Merged[j] = None <=> j \in dels \/ (added[j] = None /\ disk[j] = None)
  BY DEF Merged
<1> QED BY <1>1 DEF Book, JobsKept

\* Book depends on which jobs a table has, not on what it says of them.
LEMMA SameBook ==
  ASSUME NEW s, NEW t, NEW a, NEW d, NEW f, SameJobs(s, t)
  PROVE  (Book(s, a, d, f) <=> Book(t, a, d, f)) /\ (Apart(s, a) <=> Apart(t, a))
BY DEF SameJobs, Book, Apart

\* Merging: the merged table is right with the journal and without it.
LEMMA MergedBook ==
  ASSUME Book(disk, added, dels, fate), NEW run, ClearJournal(run), ~timerActive
  PROVE  Book(Merged, added', dels', fate)
<1>1. ASSUME NEW j \in Job
      PROVE  Merged[j] = IF j \in dels THEN None
                         ELSE IF added[j] # None THEN added[j] ELSE disk[j]
  BY DEF Merged
<1>2. CASE UNCHANGED journal
  BY <1>1, <1>2 DEF Book, journal
<1>3. CASE added' = Empty /\ dels' = {}
  BY <1>1, <1>3 DEF Book, Empty
<1> QED BY <1>2, <1>3 DEF ClearJournal

\* What a load of a started instance gives: the right jobs, none of which the
\* journal still has to add.
LEMMA LoadedBook ==
  ASSUME JobInv, Loading, ClearJournal(TRUE)
  PROVE  /\ Book(Loaded, added', dels', fate)
         /\ Apart(Loaded, added')
         /\ dels' \subseteq dels
         /\ \A j \in Job : added[j] = None => added'[j] = None
         /\ \A j \in Job : Loaded[j] # None => added'[j] = None /\ fate[j] # "none"
<1>1. dels' \subseteq dels /\ \A j \in Job : added[j] = None => added'[j] = None
  BY DEF ClearJournal, journal, Empty
<1>2. Book(Loaded, added', dels', fate) /\ Apart(Loaded, added')
  <2>1. CASE timerActive
    <3>1. UNCHANGED journal
      BY <2>1 DEF ClearJournal, Merges
    <3> QED BY <2>1, <3>1 DEF Loaded, JobInv, BookInv, journal
  <2>2. CASE ~timerActive
    <3>1. added' = Empty
      BY <2>2 DEF ClearJournal, Merges, Effective, journal
    <3>2. Book(Merged, added', dels', fate)
      BY <2>2, MergedBook DEF JobInv, BookInv
    <3> QED BY <2>2, <3>1, <3>2 DEF Loaded, Apart, Empty
  <2> QED BY <2>1, <2>2
<1>3. ASSUME NEW j \in Job, Loaded[j] # None
      PROVE  added'[j] = None /\ fate[j] # "none"
  <2>1. added'[j] = None
    BY <1>2, <1>3 DEF Apart
  <2>2. j \in dels' => fate[j] # "none"
    BY <1>1 DEF JobInv, BookInv
  <2> QED BY <1>2, <1>3, <2>1, <2>2 DEF Book
<1> QED BY <1>1, <1>2, <1>3

\* A load that saves only after a merge.
LEMMA LoadOnlyBook ==
  ASSUME JobInv, Loading, LoadOnly(TRUE)
  PROVE  /\ Book(disk', added', dels', fate)
         /\ Book(store', added', dels', fate)
         /\ Apart(store', added')
         /\ dels' \subseteq dels
         /\ \A j \in Job : added[j] = None => added'[j] = None
         /\ \A j \in Job : Loaded[j] # None => added'[j] = None /\ fate[j] # "none"
<1>1. /\ Book(Loaded, added', dels', fate)
      /\ Apart(Loaded, added')
      /\ dels' \subseteq dels
      /\ \A j \in Job : added[j] = None => added'[j] = None
      /\ \A j \in Job : Loaded[j] # None => added'[j] = None /\ fate[j] # "none"
  BY LoadedBook DEF LoadOnly
<1>2. Book(disk', added', dels', fate)
  <2>1. CASE Merges(TRUE)
    BY <1>1, <2>1 DEF LoadOnly
  <2>2. CASE ~Merges(TRUE)
    BY <2>2 DEF LoadOnly, ClearJournal, JobInv, BookInv, journal
  <2> QED BY <2>1, <2>2
<1> QED BY <1>1, <1>2 DEF LoadOnly

LEMMA BookInit == Init => BookInv
<1>1. \A j \in Job : Empty[j] = None
  BY DEF Empty
<1> QED BY <1>1 DEF Init, BookInv, Book, Loading, NoRun

LEMMA BootBook ==
  ASSUME JobInv, Boot
  PROVE  BookInv'
<1>0. TypeOK /\ manual.phase = "idle" /\ ~timerActive /\ manual' = manual /\ outside' = outside
  BY DEF JobInv, TypeInv, PhaseInv, Loading, Boot, Register, Start
<1>1. CASE Register
  <2>1. UNCHANGED <<added, dels>> /\ disk' = store' /\ phase' = "registered"
    BY <1>1 DEF Register, journal
  <2>2. \A j \in Job : IF j \in SystemJob THEN store'[j] # None /\ fate'[j] = "kept"
                                        ELSE store'[j] = Merged[j] /\ fate'[j] = fate[j]
    <3>1. 0 \in Time /\ SystemJob \subseteq Job
      BY TimeAssumption, JobAssumption DEF Time
    <3>2. \A j \in SystemJob : NewJob(j, 0) # None
      BY <1>0, <3>1, NextRunType, NoneAssumption
    <3> QED BY <1>1, <3>2, <1>0 DEF Register, TypeOK
  <2>3. Book(Merged, added, dels, fate)
    <3>1. \A j \in Job : Merged[j] = IF j \in dels THEN None
                         ELSE IF added[j] # None THEN added[j] ELSE disk[j]
      BY DEF Merged
    <3> QED BY <3>1 DEF JobInv, BookInv, Book
  <2>4. Book(disk', added', dels', fate')
    BY <2>1, <2>2, <2>3 DEF Book, JobInv, BookInv
  <2> QED BY <1>0, <2>1, <2>2, <2>4 DEF BookInv, Loading, JobInv, TypeInv, TypeOK
<1>2. CASE Start
  <2>1. ClearJournal(TRUE) /\ disk' = store' /\ phase' = "up" /\ UNCHANGED fate
    BY <1>2 DEF Start, LoadAndSave
  <2>2. SameJobs(store', Merged)
    <3>1. ASSUME NEW j \in Job, Merged[j] # None
          PROVE  [Merged[j] EXCEPT !.next = NextRun(j, Merged[j].at)] # None
      <4>1. Merged[j] \in JobRecord
        BY <1>0, <3>1, MergedType DEF Table
      <4>2. NextRun(j, Merged[j].at) \in 0 .. MaxTime + 1
        BY <1>0, <4>1, NextRunType DEF JobRecord
      <4> QED BY <4>1, <4>2, NoneAssumption DEF JobRecord
    <3> QED BY <1>2, <3>1 DEF Start, LoadAndSave, SameJobs
  <2>3. Book(Merged, added', dels', fate)
    BY <1>0, <2>1, MergedBook DEF JobInv, BookInv
  <2>4. added' = Empty /\ dels' \subseteq dels
    BY <1>0, <2>1 DEF ClearJournal, Merges, Effective, journal
  <2>5. Book(store', added', dels', fate') /\ Apart(store', added')
    BY <2>1, <2>2, <2>3, <2>4, SameBook DEF Apart, Empty
  <2> QED BY <1>0, <2>1, <2>4, <2>5 DEF BookInv, JobInv
<1> QED BY <1>1, <1>2 DEF Boot

\* An edit that leaves the right jobs in the table it saves.
LEMMA EditBook ==
  ASSUME JobInv, NEW S, Edit(S), Book(S, added', dels', fate'), Apart(S, added'),
         \A i \in dels : fate'[i] \in {"gone", "either"},
         \A i \in Job : fate[i] # "none" => fate'[i] # "none"
  PROVE  BookInv'
<1>1. /\ ClearJournal(TRUE) /\ store' = S /\ disk' = S
      /\ outside' = outside /\ manual' = Orphan(manual)
  BY DEF Edit, LoadAndSave, JobInv, PhaseInv, TimerArmed
<1>2. dels' \subseteq dels /\ \A j \in Job : added[j] = None => added'[j] = None
  BY <1>1 DEF ClearJournal, journal, Empty
<1>3. manual'.phase = manual.phase /\ manual'.job = manual.job
  BY <1>1 DEF Orphan, JobInv, TypeInv, TypeOK, Run
<1> QED BY <1>1, <1>2, <1>3 DEF BookInv, JobInv, TypeInv, TickShape

LEMMA EditsBook ==
  ASSUME JobInv, Edits
  PROVE  BookInv'
<1>0. 0 \in Time /\ Loaded \in Table /\ TypeOK
  BY TimeAssumption, MergedType DEF Time, TypeInv, JobInv
<1>1. PICK j \in Job : \/ \E at \in Schedules(j) : AddJob(j, at) \/ UpdateJob(j, at)
                       \/ RemoveJob(j)
                       \/ \E on \in BOOLEAN : EnableJob(j, on)
                       \/ AskRun(j)
  BY DEF Edits
<1>2. Schedules(j) \subseteq Time
  BY <1>0 DEF Schedules
<1>3. phase = "up" /\ ClearJournal(TRUE)
  BY <1>1 DEF AddJob, UpdateJob, RemoveJob, EnableJob, AskRun, Edit, LoadAndSave, LoadOnly,
              JobInv, PhaseInv, TimerArmed
<1>4. /\ Book(Loaded, added', dels', fate)
      /\ Apart(Loaded, added')
      /\ dels' \subseteq dels
      /\ \A i \in Job : added[i] = None => added'[i] = None
      /\ \A i \in Job : Loaded[i] # None => added'[i] = None /\ fate[i] # "none"
  BY <1>3, LoadedBook DEF Loading
<1>5. \A i \in dels : fate[i] \in {"gone", "either"}
  BY DEF JobInv, BookInv
<1>6. ASSUME NEW at \in Schedules(j), AddJob(j, at)
      PROVE  BookInv'
  <2> DEFINE S == [Loaded EXCEPT ![j] = NewJob(j, at)]
  <2>1. S[j] # None /\ \A i \in Job \ {j} : S[i] = Loaded[i]
    BY <1>0, <1>2, NextRunType, NoneAssumption DEF Table
  <2>2. Edit(S) /\ fate[j] = "none" /\ fate' = [fate EXCEPT ![j] = "kept"]
    BY <1>6 DEF AddJob
  <2>3. fate'[j] = "kept" /\ \A i \in Job \ {j} : fate'[i] = fate[i]
    BY <1>0, <2>2 DEF TypeOK
  <2>4. j \notin dels /\ j \notin dels' /\ added'[j] = None
    BY <1>4, <1>5, <2>2 DEF Book
  <2>5. Book(S, added', dels', fate') /\ Apart(S, added')
    BY <1>4, <2>1, <2>3, <2>4 DEF Book, Apart
  <2>6. \A i \in dels : fate'[i] \in {"gone", "either"}
    BY <1>0, <1>5, <2>3, <2>4 DEF TypeOK
  <2> QED BY <2>2, <2>3, <2>5, <2>6, EditBook
<1>7. ASSUME NEW at \in Schedules(j), UpdateJob(j, at)
      PROVE  BookInv'
  <2> DEFINE S == [Loaded EXCEPT ![j].at = at,
                     ![j].next = IF Loaded[j].enabled THEN NextRun(j, at) ELSE 0]
  <2>1. Loaded[j] # None /\ Edit(S) /\ UNCHANGED fate
    BY <1>7 DEF UpdateJob
  <2>2. Loaded[j] \in JobRecord
    BY <1>0, <2>1 DEF Table
  <2>3. S[j] = [Loaded[j] EXCEPT !.at = at,
                     !.next = IF Loaded[j].enabled THEN NextRun(j, at) ELSE 0]
        /\ \A i \in Job \ {j} : S[i] = Loaded[i]
    BY <1>0 DEF Table
  <2>4. S[j] \in JobRecord
    <3>1. NextRun(j, at) \in 0 .. MaxTime + 1 /\ 0 \in 0 .. MaxTime + 1
      BY <1>0, <1>2, NextRunType, TimeAssumption
    <3> QED BY <1>2, <2>2, <2>3, <3>1 DEF JobRecord
  <2>5. SameJobs(S, Loaded)
    BY <2>1, <2>3, <2>4, NoneAssumption DEF SameJobs
  <2> QED BY <1>4, <1>5, <2>1, <2>5, SameBook, EditBook
<1>8. CASE RemoveJob(j)
  <2> DEFINE S == [Loaded EXCEPT ![j] = None]
  <2>1. Loaded[j] # None /\ Edit(S) /\ fate' = [fate EXCEPT ![j] = "gone"]
    BY <1>8 DEF RemoveJob
  <2>2. S[j] = None /\ \A i \in Job \ {j} : S[i] = Loaded[i]
    BY <1>0 DEF Table
  <2>3. fate'[j] = "gone" /\ \A i \in Job \ {j} : fate'[i] = fate[i]
    BY <1>0, <2>1 DEF TypeOK
  <2>4. Book(S, added', dels', fate') /\ Apart(S, added')
    BY <1>4, <2>1, <2>2, <2>3 DEF Book, Apart
  <2>5. \A i \in dels : fate'[i] \in {"gone", "either"}
    BY <1>0, <1>5, <2>3 DEF TypeOK
  <2> QED BY <2>1, <2>3, <2>4, <2>5, EditBook
<1>9. ASSUME NEW on \in BOOLEAN, EnableJob(j, on)
      PROVE  BookInv'
  <2> DEFINE S == [Loaded EXCEPT ![j].enabled = on,
                     ![j].next = IF on THEN NextRun(j, Loaded[j].at) ELSE 0]
  <2>1. Loaded[j] # None /\ Edit(S) /\ UNCHANGED fate
    BY <1>9 DEF EnableJob
  <2>2. Loaded[j] \in JobRecord
    BY <1>0, <2>1 DEF Table
  <2>3. S[j] = [Loaded[j] EXCEPT !.enabled = on,
                     !.next = IF on THEN NextRun(j, Loaded[j].at) ELSE 0]
        /\ \A i \in Job \ {j} : S[i] = Loaded[i]
    BY <1>0 DEF Table
  <2>4. S[j] \in JobRecord
    <3>1. Loaded[j].at \in Time
      BY <2>2 DEF JobRecord
    <3>2. NextRun(j, Loaded[j].at) \in 0 .. MaxTime + 1 /\ 0 \in 0 .. MaxTime + 1
      BY <1>0, <3>1, NextRunType, TimeAssumption
    <3> QED BY <2>2, <2>3, <3>2 DEF JobRecord
  <2>5. SameJobs(S, Loaded)
    BY <2>1, <2>3, <2>4, NoneAssumption DEF SameJobs
  <2> QED BY <1>4, <1>5, <2>1, <2>5, SameBook, EditBook
<1>10. CASE AskRun(j)
  <2>1. LoadOnly(TRUE) /\ Loaded[j] # None /\ UNCHANGED <<fate, outside, phase>>
    BY <1>10 DEF AskRun, CanRun, JobInv, PhaseInv, TimerArmed, history
  <2>2. manual'.job = j
    BY <1>10 DEF AskRun, NoRun
  <2>3. /\ Book(disk', added', dels', fate)
        /\ Book(store', added', dels', fate)
        /\ Apart(store', added')
        /\ added'[j] = None /\ fate[j] # "none"
    BY <1>3, <2>1, LoadOnlyBook DEF Loading
  <2> QED BY <1>4, <2>1, <2>2, <2>3 DEF BookInv, JobInv
<1> QED BY <1>1, <1>6, <1>7, <1>8, <1>9, <1>10

LEMMA OutsideBook ==
  ASSUME JobInv, Outside
  PROVE  BookInv'
<1>0. TypeOK /\ UNCHANGED gateway
  BY DEF JobInv, TypeInv, Outside, FindOutside, AddOutside, RemoveOutside
<1>1. ASSUME NEW j \in Job, FindOutside(j)
      PROVE  BookInv'
  BY <1>1, NoneAssumption DEF FindOutside, BookInv, JobInv, gateway, history, journal, Loading
<1>2. ASSUME NEW j \in Job, NEW at \in Schedules(j), AddOutside(j, at)
      PROVE  BookInv'
  <2>1. NewJob(j, at) # None
    <3>1. at \in Time
      BY TimeAssumption DEF Schedules, Time
    <3> QED BY <1>0, <3>1, NextRunType, NoneAssumption
  <2>2. /\ fate[j] = "none" /\ fate' = [fate EXCEPT ![j] = "kept"]
        /\ added' = [added EXCEPT ![j] = NewJob(j, at)]
        /\ UNCHANGED <<disk, dels, outside>>
    BY <1>2 DEF AddOutside
  <2>3. /\ fate'[j] = "kept" /\ added'[j] # None
        /\ \A i \in Job \ {j} : fate'[i] = fate[i] /\ added'[i] = added[i]
    BY <1>0, <2>1, <2>2 DEF TypeOK, Table
  <2>4. j \notin dels
    BY <2>2 DEF JobInv, BookInv
  <2>5. Book(disk', added', dels', fate')
    BY <2>2, <2>3, <2>4 DEF JobInv, BookInv, Book
  <2>6. Loading' => Book(store', added', dels', fate') /\ Apart(store', added')
    <3>1. Loading' = Loading /\ store' = store
      BY <1>0 DEF gateway, Loading
    <3>2. Loading => store[j] = None
      BY <2>2, <2>4 DEF JobInv, BookInv, Book
    <3> QED BY <2>2, <2>3, <2>4, <3>1, <3>2 DEF JobInv, BookInv, Book, Apart
  <2>7. manual' = manual
    BY <1>0 DEF gateway
  <2>8. manual.phase # "idle" => manual.job # j /\ manual.job \in Job
    BY <2>2 DEF JobInv, BookInv, TypeInv, TickShape
  <2> QED BY <1>0, <2>2, <2>3, <2>4, <2>5, <2>6, <2>7, <2>8 DEF JobInv, BookInv, TypeOK
<1>3. CASE RemoveOutside
  <2>1. /\ outside \in Job \ SystemJob /\ outside' = None
        /\ dels' = dels \union {outside} /\ fate' = [fate EXCEPT ![outside] = "gone"]
        /\ UNCHANGED <<disk, added, store, manual, phase>>
    BY <1>0, <1>3 DEF RemoveOutside, JobInv, BookInv, gateway, TypeOK
  <2>2. fate'[outside] = "gone" /\ \A i \in Job \ {outside} : fate'[i] = fate[i]
    BY <1>0, <2>1 DEF TypeOK
  <2>3. ASSUME NEW t, Book(t, added, dels, fate)
        PROVE  Book(t, added, dels', fate')
    BY <2>1, <2>2, <2>3 DEF Book
  <2> QED BY <1>0, <2>1, <2>2, <2>3 DEF JobInv, BookInv, Loading, TypeInv, TickShape, TypeOK
<1> QED BY <1>1, <1>2, <1>3 DEF Outside

\* A job that has run: the store loses at most a one-shot job, whose fate is
\* then f.
LEMMA RecordedBook ==
  ASSUME JobInv, Loading, NEW j \in Job, NEW orphan \in BOOLEAN,
         NEW f \in {"gone", "either"}, Finished(j, f), UNCHANGED journal,
         f = "gone" => added[j] = None
  PROVE  /\ Book(Recorded(j, orphan), added', dels', fate')
         /\ Apart(Recorded(j, orphan), added')
         /\ \A i \in dels' : fate'[i] \in {"gone", "either"} /\ i \notin SystemJob
         /\ \A i \in Job : fate[i] # "none" => fate'[i] # "none"
         /\ \A i \in Job \ {j} : fate'[i] = fate[i]
         /\ f = "either" => Book(disk, added', dels', fate')
<1>0. TypeOK /\ added' = added /\ dels' = dels
  BY DEF JobInv, TypeInv, journal
<1>1. /\ fate'[j] = IF j \in OneShot THEN f ELSE fate[j]
      /\ \A i \in Job \ {j} : fate'[i] = fate[i]
  BY <1>0 DEF Finished, TypeOK
<1>2. \A i \in dels : fate[i] \in {"gone", "either"} /\ i \notin SystemJob
  BY DEF JobInv, BookInv
<1>3. /\ \A i \in dels' : fate'[i] \in {"gone", "either"} /\ i \notin SystemJob
      /\ \A i \in Job : fate[i] # "none" => fate'[i] # "none"
  BY <1>0, <1>1, <1>2 DEF TypeOK
<1>4. \A i \in Job \ {j} : Recorded(j, orphan)[i] = store[i]
  BY <1>0 DEF Recorded, TypeOK, Table
<1>5. Recorded(j, orphan)[j] = None <=> store[j] = None \/ j \in OneShot
  <2>1. CASE store[j] = None \/ j \in OneShot
    BY <1>0, <2>1 DEF Recorded, TypeOK, Table
  <2>2. CASE store[j] # None /\ j \notin OneShot
    <3>1. store[j] \in JobRecord /\ NextRun(j, 0) \in 0 .. MaxTime + 1
      <4>1. 0 \in Time
        BY TimeAssumption DEF Time
      <4> QED BY <1>0, <2>2, <4>1, NextRunType DEF TypeOK, Table
    <3>2. [store[j] EXCEPT !.next = NextRun(j, 0)] # None
      BY <3>1, NoneAssumption DEF JobRecord
    <3> QED BY <1>0, <2>2, <3>2 DEF Recorded, TypeOK, Table
  <2> QED BY <2>1, <2>2
<1>6. Book(Recorded(j, orphan), added', dels', fate')
  BY <1>0, <1>1, <1>4, <1>5 DEF Book, JobInv, BookInv
<1>7. Apart(Recorded(j, orphan), added')
  BY <1>0, <1>4, <1>5 DEF Apart, JobInv, BookInv
<1>8. f = "either" => Book(disk, added', dels', fate')
  BY <1>0, <1>1 DEF Book, JobInv, BookInv
<1> QED BY <1>1, <1>3, <1>6, <1>7, <1>8

LEMMA TimerBook ==
  ASSUME JobInv, Timer
  PROVE  BookInv'
<1>0. TypeOK /\ UNCHANGED <<phase, outside>>
  BY DEF JobInv, TypeInv, Timer, TickIdle, TickBegins, TickFires, NextJob, TickEnds, JobDone
<1>1. Loading
  BY DEF JobInv, PhaseInv, Timer, TickIdle, TickBegins, TickFires, NextJob, TickEnds, JobDone
<1>2. CASE TickIdle \/ TickBegins
  <2>1. /\ running /\ UNCHANGED fate /\ manual'.phase = manual.phase
        /\ manual'.job = manual.job /\ ClearJournal(TRUE)
    BY <1>0, <1>2 DEF TickIdle, TickBegins, TickFires, Orphan, LoadAndSave, LoadOnly, TypeOK, Run
  <2>2. /\ Book(Loaded, added', dels', fate)
        /\ Apart(Loaded, added')
        /\ dels' \subseteq dels
        /\ \A j \in Job : added[j] = None => added'[j] = None
    BY <1>1, <2>1, LoadedBook
  <2>3. store' = Loaded
    BY <1>2 DEF TickIdle, TickBegins, LoadAndSave, LoadOnly
  <2>4. Book(disk', added', dels', fate)
    <3>1. CASE TickIdle
      BY <2>2, <3>1 DEF TickIdle, LoadAndSave
    <3>2. CASE TickBegins
      <4>1. LoadOnly(TRUE)
        BY <2>1, <3>2 DEF TickBegins
      <4> QED BY <1>1, <4>1, LoadOnlyBook
    <3> QED BY <1>2, <3>1, <3>2
  <2> QED BY <1>0, <2>1, <2>2, <2>3, <2>4 DEF BookInv, JobInv, TypeInv, TickShape
<1>3. CASE NextJob \/ TickEnds
  <2>1. /\ current[1] \in Job /\ stale \in BOOLEAN /\ UNCHANGED <<added, dels, manual>>
        /\ store' = Recorded(current[1], stale) /\ Finished(current[1], "either")
        /\ disk' = disk \/ disk' = store'
    BY <1>0, <1>3 DEF NextJob, TickEnds, JobDone, journal, JobInv, TypeInv, TickShape, TypeOK
  <2> DEFINE j == current[1]
  <2>2. /\ Book(store', added', dels', fate')
        /\ Apart(store', added')
        /\ \A i \in dels' : fate'[i] \in {"gone", "either"} /\ i \notin SystemJob
        /\ \A i \in Job : fate[i] # "none" => fate'[i] # "none"
        /\ Book(disk, added', dels', fate')
    BY <1>1, <2>1, RecordedBook DEF journal
  <2> QED BY <1>0, <2>1, <2>2 DEF BookInv, JobInv, TypeInv, TickShape
<1> QED BY <1>2, <1>3 DEF Timer

LEMMA ManualBook ==
  ASSUME JobInv, Manual
  PROVE  BookInv'
<1>0. TypeOK /\ UNCHANGED <<phase, outside>> /\ manual.phase # "idle"
  BY DEF JobInv, TypeInv, Manual, RunBegins, RunRefused, RunDone, RunStarts
<1>1. Loading /\ manual.job \in Job
  BY <1>0 DEF JobInv, PhaseInv, TypeInv, TickShape
<1>2. manual'.phase # "idle" => manual'.job = manual.job
  <2>1. manual' = NoRun \/ manual'.job = manual.job
    BY <1>0 DEF Manual, RunBegins, RunRefused, RunDone, RestoreRunning, TypeOK, Run
  <2> QED BY <2>1 DEF NoRun
<1>3. CASE RunBegins \/ RunRefused
  <2>1. LoadOnly(TRUE) /\ UNCHANGED fate
    BY <1>3 DEF RunBegins, RunRefused, RunStarts
  <2>2. /\ Book(disk', added', dels', fate)
        /\ Book(store', added', dels', fate)
        /\ Apart(store', added')
        /\ dels' \subseteq dels
        /\ \A j \in Job : added[j] = None => added'[j] = None
    BY <1>1, <2>1, LoadOnlyBook
  <2> QED BY <1>0, <1>1, <1>2, <2>1, <2>2 DEF BookInv, JobInv
<1>4. CASE RunDone
  <2>1. /\ store' = Recorded(manual.job, manual.stale) /\ disk' = store'
        /\ manual.stale \in BOOLEAN /\ Finished(manual.job, "gone")
        /\ UNCHANGED journal /\ manual'.phase = "idle" /\ added[manual.job] = None
    BY <1>0, <1>4 DEF RunDone, RestoreRunning, NoRun, JobInv, BookInv, TypeOK, Run
  <2>2. /\ Book(store', added', dels', fate')
        /\ Apart(store', added')
        /\ \A i \in dels' : fate'[i] \in {"gone", "either"} /\ i \notin SystemJob
    BY <1>1, <2>1, RecordedBook
  <2> QED BY <1>0, <2>1, <2>2 DEF BookInv, JobInv
<1> QED BY <1>3, <1>4 DEF Manual

LEMMA HaltsBook ==
  ASSUME JobInv, Halts
  PROVE  BookInv'
<1>0. TypeOK
  BY DEF JobInv, TypeInv
<1>1. CASE Stop
  BY <1>1 DEF Stop, BookInv, JobInv, Loading, journal
<1>2. CASE Crash
  BY <1>2 DEF Crash, GoDown, NoRun, BookInv, JobInv, Loading, journal
<1>3. CASE CrashInMerge
  <2>1. /\ added' = Empty /\ dels' = {} /\ UNCHANGED <<disk, outside>>
        /\ ~Loading' /\ manual'.phase = "idle"
    BY <1>3 DEF CrashInMerge, GoDown, Loading, NoRun
  <2>2. \A j \in Job : fate'[j] = IF added[j] # None \/ j \in dels THEN "either" ELSE fate[j]
    BY <1>3 DEF CrashInMerge
  <2>3. Book(disk', added', dels', fate')
    BY <2>1, <2>2 DEF Book, Empty, JobInv, BookInv
  <2> QED BY <2>1, <2>3 DEF BookInv, JobInv
<1> QED BY <1>1, <1>2, <1>3 DEF Halts

LEMMA OtherBook ==
  ASSUME JobInv, ClockTicks \/ Poll \/ Unwind \/ UNCHANGED vars
  PROVE  BookInv'
<1>1. CASE Poll
  <2>1. /\ LoadOnly(TRUE) /\ Loading /\ UNCHANGED <<fate, outside, phase>>
        /\ manual'.phase = manual.phase /\ manual'.job = manual.job
    BY <1>1 DEF Poll, Orphan, JobInv, PhaseInv, TimerArmed, Loading, history, TypeInv, TypeOK, Run
  <2>2. /\ Book(disk', added', dels', fate)
        /\ Book(store', added', dels', fate)
        /\ Apart(store', added')
        /\ dels' \subseteq dels
        /\ \A j \in Job : added[j] = None => added'[j] = None
    BY <2>1, LoadOnlyBook
  <2> QED BY <2>1, <2>2 DEF BookInv, JobInv, TypeInv, TickShape
<1>2. CASE ClockTicks \/ Unwind \/ UNCHANGED vars
  <2>1. UNCHANGED <<disk, added, dels, store, phase, manual, fate, outside>>
    BY <1>2 DEF ClockTicks, Unwind, Unwound, vars, journal, gateway, history
  <2> QED BY <2>1 DEF BookInv, JobInv, Loading
<1> QED BY <1>1, <1>2

LEMMA JobStep == JobInv /\ [Next]_vars => BookInv'
BY BootBook, EditsBook, OutsideBook, TimerBook, ManualBook, HaltsBook, OtherBook DEF Next

LEMMA JobInvariant == Spec => []JobInv
<1>1. Init => JobInv
  BY InitType, PhaseInit, BookInit DEF JobInv
<1>2. JobInv /\ [Next]_vars => JobInv'
  BY TypeStep, PhaseStep, JobStep DEF JobInv
<1> QED BY <1>1, <1>2, PTL DEF Spec

\* A job that was accepted is listed until it is removed or has had its one run,
\* and a removed job does not come back, whatever loads, merges, ticks, manual
\* runs and crashes do to the store, the file and the journal.
THEOREM NoJobLost == Spec => []JobsKept
<1>1. JobInv => JobsKept
  BY BookIsJobsKept DEF JobInv, BookInv
<1> QED BY <1>1, JobInvariant, PTL

-----------------------------------------------------------------------------
(***************************************************************************)
(* The due times, as long as no tick is cancelled.                         *)
(***************************************************************************)
\* No job of table t is due (again) for a time of D.
Settled(t, D) ==
    \A d \in D : t[d[1]] # None /\ t[d[1]].enabled => t[d[1]].next # d[2]

\* Without a cancelled tick the flag guards every tick, a served time is past,
\* and the store of a tick forgets the time of a job when the job is done.
ServedInv ==
    /\ unwinding = {} /\ ~stale
    /\ timerActive <=> timer = "running"
    /\ \A d \in served \union due :
          d[2] \in 1 .. clock /\ added[d[1]] = None /\ fate[d[1]] # "none"
    /\ (due \ {current}) \intersect served = {}
    /\ Loading => /\ Settled(store, served \ {current})
                  /\ timer # "running" => Settled(disk, served)

OnceInv == ~disturbed => ServedInv

LEMMA NextRunLater ==
  ASSUME TypeOK, NEW j \in Job, NEW at \in Time, NEW k \in 1 .. clock
  PROVE  NextRun(j, at) # k
BY TimeAssumption DEF TypeOK, Time, NextRun

LEMMA LoadedSettled ==
  ASSUME JobInv, ServedInv, Loading
  PROVE  /\ Settled(Loaded, served \ {current})
         /\ timer # "running" => Settled(Loaded, served)
<1>0. TypeOK /\ TickShape
  BY DEF JobInv, TypeInv
<1>1. CASE timer = "running"
  BY <1>1 DEF ServedInv, Loaded
<1>2. CASE timer # "running"
  <2>1. Loaded = Merged /\ Settled(disk, served)
    BY <1>2 DEF ServedInv, Loaded
  <2>2. ASSUME NEW d \in served
        PROVE  Merged[d[1]] = None \/ Merged[d[1]] = disk[d[1]]
    <3>1. d[1] \in Job /\ added[d[1]] = None
      BY <1>0 DEF TypeOK, ServedInv
    <3> QED BY <3>1 DEF Merged
  <2>3. Settled(Merged, served)
    BY <2>1, <2>2 DEF Settled
  <2> QED BY <2>1, <2>3 DEF Settled
<1> QED BY <1>1, <1>2

\* The journal only loses "add" lines to a load.
LEMMA LoadAdded ==
  ASSUME NEW run, ClearJournal(run)
  PROVE  \A j \in Job : added[j] = None => added'[j] = None
BY DEF ClearJournal, journal, Empty

LEMMA EditOnce ==
  ASSUME JobInv, ServedInv, NEW S, Edit(S), ~disturbed', Settled(S, served),
         \A d \in served : fate'[d[1]] # "none"
  PROVE  ServedInv'
<1>0. TypeOK
  BY DEF JobInv, TypeInv
<1>1. /\ ClearJournal(running) /\ store' = S /\ disk' = S
      /\ timer # "running" /\ timer' = "sleeping" /\ unwinding' = unwinding
      /\ UNCHANGED <<clock, served, timerActive>>
      /\ due' = {} /\ current' = None /\ stale' = FALSE
  BY DEF Edit, LoadAndSave, Arm, CancelTimer, NoTick
<1>2. \A d \in served : added'[d[1]] = None
  BY <1>0, <1>1, LoadAdded DEF ServedInv, TypeOK
<1> QED BY <1>1, <1>2 DEF ServedInv, Settled

\* A load that saves only after a merge.
LEMMA LoadOnlyOnce ==
  ASSUME JobInv, ServedInv, Loading, NEW run, LoadOnly(run)
  PROVE  /\ Settled(store', served \ {current})
         /\ timer # "running" => Settled(disk', served)
         /\ \A d \in served \union due : added'[d[1]] = None
<1>0. TypeOK
  BY DEF JobInv, TypeInv
<1>1. \A d \in served \union due : added'[d[1]] = None
  BY <1>0, LoadAdded DEF LoadOnly, ServedInv, TypeOK
<1>2. Settled(store', served \ {current})
  BY LoadedSettled DEF LoadOnly
<1>3. timer # "running" => Settled(disk', served)
  BY LoadedSettled DEF LoadOnly, ServedInv
<1> QED BY <1>1, <1>2, <1>3

LEMMA BootOnce ==
  ASSUME JobInv, ServedInv, Boot, ~disturbed'
  PROVE  ServedInv'
<1>0. TypeOK /\ TickShape /\ ~Loading
  BY DEF JobInv, TypeInv, Boot, Register, Start, Loading
<1>1. timer = "none" /\ ~timerActive /\ current = None
  BY <1>0 DEF JobInv, PhaseInv, TickShape
<1>2. CASE Register
  <2>1. \A d \in served \union due : fate'[d[1]] # "none"
    BY <1>0, <1>2 DEF Register, ServedInv, TypeOK
  <2>2. ~Loading'
    BY <1>2 DEF Register, Loading
  <2> QED BY <1>1, <1>2, <2>1, <2>2 DEF Register, ServedInv, journal, tick
<1>3. CASE Start
  <2>1. /\ ClearJournal(TRUE) /\ disk' = store'
        /\ timer' = "sleeping" /\ unwinding' = unwinding
        /\ UNCHANGED <<clock, served, timerActive, fate>>
        /\ due' = {} /\ current' = None /\ stale' = FALSE
    BY <1>1, <1>3 DEF Start, LoadAndSave, Arm, CancelTimer, NoTick
  <2>2. \A d \in served : added'[d[1]] = None
    BY <1>0, <2>1, LoadAdded DEF ServedInv, TypeOK
  <2>3. ASSUME NEW d \in served, store'[d[1]] # None, store'[d[1]].enabled
        PROVE  store'[d[1]].next # d[2]
    <3> DEFINE j == d[1]
    <3>1. j \in Job /\ d[2] \in 1 .. clock
      BY <1>0 DEF TypeOK, ServedInv
    <3>2. store'[j] = IF Merged[j] # None /\ Merged[j].enabled
                      THEN [Merged[j] EXCEPT !.next = NextRun(j, Merged[j].at)]
                      ELSE Merged[j]
      BY <1>3, <3>1 DEF Start, LoadAndSave
    <3>3. Merged[j] # None => Merged[j] \in JobRecord
      BY <1>0, <3>1, MergedType DEF Table
    <3>4. Merged[j] # None => NextRun(j, Merged[j].at) # d[2]
      BY <1>0, <3>1, <3>3, NextRunLater DEF JobRecord
    <3> QED BY <2>3, <3>2, <3>3, <3>4 DEF JobRecord
  <2>4. Settled(store', served)
    BY <2>3 DEF Settled
  <2> QED BY <1>1, <2>1, <2>2, <2>4 DEF ServedInv, Settled
<1> QED BY <1>2, <1>3 DEF Boot

LEMMA EditsOnce ==
  ASSUME JobInv, ServedInv, Edits, ~disturbed'
  PROVE  ServedInv'
<1>0. TypeOK /\ TickShape /\ Loaded \in Table /\ 0 \in Time
  BY MergedType, TimeAssumption DEF JobInv, TypeInv, Time
<1>1. PICK j \in Job : \/ \E at \in Schedules(j) : AddJob(j, at) \/ UpdateJob(j, at)
                       \/ RemoveJob(j)
                       \/ \E on \in BOOLEAN : EnableJob(j, on)
                       \/ AskRun(j)
  BY DEF Edits
<1>2. Schedules(j) \subseteq Time
  BY <1>0 DEF Schedules
<1>3. ASSUME NEW S, Edit(S), S \in Table,
             \A i \in Job \ {j} : S[i] = Loaded[i],
             \A d \in served : fate'[d[1]] # "none",
             \A d \in served : d[1] = j /\ S[j] # None /\ S[j].enabled => S[j].next # d[2]
      PROVE  ServedInv'
  <2>1. Loading /\ timer # "running"
    BY <1>3 DEF Edit, Arm, CancelTimer, Loading
  <2>2. Settled(Loaded, served)
    BY <2>1, LoadedSettled
  <2>3. Settled(S, served)
    BY <1>0, <1>3, <2>2 DEF Settled, TypeOK
  <2> QED BY <1>3, <2>3, EditOnce
<1>4. \A d \in served : d[1] \in Job /\ d[2] \in 1 .. clock /\ fate[d[1]] # "none"
  BY <1>0 DEF TypeOK, ServedInv
<1>5. ASSUME NEW at \in Schedules(j), AddJob(j, at)
      PROVE  ServedInv'
  <2> DEFINE S == [Loaded EXCEPT ![j] = NewJob(j, at)]
  <2>1. S \in Table /\ \A i \in Job \ {j} : S[i] = Loaded[i]
    BY <1>0, <1>2, NextRunType DEF Table
  <2>2. Edit(S) /\ fate[j] = "none" /\ fate' = [fate EXCEPT ![j] = "kept"]
    BY <1>5 DEF AddJob
  <2>3. \A d \in served : d[1] # j /\ fate'[d[1]] # "none"
    BY <1>0, <1>4, <2>2 DEF TypeOK
  <2> QED BY <1>3, <2>1, <2>2, <2>3
<1>6. ASSUME NEW at \in Schedules(j), UpdateJob(j, at)
      PROVE  ServedInv'
  <2> DEFINE n == IF Loaded[j].enabled THEN NextRun(j, at) ELSE 0
             S == [Loaded EXCEPT ![j].at = at, ![j].next = n]
  <2>1. Edit(S) /\ Loaded[j] # None /\ UNCHANGED fate
    BY <1>6 DEF UpdateJob
  <2>2. n \in 0 .. MaxTime + 1 /\ Loaded[j] \in JobRecord
    BY <1>0, <1>2, <2>1, NextRunType, TimeAssumption DEF Table
  <2>3. S[j] = [Loaded[j] EXCEPT !.at = at, !.next = n] /\ S[j].next = n
        /\ \A i \in Job \ {j} : S[i] = Loaded[i]
    BY <1>0, <2>2 DEF Table, JobRecord
  <2>4. S \in Table
    <3>1. [Loaded[j] EXCEPT !.at = at, !.next = n] \in JobRecord
      BY <1>2, <2>2 DEF JobRecord
    <3> QED BY <1>0, <2>3, <3>1 DEF Table
  <2>5. \A d \in served : n # d[2]
    BY <1>0, <1>2, <1>4, NextRunLater
  <2>6. /\ Edit(S) /\ S \in Table /\ \A i \in Job \ {j} : S[i] = Loaded[i]
        /\ \A d \in served : fate'[d[1]] # "none"
        /\ \A d \in served : S[j].next # d[2]
    BY <1>4, <2>1, <2>3, <2>4, <2>5
  <2> HIDE DEF S
  <2> QED BY <1>3, <2>6
<1>7. CASE RemoveJob(j)
  <2> DEFINE S == [Loaded EXCEPT ![j] = None]
  <2>1. S \in Table /\ S[j] = None /\ \A i \in Job \ {j} : S[i] = Loaded[i]
    BY <1>0 DEF Table
  <2>2. Edit(S) /\ fate' = [fate EXCEPT ![j] = "gone"]
    BY <1>7 DEF RemoveJob
  <2>3. \A d \in served : fate'[d[1]] # "none"
    BY <1>0, <1>4, <2>2 DEF TypeOK
  <2> QED BY <1>3, <2>1, <2>2, <2>3
<1>8. ASSUME NEW on \in BOOLEAN, EnableJob(j, on)
      PROVE  ServedInv'
  <2> DEFINE n == IF on THEN NextRun(j, Loaded[j].at) ELSE 0
             S == [Loaded EXCEPT ![j].enabled = on, ![j].next = n]
  <2>1. Edit(S) /\ Loaded[j] # None /\ UNCHANGED fate
    BY <1>8 DEF EnableJob
  <2>2. Loaded[j] \in JobRecord /\ Loaded[j].at \in Time
    BY <1>0, <2>1 DEF Table, JobRecord
  <2>3. n \in 0 .. MaxTime + 1
    BY <1>0, <2>2, NextRunType, TimeAssumption
  <2>4. S[j] = [Loaded[j] EXCEPT !.enabled = on, !.next = n] /\ S[j].next = n
        /\ \A i \in Job \ {j} : S[i] = Loaded[i]
    BY <1>0, <2>2 DEF Table, JobRecord
  <2>5. S \in Table
    <3>1. [Loaded[j] EXCEPT !.enabled = on, !.next = n] \in JobRecord
      BY <2>2, <2>3 DEF JobRecord
    <3> QED BY <1>0, <2>4, <3>1 DEF Table
  <2>6. \A d \in served : n # d[2]
    BY <1>0, <2>2, <1>4, NextRunLater
  <2>7. /\ Edit(S) /\ S \in Table /\ \A i \in Job \ {j} : S[i] = Loaded[i]
        /\ \A d \in served : fate'[d[1]] # "none"
        /\ \A d \in served : S[j].next # d[2]
    BY <1>4, <2>1, <2>4, <2>5, <2>6
  <2> HIDE DEF S
  <2> QED BY <1>3, <2>7
<1>9. CASE AskRun(j)
  <2>1. /\ Loading /\ LoadOnly(running) /\ Loading' /\ stale' = FALSE
        /\ UNCHANGED <<clock, timer, timerActive, due, current, unwinding, fate, served>>
    BY <1>9 DEF AskRun, Loading, ServedInv, history
  <2>2. /\ Settled(store', served \ {current})
        /\ timer # "running" => Settled(disk', served)
        /\ \A d \in served \union due : added'[d[1]] = None
    BY <2>1, LoadOnlyOnce
  <2> QED BY <2>1, <2>2 DEF ServedInv, Settled
<1> QED BY <1>1, <1>5, <1>6, <1>7, <1>8, <1>9

LEMMA OutsideOnce ==
  ASSUME JobInv, ServedInv, Outside
  PROVE  ServedInv'
<1>0. TypeOK /\ UNCHANGED <<gateway, disk, served, clock>>
  BY DEF JobInv, TypeInv, Outside, FindOutside, AddOutside, RemoveOutside, history
<1>1. \A d \in served \union due : d[1] \in Job /\ fate[d[1]] # "none" /\ added[d[1]] = None
  BY <1>0 DEF TypeOK, ServedInv
<1>2. \A d \in served \union due : added'[d[1]] = None /\ fate'[d[1]] # "none"
  <2>1. CASE RemoveOutside
    BY <1>0, <1>1, <2>1 DEF RemoveOutside, TypeOK
  <2>2. ASSUME NEW j \in Job, NEW at, AddOutside(j, at)
        PROVE  \A d \in served \union due : added'[d[1]] = None /\ fate'[d[1]] # "none"
    BY <1>0, <1>1, <2>2 DEF AddOutside, TypeOK, Table
  <2>3. ASSUME NEW j \in Job, FindOutside(j)
        PROVE  \A d \in served \union due : added'[d[1]] = None /\ fate'[d[1]] # "none"
    BY <1>1, <2>3 DEF FindOutside, journal, history
  <2> QED BY <2>1, <2>2, <2>3 DEF Outside
<1> QED BY <1>0, <1>2 DEF ServedInv, Settled, Loading, gateway, tick

\* A job that has been recorded in the store is not due for a past time.
LEMMA RecordedSettled ==
  ASSUME JobInv, ServedInv, Loading, NEW c \in Job, NEW D \in SUBSET served,
         \A d \in D : d[1] = c \/ d # current
  PROVE  Settled(Recorded(c, FALSE), D)
<1>0. TypeOK /\ 0 \in Time
  BY TimeAssumption DEF JobInv, TypeInv, Time
<1> DEFINE R == Recorded(c, FALSE)
<1>1. \A i \in Job \ {c} : R[i] = store[i]
  BY <1>0 DEF Recorded, TypeOK, Table
<1>2. R[c] = None \/ (R[c].next = NextRun(c, 0))
  <2>1. CASE store[c] = None \/ c \in OneShot
    BY <1>0, <2>1 DEF Recorded, TypeOK, Table
  <2>2. CASE store[c] # None /\ c \notin OneShot
    <3>1. store[c] \in JobRecord
      BY <1>0, <2>2 DEF TypeOK, Table
    <3>2. R[c] = [store[c] EXCEPT !.next = NextRun(c, 0)]
      BY <1>0, <2>2 DEF Recorded, TypeOK, Table
    <3> QED BY <3>1, <3>2 DEF JobRecord
  <2> QED BY <2>1, <2>2
<1>3. ASSUME NEW d \in D, R[d[1]] # None, R[d[1]].enabled
      PROVE  R[d[1]].next # d[2]
  <2>1. d[1] \in Job /\ d[2] \in 1 .. clock
    BY <1>0 DEF TypeOK, ServedInv
  <2>2. CASE d[1] = c
    BY <1>0, <1>2, <1>3, <2>1, <2>2, NextRunLater
  <2>3. CASE d[1] # c
    BY <1>1, <1>3, <2>1, <2>3 DEF ServedInv, Settled
  <2> QED BY <2>2, <2>3
<1> QED BY <1>3 DEF Settled

LEMMA TimerOnce ==
  ASSUME JobInv, ServedInv, Timer
  PROVE  ServedInv' /\ ~ServesAgain
<1>0. TypeOK /\ TickShape /\ Loaded \in Table
  BY MergedType DEF JobInv, TypeInv
<1>1. Loading /\ UNCHANGED phase
  BY DEF JobInv, PhaseInv, Timer, TickIdle, TickBegins, TickFires, NextJob, TickEnds, JobDone
<1>2. CASE TickIdle
  <2>1. /\ timer = "sleeping" /\ ClearJournal(running) /\ store' = Loaded /\ disk' = Loaded
        /\ UNCHANGED <<clock, unwinding, fate, timer, due, current, stale, served>>
        /\ timerActive' = FALSE
    BY <1>2 DEF TickIdle, TickFires, LoadAndSave
  <2>2. Settled(Loaded, served) /\ current = None /\ due = {}
    BY <1>0, <1>1, <2>1, LoadedSettled DEF TickShape
  <2>3. \A d \in served : added'[d[1]] = None
    BY <1>0, <2>1, LoadAdded DEF ServedInv, TypeOK
  <2>4. ~ServesAgain
    BY <2>1 DEF ServesAgain
  <2> QED BY <1>1, <2>1, <2>2, <2>3, <2>4 DEF ServedInv, Settled
<1>3. CASE TickBegins
  <2>1. /\ timer = "sleeping" /\ running /\ LoadOnly(TRUE) /\ store' = Loaded
        /\ timer' = "running" /\ timerActive' = TRUE /\ stale' = FALSE
        /\ due' = {<<j, Loaded[j].next>> : j \in {i \in Job : IsDue(Loaded[i])}}
        /\ UNCHANGED <<clock, unwinding, fate>>
    BY <1>3 DEF TickBegins, TickFires, LoadOnly
  <2>2. PICK d \in due' : current' = d /\ served' = served \union {d}
    BY <1>3 DEF TickBegins, Execute
  <2>3. Settled(Loaded, served) /\ \A e \in served : added'[e[1]] = None
    BY <1>0, <1>1, <2>1, LoadedSettled, LoadOnlyOnce
  <2>4. \A j \in Job : Loaded[j] # None => added'[j] = None /\ fate[j] # "none"
    BY <1>1, <2>1, LoadOnlyBook
  <2>5. ASSUME NEW e \in due'
        PROVE  /\ e[2] \in 1 .. clock /\ added'[e[1]] = None /\ fate[e[1]] # "none"
               /\ e \notin served
    <3>1. PICK j \in Job : IsDue(Loaded[j]) /\ e = <<j, Loaded[j].next>>
      BY <2>1
    <3>2. Loaded[j] \in JobRecord
      BY <1>0, <3>1 DEF IsDue, Table
    <3>3. e[2] \in 1 .. clock
      BY <1>0, <3>1, <3>2, TimeAssumption DEF IsDue, JobRecord, TypeOK, Time
    <3>4. e \notin served
      BY <2>3, <3>1 DEF Settled, IsDue
    <3> QED BY <2>4, <3>1, <3>3, <3>4 DEF IsDue
  <2>6. ~ServesAgain
    BY <2>2, <2>5, <1>0, <2>1 DEF ServesAgain
  <2> QED BY <1>1, <2>1, <2>2, <2>3, <2>5, <2>6 DEF ServedInv, Settled
<1>4. CASE NextJob
  <2>1. /\ timer = "running" /\ timer' = timer /\ store' = Recorded(current[1], FALSE)
        /\ Finished(current[1], "either") /\ due' = due \ {current}
        /\ UNCHANGED <<clock, added, unwinding, disk, timerActive, stale>>
    BY <1>0, <1>4 DEF NextJob, JobDone, ServedInv, journal, TypeOK
  <2>2. PICK d \in due' : current' = d /\ served' = served \union {d}
    BY <1>4 DEF NextJob, Execute
  <2>3. current \in Job \X Time /\ current[1] \in Job
    BY <1>0, <2>1 DEF TypeOK, TickShape
  <2>4. d \notin served /\ (due' \ {d}) \intersect served' = {}
    BY <2>1, <2>2 DEF ServedInv
  <2>5. Settled(store', served)
    BY <1>1, <2>1, <2>3, RecordedSettled
  <2>6. \A e \in served' \union due' :
           e[2] \in 1 .. clock /\ added[e[1]] = None /\ fate[e[1]] # "none"
    BY <2>1, <2>2 DEF ServedInv
  <2>7. \A e \in served' \union due' : fate'[e[1]] # "none"
    BY <1>0, <2>1, <2>3, <2>6 DEF Finished, TypeOK
  <2>8. ~ServesAgain
    BY <2>2, <2>4 DEF ServesAgain
  <2> QED BY <1>1, <2>1, <2>2, <2>4, <2>5, <2>6, <2>7, <2>8 DEF ServedInv, Settled
<1>5. CASE TickEnds
  <2>1. /\ timer = "running" /\ timer' = "sleeping" /\ timerActive' = FALSE
        /\ store' = Recorded(current[1], FALSE) /\ disk' = store'
        /\ Finished(current[1], "either") /\ due' = {} /\ current' = None /\ stale' = FALSE
        /\ UNCHANGED <<clock, added, unwinding, served>>
    BY <1>0, <1>5 DEF TickEnds, JobDone, NoTick, ServedInv, journal, TypeOK
  <2>2. current \in Job \X Time /\ current[1] \in Job
    BY <1>0, <2>1 DEF TypeOK, TickShape
  <2>3. Settled(store', served)
    BY <1>1, <2>1, <2>2, RecordedSettled
  <2>4. \A e \in served : fate'[e[1]] # "none"
    BY <1>0, <2>1, <2>2 DEF Finished, TypeOK, ServedInv
  <2>5. ~ServesAgain
    BY <2>1 DEF ServesAgain
  <2> QED BY <1>1, <2>1, <2>3, <2>4, <2>5 DEF ServedInv, Settled
<1> QED BY <1>2, <1>3, <1>4, <1>5 DEF Timer

LEMMA ManualOnce ==
  ASSUME JobInv, ServedInv, Manual, ~disturbed'
  PROVE  ServedInv'
<1>0. TypeOK /\ TickShape /\ UNCHANGED phase /\ manual.phase # "idle"
  BY DEF JobInv, TypeInv, Manual, RunBegins, RunRefused, RunDone, RunStarts
<1>1. Loading /\ manual.job \in Job
  BY <1>0 DEF JobInv, PhaseInv, TickShape
<1>2. CASE RunBegins
  <2>1. LoadOnly(TRUE) /\ stale' = FALSE
        /\ UNCHANGED <<clock, timer, timerActive, due, current, unwinding, fate, served>>
    BY <1>2 DEF RunBegins, RunStarts, ServedInv
  <2>2. /\ Settled(store', served \ {current})
        /\ timer # "running" => Settled(disk', served)
        /\ \A d \in served \union due : added'[d[1]] = None
    BY <1>1, <2>1, LoadOnlyOnce
  <2> QED BY <1>0, <2>1, <2>2 DEF ServedInv, Settled, Loading
<1>3. ASSUME NEW was, RestoreRunning(was)
      PROVE  /\ unwinding' = unwinding /\ due' = due /\ current' = current /\ ~stale'
             /\ timer' = timer \/ (timer # "running" /\ timer' = "sleeping")
  <2>1. CASE was
    BY <1>0, <1>3, <2>1 DEF RestoreRunning, Arm, CancelTimer, NoTick, TickShape
  <2>2. CASE ~was
    BY <1>3, <2>2 DEF RestoreRunning, ServedInv
  <2> QED BY <2>1, <2>2
<1>4. CASE RunRefused
  <2>1. LoadOnly(TRUE) /\ UNCHANGED <<clock, timerActive, fate, served>> /\ RestoreRunning(running)
    BY <1>4 DEF RunRefused, RunStarts
  <2>2. /\ Settled(store', served \ {current})
        /\ timer # "running" => Settled(disk', served)
        /\ \A d \in served \union due : added'[d[1]] = None
    BY <1>1, <2>1, LoadOnlyOnce
  <2> QED BY <1>0, <1>3, <2>1, <2>2 DEF ServedInv, Settled, Loading
<1>5. CASE RunDone
  <2>1. /\ store' = Recorded(manual.job, manual.stale) /\ disk' = store'
        /\ Finished(manual.job, "gone") /\ manual.stale \in BOOLEAN /\ RestoreRunning(manual.was)
        /\ UNCHANGED <<clock, added, timerActive, served>>
    BY <1>0, <1>5 DEF RunDone, journal, TypeOK, Run
  <2>2. Settled(store', served \ {current})
    <3>1. Settled(Recorded(manual.job, FALSE), served \ {current})
      BY <1>1, RecordedSettled
    <3>2. Settled(Recorded(manual.job, TRUE), served \ {current})
      <4>1. \A i \in Job : Recorded(manual.job, TRUE)[i] \in {None, store[i]}
        BY <1>0, <1>1 DEF Recorded, TypeOK, Table
      <4> QED BY <1>0, <1>1, <4>1 DEF ServedInv, Settled, TypeOK
    <3> QED BY <2>1, <3>1, <3>2
  <2>3. \A d \in served \union due : fate'[d[1]] # "none"
    BY <1>0, <1>1, <2>1 DEF Finished, TypeOK, ServedInv
  <2>4. timer # "running" => current = None
    BY <1>0 DEF TickShape
  <2>5. timer # "running" => Settled(disk', served)
    BY <1>0, <2>1, <2>2, <2>4, NoneAssumption DEF Settled, TypeOK
  <2> QED BY <1>0, <1>3, <2>1, <2>2, <2>3, <2>5 DEF ServedInv, Settled, Loading
<1> QED BY <1>2, <1>4, <1>5 DEF Manual

LEMMA HaltsOnce ==
  ASSUME JobInv, ServedInv, Halts, ~disturbed'
  PROVE  ServedInv'
<1>0. TypeOK /\ TickShape
  BY DEF JobInv, TypeInv
<1>1. CASE Stop
  <2>1. /\ timer # "running" /\ timer' = "none" /\ due' = {} /\ current' = None /\ ~stale'
        /\ unwinding' = unwinding /\ phase = "up"
        /\ UNCHANGED <<clock, disk, added, store, timerActive, fate, served>>
    BY <1>1 DEF Stop, CancelTimer, NoTick, journal
  <2>2. current = None
    BY <1>0, <2>1 DEF TickShape
  <2> QED BY <2>1, <2>2 DEF ServedInv, Settled, Loading
<1>2. CASE Crash \/ CrashInMerge
  <2>1. /\ ~Loading' /\ timer' = "none" /\ timerActive' = FALSE /\ unwinding' = {}
        /\ due' = {} /\ current' = None /\ stale' = FALSE /\ UNCHANGED <<clock, served>>
    BY <1>2 DEF Crash, CrashInMerge, GoDown, NoTick, Loading
  <2>2. \A d \in served : added'[d[1]] = None /\ fate'[d[1]] # "none"
    BY <1>0, <1>2 DEF Crash, CrashInMerge, journal, Empty, ServedInv, TypeOK
  <2> QED BY <2>1, <2>2 DEF ServedInv
<1> QED BY <1>1, <1>2 DEF Halts

LEMMA OtherOnce ==
  ASSUME JobInv, ServedInv, ClockTicks \/ Poll \/ Unwind \/ UNCHANGED vars
  PROVE  ServedInv'
<1>0. TypeOK
  BY DEF JobInv, TypeInv
<1>1. CASE ClockTicks
  <2>1. clock' = clock + 1 /\ UNCHANGED <<disk, journal, outside, gateway, history>>
    BY <1>1 DEF ClockTicks
  <2>2. \A d \in served \union due : d[2] \in 1 .. clock'
    BY <1>0, <2>1, TimeAssumption DEF ServedInv, TypeOK, Time
  <2> QED BY <2>1, <2>2 DEF ServedInv, Settled, Loading, journal, gateway, tick, history
<1>2. CASE Poll
  <2>1. /\ Loading /\ LoadOnly(running) /\ Loading' /\ stale' = FALSE
        /\ UNCHANGED <<clock, timer, timerActive, due, current, unwinding, fate, served>>
    BY <1>2 DEF Poll, Loading, ServedInv, history
  <2>2. /\ Settled(store', served \ {current})
        /\ timer # "running" => Settled(disk', served)
        /\ \A d \in served \union due : added'[d[1]] = None
    BY <2>1, LoadOnlyOnce
  <2> QED BY <2>1, <2>2 DEF ServedInv, Settled
<1>3. CASE Unwind
  BY <1>3 DEF Unwind, Unwound, ServedInv
<1>4. CASE UNCHANGED vars
  BY <1>4 DEF vars, ServedInv, Settled, Loading, journal, gateway, tick, history
<1> QED BY <1>1, <1>2, <1>3, <1>4

\* A cancelled tick is never forgotten.
LEMMA DisturbedStays == [Next]_vars /\ disturbed => disturbed'
BY DEF Next, vars, history, ClockTicks, Boot, Register, Start, Arm, CancelTimer, Poll, Edits,
       AddJob, UpdateJob, RemoveJob, EnableJob, Edit, AskRun, Outside, FindOutside, AddOutside,
       RemoveOutside, Timer, TickFires, TickIdle, TickBegins, NextJob, TickEnds, JobDone,
       Unwind, Unwound, Manual, RunBegins, RunRefused, RunDone, RestoreRunning, Halts, Stop,
       Crash, CrashInMerge, GoDown

LEMMA OnceStep == JobInv /\ OnceInv /\ [Next]_vars => OnceInv'
BY BootOnce, EditsOnce, OutsideOnce, TimerOnce, ManualOnce, HaltsOnce, OtherOnce, DisturbedStays
   DEF Next, OnceInv

LEMMA OnceInvariant == Spec => [](JobInv /\ OnceInv)
<1>1. Init => OnceInv
  BY DEF Init, OnceInv, ServedInv, Loading
<1> QED BY <1>1, OnceStep, JobInvariant, PTL DEF Spec

\* Only the timer task picks a job to execute.
LEMMA OnlyTimer ==
  ASSUME JobInv, [Next]_vars, ServesAgain
  PROVE  Timer
<1>1. current' # None /\ current' # current
  BY DEF ServesAgain
<1> QED BY <1>1
        DEF Next, vars, gateway, tick, ClockTicks, Boot, Register, Start, Arm, CancelTimer, NoTick,
            Poll, Edits, AddJob, UpdateJob, RemoveJob, EnableJob, Edit, AskRun, Outside,
            FindOutside, AddOutside, RemoveOutside, Unwind, Unwound, Manual, RunBegins,
            RunRefused, RunDone, RestoreRunning, Halts, Stop, Crash, CrashInMerge, GoDown

\* As long as no tick is cancelled, no job is executed twice for one due time:
\* not after a poll, a merge, a manual run, an edit between ticks or a crash.
THEOREM ServedOncePerTime == Spec => ServedOnceUndisturbed
<1>1. JobInv /\ OnceInv /\ [Next]_vars => [~disturbed => ~ServesAgain]_vars
  BY TimerOnce, OnlyTimer DEF OnceInv
<1> QED BY <1>1, OnceInvariant, PTL DEF Spec, ServedOnceUndisturbed

-----------------------------------------------------------------------------
(***************************************************************************)
(* The agenda: what other instances, the timer and the process see of the  *)
(* jobs, as a refinement of Agenda.                                        *)
(***************************************************************************)
\* The store never has a job the file lacks, and lacks one the file has only in a
\* tick that has executed it or was cancelled; what the journal adds is new; and
\* a tick takes each job once, at a time that has come.
AgendaInv ==
    /\ phase # "down" => \A j \in Job : store[j] # None => disk[j] # None
    /\ phase = "registered" \/ (Loading /\ ~disturbed /\ timer # "running")
          => SameJobs(store, disk)
    /\ Loading => Apart(disk, added)
    /\ \A d \in due : added[d[1]] = None /\ fate[d[1]] # "none" /\ d[2] \in 1 .. clock
    /\ \A d, e \in due : d[1] = e[1] => d = e
    /\ \A j \in Job : added[j] # None => fate[j] # "none" /\ j \notin SystemJob
    /\ outside # None => fate[outside] # "none"
    /\ manual.phase # "idle" => manual.job \notin SystemJob

CronInv == JobInv /\ OnceInv /\ AgendaInv

\* A job that is known stays known.
LEMMA FateStays ==
  ASSUME TypeInv, [Next]_vars, NEW j \in Job, fate[j] # "none"
  PROVE  fate'[j] # "none"
<1>0. TypeOK /\ fate[j] \in {"kept", "gone", "either"}
  BY DEF TypeInv, TypeOK
<1>1. CASE Boot
  BY <1>0, <1>1 DEF Boot, Register, Start, TypeOK
<1>2. CASE Edits
  BY <1>0, <1>2 DEF Edits, AddJob, UpdateJob, RemoveJob, EnableJob, AskRun, history, TypeOK
<1>3. CASE Outside
  BY <1>0, <1>3 DEF Outside, FindOutside, AddOutside, RemoveOutside, history, TypeOK
<1>4. CASE Timer
  BY <1>0, <1>4 DEF Timer, TickIdle, TickBegins, TickFires, NextJob, TickEnds, JobDone, Finished,
                    TypeOK
<1>5. CASE Manual
  BY <1>0, <1>5 DEF Manual, RunBegins, RunRefused, RunStarts, RunDone, Finished, TypeOK
<1>6. CASE Halts
  BY <1>0, <1>6 DEF Halts, Stop, Crash, CrashInMerge, TypeOK
<1>7. CASE ClockTicks \/ Poll \/ Unwind \/ UNCHANGED vars
  BY <1>7 DEF ClockTicks, Poll, Unwind, Unwound, vars, history
<1> QED BY <1>1, <1>2, <1>3, <1>4, <1>5, <1>6, <1>7 DEF Next

\* A journal that says nothing new adds nothing and removes nothing.
LEMMA NothingToMerge ==
  ASSUME ~Effective
  PROVE  SameJobs(Merged, disk) /\ added = Empty
<1>1. added = Empty /\ \A j \in dels : j \in Job => disk[j] = None
  BY DEF Effective
<1>2. ASSUME NEW j \in Job
      PROVE  Merged[j] = IF j \in dels THEN None ELSE disk[j]
  BY <1>1 DEF Merged, Empty
<1> QED BY <1>1, <1>2 DEF SameJobs

\* What a load leaves of the two tables.
LEMMA ReadTables ==
  ASSUME CronInv, Loading, LoadOnly(TRUE)
  PROVE  /\ \A j \in Job : store'[j] # None => disk'[j] # None
         /\ Apart(disk', added')
         /\ \A j \in Job : added[j] = None => added'[j] = None
         /\ ~disturbed /\ timer # "running" => SameJobs(store', disk')
<1>1. CASE timerActive
  <2>1. store' = store /\ disk' = disk /\ added' = added
    BY <1>1 DEF LoadOnly, ClearJournal, Merges, Loaded, journal
  <2> QED BY <2>1 DEF CronInv, AgendaInv, Loading
<1>2. CASE ~timerActive /\ Effective
  <2>1. store' = Merged /\ disk' = Merged /\ added' = Empty
    BY <1>2 DEF LoadOnly, ClearJournal, Merges, Loaded
  <2> QED BY <2>1 DEF Apart, Empty, SameJobs
<1>3. CASE ~timerActive /\ ~Effective
  <2>1. store' = Merged /\ disk' = disk /\ added' = added
    BY <1>3 DEF LoadOnly, ClearJournal, Merges, Loaded, journal
  <2> QED BY <1>3, <2>1, NothingToMerge DEF Apart, Empty, SameJobs
<1> QED BY <1>1, <1>2, <1>3

LEMMA AgendaInit == Init => AgendaInv
BY DEF Init, AgendaInv, Loading, NoRun, Empty

\* A step that ends the tick or leaves none, and saves or clears what it loads.
LEMMA NoTickAgenda ==
  ASSUME CronInv, BookInv', [Next]_vars, due' = {},
         phase' # "down" => store' = disk',
         \A j \in Job : added[j] = None => added'[j] = None,
         outside' = outside,
         manual'.phase # "idle" => manual.phase # "idle" /\ manual'.job = manual.job
  PROVE  AgendaInv'
<1>1. \A j \in Job : fate[j] # "none" => fate'[j] # "none"
  BY FateStays DEF CronInv, JobInv
<1>2. outside # None => outside \in Job
  BY DEF CronInv, JobInv, TypeInv, TypeOK
<1>3. Loading' => phase' # "down"
  BY DEF Loading
<1> QED BY <1>1, <1>2, <1>3 DEF CronInv, AgendaInv, BookInv, SameJobs

LEMMA BootAgenda ==
  ASSUME CronInv, BookInv', Boot
  PROVE  AgendaInv'
<1>1. [Next]_vars /\ manual' = manual /\ outside' = outside
  BY DEF Boot, Register, Start, Next
<1>2. CASE Register
  <2>1. due = {}
    BY <1>2 DEF Register, CronInv, JobInv, PhaseInv, TypeInv, TickShape, Loading
  <2>2. due' = {} /\ added' = added /\ disk' = store'
    BY <1>2, <2>1 DEF Register, tick, journal
  <2> QED BY <1>1, <2>2, NoTickAgenda
<1>3. CASE Start
  <2>1. due' = {} /\ disk' = store' /\ ClearJournal(TRUE)
    BY <1>3 DEF Start, LoadAndSave, Arm, CancelTimer, NoTick
  <2> QED BY <1>1, <2>1, LoadAdded, NoTickAgenda
<1> QED BY <1>2, <1>3 DEF Boot

\* A load that leaves the tick alone.
LEMMA ReadAgenda ==
  ASSUME CronInv, BookInv', [Next]_vars, Loading, Loading', LoadOnly(TRUE),
         UNCHANGED <<clock, outside, timer, due, disturbed>>,
         manual'.phase # "idle" => manual'.job \notin SystemJob
  PROVE  AgendaInv'
<1>1. \A j \in Job : fate[j] # "none" => fate'[j] # "none"
  BY FateStays DEF CronInv, JobInv
<1>2. /\ \A j \in Job : store'[j] # None => disk'[j] # None
      /\ Apart(disk', added')
      /\ \A j \in Job : added[j] = None => added'[j] = None
      /\ ~disturbed /\ timer # "running" => SameJobs(store', disk')
  BY ReadTables
<1>3. \A d \in due : d[1] \in Job
  BY DEF CronInv, JobInv, TypeInv, TypeOK
<1>4. outside # None => outside \in Job
  BY DEF CronInv, JobInv, TypeInv, TypeOK
<1>5. phase' # "registered"
  BY DEF Loading
<1> QED BY <1>1, <1>2, <1>3, <1>4, <1>5 DEF CronInv, AgendaInv

LEMMA EditsAgenda ==
  ASSUME CronInv, BookInv', Edits
  PROVE  AgendaInv'
<1>1. [Next]_vars /\ phase = "up" /\ running /\ Loading
  BY DEF Next, Edits, AddJob, UpdateJob, RemoveJob, EnableJob, Edit, AskRun, CronInv, JobInv,
         PhaseInv, TimerArmed, Loading
<1>2. ASSUME NEW S, Edit(S)
      PROVE  AgendaInv'
  <2>1. due' = {} /\ disk' = store' /\ ClearJournal(running) /\ outside' = outside
        /\ manual' = Orphan(manual)
    BY <1>2 DEF Edit, LoadAndSave, Arm, CancelTimer, NoTick
  <2>2. manual'.phase = manual.phase /\ manual'.job = manual.job
    BY <2>1 DEF Orphan, CronInv, JobInv, TypeInv, TypeOK, Run
  <2> QED BY <1>1, <2>1, <2>2, LoadAdded, NoTickAgenda
<1>3. ASSUME NEW j \in Job, AskRun(j)
      PROVE  AgendaInv'
  <2>1. /\ LoadOnly(TRUE) /\ Loading' /\ j \notin SystemJob /\ manual'.job = j
        /\ UNCHANGED <<clock, outside, timer, due, disturbed>>
    BY <1>1, <1>3 DEF AskRun, Loading, NoRun, history
  <2> QED BY <1>1, <2>1, ReadAgenda
<1> QED BY <1>2, <1>3 DEF Edits, AddJob, UpdateJob, RemoveJob, EnableJob

LEMMA OutsideAgenda ==
  ASSUME CronInv, Outside
  PROVE  AgendaInv'
<1>0. TypeOK /\ UNCHANGED <<gateway, disk, clock, disturbed>> /\ [Next]_vars
  BY DEF CronInv, JobInv, TypeInv, Outside, FindOutside, AddOutside, RemoveOutside, history, Next
<1>1. \A j \in Job : fate[j] # "none" => fate'[j] # "none"
  BY <1>0, FateStays DEF CronInv, JobInv
<1>2. \A d \in due : d[1] \in Job
  BY <1>0 DEF TypeOK
<1>3. ASSUME NEW j \in Job, FindOutside(j)
      PROVE  AgendaInv'
  <2>1. fate[j] # "none"
    <3>1. Merged[j] # None
      BY <1>3 DEF FindOutside
    <3> QED BY <3>1, BookIsJobsKept DEF JobsKept, CronInv, JobInv, BookInv
  <2> QED BY <1>0, <1>3, <2>1
          DEF FindOutside, CronInv, AgendaInv, gateway, tick, history, journal, Loading
<1>4. ASSUME NEW j \in Job, NEW at \in Schedules(j), AddOutside(j, at)
      PROVE  AgendaInv'
  <2>1. /\ fate[j] = "none" /\ j \notin SystemJob /\ outside' = outside
        /\ fate'[j] = "kept" /\ \A i \in Job \ {j} : added'[i] = added[i]
    BY <1>0, <1>4 DEF AddOutside, TypeOK, Table
  <2>2. disk[j] = None
    BY <2>1 DEF CronInv, JobInv, BookInv, Book
  <2>3. Loading => Apart(disk, added')
    BY <2>1, <2>2 DEF CronInv, AgendaInv, Apart
  <2>4. \A d \in due : added'[d[1]] = None
    BY <1>2, <2>1 DEF CronInv, AgendaInv
  <2>5. \A i \in Job : added'[i] # None => fate'[i] # "none" /\ i \notin SystemJob
    BY <1>1, <2>1 DEF CronInv, AgendaInv
  <2>6. outside # None => outside \in Job
    BY <1>0 DEF TypeOK
  <2> QED BY <1>0, <1>1, <1>2, <2>1, <2>3, <2>4, <2>5, <2>6
          DEF CronInv, AgendaInv, gateway, tick, Loading
<1>5. CASE RemoveOutside
  <2>1. outside' = None /\ added' = added
    BY <1>5 DEF RemoveOutside
  <2> QED BY <1>0, <1>1, <1>2, <2>1 DEF CronInv, AgendaInv, gateway, tick, Loading
<1> QED BY <1>3, <1>4, <1>5 DEF Outside

\* The jobs of the store once j has been executed.
LEMMA RecordedJobs ==
  ASSUME TypeOK, NEW j \in Job, NEW orphan \in BOOLEAN
  PROVE  \A i \in Job : Recorded(j, orphan)[i] # None
                           <=> store[i] # None /\ i \notin {j} \intersect OneShot
<1>1. \A i \in Job \ {j} : Recorded(j, orphan)[i] = store[i]
  BY DEF Recorded, TypeOK, Table
<1>2. CASE store[j] = None \/ j \in OneShot
  <2>1. Recorded(j, orphan)[j] = None
    BY <1>2 DEF Recorded, TypeOK, Table
  <2> QED BY <1>1, <1>2, <2>1
<1>3. CASE store[j] # None /\ j \notin OneShot
  <2>1. store[j] \in JobRecord /\ NextRun(j, 0) \in 0 .. MaxTime + 1
    <3>1. 0 \in Time
      BY TimeAssumption DEF Time
    <3> QED BY <1>3, <3>1, NextRunType DEF TypeOK, Table
  <2>2. [store[j] EXCEPT !.next = NextRun(j, 0)] # None
    BY <2>1, NoneAssumption DEF JobRecord
  <2>3. Recorded(j, orphan)[j] # None
    BY <1>3, <2>2 DEF Recorded, TypeOK, Table
  <2> QED BY <1>1, <1>3, <2>3
<1> QED BY <1>2, <1>3

LEMMA TimerAgenda ==
  ASSUME CronInv, BookInv', Timer
  PROVE  AgendaInv'
<1>0. TypeOK /\ [Next]_vars /\ UNCHANGED <<phase, outside, clock>>
  BY DEF CronInv, JobInv, TypeInv, Timer, TickIdle, TickBegins, TickFires, NextJob, TickEnds,
         JobDone, Next
<1>1. Loading /\ Loading'
  BY <1>0 DEF CronInv, JobInv, PhaseInv, Timer, TickIdle, TickBegins, TickFires, NextJob, TickEnds,
         JobDone, Loading
<1>2. \A j \in Job : fate[j] # "none" => fate'[j] # "none"
  BY <1>0, FateStays DEF CronInv, JobInv
<1>3. CASE TickIdle
  <2>1. /\ timer = "sleeping" /\ ClearJournal(running) /\ disk' = store' /\ due' = due
        /\ manual'.phase = manual.phase /\ manual'.job = manual.job
    BY <1>0, <1>3 DEF TickIdle, TickFires, LoadAndSave, Orphan, TypeOK, Run
  <2>2. due = {}
    BY <2>1 DEF CronInv, JobInv, TypeInv, TickShape
  <2> QED BY <1>0, <2>1, <2>2, LoadAdded, NoTickAgenda
<1>4. CASE TickBegins
  <2>1. /\ timer = "sleeping" /\ LoadOnly(TRUE) /\ timer' = "running"
        /\ due' = {<<j, Loaded[j].next>> : j \in {i \in Job : IsDue(Loaded[i])}}
        /\ manual'.phase = manual.phase /\ manual'.job = manual.job
        /\ UNCHANGED <<disturbed, fate>>
    BY <1>0, <1>4 DEF TickBegins, TickFires, Orphan, TypeOK, Run
  <2>2. /\ \A j \in Job : store'[j] # None => disk'[j] # None
        /\ Apart(disk', added')
        /\ \A j \in Job : added[j] = None => added'[j] = None
    BY <1>1, <2>1, ReadTables
  <2>3. \A j \in Job : Loaded[j] # None => added'[j] = None /\ fate[j] # "none"
    BY <1>1, <2>1, LoadOnlyBook DEF CronInv
  <2>4. ASSUME NEW d \in due'
        PROVE  /\ d[1] \in Job /\ d = <<d[1], Loaded[d[1]].next>>
               /\ d[2] \in 1 .. clock /\ added'[d[1]] = None /\ fate[d[1]] # "none"
    <3>1. PICK j \in Job : IsDue(Loaded[j]) /\ d = <<j, Loaded[j].next>>
      BY <2>1
    <3>2. Loaded[j] \in JobRecord
      BY <1>0, <3>1, MergedType DEF IsDue, Table
    <3>3. d[2] \in 1 .. clock
      BY <1>0, <3>1, <3>2, TimeAssumption DEF IsDue, JobRecord, TypeOK, Time
    <3> QED BY <2>3, <3>1, <3>3 DEF IsDue
  <2>5. outside # None => outside \in Job
    BY <1>0 DEF TypeOK
  <2>6. \A d, e \in due' : d[1] = e[1] => d = e
    BY <2>4
  <2>7. \A d \in due' : added'[d[1]] = None /\ fate'[d[1]] # "none" /\ d[2] \in 1 .. clock'
    BY <1>0, <2>1, <2>4
  <2> QED BY <1>0, <1>1, <2>1, <2>2, <2>5, <2>6, <2>7 DEF CronInv, AgendaInv, Loading
<1>5. CASE NextJob \/ TickEnds
  <2>1. /\ current[1] \in Job /\ stale \in BOOLEAN
        /\ store' = Recorded(current[1], stale) /\ due' \subseteq due
        /\ UNCHANGED <<added, manual, disturbed>>
    BY <1>0, <1>5 DEF NextJob, TickEnds, JobDone, NoTick, CronInv, JobInv, TypeInv, TickShape,
                      TypeOK, journal
  <2>2. \A j \in Job : store'[j] # None => store[j] # None
    BY <1>0, <2>1, RecordedJobs
  <2>3. \A d \in due : d[1] \in Job
    BY <1>0 DEF TypeOK
  <2>4. CASE NextJob
    <3>1. disk' = disk /\ timer' = "running"
      BY <2>4 DEF NextJob, JobDone
    <3>2. phase' # "registered" /\ phase # "down"
      BY <1>1 DEF Loading
    <3>3. \A j \in Job : store'[j] # None => disk'[j] # None
      BY <2>2, <3>1, <3>2 DEF CronInv, AgendaInv
    <3>4. outside # None => outside \in Job
      BY <1>0 DEF TypeOK
    <3> QED BY <1>0, <1>1, <1>2, <2>1, <2>3, <3>1, <3>2, <3>3, <3>4 DEF CronInv, AgendaInv
  <2>5. CASE TickEnds
    <3>1. due' = {} /\ disk' = store'
      BY <2>5 DEF TickEnds, NoTick
    <3> QED BY <1>0, <2>1, <3>1, NoTickAgenda
  <2> QED BY <1>5, <2>4, <2>5
<1> QED BY <1>3, <1>4, <1>5 DEF Timer

LEMMA ManualAgenda ==
  ASSUME CronInv, BookInv', Manual
  PROVE  AgendaInv'
<1>0. TypeOK /\ [Next]_vars /\ UNCHANGED <<phase, outside, clock>> /\ manual.phase # "idle"
  BY DEF CronInv, JobInv, TypeInv, Manual, RunBegins, RunRefused, RunDone, RunStarts, Next
<1>1. Loading /\ Loading' /\ phase # "registered"
  BY <1>0 DEF CronInv, JobInv, PhaseInv, Loading
<1>2. CASE RunBegins
  <2>1. LoadOnly(TRUE) /\ UNCHANGED <<timer, due, disturbed>> /\ manual'.job = manual.job
    BY <1>0, <1>2 DEF RunBegins, RunStarts, TypeOK, Run
  <2> QED BY <1>0, <1>1, <2>1, ReadAgenda DEF CronInv, AgendaInv
<1>3. ASSUME NEW was \in BOOLEAN, RestoreRunning(was)
      PROVE  /\ manual'.phase = "idle"
             /\ \/ UNCHANGED <<due, timer, disturbed>>
                \/ due' = {} /\ timer' = "sleeping" /\ disturbed' = (disturbed \/ timer = "running")
  <2>1. CASE was
    BY <1>3, <2>1 DEF RestoreRunning, Arm, CancelTimer, NoTick, NoRun
  <2>2. CASE ~was
    BY <1>3, <2>2 DEF RestoreRunning, NoRun
  <2> QED BY <2>1, <2>2
<1>4. \A j \in Job : fate[j] # "none" => fate'[j] # "none"
  BY <1>0, FateStays DEF CronInv, JobInv
<1>5. (\A d \in due : d[1] \in Job) /\ (outside # None => outside \in Job)
  BY <1>0 DEF TypeOK
<1>6. CASE RunRefused
  <2>1. LoadOnly(TRUE) /\ RestoreRunning(running) /\ running \in BOOLEAN
    BY <1>0, <1>6 DEF RunRefused, RunStarts, TypeOK
  <2>2. /\ \A j \in Job : store'[j] # None => disk'[j] # None
        /\ Apart(disk', added')
        /\ \A j \in Job : added[j] = None => added'[j] = None
        /\ ~disturbed /\ timer # "running" => SameJobs(store', disk')
    BY <1>1, <2>1, ReadTables
  <2>3. /\ due' \subseteq due /\ manual'.phase = "idle"
        /\ ~disturbed' /\ timer' # "running" => ~disturbed /\ timer # "running"
    BY <1>3, <2>1
  <2> QED BY <1>0, <1>1, <1>4, <1>5, <2>2, <2>3 DEF CronInv, AgendaInv
<1>7. CASE RunDone
  <2>1. /\ disk' = store' /\ UNCHANGED <<added, dels>>
        /\ manual.was \in BOOLEAN /\ RestoreRunning(manual.was)
    BY <1>0, <1>7 DEF RunDone, journal, TypeOK, Run
  <2>2. due' \subseteq due /\ manual'.phase = "idle"
    BY <1>3, <2>1
  <2>3. Apart(disk', added')
    BY <1>1, <2>1 DEF BookInv
  <2> QED BY <1>0, <1>1, <1>4, <1>5, <2>1, <2>2, <2>3 DEF CronInv, AgendaInv, SameJobs
<1> QED BY <1>2, <1>6, <1>7 DEF Manual

LEMMA HaltsAgenda ==
  ASSUME CronInv, BookInv', Halts
  PROVE  AgendaInv'
<1>0. TypeOK /\ TickShape /\ [Next]_vars
  BY DEF CronInv, JobInv, TypeInv, Halts, Next
<1>1. CASE Stop
  <2>1. /\ Loading /\ phase' = "stopping" /\ due' = {}
        /\ disturbed' = (disturbed \/ timer = "running")
        /\ UNCHANGED <<disk, added, store, manual, outside, fate>>
    BY <1>1 DEF Stop, CancelTimer, NoTick, Loading, journal
  <2> QED BY <1>0, <2>1 DEF CronInv, AgendaInv, Loading, TypeOK
<1>2. CASE Crash \/ CrashInMerge
  <2>0. GoDown
    BY <1>2 DEF Crash, CrashInMerge
  <2>1. phase' = "down" /\ due' = {} /\ manual'.phase = "idle" /\ outside' = outside
    BY <2>0 DEF GoDown, NoTick, NoRun
  <2>2. \A j \in Job : added[j] = None => added'[j] = None
    BY <1>2 DEF Crash, CrashInMerge, journal, Empty
  <2> QED BY <1>0, <2>1, <2>2, NoTickAgenda
<1> QED BY <1>1, <1>2 DEF Halts

LEMMA OtherAgenda ==
  ASSUME CronInv, BookInv', ClockTicks \/ Poll \/ Unwind \/ UNCHANGED vars
  PROVE  AgendaInv'
<1>0. TypeOK /\ [Next]_vars
  BY DEF CronInv, JobInv, TypeInv, Next
<1>1. CASE Poll
  <2>1. /\ LoadOnly(TRUE) /\ Loading /\ Loading'
        /\ UNCHANGED <<clock, outside, timer, due, disturbed>>
        /\ manual'.phase = manual.phase /\ manual'.job = manual.job
    BY <1>0, <1>1 DEF Poll, Orphan, CronInv, JobInv, PhaseInv, TimerArmed, Loading, history,
                      TypeOK, Run
  <2> QED BY <1>0, <2>1, ReadAgenda DEF CronInv, AgendaInv
<1>2. CASE ClockTicks
  <2>1. /\ clock' = clock + 1
        /\ UNCHANGED <<disk, added, store, phase, manual, fate, outside, timer, due, disturbed>>
    BY <1>2 DEF ClockTicks, journal, gateway, tick, history
  <2>2. \A d \in due : d[2] \in 1 .. clock'
    BY <1>0, <2>1, TimeAssumption DEF CronInv, AgendaInv, TypeOK, Time
  <2> QED BY <2>1, <2>2 DEF CronInv, AgendaInv, Loading
<1>3. CASE Unwind \/ UNCHANGED vars
  <2>1. UNCHANGED <<clock, disk, added, store, phase, manual, fate, outside, timer, due, disturbed>>
    BY <1>3 DEF Unwind, Unwound, vars, journal, gateway, tick, history
  <2> QED BY <2>1 DEF CronInv, AgendaInv, Loading
<1> QED BY <1>1, <1>2, <1>3

LEMMA CronInvStep == CronInv /\ [Next]_vars => CronInv'
<1> SUFFICES ASSUME CronInv, [Next]_vars PROVE CronInv'
  OBVIOUS
<1>1. JobInv' /\ OnceInv'
  BY TypeStep, PhaseStep, JobStep, OnceStep DEF CronInv, JobInv
<1>2. AgendaInv'
  BY <1>1, BootAgenda, EditsAgenda, OutsideAgenda, TimerAgenda, ManualAgenda, HaltsAgenda,
     OtherAgenda DEF Next, JobInv
<1> QED BY <1>1, <1>2 DEF CronInv

LEMMA CronInvariant == Spec => []CronInv
<1>1. Init => CronInv
  BY InitType, PhaseInit, BookInit, AgendaInit DEF CronInv, JobInv, Init, OnceInv, ServedInv, Loading
<1> QED BY <1>1, CronInvStep, PTL DEF Spec

\* The list in terms of the tables and the journal.
LEMMA Lists ==
  /\ \A j \in Job : j \in Listed <=> j \notin dels /\ (added[j] # None \/ disk[j] # None)
  /\ \A j \in Job : j \in Listed' <=> j \notin dels' /\ (added'[j] # None \/ disk'[j] # None)
BY DEF Listed, Merged

\* ... and what the store of the gateway has dropped from it.
LEMMA DroppedJobs ==
  ASSUME phase # "down"
  PROVE  \A j \in Job : j \in Dropped <=> j \in Listed /\ added[j] = None /\ store[j] = None
BY Lists DEF Dropped, Elsewhere

\* A store that has just been saved has dropped nothing.
LEMMA NothingDropped ==
  ASSUME disk' = store'
  PROVE  Dropped' = {}
<1>1. \A j \in Dropped' : j \in Job /\ j \in Listed' /\ j \notin Elsewhere' /\ store'[j] = None
  BY DEF Dropped, Listed
<1> QED BY <1>1, Lists DEF Elsewhere

\* What a load returns is on the list, or concerned by the journal.
LEMMA LoadedListed ==
  ASSUME CronInv, phase # "down"
  PROVE  \A j \in Job : Loaded[j] # None => j \in Listed \union Elsewhere
<1>1. ASSUME NEW j \in Job, Loaded[j] # None
      PROVE  j \in Listed \union Elsewhere
  <2>1. Merged[j] # None \/ disk[j] # None
    BY <1>1 DEF Loaded, CronInv, AgendaInv
  <2> QED BY <2>1, Lists DEF Listed, Elsewhere
<1> QED BY <1>1

LEMMA KnownSame ==
  ASSUME UNCHANGED fate
  PROVE  UNCHANGED Known
BY DEF Known

\* Outside of a tick that has been cancelled, what a store has dropped is only
\* missing while the tick that executed it keeps that store.
LEMMA DroppedInTick ==
  ASSUME CronInv, TypeOK, phase # "down", ~timerActive
  PROVE  disturbed \/ Dropped = {}
<1>1. CASE ~disturbed
  <2>1. timer # "running"
    BY <1>1 DEF CronInv, OnceInv, ServedInv
  <2>2. SameJobs(store, disk)
    BY <1>1, <2>1 DEF CronInv, AgendaInv, Loading, TypeOK
  <2>3. Dropped \subseteq Job
    BY DEF Dropped, Listed
  <2> QED BY <2>2, <2>3, DroppedJobs, Lists DEF SameJobs
<1> QED BY <1>1

\* _load_store does not change the list, and merges the journal or keeps it.
LEMMA LoadReads ==
  ASSUME CronInv, Loading, Loading', LoadOnly(TRUE), UNCHANGED fate
  PROVE  AgendaOf!Read
<1>0. TypeOK /\ phase # "down"
  BY DEF CronInv, JobInv, TypeInv, Loading
<1>1. CASE timerActive
  <2>1. store' = store /\ disk' = disk /\ added' = added /\ dels' = dels
    BY <1>1 DEF LoadOnly, ClearJournal, Merges, Loaded, journal
  <2>2. Listed' = Listed /\ Elsewhere' = Elsewhere
    BY <2>1 DEF Listed, Merged, Elsewhere
  <2>3. Dropped' = Dropped
    BY <2>1, <2>2 DEF Dropped, Loading
  <2> QED BY <2>2, <2>3, KnownSame DEF AgendaOf!Read, AgendaOf!Merge
<1>2. CASE ~timerActive
  <2>1. \A j \in Job : (Merged[j] # None) <=> j \in Listed
    BY DEF Listed
  <2>2. Listed' = Listed /\ Elsewhere' \in {Elsewhere, {}} /\ store' = Merged
    <3>1. CASE Effective
      <4>1. store' = Merged /\ disk' = Merged /\ added' = Empty /\ dels' = {}
        BY <1>2, <3>1 DEF LoadOnly, ClearJournal, Merges, Loaded
      <4>2. \A j \in Job : j \in Listed' <=> j \in Listed
        BY <2>1, <4>1, Lists DEF Empty
      <4>3. Elsewhere' = {}
        BY <4>1 DEF Elsewhere, Empty
      <4>4. Listed \subseteq Job /\ Listed' \subseteq Job
        BY DEF Listed
      <4>5. Listed' = Listed
        BY <4>2, <4>4
      <4> QED BY <4>1, <4>3, <4>5
    <3>2. CASE ~Effective
      <4>1. store' = Merged /\ disk' = disk /\ added' = added /\ dels' = dels
        BY <1>2, <3>2 DEF LoadOnly, ClearJournal, Merges, Loaded, journal
      <4> QED BY <4>1 DEF Listed, Merged, Elsewhere
    <3> QED BY <3>1, <3>2
  <2>3. Dropped' = {}
    <3>1. \A j \in Listed' : store'[j] # None
      BY <2>2 DEF Listed
    <3> QED BY <3>1 DEF Dropped
  <2>4. disturbed \/ Dropped = {}
    BY <1>0, <1>2, DroppedInTick
  <2> QED BY <2>2, <2>3, <2>4, KnownSame DEF AgendaOf!Read, AgendaOf!Merge
<1> QED BY <1>1, <1>2

\* _load_store, a change and _save_store write the list.
LEMMA SaveWrites ==
  ASSUME CronInv, phase # "down", NEW S, LoadAndSave(TRUE, S),
         NEW new \in SUBSET Job, NEW gone \in SUBSET Job,
         \A j \in Job : S[j] # None <=> (Loaded[j] # None /\ j \notin gone) \/ j \in new,
         new \intersect dels = {},
         \A j \in gone : added'[j] = None,
         Known' = Known \union new
  PROVE  AgendaOf!Write(new, gone)
<1>0. store' = S /\ disk' = S /\ ClearJournal(TRUE) /\ TypeOK
  BY DEF LoadAndSave, CronInv, JobInv, TypeInv
<1>1. Dropped' = {}
  BY <1>0, NothingDropped
<1>2. Listed \subseteq Job /\ Listed' \subseteq Job /\ Dropped \subseteq Job
  BY DEF Listed, Dropped
<1>3. CASE timerActive
  <2>1. added' = added /\ dels' = dels /\ Loaded = store
    BY <1>0, <1>3 DEF ClearJournal, Merges, Loaded, journal
  <2>2. \A j \in Job : store[j] # None => disk[j] # None
    BY DEF CronInv, AgendaInv
  <2>3. ASSUME NEW j \in Job
        PROVE  j \in Listed' <=> (j \in Listed /\ j \notin Dropped /\ j \notin gone) \/ j \in new
    BY <1>0, <2>1, <2>2, <2>3, Lists, DroppedJobs
  <2>4. Listed' = (Listed \ (Dropped \union gone)) \union new
    BY <1>2, <2>3
  <2>5. Elsewhere' = Elsewhere
    BY <2>1 DEF Elsewhere
  <2> QED BY <1>1, <2>4, <2>5 DEF AgendaOf!Write, AgendaOf!Merge
<1>4. CASE ~timerActive
  <2>1. Loaded = Merged
    BY <1>4 DEF Loaded
  <2>2. Elsewhere' \in {Elsewhere, {}} /\ Listed' = (Listed \ gone) \union new
    <3>1. CASE Effective
      <4>1. added' = Empty /\ dels' = {}
        BY <1>0, <1>4, <3>1 DEF ClearJournal, Merges
      <4>2. Elsewhere' = {}
        BY <4>1 DEF Elsewhere, Empty
      <4>3. ASSUME NEW j \in Job
            PROVE  j \in Listed' <=> (j \in Listed /\ j \notin gone) \/ j \in new
        <5>1. j \in Listed' <=> S[j] # None
          BY <1>0, <4>1, Lists DEF Empty
        <5>2. j \in Listed <=> Merged[j] # None
          BY DEF Listed
        <5> QED BY <2>1, <5>1, <5>2
      <4> QED BY <1>2, <4>2, <4>3
    <3>2. CASE ~Effective
      <4>1. added' = added /\ dels' = dels /\ added = Empty
        BY <1>0, <3>2 DEF ClearJournal, Merges, Effective, journal
      <4>2. Elsewhere' = Elsewhere
        BY <4>1 DEF Elsewhere
      <4>3. ASSUME NEW j \in Job
            PROVE  j \in Listed' <=> (j \in Listed /\ j \notin gone) \/ j \in new
        <5>1. j \in Listed' <=> j \notin dels /\ S[j] # None
          BY <1>0, <4>1, Lists DEF Empty
        <5>2. j \in Listed <=> Merged[j] # None
          BY DEF Listed
        <5>3. j \in Listed => j \notin dels
          BY Lists
        <5> QED BY <2>1, <5>1, <5>2, <5>3
      <4> QED BY <1>2, <4>2, <4>3
    <3> QED BY <3>1, <3>2
  <2>3. disturbed \/ Dropped = {}
    BY <1>0, <1>4, DroppedInTick
  <2>4. \/ Listed' = (Listed \ (Dropped \union gone)) \union new
        \/ disturbed /\ Listed' = (Listed \ gone) \union new
    BY <2>2, <2>3
  <2> QED BY <1>1, <2>2, <2>4 DEF AgendaOf!Write, AgendaOf!Merge
<1> QED BY <1>3, <1>4

\* Cancelling the timer task drops the tick.
LEMMA CancelDrops ==
  ASSUME TypeInv, CancelTimer, UNCHANGED served
  PROVE  AgendaOf!DropTick
<1>1. due' \ {current'} = {} /\ current' = None
  BY DEF CancelTimer, NoTick
<1>2. disturbed' = (disturbed \/ current # None)
  BY DEF CancelTimer, TypeInv, TypeOK, TickShape
<1> QED BY <1>1, <1>2 DEF AgendaOf!DropTick

LEMMA ByHandSame ==
  ASSUME manual'.phase = manual.phase, manual'.job = manual.job
  PROVE  UNCHANGED ByHand
BY DEF ByHand

LEMMA ByHandOver ==
  ASSUME manual'.phase \in {"idle", "asked"}
  PROVE  ByHand' = None
BY DEF ByHand

\* The fate of a job is its own.
LEMMA KnownMore ==
  ASSUME TypeOK, NEW j \in Job, NEW f \in {"kept", "gone", "either"},
         fate' = [fate EXCEPT ![j] = f]
  PROVE  /\ Known' = Known \union {j}
         /\ fate[j] # "none" => Known' = Known
BY DEF Known, TypeOK

\* What every edit of the gateway is to the agenda.
LEMMA EditWrites ==
  ASSUME CronInv, NEW S, Edit(S), NEW new \in SUBSET Job, NEW gone \in SUBSET Job,
         \A j \in Job : S[j] # None <=> (Loaded[j] # None /\ j \notin gone) \/ j \in new,
         new \intersect dels = {},
         \A j \in gone : Loaded[j] # None,
         Known' = Known \union new
  PROVE  /\ AgendaOf!Write(new, gone) /\ AgendaOf!DropTick
         /\ UNCHANGED <<clock, ByHand>>
<1>1. /\ Loading /\ LoadAndSave(TRUE, S) /\ Arm /\ manual' = Orphan(manual)
      /\ UNCHANGED <<clock, served>>
  BY DEF Edit, CronInv, JobInv, PhaseInv, TimerArmed, Loading
<1>2. \A j \in gone : added'[j] = None
  BY <1>1, LoadedBook DEF LoadAndSave, CronInv
<1>3. AgendaOf!Write(new, gone)
  BY <1>1, <1>2, SaveWrites DEF Loading
<1>4. AgendaOf!DropTick
  BY <1>1, CancelDrops DEF Arm, CronInv, JobInv
<1>5. UNCHANGED ByHand
  BY <1>1, ByHandSame DEF Orphan, CronInv, JobInv, TypeInv, TypeOK, Run
<1> QED BY <1>1, <1>3, <1>4, <1>5

LEMMA EditsChange ==
  ASSUME CronInv, NEW j \in Job,
         \/ \E at \in Schedules(j) : AddJob(j, at) \/ UpdateJob(j, at)
         \/ RemoveJob(j)
         \/ \E on \in BOOLEAN : EnableJob(j, on)
  PROVE  AgendaOf!Change
<1>0. 0 \in Time /\ Loaded \in Table /\ TypeOK
  BY TimeAssumption, MergedType DEF Time, TypeInv, CronInv, JobInv
<1>1. Schedules(j) \subseteq Time
  BY <1>0 DEF Schedules
<1>2. \A i \in dels : fate[i] # "none"
  BY DEF CronInv, JobInv, BookInv
<1>3. ASSUME NEW at \in Schedules(j), AddJob(j, at)
      PROVE  AgendaOf!Change
  <2> DEFINE S == [Loaded EXCEPT ![j] = NewJob(j, at)]
  <2>1. S[j] # None /\ \A i \in Job \ {j} : S[i] = Loaded[i]
    BY <1>0, <1>1, NextRunType, NoneAssumption DEF Table
  <2>2. /\ Edit(S) /\ fate[j] = "none" /\ j \notin SystemJob
        /\ fate' = [fate EXCEPT ![j] = "kept"]
    BY <1>3 DEF AddJob
  <2>3. Known' = Known \union {j} /\ j \notin Known
    BY <1>0, <2>2, KnownMore DEF Known
  <2>4. \A i \in Job : S[i] # None <=> (Loaded[i] # None /\ i \notin {}) \/ i \in {j}
    BY <2>1
  <2>5. {j} \intersect dels = {}
    BY <1>2, <2>2
  <2> HIDE DEF S
  <2>6. /\ AgendaOf!Write({j}, {}) /\ AgendaOf!DropTick
        /\ UNCHANGED <<clock, ByHand>>
    BY <2>2, <2>3, <2>4, <2>5, EditWrites
  <2>7. AgendaOf!Accept(j)
    BY <2>2, <2>3, <2>6 DEF AgendaOf!Accept
  <2> QED BY <2>6, <2>7 DEF AgendaOf!Change
<1>4. ASSUME NEW S, Edit(S), Loaded[j] # None, S[j] # None, UNCHANGED fate,
             \A i \in Job \ {j} : S[i] = Loaded[i]
      PROVE  AgendaOf!Change
  <2>1. \A i \in Job : S[i] # None <=> (Loaded[i] # None /\ i \notin {}) \/ i \in {}
    BY <1>4
  <2>2. Known' = Known \union {}
    BY <1>4, KnownSame
  <2>3. /\ AgendaOf!Write({}, {}) /\ AgendaOf!DropTick
        /\ UNCHANGED <<clock, ByHand>>
    BY <1>4, <2>1, <2>2, EditWrites
  <2> QED BY <2>3 DEF AgendaOf!Change, AgendaOf!Rewrite
<1>5. ASSUME NEW at \in Schedules(j), UpdateJob(j, at)
      PROVE  AgendaOf!Change
  <2> DEFINE n == IF Loaded[j].enabled THEN NextRun(j, at) ELSE 0
             S == [Loaded EXCEPT ![j].at = at, ![j].next = n]
  <2>1. Loaded[j] # None /\ Edit(S) /\ UNCHANGED fate
    BY <1>5 DEF UpdateJob
  <2>2. n \in 0 .. MaxTime + 1 /\ Loaded[j] \in JobRecord
    BY <1>0, <1>1, <2>1, NextRunType, TimeAssumption DEF Table
  <2>3. S[j] = [Loaded[j] EXCEPT !.at = at, !.next = n]
        /\ \A i \in Job \ {j} : S[i] = Loaded[i]
    BY <1>0 DEF Table
  <2>4. S[j] \in JobRecord
    BY <1>1, <2>2, <2>3 DEF JobRecord
  <2> HIDE DEF S
  <2> QED BY <1>4, <2>1, <2>3, <2>4, NoneAssumption
<1>6. ASSUME NEW on \in BOOLEAN, EnableJob(j, on)
      PROVE  AgendaOf!Change
  <2> DEFINE n == IF on THEN NextRun(j, Loaded[j].at) ELSE 0
             S == [Loaded EXCEPT ![j].enabled = on, ![j].next = n]
  <2>1. Loaded[j] # None /\ Edit(S) /\ UNCHANGED fate
    BY <1>6 DEF EnableJob
  <2>2. Loaded[j] \in JobRecord /\ Loaded[j].at \in Time
    BY <1>0, <2>1 DEF Table, JobRecord
  <2>3. n \in 0 .. MaxTime + 1
    BY <1>0, <2>2, NextRunType, TimeAssumption
  <2>4. S[j] = [Loaded[j] EXCEPT !.enabled = on, !.next = n]
        /\ \A i \in Job \ {j} : S[i] = Loaded[i]
    BY <1>0 DEF Table
  <2>5. S[j] \in JobRecord
    BY <2>2, <2>3, <2>4 DEF JobRecord
  <2> HIDE DEF S
  <2> QED BY <1>4, <2>1, <2>4, <2>5, NoneAssumption
<1>7. CASE RemoveJob(j)
  <2> DEFINE S == [Loaded EXCEPT ![j] = None]
  <2>1. /\ Loaded[j] # None /\ Edit(S) /\ j \notin SystemJob
        /\ fate' = [fate EXCEPT ![j] = "gone"]
    BY <1>7 DEF RemoveJob
  <2>2. \A i \in Job : S[i] # None <=> (Loaded[i] # None /\ i \notin {j}) \/ i \in {}
    BY <1>0 DEF Table
  <2>3. fate[j] # "none"
    <3>1. ClearJournal(TRUE) /\ Loading
      BY <2>1 DEF Edit, LoadAndSave, CronInv, JobInv, PhaseInv, TimerArmed, Loading
    <3> QED BY <2>1, <3>1, LoadedBook DEF CronInv
  <2>4. Known' = Known \union {}
    BY <1>0, <2>1, <2>3, KnownMore
  <2> HIDE DEF S
  <2>5. /\ AgendaOf!Write({}, {j}) /\ AgendaOf!DropTick
        /\ UNCHANGED <<clock, ByHand>>
    BY <2>1, <2>2, <2>4, EditWrites
  <2>6. j \in (Listed \union Elsewhere) \ SystemJob
    <3>1. phase # "down"
      BY <2>1 DEF Edit
    <3> QED BY <2>1, <3>1, LoadedListed
  <2> QED BY <2>5, <2>6 DEF AgendaOf!Change, AgendaOf!Withdraw
<1> QED BY <1>3, <1>5, <1>6, <1>7

\* The journal of the other instances.
LEMMA OutsideChanges ==
  ASSUME CronInv, Outside
  PROVE  AgendaOf!ChangeElsewhere \/ UNCHANGED AgendaOf!vars
<1>0. TypeOK /\ UNCHANGED <<clock, disk, store, phase, due, current, manual, served, disturbed>>
  BY DEF CronInv, JobInv, TypeInv, Outside, FindOutside, AddOutside, RemoveOutside, gateway, tick,
         history
<1>1. UNCHANGED <<clock, due \ {current}, current, served, disturbed, ByHand>>
  BY <1>0, ByHandSame
<1>2. Listed \subseteq Job /\ Listed' \subseteq Job
  BY DEF Listed
<1>3. ASSUME NEW j \in Job, FindOutside(j)
      PROVE  UNCHANGED AgendaOf!vars
  <2>1. UNCHANGED <<added, dels, fate>>
    BY <1>3 DEF FindOutside, journal, history
  <2>2. UNCHANGED <<Known, Listed, Elsewhere, Dropped>>
    BY <1>0, <2>1 DEF Known, Listed, Elsewhere, Dropped, Merged
  <2> QED BY <1>1, <2>2 DEF AgendaOf!vars, AgendaOf!list, AgendaOf!tick
<1>4. ASSUME NEW j \in Job, NEW at \in Schedules(j), AddOutside(j, at)
      PROVE  AgendaOf!ChangeElsewhere
  <2>1. NewJob(j, at) # None
    <3>1. at \in Time
      BY TimeAssumption DEF Schedules, Time
    <3> QED BY <1>0, <3>1, NextRunType, NoneAssumption
  <2>2. /\ fate[j] = "none" /\ j \notin SystemJob /\ dels' = dels
        /\ fate' = [fate EXCEPT ![j] = "kept"]
        /\ added'[j] # None /\ \A i \in Job \ {j} : added'[i] = added[i]
    BY <1>0, <1>4, <2>1 DEF AddOutside, TypeOK, Table
  <2>3. Known' = Known \union {j} /\ j \notin Known
    BY <1>0, <2>2, KnownMore DEF Known
  <2>4. j \notin dels /\ disk[j] = None /\ added[j] = None
    BY <2>2 DEF CronInv, JobInv, BookInv, Book
  <2>5. Listed' = Listed \union {j} /\ j \notin Listed
    BY <1>0, <1>2, <2>2, <2>4, Lists
  <2>6. Elsewhere' = Elsewhere \union {j}
    BY <2>2, <2>4 DEF Elsewhere
  <2>7. Dropped' = Dropped
    BY <1>0, <2>5, <2>6 DEF Dropped
  <2>8. AgendaOf!AcceptElsewhere(j)
    BY <2>2, <2>3, <2>5, <2>7 DEF AgendaOf!AcceptElsewhere
  <2> QED BY <1>1, <2>6, <2>8 DEF AgendaOf!ChangeElsewhere, AgendaOf!tick
<1>5. CASE RemoveOutside
  <2> DEFINE j == outside
  <2>1. /\ j \in Job \ SystemJob /\ added' = added /\ dels' = dels \union {j}
        /\ fate' = [fate EXCEPT ![j] = "gone"] /\ fate[j] # "none"
    BY <1>0, <1>5 DEF RemoveOutside, CronInv, AgendaInv, JobInv, BookInv, TypeOK
  <2>2. Known' = Known /\ j \in Known
    BY <1>0, <2>1, KnownMore DEF Known
  <2>3. Listed' = Listed \ {j}
    BY <1>0, <1>2, <2>1, Lists
  <2>4. Elsewhere' = Elsewhere \union {j}
    BY <2>1 DEF Elsewhere
  <2>5. Dropped' = Dropped \ {j}
    BY <1>0, <2>3, <2>4 DEF Dropped
  <2>6. AgendaOf!WithdrawElsewhere(j)
    BY <2>1, <2>2, <2>3, <2>5 DEF AgendaOf!WithdrawElsewhere
  <2> QED BY <1>1, <2>1, <2>4, <2>6 DEF AgendaOf!ChangeElsewhere, AgendaOf!tick
<1> QED BY <1>3, <1>4, <1>5 DEF Outside

\* The jobs once j has been executed and the store was saved.
LEMMA SavedJobs ==
  ASSUME CronInv, phase # "down", NEW j \in Job, NEW orphan \in BOOLEAN, added[j] = None,
         store' = Recorded(j, orphan), disk' = store', UNCHANGED journal
  PROVE  /\ Listed' = Listed \ (Dropped \union ({j} \intersect OneShot))
         /\ Dropped' = {} /\ Elsewhere' = Elsewhere
<1>0. TypeOK /\ added' = added /\ dels' = dels
  BY DEF CronInv, JobInv, TypeInv, journal
<1>1. \A i \in Job : disk'[i] # None <=> store[i] # None /\ i \notin {j} \intersect OneShot
  BY <1>0, RecordedJobs
<1>2. Dropped' = {} /\ Elsewhere' = Elsewhere
  BY <1>0, NothingDropped DEF Elsewhere
<1>3. ASSUME NEW i \in Job
      PROVE  i \in Listed' <=> i \in Listed /\ i \notin Dropped /\ i \notin {j} \intersect OneShot
  <2>1. store[i] # None => disk[i] # None
    BY DEF CronInv, AgendaInv
  <2>2. i \in Listed' <=> i \notin dels /\ (added[i] # None \/ disk'[i] # None)
    BY <1>0, Lists
  <2>3. i \in Listed <=> i \notin dels /\ (added[i] # None \/ disk[i] # None)
    BY Lists
  <2>4. i \in Dropped <=> i \in Listed /\ added[i] = None /\ store[i] = None
    BY DroppedJobs
  <2>5. disk'[i] # None <=> store[i] # None /\ i \notin {j} \intersect OneShot
    BY <1>1
  <2> QED BY <2>1, <2>2, <2>3, <2>4, <2>5
<1>4. Listed \subseteq Job /\ Listed' \subseteq Job
  BY DEF Listed
<1> QED BY <1>2, <1>3, <1>4

LEMMA FinishedKnown ==
  ASSUME TypeOK, NEW j \in Job, NEW f \in {"gone", "either"}, Finished(j, f), fate[j] # "none"
  PROVE  UNCHANGED Known
<1>1. CASE j \in OneShot
  BY <1>1, KnownMore DEF Finished
<1>2. CASE j \notin OneShot
  BY <1>2, KnownSame DEF Finished
<1> QED BY <1>1, <1>2

LEMMA TimerSteps ==
  ASSUME CronInv, CronInv', Timer
  PROVE  AgendaOf!Next
<1>0. TypeOK /\ TickShape
  BY DEF CronInv, JobInv, TypeInv
<1>1. /\ UNCHANGED <<clock, phase, disturbed>> /\ Loading /\ Loading' /\ phase # "down"
      /\ manual'.phase = manual.phase /\ manual'.job = manual.job
  <2>1. /\ UNCHANGED <<clock, phase, disturbed>>
        /\ manual'.phase = manual.phase /\ manual'.job = manual.job
    BY <1>0 DEF Timer, TickIdle, TickBegins, TickFires, NextJob, TickEnds, JobDone, Orphan,
                TypeOK, Run
  <2>2. Loading
    BY DEF CronInv, JobInv, PhaseInv, Timer, TickIdle, TickBegins, TickFires, NextJob, TickEnds,
           JobDone
  <2> QED BY <2>1, <2>2 DEF Loading
<1>2. UNCHANGED ByHand
  BY <1>1, ByHandSame
<1>3. disturbed \/ ~ServesAgain
  BY TimerOnce DEF CronInv, OnceInv
<1>4. CASE TickIdle
  <2>1. /\ timer = "sleeping" /\ LoadAndSave(TRUE, Loaded) /\ UNCHANGED <<due, current, served, fate>>
    BY <1>4 DEF TickIdle, TickFires
  <2>2. due = {} /\ current = None
    BY <1>0, <2>1 DEF TickShape
  <2>3. Known' = Known \union {}
    BY <2>1, KnownSame
  <2>4. /\ \A j \in Job : Loaded[j] # None <=> (Loaded[j] # None /\ j \notin {}) \/ j \in {}
        /\ {} \intersect dels = {}
    OBVIOUS
  <2>5. AgendaOf!Write({}, {})
    BY <1>1, <2>1, <2>3, <2>4, SaveWrites
  <2>6. AgendaOf!DropTick
    BY <1>0, <1>1, <2>1, <2>2 DEF AgendaOf!DropTick, TypeOK
  <2>7. AgendaOf!Change
    BY <1>1, <1>2, <2>5, <2>6 DEF AgendaOf!Change, AgendaOf!Rewrite
  <2> QED BY <2>7 DEF AgendaOf!Next
<1>5. CASE TickBegins
  <2>1. /\ timer = "sleeping" /\ LoadOnly(TRUE) /\ store' = Loaded /\ UNCHANGED fate
        /\ due' = {<<j, Loaded[j].next>> : j \in {i \in Job : IsDue(Loaded[i])}}
    BY <1>5 DEF TickBegins, TickFires, LoadOnly
  <2>2. PICK d \in due' : current' = d /\ served' = served \union {d}
    BY <1>5 DEF TickBegins, Execute
  <2>3. current = None /\ AgendaOf!Read
    BY <1>0, <1>1, <2>1, LoadReads DEF TickShape
  <2>4. (due' \ {current'}) \union {current'} = due'
    BY <2>2
  <2>5. due' \subseteq ((Listed \union Elsewhere) \ Dropped') \X (1 .. clock)
    <3>1. ASSUME NEW e \in due'
          PROVE  e \in ((Listed \union Elsewhere) \ Dropped') \X (1 .. clock)
      <4>1. PICK j \in Job : IsDue(Loaded[j]) /\ e = <<j, Loaded[j].next>>
        BY <2>1
      <4>2. j \in Listed \union Elsewhere
        BY <1>1, <4>1, LoadedListed DEF IsDue
      <4>3. j \notin Dropped'
        BY <2>1, <4>1 DEF Dropped, IsDue
      <4>4. e[2] \in 1 .. clock
        BY <1>1 DEF CronInv, AgendaInv
      <4> QED BY <4>1, <4>2, <4>3, <4>4
    <3> QED BY <3>1
  <2>6. \A e, f \in due' : e[1] = f[1] => e = f
    BY DEF CronInv, AgendaInv
  <2>7. current' # None
    BY <1>0, <2>2, NoneAssumption DEF CronInv, JobInv, TypeInv, TypeOK
  <2>8. disturbed \/ due' \intersect served = {}
    <3>1. disturbed \/ (due' \ {current'}) \intersect served' = {}
      BY <1>1 DEF CronInv, OnceInv, ServedInv
    <3>2. disturbed \/ current' \notin served
      BY <1>3, <2>3, <2>7 DEF ServesAgain
    <3> QED BY <2>2, <3>1, <3>2
  <2>9. AgendaOf!Begin
    BY <1>1, <1>2, <2>2, <2>3, <2>4, <2>5, <2>6, <2>8 DEF AgendaOf!Begin
  <2> QED BY <2>9 DEF AgendaOf!Next
<1>6. CASE NextJob \/ TickEnds
  <2> DEFINE c == current[1]
  <2>1. /\ timer = "running" /\ c \in Job /\ stale \in BOOLEAN /\ current \in due /\ current # None
        /\ store' = Recorded(c, stale) /\ Finished(c, "either") /\ UNCHANGED journal
    BY <1>0, <1>6 DEF NextJob, TickEnds, JobDone, TickShape, TypeOK
  <2>2. added[c] = None /\ fate[c] # "none"
    BY <2>1 DEF CronInv, AgendaInv
  <2>3. UNCHANGED Known
    BY <1>0, <2>1, <2>2, FinishedKnown
  <2>4. AgendaOf!Over(c) = {c} \intersect OneShot \intersect (Listed \ Elsewhere)
    BY DEF AgendaOf!Over
  <2> HIDE DEF c
  <2>5. CASE NextJob
    <3>1. PICK d \in due' : current' = d /\ served' = served \union {d}
      BY <2>5 DEF NextJob, Execute
    <3>2. due' = due \ {current} /\ disk' = disk
      BY <2>5 DEF NextJob
    <3>3. UNCHANGED <<Listed, Elsewhere>>
      BY <2>1, <3>2 DEF Listed, Merged, Elsewhere, journal
    <3>4. \A i \in Job : store'[i] = None <=> store[i] = None \/ i \in {c} \intersect OneShot
      BY <1>0, <2>1, RecordedJobs
    <3>5. Dropped' = Dropped \union AgendaOf!Over(c)
      <4>1. phase' # "down" /\ Listed \subseteq Job
        BY <1>1 DEF Listed
      <4> QED BY <1>1, <2>4, <3>3, <3>4, <4>1 DEF Dropped
    <3>6. current' # None
      BY <1>0, <3>1, <3>2, NoneAssumption DEF TypeOK
    <3>7. disturbed \/ current' \notin served
      BY <1>3, <3>1, <3>2, <3>6 DEF ServesAgain
    <3>8. AgendaOf!NextJob
      BY <1>1, <1>2, <2>1, <2>3, <3>1, <3>2, <3>3, <3>5, <3>7 DEF AgendaOf!NextJob, c
    <3> QED BY <3>8 DEF AgendaOf!Next
  <2>6. CASE TickEnds
    <3>1. due = {current} /\ due' = {} /\ current' = None /\ disk' = store' /\ served' = served
      BY <2>6 DEF TickEnds, NoTick
    <3>2. /\ Listed' = Listed \ (Dropped \union ({c} \intersect OneShot))
          /\ Dropped' = {} /\ Elsewhere' = Elsewhere
      BY <1>1, <2>1, <2>2, <3>1, SavedJobs
    <3>3. Listed' = Listed \ (Dropped \union AgendaOf!Over(c))
      <4>1. c \in Listed => c \notin Elsewhere
        BY <2>1, <2>2, Lists DEF Elsewhere
      <4> QED BY <2>4, <3>2, <4>1
    <3>4. AgendaOf!End
      BY <1>1, <1>2, <2>1, <2>3, <3>1, <3>2, <3>3 DEF AgendaOf!End, c
    <3> QED BY <3>4 DEF AgendaOf!Next
  <2> QED BY <1>6, <2>5, <2>6
<1> QED BY <1>4, <1>5, <1>6 DEF Timer

LEMMA RestoreDrops ==
  ASSUME TypeInv, NEW was \in BOOLEAN, RestoreRunning(was), UNCHANGED served
  PROVE  /\ AgendaOf!DropTick \/ UNCHANGED AgendaOf!tick
         /\ ByHand' = None
<1>1. ByHand' = None
  BY ByHandOver DEF RestoreRunning, NoRun
<1>2. CASE was
  BY <1>1, <1>2, CancelDrops DEF RestoreRunning, Arm
<1>3. CASE ~was
  BY <1>1, <1>3 DEF RestoreRunning, AgendaOf!tick
<1> QED BY <1>1, <1>2, <1>3

LEMMA ManualSteps ==
  ASSUME CronInv, Manual
  PROVE  AgendaOf!Next
<1>0. TypeOK /\ UNCHANGED <<clock, phase, served>> /\ manual.phase # "idle"
  BY DEF CronInv, JobInv, TypeInv, Manual, RunBegins, RunRefused, RunDone, RunStarts
<1>1. /\ Loading /\ Loading' /\ phase # "down" /\ manual.job \in Job \ SystemJob
      /\ added[manual.job] = None /\ fate[manual.job] # "none"
  BY <1>0 DEF CronInv, JobInv, PhaseInv, BookInv, AgendaInv, TypeInv, TickShape, Loading
<1>2. CASE RunBegins
  <2>1. /\ LoadOnly(TRUE) /\ UNCHANGED fate /\ Loaded[manual.job] # None
        /\ UNCHANGED <<due, current, disturbed>>
        /\ manual.phase = "asked" /\ manual'.phase = "running" /\ manual'.job = manual.job
    BY <1>0, <1>2 DEF RunBegins, RunStarts, CanRun, TypeOK, Run
  <2>2. AgendaOf!Read
    BY <1>1, <2>1, LoadReads
  <2>3. ByHand = None /\ ByHand' = manual.job
    BY <2>1 DEF ByHand
  <2>4. manual.job \in (Listed \union Elsewhere) \ SystemJob
    BY <1>1, <2>1, LoadedListed
  <2>5. AgendaOf!BeginByHand
    BY <1>0, <2>1, <2>2, <2>3, <2>4 DEF AgendaOf!BeginByHand, AgendaOf!tick
  <2> QED BY <2>5 DEF AgendaOf!Next
<1>3. CASE RunRefused
  <2>1. /\ LoadOnly(TRUE) /\ UNCHANGED fate /\ RestoreRunning(running) /\ running \in BOOLEAN
        /\ manual.phase = "asked"
    BY <1>0, <1>3 DEF RunRefused, RunStarts, TypeOK
  <2>2. AgendaOf!Read
    BY <1>1, <2>1, LoadReads
  <2>3. AgendaOf!DropTick \/ UNCHANGED AgendaOf!tick
    BY <1>0, <2>1, RestoreDrops DEF CronInv, JobInv
  <2>4. UNCHANGED ByHand
    <3>1. ByHand' = None
      BY <1>0, <2>1, RestoreDrops DEF CronInv, JobInv
    <3> QED BY <2>1, <3>1 DEF ByHand
  <2>5. AgendaOf!Load
    BY <1>0, <2>2, <2>3, <2>4 DEF AgendaOf!Load
  <2> QED BY <2>5 DEF AgendaOf!Next
<1>4. CASE RunDone
  <2>1. /\ store' = Recorded(manual.job, manual.stale) /\ disk' = store' /\ UNCHANGED journal
        /\ Finished(manual.job, "gone") /\ manual.stale \in BOOLEAN
        /\ manual.was \in BOOLEAN /\ RestoreRunning(manual.was) /\ manual.phase = "running"
    BY <1>0, <1>4 DEF RunDone, TypeOK, Run
  <2>2. /\ Listed' = Listed \ (Dropped \union ({manual.job} \intersect OneShot))
        /\ Dropped' = {} /\ Elsewhere' = Elsewhere
    BY <1>1, <2>1, SavedJobs
  <2>3. UNCHANGED Known
    BY <1>0, <1>1, <2>1, FinishedKnown
  <2>4. ByHand' = None /\ (AgendaOf!DropTick \/ UNCHANGED AgendaOf!tick)
    BY <1>0, <2>1, RestoreDrops DEF CronInv, JobInv
  <2>5. ByHand = manual.job /\ ByHand # None
    BY <1>1, <2>1, NoneAssumption DEF ByHand
  <2>6. AgendaOf!EndByHand
    BY <1>0, <2>2, <2>3, <2>4, <2>5 DEF AgendaOf!EndByHand
  <2> QED BY <2>6 DEF AgendaOf!Next
<1> QED BY <1>2, <1>3, <1>4 DEF Manual

\* A step of the gateway that only loads, and may cancel the tick.
LEMMA OnlyReads ==
  ASSUME CronInv, Loading, Loading', LoadOnly(TRUE), UNCHANGED <<fate, clock, ByHand>>,
         AgendaOf!DropTick \/ UNCHANGED AgendaOf!tick
  PROVE  AgendaOf!Next
BY LoadReads DEF AgendaOf!Load, AgendaOf!Next

LEMMA BootSteps ==
  ASSUME CronInv, Boot
  PROVE  AgendaOf!Next
<1>0. TypeOK /\ ~Loading
  BY DEF CronInv, JobInv, TypeInv, Boot, Register, Start, Loading
<1>1. /\ timer = "none" /\ ~timerActive /\ due = {} /\ current = None
      /\ UNCHANGED <<clock, manual, served>> /\ ByHand = None
  <2>1. manual.phase = "idle" /\ timer = "none" /\ ~timerActive
    BY <1>0 DEF CronInv, JobInv, PhaseInv
  <2> QED BY <2>1, ByHandOver DEF CronInv, JobInv, TypeInv, TickShape, Boot, Register, Start, ByHand
<1>2. UNCHANGED ByHand
  BY <1>1, ByHandSame
<1>3. CASE Register
  <2>1. /\ UNCHANGED <<added, dels, due, current, served, disturbed>> /\ disk' = store'
        /\ phase = "down"
    BY <1>3 DEF Register, journal, tick
  <2>2. \A j \in Job : IF j \in SystemJob THEN disk'[j] # None /\ fate'[j] = "kept"
                                        ELSE disk'[j] = Merged[j] /\ fate'[j] = fate[j]
    <3>1. 0 \in Time /\ SystemJob \subseteq Job
      BY TimeAssumption, JobAssumption DEF Time
    <3>2. \A j \in SystemJob : NewJob(j, 0) # None
      BY <1>0, <3>1, NextRunType, NoneAssumption
    <3> QED BY <1>0, <1>3, <3>2 DEF Register, TypeOK
  <2>3. Known' = Known \union SystemJob
    BY <2>2, JobAssumption DEF Known
  <2>4. Listed' = Listed \union SystemJob
    <3>1. \A j \in Job : Merged[j] # None <=> j \in Listed
      BY DEF Listed
    <3>2. SystemJob \intersect dels = {}
      BY DEF CronInv, JobInv, BookInv
    <3>3. ASSUME NEW j \in Job
          PROVE  j \in Listed' <=> j \in Listed \/ j \in SystemJob
      <4>1. j \in Listed' <=> j \notin dels /\ (added[j] # None \/ disk'[j] # None)
        BY <2>1, Lists
      <4>2. j \in Listed <=> j \notin dels /\ (added[j] # None \/ disk[j] # None)
        BY Lists
      <4>3. CASE j \in SystemJob
        BY <2>2, <3>2, <4>1, <4>3
      <4>4. CASE j \notin SystemJob
        BY <2>2, <3>1, <4>1, <4>2, <4>4
      <4> QED BY <4>3, <4>4
    <3>4. Listed \subseteq Job /\ Listed' \subseteq Job /\ SystemJob \subseteq Job
      BY JobAssumption DEF Listed
    <3> QED BY <3>3, <3>4
  <2>5. Dropped = {} /\ Dropped' = {} /\ Elsewhere' = Elsewhere
    BY <2>1, NothingDropped DEF Dropped, Elsewhere
  <2>6. AgendaOf!Register
    BY <1>1, <1>2, <2>1, <2>3, <2>4, <2>5 DEF AgendaOf!Register, AgendaOf!tick
  <2> QED BY <2>6 DEF AgendaOf!Next
<1>4. CASE Start
  <2> DEFINE S == [j \in Job |-> IF Merged[j] # None /\ Merged[j].enabled
                                 THEN [Merged[j] EXCEPT !.next = NextRun(j, Merged[j].at)]
                                 ELSE Merged[j]]
  <2>1. /\ LoadAndSave(TRUE, S) /\ Arm /\ UNCHANGED fate /\ phase # "down" /\ Loaded = Merged
    BY <1>1, <1>4 DEF Start, Loaded
  <2>2. ASSUME NEW j \in Job
        PROVE  S[j] # None <=> Merged[j] # None
    <3>1. CASE Merged[j] # None
      <4>1. Merged[j] \in JobRecord
        BY <1>0, <3>1, MergedType DEF Table
      <4>2. NextRun(j, Merged[j].at) \in 0 .. MaxTime + 1
        BY <1>0, <4>1, NextRunType DEF JobRecord
      <4>3. [Merged[j] EXCEPT !.next = NextRun(j, Merged[j].at)] # None
        BY <4>1, <4>2, NoneAssumption DEF JobRecord
      <4> QED BY <3>1, <4>3
    <3> QED BY <3>1
  <2> HIDE DEF S
  <2>3. /\ \A j \in Job : S[j] # None <=> (Loaded[j] # None /\ j \notin {}) \/ j \in {}
        /\ {} \intersect dels = {}
    BY <2>1, <2>2
  <2>4. Known' = Known \union {}
    BY <2>1, KnownSame
  <2>5. AgendaOf!Write({}, {})
    BY <2>1, <2>3, <2>4, SaveWrites
  <2>6. AgendaOf!DropTick
    BY <1>1, <2>1, CancelDrops DEF Arm, CronInv, JobInv
  <2>7. AgendaOf!Change
    BY <1>1, <1>2, <2>5, <2>6 DEF AgendaOf!Change, AgendaOf!Rewrite
  <2> QED BY <2>7 DEF AgendaOf!Next
<1> QED BY <1>3, <1>4 DEF Boot

LEMMA EditsSteps ==
  ASSUME CronInv, Edits
  PROVE  AgendaOf!Next
<1>1. PICK j \in Job : \/ \E at \in Schedules(j) : AddJob(j, at) \/ UpdateJob(j, at)
                       \/ RemoveJob(j)
                       \/ \E on \in BOOLEAN : EnableJob(j, on)
                       \/ AskRun(j)
  BY DEF Edits
<1>2. CASE AskRun(j)
  <2>1. /\ phase = "up" /\ phase' = "up" /\ LoadOnly(TRUE)
        /\ UNCHANGED <<clock, due, current, served, disturbed, fate>>
        /\ manual.phase = "idle" /\ manual'.phase = "asked"
    BY <1>2 DEF AskRun, NoRun, history, CronInv, JobInv, PhaseInv, TimerArmed
  <2>2. UNCHANGED ByHand
    BY <2>1, ByHandOver DEF ByHand
  <2> QED BY <2>1, <2>2, OnlyReads DEF Loading, AgendaOf!tick
<1>3. CASE ~AskRun(j)
  BY <1>1, <1>3, EditsChange DEF AgendaOf!Next
<1> QED BY <1>2, <1>3

LEMMA HaltsSteps ==
  ASSUME CronInv, Halts
  PROVE  AgendaOf!Next
<1>0. TypeOK
  BY DEF CronInv, JobInv, TypeInv
<1>1. CASE Stop
  <2>1. /\ CancelTimer /\ UNCHANGED <<clock, disk, added, dels, store, manual, fate, served>>
        /\ phase = "up" /\ phase' = "stopping"
    BY <1>1 DEF Stop, journal
  <2>2. UNCHANGED <<Known, Listed, Elsewhere, Dropped, ByHand>>
    BY <2>1 DEF Known, Listed, Elsewhere, Dropped, Merged, ByHand
  <2>3. AgendaOf!DropTick
    BY <2>1, CancelDrops DEF CronInv, JobInv
  <2>4. AgendaOf!Load
    BY <2>1, <2>2, <2>3 DEF AgendaOf!Load, AgendaOf!Read, AgendaOf!Merge
  <2> QED BY <2>4 DEF AgendaOf!Next
<1>2. ASSUME GoDown
      PROVE  /\ Dropped' = {} /\ due' \ {current'} = {} /\ current' = None /\ ByHand' = None
             /\ UNCHANGED <<clock, disk, served, disturbed>>
  <2>1. phase' = "down" /\ manual'.phase = "idle"
    BY <1>2 DEF GoDown, NoRun
  <2> QED BY <1>2, <2>1, ByHandOver DEF GoDown, NoTick, Dropped
<1>3. CASE Crash
  <2>1. GoDown /\ UNCHANGED <<added, dels, fate>>
    BY <1>3 DEF Crash, journal
  <2>2. UNCHANGED <<Known, Listed, Elsewhere>>
    BY <1>2, <2>1 DEF Known, Listed, Merged, Elsewhere
  <2>3. AgendaOf!Halt
    BY <1>2, <2>1, <2>2 DEF AgendaOf!Halt
  <2> QED BY <2>3 DEF AgendaOf!Next
<1>4. CASE CrashInMerge
  <2>1. /\ GoDown /\ added' = Empty /\ dels' = {} /\ disk' = disk
        /\ fate' = [j \in Job |-> IF added[j] # None \/ j \in dels THEN "either" ELSE fate[j]]
    BY <1>2, <1>4 DEF CrashInMerge
  <2>2. Elsewhere' = {}
    BY <2>1 DEF Elsewhere, Empty
  <2>3. Known' = Known
    <3>1. \A j \in Job : added[j] # None \/ j \in dels => fate[j] # "none"
      BY DEF CronInv, JobInv, BookInv, AgendaInv
    <3> QED BY <1>0, <2>1, <3>1 DEF Known, TypeOK
  <2>4. Listed' \ Elsewhere = Listed \ Elsewhere
    <3>1. Listed \subseteq Job /\ Listed' \subseteq Job
      BY DEF Listed
    <3>2. \A j \in Job \ Elsewhere : j \in Listed' <=> j \in Listed
      BY <2>1, Lists DEF Elsewhere, Empty
    <3> QED BY <3>1, <3>2
  <2>5. AgendaOf!Halt
    BY <1>2, <2>1, <2>2, <2>3, <2>4 DEF AgendaOf!Halt
  <2> QED BY <2>5 DEF AgendaOf!Next
<1> QED BY <1>1, <1>3, <1>4 DEF Halts

LEMMA OtherSteps ==
  ASSUME CronInv, ClockTicks \/ Poll \/ Unwind \/ UNCHANGED vars
  PROVE  AgendaOf!Next \/ UNCHANGED AgendaOf!vars
<1>0. TypeOK
  BY DEF CronInv, JobInv, TypeInv
<1>1. CASE Poll
  <2>1. /\ phase = "up" /\ phase' = "up" /\ LoadOnly(TRUE)
        /\ UNCHANGED <<clock, due, current, served, disturbed, fate>>
        /\ manual'.phase = manual.phase /\ manual'.job = manual.job
    BY <1>0, <1>1 DEF Poll, Orphan, history, CronInv, JobInv, PhaseInv, TimerArmed, TypeOK, Run
  <2> QED BY <2>1, ByHandSame, OnlyReads DEF Loading, AgendaOf!tick
<1>2. CASE ClockTicks \/ Unwind \/ UNCHANGED vars
  <2>1. /\ UNCHANGED <<disk, added, dels, phase, store, due, current, manual, fate, served, disturbed>>
        /\ clock' = clock + 1 \/ clock' = clock
    BY <1>2 DEF ClockTicks, Unwind, Unwound, vars, journal, gateway, tick, history
  <2>2. UNCHANGED <<AgendaOf!list, AgendaOf!tick, ByHand>>
    BY <2>1 DEF AgendaOf!list, AgendaOf!tick, ByHand, Known, Listed, Merged, Elsewhere, Dropped
  <2> QED BY <2>1, <2>2 DEF AgendaOf!Next, AgendaOf!ClockTicks, AgendaOf!vars
<1> QED BY <1>1, <1>2

\* The cron service implements Agenda: a job is executed only while it is on the
\* list, no job of a tick after an edit of the gateway, none for a time that was
\* served unless a tick has been cancelled, and the list changes only as it is
\* asked to and by the end of one-shot jobs.
THEOREM CronImplementsAgenda == Spec => ImplementsAgenda
<1>1. Init => AgendaOf!Init
  <2> SUFFICES ASSUME Init PROVE AgendaOf!Init
    OBVIOUS
  <2>1. Known = {} /\ Elsewhere = {} /\ Listed = {} /\ Dropped = {}
    BY DEF Init, Known, Elsewhere, Listed, Dropped, Merged, Empty
  <2>2. ByHand = None
    BY DEF Init, ByHand, NoRun
  <2> QED BY <2>1, <2>2 DEF Init, AgendaOf!Init
<1>2. CronInv /\ [Next]_vars => [AgendaOf!Next]_AgendaOf!vars
  <2> SUFFICES ASSUME CronInv, [Next]_vars PROVE AgendaOf!Next \/ UNCHANGED AgendaOf!vars
    OBVIOUS
  <2>1. CronInv'
    BY CronInvStep
  <2> QED BY <2>1, BootSteps, EditsSteps, OutsideChanges, TimerSteps, ManualSteps, HaltsSteps,
             OtherSteps DEF Next, AgendaOf!Next
<1> QED BY <1>1, <1>2, CronInvariant, PTL DEF Spec, ImplementsAgenda, AgendaOf!Spec
=============================================================================
