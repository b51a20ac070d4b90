------------------------------- MODULE Agenda -------------------------------
(***************************************************************************)
(* What the cron service promises, without its files, stores and tasks:    *)
(* which jobs are on the list, which of them a tick has before it, and     *)
(* when a change of the list takes effect. Changes come from the gateway,  *)
(* which drops the tick in progress, and from elsewhere, which do not.     *)
(***************************************************************************)
EXTENDS Naturals

CONSTANTS Job, OneShot, SystemJob, None

VARIABLES
    clock,
    known,      \* the jobs that were ever accepted
    listed,     \* the jobs on the list
    elsewhere,  \* those a change from elsewhere concerns that is not merged yet
    finished,   \* the one-shot jobs that have run and are not yet off the list
    agenda,     \* the jobs the tick still has to execute, with their times
    current,    \* the one it executes, or None
    byHand,     \* the job that runs outside of the ticks, or None
    served,     \* every job and time a tick has executed
    disturbed   \* a tick has been dropped before its end

tick == <<agenda, current, served, disturbed>>
list == <<known, listed, elsewhere, finished>>
vars == <<clock, list, tick, byHand>>

Init ==
    /\ clock = 0
    /\ <<known, listed, elsewhere, finished>> = <<{}, {}, {}, {}>>
    /\ <<agenda, current, byHand>> = <<{}, None, None>>
    /\ served = {}
    /\ disturbed = FALSE

ClockTicks == clock' = clock + 1 /\ UNCHANGED <<list, tick, byHand>>

(***************************************************************************)
(* The list.                                                               *)
(***************************************************************************)
Merge == elsewhere' \in {elsewhere, {}}

\* A job that is finished stays so until it is off the list; only where a tick
\* has been dropped may its end be forgotten.
Read ==
    /\ Merge
    /\ finished' = finished \/ (disturbed /\ finished' = {})
    /\ UNCHANGED <<known, listed>>

\* The list is written with the jobs of "new" and without those of "gone".
Write(new, gone) ==
    /\ Merge
    /\ \/ listed' = (listed \ (finished \union gone)) \union new
       \/ disturbed /\ listed' = (listed \ gone) \union new
    /\ finished' = {}
    /\ known' = known \union new

\* No job of the tick is executed any more.
DropTick ==
    /\ agenda' = {}
    /\ current' = None
    /\ disturbed' = (disturbed \/ current # None)
    /\ UNCHANGED served

Accept(j) == j \notin known \union SystemJob /\ Write({j}, {}) /\ DropTick

Withdraw(j) ==
    /\ j \in (listed \union elsewhere) \ SystemJob
    /\ Write({}, {j})
    /\ DropTick

Rewrite == Write({}, {}) /\ DropTick

Change == (Rewrite \/ \E j \in Job : Accept(j) \/ Withdraw(j)) /\ UNCHANGED <<clock, byHand>>

AcceptElsewhere(j) ==
    /\ j \notin known \union SystemJob
    /\ known' = known \union {j}
    /\ listed' = listed \union {j}
    /\ UNCHANGED finished

WithdrawElsewhere(j) ==
    /\ j \in known \ SystemJob
    /\ listed' = listed \ {j}
    /\ finished' = finished \ {j}
    /\ UNCHANGED known

ChangeElsewhere ==
    \E j \in Job :
       /\ AcceptElsewhere(j) \/ WithdrawElsewhere(j)
       /\ elsewhere' = elsewhere \union {j}
       /\ UNCHANGED <<clock, tick, byHand>>

(***************************************************************************)
(* Ticks and runs by hand.                                                 *)
(***************************************************************************)
Load == Read /\ (DropTick \/ UNCHANGED tick) /\ UNCHANGED <<clock, byHand>>

\* A tick takes jobs that are on the list, each once, at a time that has come
\* and that no tick has served.
Begin ==
    /\ current = None
    /\ Read
    /\ LET taken == agenda' \union {current'}
       IN /\ taken \subseteq ((listed \union elsewhere) \ finished') \X (1 .. clock)
          /\ \A d, e \in taken : d[1] = e[1] => d = e
          /\ disturbed \/ taken \intersect served = {}
    /\ current' \notin agenda'
    /\ served' = served \union {current'}
    /\ UNCHANGED <<clock, disturbed, byHand>>

Over(j) == {j} \intersect OneShot \intersect (listed \ elsewhere)

NextJob ==
    /\ current # None
    /\ current' \in agenda
    /\ agenda' = agenda \ {current'}
    /\ disturbed \/ current' \notin served
    /\ served' = served \union {current'}
    /\ finished' = finished \union Over(current[1])
    /\ UNCHANGED <<clock, known, listed, elsewhere, disturbed, byHand>>

End ==
    /\ current # None /\ agenda = {}
    /\ current' = None
    /\ listed' = listed \ (finished \union Over(current[1]))
    /\ finished' = {}
    /\ UNCHANGED <<clock, known, elsewhere, agenda, served, disturbed, byHand>>

BeginByHand ==
    /\ byHand = None
    /\ byHand' \in (listed \union elsewhere) \ SystemJob
    /\ Read
    /\ UNCHANGED <<clock, tick>>

EndByHand ==
    /\ byHand # None
    /\ byHand' = None
    /\ listed' = listed \ (finished \union ({byHand} \intersect OneShot))
    /\ finished' = {}
    /\ DropTick \/ UNCHANGED tick
    /\ UNCHANGED <<clock, known, elsewhere>>

(***************************************************************************)
(* Startup and the end of the process, which may undo changes from         *)
(* elsewhere and nothing else.                                             *)
(***************************************************************************)
Register ==
    /\ current = None /\ byHand = None
    /\ listed' = listed \union SystemJob
    /\ known' = known \union SystemJob
    /\ UNCHANGED <<clock, elsewhere, finished, tick, byHand>>

Halt ==
    /\ \/ UNCHANGED <<listed, elsewhere>>
       \/ listed' \ elsewhere = listed \ elsewhere /\ elsewhere' = {}
    /\ <<finished', agenda', current', byHand'>> = <<{}, {}, None, None>>
    /\ UNCHANGED <<clock, known, served, disturbed>>

Next ==
    \/ ClockTicks
    \/ Change \/ ChangeElsewhere
    \/ Load
    \/ Begin \/ NextJob \/ End
    \/ BeginByHand \/ EndByHand
    \/ Register \/ Halt

Spec == Init /\ [][Next]_vars
=============================================================================
