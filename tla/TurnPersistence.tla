--------------------------- MODULE TurnPersistence ---------------------------
(***************************************************************************)
(* The turns of a session (nanobot/agent/loop.py): the states RESTORE to   *)
(* RESPOND around a run of RunnerLoop, what each writes to the session,    *)
(* /stop, /new, an exception, and a crash between any two steps.  The      *)
(* dispatcher that picks the turns is AgentDispatch; here one turn runs at *)
(* a time and every other message is on the bus or in its pending queue.   *)
(***************************************************************************)
EXTENDS RunnerLoop

CONSTANTS
    MaxTroubles,    \* bounds stops, exceptions and crashes
    MaxArchived     \* no compaction once that many rows have left

ASSUME TroublesAssumption == {MaxTroubles, MaxArchived} \subseteq Nat

VARIABLES
    replied,     \* turns whose reply was handed to the bus
    troubles

vars == <<session, runner, replied, troubles>>

Place ==
    {"none",      \* a slice nobody has asked for
     "unsent", "bus", "queued", "turn",
     "working",   \* drained, in the messages of the run
     "filed",     \* drained, in the history
     "absorbed",  \* drained into the opening message, which is not saved again
     "cut",       \* drained, gone with the run it was drained by
     "forgotten", \* cleared by /new
     "done", "handedOver", "stopped", "failed", "lost"}

\* The counters stay within the bounds of the run, whichever path continues it.
TypeOK ==
    /\ SessionTypeOK
    /\ RunnerTypeOK
    /\ stage \in {"idle", "restore", "command", "save", "saveSlice", "blocked", "respond", "finish"}
                    \cup InRun
    /\ turn \in Msg \cup {None}
    /\ turn = None <=> stage = "idle"
    /\ place \in [Msg -> Place]
    /\ replied \subseteq Msg
    /\ troubles \in 0 .. MaxTroubles

Init ==
    /\ InitSession
    /\ stage = "idle" /\ turn = None /\ work = <<>>
    /\ iteration = 0 /\ emptyRetries = 0 /\ recoveries = 0 /\ cycles = 0
    /\ queue = <<>>
    /\ place = [m \in Msg |-> IF Kind[m] = "slice" THEN "none" ELSE "unsent"]
    /\ replied = {}
    /\ troubles = 0

\* A turn is over, and what it drained but did not save goes with it.  Its
\* pending queue is republished.
EndTurn == stage' = "idle" /\ turn' = None /\ work' = <<>> /\ queue' = <<>> /\ ResetRun

LeftAsRepublished(outcome) ==
    [m \in Msg |-> IF m = turn THEN outcome
                   ELSE IF place[m] \in {"queued", "working", "filed"} THEN "bus"
                   ELSE place[m]]

LeftAs(outcome) ==
    [m \in Msg |-> IF m = turn THEN outcome
                   ELSE IF place[m] = "queued" THEN "bus"
                   ELSE IF place[m] = "working" THEN "cut"
                   ELSE place[m]]

Trouble == troubles < MaxTroubles /\ troubles' = troubles + 1

-----------------------------------------------------------------------------
(* The bus and the run loop *)

Arrived(m) == place[m] \in {"unsent", "bus"}

Begin(m) ==
    /\ turn = None
    /\ Arrived(m)
    /\ turn' = m
    /\ stage' = "restore"
    /\ place' = [place EXCEPT ![m] = "turn"]
    /\ UNCHANGED <<session, work, run, queue, replied, troubles>>

\* A message for a session with a turn: into its pending queue, if that has room.
\* A task of its own waits for the turn to end otherwise.
Route(m) ==
    /\ turn # None
    /\ Arrived(m)
    /\ Len(queue) < QueueMax
    /\ queue' = Append(queue, m)
    /\ place' = [place EXCEPT ![m] = "queued"]
    /\ UNCHANGED <<session, stage, turn, work, run, replied, troubles>>

-----------------------------------------------------------------------------
(* The states of a turn *)

\* _state_restore
Restore ==
    /\ stage = "restore"
    /\ MaterializeCheckpoint \/ ClosePendingTurn \/ NothingToRestore
    /\ stage' = "command"
    /\ UNCHANGED <<turn, work, run, queue, place, replied, troubles>>

\* _state_command answers the command itself.  The two rows are saved before
\* the flag is cleared, and that only in memory.
Shortcut ==
    /\ stage = "command"
    /\ Kind[turn] = "chat"
    /\ log' = log \o <<Row("user", turn, 0, {turn}), Row("text", turn, 0, {})>>
    /\ pending' = FALSE
    /\ disk' = [log |-> log', checkpoint |-> checkpoint, pending |-> TRUE]
    /\ stage' = "respond"
    /\ UNCHANGED <<checkpoint, goal, archived, turn, work, run, queue, place, replied, troubles>>

Forgotten(p) == [m \in Msg |-> IF p[m] = "filed" THEN "forgotten" ELSE p[m]]

\* cmd_new as a turn
NewShortcut ==
    /\ stage = "command"
    /\ Kind[turn] = "chat"
    /\ ClearSession
    /\ stage' = "respond"
    /\ place' = Forgotten(place)
    /\ UNCHANGED <<turn, work, run, queue, replied, troubles>>

\* _state_build: the user's message is saved before the model sees it.  A slice
\* has none.
KeepOpening == Kind[turn] # "slice"

OpenTurnUnmarked ==
    /\ log' = IF KeepOpening THEN Append(log, Row("user", turn, 0, {turn})) ELSE log
    /\ UNCHANGED <<pending, checkpoint, goal, archived>>
    /\ Save

OpenTurn ==
    /\ log' = IF KeepOpening THEN Append(log, Row("user", turn, 0, {turn})) ELSE log
    /\ pending' = (KeepOpening \/ pending)
    /\ UNCHANGED <<checkpoint, goal, archived>>
    /\ Save

Build ==
    /\ stage = "command"
    /\ OpenTurn
    /\ StartRun
    /\ UNCHANGED <<turn, queue, place, replied, troubles>>

Run == RunnerNext /\ UNCHANGED <<replied, troubles>>

\* The row that closes an exhausted run.  If the goal has budget left,
\* maybe_continue_turn queues a slice that goes on with it and owns the reply,
\* and that row is not kept.  It awaits put(): with the queue full the turn waits
\* for itself to take something out.
CloseExhausted ==
    /\ stage = "closing"
    /\ LET rows == WithFinal(work)
       IN  \/ stage' = "save" /\ work' = rows /\ UNCHANGED <<queue, place>>
           \/ \E m \in Msg :
                /\ goal
                /\ Kind[m] = "slice" /\ place[m] = "none"
                /\ work' = Front(rows)
                /\ \/ /\ Len(queue) < QueueMax
                      /\ queue' = Append(queue, m)
                      /\ place' = [place EXCEPT ![m] = "queued"]
                      /\ stage' = "saveSlice"
                   \/ /\ Len(queue) = QueueMax
                      /\ stage' = "blocked"
                      /\ UNCHANGED <<queue, place>>
    /\ UNCHANGED <<session, turn, run, replied, troubles>>

\* _state_save
FileRunKeepingMarks ==
    /\ EnforceFileCap(log \o work)
    /\ pending' = FALSE
    /\ UNCHANGED <<checkpoint, goal>>
    /\ Save

FileRun ==
    /\ EnforceFileCap(log \o work)
    /\ pending' = FALSE /\ checkpoint' = None
    /\ UNCHANGED goal
    /\ Save

SaveTurn ==
    /\ stage \in {"save", "saveSlice"}
    /\ FileRun
    /\ work' = <<>>
    /\ place' = [m \in Msg |-> IF place[m] = "working" THEN "filed" ELSE place[m]]
    /\ stage' = IF stage = "save" THEN "respond" ELSE "finish"
    /\ UNCHANGED <<turn, run, queue, replied, troubles>>

\* _state_respond, the reply on the bus, and the finally of _dispatch
Respond ==
    /\ stage = "respond"
    /\ replied' = replied \cup {turn}
    /\ place' = LeftAs("done")
    /\ EndTurn
    /\ UNCHANGED <<session, troubles>>

FinishSlice ==
    /\ stage = "finish"
    /\ place' = LeftAs("handedOver")
    /\ EndTurn
    /\ UNCHANGED <<session, replied, troubles>>

-----------------------------------------------------------------------------
(* Turns that do not end by themselves *)

\* What the handler of a cancelled turn in _dispatch does to the session.
NothingSaved == checkpoint = None /\ UNCHANGED session
RestoreCancelled == MaterializeCheckpoint \/ NothingSaved

\* /stop, at any await of the turn
Stop ==
    /\ turn # None
    /\ Trouble
    /\ RestoreCancelled
    /\ place' = LeftAs("stopped")
    /\ EndTurn
    /\ UNCHANGED replied

\* A /new that finds a turn: the run loop cancels the turn, waits for the
\* handler above, and clears the session.
NewInline(m) ==
    /\ turn # None
    /\ Arrived(m) /\ Kind[m] = "chat"
    /\ log' = <<>>
    /\ checkpoint' = None
    /\ pending' = (pending /\ checkpoint = None)
    /\ UNCHANGED <<goal, archived>>
    /\ Save
    /\ place' = Forgotten([LeftAs("stopped") EXCEPT ![m] = "done"])
    /\ EndTurn
    /\ UNCHANGED <<replied, troubles>>

\* An exception out of the run: an apology, and the marks stay for the next turn.
Fail ==
    /\ stage \in InRun
    /\ Trouble
    /\ place' = LeftAs("failed")
    /\ EndTurn
    /\ UNCHANGED <<session, replied>>

\* The process dies, and the bus and the queue with it.
Crash ==
    /\ Trouble
    /\ Reload
    /\ place' = [m \in Msg |-> IF place[m] \in {"bus", "queued", "turn"} THEN "lost"
                               ELSE IF place[m] = "working" THEN "cut" ELSE place[m]]
    /\ EndTurn
    /\ UNCHANGED replied

\* autocompact.py and compact_idle_session, of a session that nobody has written to
\* for a while.
Idle ==
    /\ turn = None
    /\ Cardinality(archived) < MaxArchived
    /\ CompactIdle
    /\ UNCHANGED <<runner, replied, troubles>>

TurnStep ==
    \/ Restore \/ Shortcut \/ NewShortcut \/ Build \/ Run \/ CloseExhausted
    \/ SaveTurn \/ Respond \/ FinishSlice

Pickup(m) == Begin(m) \/ Route(m) \/ NewInline(m)

Next ==
    \/ TurnStep
    \/ \E m \in Msg : Pickup(m)
    \/ Stop \/ Fail \/ Crash
    \/ Idle

Spec == Init /\ [][Next]_vars

\* The event loop resumes a turn whose await is over, requests and tools time
\* out, and the run loop reads its bus.
FairSpec ==
    /\ Spec
    /\ WF_vars(TurnStep)
    /\ \A m \in Msg : WF_vars(place[m] = "bus" /\ Pickup(m))

-----------------------------------------------------------------------------
(* Properties *)

\* Nothing is in memory that a crash would lose, except that a shortcut's flag
\* is cleared in memory first; the marks belong to the turn that runs, or to the
\* last one that was interrupted, and what the checkpoint holds is not in the
\* history yet: it is materialized once, behind its own turn's rows.
MarksFresh ==
    /\ log = disk.log /\ checkpoint = disk.checkpoint /\ (pending => disk.pending)
    /\ stage \in {"command", "respond", "finish"} => checkpoint = None
    /\ stage \in InRun \cup {"save", "saveSlice"} /\ checkpoint # None => checkpoint.turn = turn
    /\ checkpoint # None =>
          \A r \in ToSet(log) \cup archived : r.turn = checkpoint.turn => r.n = 0

\* A turn that was stopped, failed or crashed does not leave its opening message
\* open: by the time the next turn opens, an assistant row follows it.
InterruptedTurnClosed ==
    \A i \in DOMAIN log :
        log[i].kind = "user" /\ i + 1 \in DOMAIN log => log[i + 1].kind # "user"

Rows == log \o work
Mentions(m) == {i \in DOMAIN Rows : m \in Rows[i].said}

\* The history and the run hold the text of a message once, whether it opened a
\* turn or was met by one, and however often it was queued and republished; and
\* not at all if a row that left for the archive holds it.
SaidOnce ==
    \A m \in Msg :
        /\ \A i, j \in Mentions(m) : i = j
        /\ Mentions(m) # {} => \A r \in archived : m \notin r.said

\* A follow-up that a run drained is in the run's messages until the turn ends,
\* and in the history or the archive after the turn was saved, until /new.
FollowUpsFiled ==
    \A m \in Msg :
        /\ place[m] = "working" => \E i \in DOMAIN work : m \in work[i].said
        /\ place[m] = "filed" => \E r \in ToSet(log) \cup archived : m \in r.said

\* A turn ends, whatever the model replies and whoever writes to it meanwhile,
\* unless it waits for room in the queue that only itself could empty.
Stuck == stage = "blocked" /\ Len(queue) = QueueMax
EveryTurnEnds == stage # "idle" ~> stage = "idle" \/ Stuck

\* What is on disk, what has left it, and what was replied are the state of
\* Conversation.
Conv == INSTANCE Conversation WITH record <- disk.log, archive <- archived, replied <- replied

\* The turns keep the promises of Conversation: the file grows by whole iterations,
\* loses nothing that the archive does not have, and one of the two has an answer
\* before the answer is sent.
ImplementsConversation == Conv!Spec
=============================================================================
