----------------------------- MODULE SessionFile -----------------------------
(***************************************************************************)
(* One session in memory (nanobot/session/manager.py) and the file save()  *)
(* writes, with the two marks a turn leaves in the metadata so that a later *)
(* one can close it: the runtime checkpoint and the pending-user flag      *)
(* (nanobot/agent/loop.py).                                                *)
(***************************************************************************)
EXTENDS History

CONSTANTS
    None,
    FileCap     \* FILE_MAX_MESSAGES, counted in rows

ASSUME FileAssumption == FileCap \in Nat \ {0, 1}

VARIABLES
    log,         \* Session.messages
    checkpoint,  \* metadata["runtime_checkpoint"]
    pending,     \* metadata["pending_user_turn"]
    goal,        \* metadata["goal_state"] is active; each change is saved at once
    disk,        \* what the session file holds of the first three
    archived     \* rows that a cap or a compaction took out of the file (history)

session == <<log, checkpoint, pending, goal, disk, archived>>

CheckpointType ==
    [phase : {"awaiting", "completed", "final"}, turn : Msg, n : Nat \ {0}]

SessionTypeOK ==
    /\ log \in Seq(RowType)
    /\ checkpoint \in CheckpointType \cup {None}
    /\ pending \in BOOLEAN /\ goal \in BOOLEAN
    /\ disk.log \in Seq(RowType)
    /\ disk \in [log : {disk.log}, checkpoint : CheckpointType \cup {None}, pending : BOOLEAN]
    /\ archived \subseteq RowType

InitSession ==
    /\ log = <<>>
    /\ checkpoint = None
    /\ pending = FALSE /\ goal = FALSE
    /\ disk = [log |-> <<>>, checkpoint |-> None, pending |-> FALSE]
    /\ archived = {}

\* SessionManager.save replaces the file, atomically, by what is in memory.
Save == disk' = [log |-> log', checkpoint |-> checkpoint', pending |-> pending']

\* _set_runtime_checkpoint
Emit(phase, t, n) ==
    /\ checkpoint' = [phase |-> phase, turn |-> t, n |-> n]
    /\ UNCHANGED <<log, pending, goal, archived>>
    /\ Save

\* The messages the checkpoint keeps of an unfinished turn: the assistant's, its
\* results, and a synthetic result for the calls that have none.
CheckpointRowsCallOnly(c) == <<Row("call", c.turn, c.n, {})>>

CheckpointRows(c) ==
    CASE c.phase = "awaiting" -> <<Row("call", c.turn, c.n, {}),
                                   Row("interrupted", c.turn, c.n, {})>>
      [] c.phase = "completed" -> <<Row("call", c.turn, c.n, {}),
                                    Row("result", c.turn, c.n, {})>>
      [] c.phase = "final" -> <<Row("text", c.turn, c.n, {})>>

\* How many of the first rows are the tail of the history already.
Overlaps(rows) ==
    {k \in 0 .. Len(rows) : k <= Len(log) /\ IsSuffix(SubSeq(rows, 1, k), log)}
Overlap(rows) == CHOOSE k \in Overlaps(rows) : \A j \in Overlaps(rows) : j <= k

\* _restore_runtime_checkpoint and the save() of its callers
MaterializeCheckpoint ==
    /\ checkpoint # None
    /\ LET rows == CheckpointRows(checkpoint)
       IN  log' = log \o SubSeq(rows, Overlap(rows) + 1, Len(rows))
    /\ checkpoint' = None /\ pending' = FALSE
    /\ UNCHANGED <<goal, archived>>
    /\ Save

\* _restore_pending_user_turn and the save() of its caller
ClosePendingTurn ==
    /\ checkpoint = None
    /\ pending
    /\ log' = IF EndsWith(log, UserKind)
              THEN Append(log, Row("text", log[Len(log)].turn, 0, {}))
              ELSE log
    /\ pending' = FALSE
    /\ UNCHANGED <<checkpoint, goal, archived>>
    /\ Save

NothingToRestore == checkpoint = None /\ ~pending /\ UNCHANGED session

\* What /new does to the session: clear() keeps the metadata, the goal with it.
ClearSession ==
    /\ log' = <<>>
    /\ UNCHANGED <<checkpoint, pending, goal, archived>>
    /\ Save

\* A new process loads the file.
Reload ==
    /\ log' = disk.log
    /\ checkpoint' = disk.checkpoint
    /\ pending' = disk.pending
    /\ UNCHANGED <<goal, disk, archived>>

-----------------------------------------------------------------------------
(* Rows leave the session *)

IsUser(row) == row.kind \in UserKind
IsResult(row) == row.kind \in {"result", "interrupted"}

Dropped(rows, a, b) == {rows[i] : i \in DOMAIN rows \ (a .. b)}

\* The session goes on with rows a to b.
Retain(rows, a, b) ==
    /\ log' = SubSeq(rows, a, b)
    /\ archived' = archived \cup Dropped(rows, a, b)

\* retain_recent_legal_suffix(FileCap): of rows that are too many the last FileCap,
\* from the first user row among these on.  If there is none, FileCap rows from
\* the last user row on, and the rows behind these leave.  If there is no user row
\* at all, the last FileCap without results whose call has left.
WithinCap(rows, a, b) ==
    LET n == Len(rows)
        window == n - FileCap + 1
    IN  \/ /\ a >= window /\ b = n
           /\ IsUser(rows[a]) /\ \A i \in window .. a - 1 : ~IsUser(rows[i])
        \/ /\ a < window /\ b = a + FileCap - 1
           /\ IsUser(rows[a]) /\ \A i \in a + 1 .. n : ~IsUser(rows[i])
        \/ /\ a = (IF IsResult(rows[window]) THEN window + 1 ELSE window) /\ b = n
           /\ \A i \in 1 .. n : ~IsUser(rows[i])

\* enforce_file_cap
EnforceFileCap(rows) ==
    \/ Len(rows) <= FileCap /\ log' = rows /\ UNCHANGED archived
    \/ /\ Len(rows) > FileCap
       /\ \E a, b \in DOMAIN rows : WithinCap(rows, a, b) /\ Retain(rows, a, b)

\* retain_recent_legal_suffix(extend_to_user) of what is not consolidated, however
\* much that is: all, or the end of it from a user row on, or without any.
KeptWhenIdle(rows, a) ==
    LET n == Len(rows)
    IN  \/ a = 1
        \/ a <= n /\ IsUser(rows[a])
        \/ a <= n /\ ~IsResult(rows[a]) /\ \A i \in a .. n : ~IsUser(rows[i])
        \/ a = n + 1 /\ n > 0 /\ IsResult(rows[n])

\* compact_idle_session starts from the file.  Its summary, or the rows themselves,
\* are in memory/history.jsonl before the file loses them.
CompactIdle ==
    /\ \E a \in 1 .. Len(disk.log) + 1 :
          KeptWhenIdle(disk.log, a) /\ Retain(disk.log, a, Len(disk.log))
    /\ checkpoint' = disk.checkpoint /\ pending' = disk.pending
    /\ UNCHANGED goal
    /\ Save
=============================================================================
