---------------------------- MODULE SessionMemory ----------------------------
(***************************************************************************)
(* What a session remembers: its messages, the offset up to which they are *)
(* consolidated, and memory/history.jsonl, where consolidated messages go  *)
(* (nanobot/agent/memory.py, nanobot/agent/autocompact.py,                 *)
(* nanobot/session/manager.py).                                            *)
(*                                                                         *)
(* Four parties work on one session: the turn that has the session lock,   *)
(* the consolidation a turn leaves in the background, the compaction of an *)
(* idle session, and /new, which archives what it cleared.  The first      *)
(* three take the consolidation lock around the request that summarizes.   *)
(* Session objects have an identity: a party may hold one that the cache   *)
(* does not have any more.                                                 *)
(***************************************************************************)
EXTENDS Naturals, SequencesExt

CONSTANTS
    None,
    MaxRows,    \* bounds the messages ever written
    FileCap,    \* FILE_MAX_MESSAGES
    Suffix      \* AutoCompact._RECENT_SUFFIX_MESSAGES

Object == 1 .. 4
Party == {"turn", "back", "idle", "new"}

ASSUME MemoryAssumption ==
    /\ MaxRows \in Nat
    /\ {FileCap, Suffix} \subseteq Nat \ {0}
    /\ None \notin Object /\ None \notin Party

VARIABLES
    obj,        \* the Session objects that somebody holds
    cache,      \* SessionManager._cache
    file,       \* the session file
    history,    \* how often each message left for history.jsonl, 2 for more
    echoed,     \* messages a compaction kept, and its summary has already
    pc,         \* where each party is
    held,       \* ctx.session of the turn
    inner,      \* the session of the party in the consolidation lock
    lock,       \* which party that is
    waiters,    \* who waits for the lock, in order
    chunk,      \* the messages it is archiving
    rest,       \* what it makes of the session afterwards
    snapshot,   \* the messages /new is archiving
    direct,     \* the turn is a direct call: it has no pending queue
    written,    \* messages written so far: 1 .. written
    around,     \* somebody wrote to the session around the consolidation lock
    redone      \* messages a crash left archived but not marked so

objects == <<obj, cache, file>>
section == <<inner, lock, waiters, chunk, rest>>
vars == <<objects, history, echoed, pc, held, section, snapshot, direct, written, around, redone>>

Blank == [rows |-> <<>>, lc |-> 0]

\* messages[last_consolidated:]
Unconsolidated(v) == SubSeq(v.rows, v.lc + 1, Len(v.rows))

-----------------------------------------------------------------------------
(* The session manager *)

Holders == {cache, held, inner} \ {None}
Fresh == CHOOSE o \in Object : o \notin Holders

\* Session.__post_init__ resets an offset that is out of range.
Load == [rows |-> file.rows, lc |-> IF file.lc <= Len(file.rows) THEN file.lc ELSE 0]

\* get_or_create
Got == IF cache # None THEN cache ELSE Fresh
GotValue == IF cache # None THEN obj[cache] ELSE Load

\* Objects nobody holds in the next state are gone; o has value v.
Keeping(o, v) ==
    obj' = [x \in {cache', held', inner'} \ {None} |-> IF x = o THEN v ELSE obj[x]]

Fetch == cache' = Got /\ Keeping(Got, GotValue) /\ UNCHANGED file

\* save() writes the file and puts the object into the cache.
Save(o, v) == cache' = o /\ file' = v /\ Keeping(o, v)

\* A write is around the lock while a compaction, which has read the session
\* already, is under way, and when the cache has another object by now.
Around(party, o) ==
    \/ around
    \/ pc["idle"] = "archive" /\ party # "idle"
    \/ cache \notin {None, o}

Init ==
    /\ obj = <<>>
    /\ cache = None /\ held = None /\ inner = None
    /\ file = Blank
    /\ history = [r \in 1 .. MaxRows |-> 0]
    /\ echoed = {}
    /\ pc = [p \in Party |-> "off"]
    /\ lock = None /\ waiters = <<>> /\ chunk = <<>> /\ rest = Blank
    /\ snapshot = <<>>
    /\ direct = FALSE
    /\ written = 0
    /\ around = FALSE
    /\ redone = {}

Archived(rows) ==
    [r \in 1 .. MaxRows |-> IF r \in Range(rows) THEN Min({history[r] + 1, 2}) ELSE history[r]]

-----------------------------------------------------------------------------
(* The turn *)

Goes(p, place) == pc' = [pc EXCEPT ![p] = place]
EndTurn == held' = None /\ direct' = FALSE
TurnGoesOn == UNCHANGED <<held, direct>>

\* A message more, on the turn's own session object.
Writes(v) ==
    /\ written < MaxRows
    /\ written' = written + 1
    /\ around' = Around("turn", held)
    /\ UNCHANGED inner
    /\ Save(held, v)

WithRow(v) == [v EXCEPT !.rows = Append(@, written + 1)]

OutsideTurn == UNCHANGED <<section, snapshot, history, echoed, redone>>

\* _state_restore fetches the session.
Begin(d) ==
    /\ pc["turn"] = "off"
    /\ direct' = d
    /\ held' = Got /\ UNCHANGED inner
    /\ Fetch
    /\ Goes("turn", "restore")
    /\ UNCHANGED <<section, snapshot, history, echoed, redone, written, around>>

\* An interrupted turn is materialized: a message more.
RestoreRow ==
    /\ pc["turn"] = "restore"
    /\ TurnGoesOn
    /\ Writes(WithRow(obj[held]))
    /\ Goes("turn", "compact")
    /\ OutsideTurn

\* prepare_session, which fetches the session again if it is being compacted or
\* looks expired, and on to BUILD, which waits for the consolidation lock.
Compact ==
    /\ pc["turn"] \in {"restore", "compact"}
    /\ UNCHANGED inner
    /\ \/ held' = Got /\ Fetch
       \/ pc["idle"] = "off" /\ UNCHANGED <<held, objects>>
    /\ Goes("turn", "wait")
    /\ waiters' = Append(waiters, "turn")
    /\ UNCHANGED <<lock, chunk, rest, snapshot, history, echoed, redone, written, around, direct>>

\* A command is answered without BUILD: its messages are saved at once.
Shortcut ==
    /\ pc["turn"] \in {"restore", "compact"}
    /\ EndTurn
    /\ Writes(WithRow(obj[held]))
    /\ Goes("turn", "off")
    /\ OutsideTurn

\* The user's message is saved before the model is asked.
Persist ==
    /\ pc["turn"] = "ready"
    /\ TurnGoesOn
    /\ Writes(WithRow(obj[held]))
    /\ Goes("turn", "run")
    /\ OutsideTurn

\* A runtime checkpoint: no message, but a save.
Checkpoint ==
    /\ pc["turn"] = "run"
    /\ UNCHANGED <<held, inner>>
    /\ Save(held, obj[held])
    /\ around' = Around("turn", held)
    /\ UNCHANGED <<direct, pc, written>>
    /\ OutsideTurn

\* enforce_file_cap keeps a legal stretch of a session that is too long, and dumps
\* what of the others is not consolidated.
Stretches(v) ==
    LET n == Len(v.rows)
    IN  IF n <= FileCap
        THEN {<<1, n>>}
        ELSE {s \in (1 .. n) \X (0 .. n) : s[2] + 1 - s[1] \in 0 .. FileCap}

DroppedByMin(v, s) ==
    LET out == SubSeq(v.rows, 1, s[1] - 1) \o SubSeq(v.rows, s[2] + 1, Len(v.rows))
    IN  SubSeq(out, Min({v.lc, Len(out)}) + 1, Len(out))

Dropped(v, s) ==
    SubSeq(v.rows, v.lc + 1, s[1] - 1)
        \o SubSeq(v.rows, Max({v.lc, s[2]}) + 1, Len(v.rows))

Capped(v, s) ==
    [rows |-> SubSeq(v.rows, s[1], s[2]),
     lc |-> Cardinality((1 .. v.lc) \cap (s[1] .. s[2]))]

\* _state_save, and the consolidation it schedules.
SaveTurn ==
    /\ pc["turn"] = "run"
    /\ EndTurn
    /\ LET v == WithRow(obj[held])
       IN  \E s \in Stretches(v) :
              /\ Writes(Capped(v, s))
              /\ history' = Archived(Dropped(v, s))
    /\ pc' = [pc EXCEPT !["turn"] = "off", !["back"] = "wait"]
    /\ waiters' = Append(waiters, "back")
    /\ UNCHANGED <<lock, chunk, rest, snapshot, echoed, redone>>

-----------------------------------------------------------------------------
(* The consolidation lock *)

Granted(p) == pc[p] = "wait" /\ lock = None /\ waiters # <<>> /\ Head(waiters) = p

\* A party in the lock asks for a summary of the rows up to end.
Enter(p, o, rows, then) ==
    /\ chunk' = rows
    /\ rest' = then
    /\ inner' = o /\ lock' = p
    /\ Goes(p, "archive")

Release(p) ==
    /\ inner' = None /\ lock' = None /\ chunk' = <<>> /\ rest' = Blank
    /\ Goes(p, IF p = "turn" THEN "ready" ELSE "off")

\* maybe_consolidate_by_tokens: a stretch from the offset on, or nothing (more).
ConsolidateOrLeave(p, o, v) ==
    \/ \E end \in v.lc + 1 .. Len(v.rows) :
          Enter(p, o, SubSeq(v.rows, v.lc + 1, end), [v EXCEPT !.lc = end])
    \/ Release(p)

Consolidate(p) ==
    /\ p \in {"turn", "back"}
    /\ Granted(p)
    /\ waiters' = Tail(waiters)
    /\ ConsolidateOrLeave(p, Got, GotValue)
    /\ UNCHANGED held
    /\ Fetch
    /\ UNCHANGED <<snapshot, history, echoed, redone, written, around, direct>>

\* The request returned, or failed and the messages were dumped: the offset moves
\* over the chunk either way.
AdvancedNot(v) == v

Advanced(v) == [v EXCEPT !.lc = rest.lc]

Consolidated(p) ==
    /\ p \in {"turn", "back"}
    /\ pc[p] = "archive"
    /\ history' = Archived(chunk)
    /\ LET v == Advanced(obj[inner])
       IN  /\ ConsolidateOrLeave(p, inner, v)
           /\ UNCHANGED held
           /\ Save(inner, v)
    /\ around' = Around(p, inner)
    /\ UNCHANGED <<waiters, snapshot, echoed, redone, written, direct>>

-----------------------------------------------------------------------------
(* Idle compaction *)

\* check_expired skips a session with a pending queue: a turn of the dispatcher,
\* not a direct call.
CheckExpired ==
    /\ pc["idle"] = "off"
    /\ pc["turn"] = "off" \/ direct
    /\ Len(Unconsolidated(GotValue)) > Suffix
    /\ UNCHANGED <<held, inner>>
    /\ Fetch
    /\ Goes("idle", "wait")
    /\ waiters' = Append(waiters, "idle")
    /\ UNCHANGED <<lock, chunk, rest, snapshot, history, echoed, redone, written, around, direct>>

\* compact_idle_session reads the file again and decides what to keep: a legal
\* end of what is not consolidated.
Cuts(tail) == IF Len(tail) > Suffix THEN 0 .. Len(tail) ELSE {0}

CompactIdle ==
    /\ Granted("idle")
    /\ waiters' = Tail(waiters)
    /\ UNCHANGED held
    /\ LET tail == Unconsolidated(Load)
       IN  \E cut \in Cuts(tail) :
              LET kept == [rows |-> SubSeq(tail, cut + 1, Len(tail)), lc |-> 0]
              IN  \/ /\ cut = 0
                     /\ Release("idle")
                     /\ Save(Fresh, IF tail = <<>> THEN Load ELSE kept)
                  \/ /\ cut > 0
                     /\ Enter("idle", Fresh, SubSeq(tail, 1, cut), kept)
                     /\ cache' = Fresh /\ Keeping(Fresh, Load) /\ UNCHANGED file
    /\ UNCHANGED <<snapshot, history, echoed, redone, written, around, direct>>

\* The summary is of the whole tail, the kept end with it; a request that fails
\* dumps what is removed.
Compacted ==
    /\ pc["idle"] = "archive"
    /\ history' = Archived(chunk)
    /\ echoed' = echoed \/ echoed' = echoed \cup Range(rest.rows)
    /\ Release("idle")
    /\ UNCHANGED held
    /\ Save(inner, rest)
    /\ around' = Around("idle", inner)
    /\ UNCHANGED <<waiters, snapshot, redone, written, direct>>

-----------------------------------------------------------------------------
(* /stop, /new and a crash *)

\* A cancelled turn leaves the lock, or the queue for it.
LeaveLine ==
    \/ \E i \in DOMAIN waiters : waiters[i] = "turn" /\ waiters' = RemoveAt(waiters, i)
    \/ "turn" \notin Range(waiters) /\ UNCHANGED waiters

LeaveLockWaiting ==
    /\ UNCHANGED waiters
    /\ IF lock = "turn"
       THEN inner' = None /\ lock' = None /\ chunk' = <<>> /\ rest' = Blank
       ELSE UNCHANGED <<inner, lock, chunk, rest>>

LeaveLock ==
    /\ LeaveLine
    /\ IF lock = "turn"
       THEN inner' = None /\ lock' = None /\ chunk' = <<>> /\ rest' = Blank
       ELSE UNCHANGED <<inner, lock, chunk, rest>>

\* A turn of the dispatcher is cancelled.  What its checkpoint held becomes a
\* message of the session that the cache has.
Stop ==
    /\ pc["turn"] # "off" /\ ~direct
    /\ EndTurn
    /\ LeaveLock
    /\ \/ /\ pc["turn"] = "run" /\ written < MaxRows
          /\ written' = written + 1
          /\ around' = Around("turn", Got)
          /\ Save(Got, WithRow(GotValue))
       \/ Fetch /\ UNCHANGED <<written, around>>
    /\ Goes("turn", "off")
    /\ UNCHANGED <<snapshot, history, echoed, redone>>

NewUnsaved ==
    /\ pc["turn"] = "off" \/ direct
    /\ pc["new"] = "off"
    /\ snapshot' = Unconsolidated(GotValue)
    /\ Goes("new", IF snapshot' = <<>> THEN "off" ELSE "archive")
    /\ cache' = Got
    /\ UNCHANGED <<held, inner, file>>
    /\ Keeping(Got, Blank)
    /\ around' = (Around("new", Got) \/ lock # None \/ direct)
    /\ UNCHANGED <<lock, waiters, chunk, rest, history, echoed, redone, written, direct>>

\* cmd_new clears the session and drops it from the cache.  What was not
\* consolidated is archived in the background, without the lock.
New ==
    /\ pc["turn"] = "off" \/ direct
    /\ pc["new"] = "off"
    /\ snapshot' = Unconsolidated(GotValue)
    /\ Goes("new", IF snapshot' = <<>> THEN "off" ELSE "archive")
    /\ file' = Blank /\ cache' = None
    /\ UNCHANGED <<held, inner>>
    /\ Keeping(Got, Blank)
    /\ around' = (Around("new", Got) \/ lock # None \/ direct)
    /\ UNCHANGED <<lock, waiters, chunk, rest, history, echoed, redone, written, direct>>

NewArchived ==
    /\ pc["new"] = "archive"
    /\ history' = Archived(snapshot)
    /\ snapshot' = <<>>
    /\ Goes("new", "off")
    /\ UNCHANGED <<objects, section, held, written, around, echoed, redone, direct>>

\* The process dies; in the lock, it may have appended to history.jsonl and not
\* saved the session.  What /new had not archived yet is gone.
Crash ==
    /\ \/ UNCHANGED <<history, echoed, redone>>
       \/ /\ lock # None
          /\ history' = Archived(chunk)
          /\ redone' = redone \cup Range(chunk)
          /\ \/ UNCHANGED echoed
             \/ lock = "idle" /\ echoed' = echoed \cup Range(rest.rows)
    /\ around' = (around \/ snapshot # <<>>)
    /\ cache' = None /\ held' = None /\ inner' = None /\ obj' = <<>>
    /\ lock' = None /\ waiters' = <<>> /\ chunk' = <<>> /\ rest' = Blank
    /\ snapshot' = <<>>
    /\ pc' = [p \in Party |-> "off"]
    /\ direct' = FALSE
    /\ UNCHANGED <<file, written>>

LockStep ==
    \/ \E p \in {"turn", "back"} : Consolidate(p) \/ Consolidated(p)
    \/ CompactIdle \/ Compacted

Next ==
    \/ \E d \in BOOLEAN : Begin(d)
    \/ RestoreRow \/ Compact \/ Shortcut \/ Persist \/ Checkpoint \/ SaveTurn
    \/ LockStep
    \/ CheckExpired
    \/ Stop \/ New \/ NewArchived \/ Crash

Spec == Init /\ [][Next]_vars

\* Requests return or time out, and asyncio hands a lock on.
FairSpec == Spec /\ WF_vars(LockStep)

-----------------------------------------------------------------------------
(* Properties *)

\* Nobody holds an object that is gone, and there is a session in the lock.
TypeOK ==
    /\ {cache, held, inner} \subseteq Object \cup {None}
    /\ DOMAIN obj = Holders
    /\ lock \in Party \cup {None}
    /\ lock # None <=> inner # None
    /\ written \in 0 .. MaxRows

Live(v) == Range(Unconsolidated(v))

\* As long as nobody writes around the lock: a message that was written is in the
\* part of the file a prompt is made of, or in history.jsonl, or on its way there.
Remembered ==
    ~around =>
       /\ file.lc <= Len(file.rows)
       /\ \A r \in 1 .. written :
             r \in Live(file) \cup Range(snapshot) \/ history[r] > 0

\* ... and leaves the session for it once.  A message that history.jsonl has and a
\* prompt still gets is one that a crash left there, or one that a compaction kept
\* and summarized, and that one has not left yet.
InHistory(r) == history[r] > 0 \/ r \in echoed

ArchivedOnce ==
    ~around =>
       \A r \in 1 .. written \ redone :
          /\ history[r] <= 1
          /\ r \in Live(file) /\ InHistory(r) => r \in echoed /\ history[r] = 0

\* The cache is the file.
CacheCurrent == ~around /\ cache # None => obj[cache] = Load

\* A compaction that was scheduled gets the lock and ends, whoever was cancelled
\* in the lock or on the way to it.
CompactionEnds == pc["idle"] # "off" ~> pc["idle"] = "off"
=============================================================================
