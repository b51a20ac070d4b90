----------------------------- MODULE TurnOutput -----------------------------
(***************************************************************************)
(* What turns publish on the outbound queue: the stream of a channel that  *)
(* wants one, in segments that an end closes, notes on progress, messages  *)
(* of the message tool, and the outbound message of the turn's end.        *)
(*                                                                         *)
(* The iterations of the runner are reduced to what they publish; the way  *)
(* through them is RunnerLoop's.                                           *)
(***************************************************************************)
EXTENDS Integers, Sequences

CONSTANTS
    Turn, Text, None,
    ChatOf,         \* the channel and chat id a turn answers to
    Streaming,      \* turns whose message has _wants_stream
    OwnId,          \* message_id in the metadata of a turn's replies
    OriginId,       \* origin_message_id: of a sub-agent's announcement
    Troubles,       \* of each turn, what may happen, see Trouble
    MaxParts,       \* of each turn: the deltas of a segment
    MaxSegments,    \* of each turn: its segments that are followed by another
    MaxNotes        \* of each turn: its notes

Chat == {ChatOf[t] : t \in Turn}
Source == {OwnId[t] : t \in Turn} \cup {OriginId[t] : t \in Turn}

NoteKind == {"progress", "hint", "reasoning", "retryWait"}
StreamKind == {"delta", "pause", "end"}     \* an end is a pause if it is resuming
Kind == NoteKind \cup StreamKind \cup {"streamed", "reply", "apology"}

\* blank answers, malformed tool calls twice in a row, an error, /stop or an exception
Trouble == {"blank", "malformed", "error", "cut"}

Reason == {"completed", "blank", "error", "exhausted"}

Message == [turn : Turn, kind : Kind, segment : Nat, text : Text \cup {None}]

ASSUME OutputAssumption ==
    /\ ChatOf \in [Turn -> Chat] /\ Streaming \subseteq Turn
    /\ OwnId \in [Turn -> Source] /\ OriginId \in [Turn -> Source]
    /\ Troubles \in [Turn -> SUBSET Trouble]
    /\ MaxParts \in [Turn -> Nat] /\ MaxSegments \in [Turn -> Nat] /\ MaxNotes \in [Turn -> Nat]
    /\ None \notin Text /\ None \notin {"streamed", "unstreamed"}

VARIABLES
    published,      \* the messages put on bus.outbound, ever
    phase,          \* where a turn is
    segment,        \* stream_segment, or the iterations of a turn without stream
    parts,          \* deltas of the current segment
    notes,          \* progress messages so far
    told,           \* turns with _sent_in_turn
    reason,         \* stop_reason
    answer,         \* history: how the model gave the turn's answer, if it has one
    resumed         \* history: turns whose run went on after an error

ending == <<reason, answer, resumed>>
turns == <<published, phase, segment, parts, notes, told, ending>>

TurnsTypeOK ==
    /\ published \in Seq(Message)
    /\ phase \in [Turn -> {"waiting", "asking", "finalizing", "closing", "failing", "done"}]
    /\ segment \in [Turn -> Nat]
    /\ parts \in [Turn -> Nat] /\ \A t \in Turn : parts[t] <= MaxParts[t]
    /\ notes \in [Turn -> Nat] /\ \A t \in Turn : notes[t] <= MaxNotes[t]
    /\ told \subseteq Turn
    /\ reason \in [Turn -> Reason]
    /\ answer \in [Turn -> {None, "streamed", "unstreamed"}]
    /\ resumed \subseteq Turn

InitTurns ==
    /\ published = <<>>
    /\ phase = [t \in Turn |-> "waiting"] /\ reason = [t \in Turn |-> "completed"]
    /\ answer = [t \in Turn |-> None] /\ resumed = {}
    /\ segment = [t \in Turn |-> 0] /\ parts = segment /\ notes = segment
    /\ told = {}

Msg(t, kind, x) == [turn |-> t, kind |-> kind, segment |-> segment[t], text |-> x]

Say(ms) == published' = published \o ms

Stream(t, kinds) ==
    Say(IF t \in Streaming THEN [i \in DOMAIN kinds |-> Msg(t, kinds[i], None)] ELSE <<>>)

\* The end of a segment; what follows is a segment of its own.
NextSegment(t) ==
    /\ segment' = [segment EXCEPT ![t] = @ + 1]
    /\ parts' = [parts EXCEPT ![t] = 0]

\* Turns of a session take their turns, and a sub-agent announces its result
\* after it was spawned.
Start(t) ==
    /\ phase[t] = "waiting"
    /\ \A u \in Turn \ {t} :
          /\ ChatOf[u] = ChatOf[t] => phase[u] \in {"waiting", "done"}
          /\ OriginId[t] # None /\ OwnId[u] = OriginId[t] => phase[u] = "done"
    /\ phase' = [phase EXCEPT ![t] = "asking"]
    /\ UNCHANGED <<published, segment, parts, notes, told, ending>>

Delta(t) ==
    /\ phase[t] = "asking" /\ t \in Streaming /\ parts[t] < MaxParts[t]
    /\ Stream(t, <<"delta">>)
    /\ parts' = [parts EXCEPT ![t] = @ + 1]
    /\ UNCHANGED <<phase, segment, notes, told, ending>>

\* Tool calls, a truncated answer, an injected follow-up or a stream that the
\* provider starts again: the turn goes on in another segment.
Pause(t) ==
    /\ phase[t] \in {"asking", "finalizing"} /\ segment[t] < MaxSegments[t]
    /\ Stream(t, <<"pause">>) /\ NextSegment(t)
    /\ phase' = [phase EXCEPT ![t] = "asking"]
    /\ UNCHANGED <<notes, told, ending>>

\* A blank answer is asked for again, and at last without tools or stream.
Blank(t) ==
    /\ phase[t] = "asking" /\ parts[t] = 0 /\ "blank" \in Troubles[t] /\ segment[t] < MaxSegments[t]
    /\ Stream(t, <<"end">>) /\ NextSegment(t)
    /\ phase' \in {phase, [phase EXCEPT ![t] = "finalizing"]}
    /\ UNCHANGED <<notes, told, ending>>

\* The run stops, for now or for good.
Stopped(t, how, why, given) ==
    /\ phase' = [phase EXCEPT ![t] = how]
    /\ reason' = [reason EXCEPT ![t] = why]
    /\ answer' = [answer EXCEPT ![t] = given]
    /\ UNCHANGED resumed

\* The response has an answer, and the stop_reason stays what it was. After tool
\* calls that were malformed twice, and in a finalization, it was not streamed.
Conclude(t) ==
    /\ Stream(t, <<"end">>) /\ NextSegment(t)
    /\ \/ /\ phase[t] = "asking" /\ (t \in Streaming => parts[t] > 0)
          /\ Stopped(t, "closing", reason[t], IF t \in Streaming THEN "streamed" ELSE "unstreamed")
       \/ /\ phase[t] = "finalizing" \/ (phase[t] = "asking" /\ "malformed" \in Troubles[t])
          /\ Stopped(t, "closing", reason[t], "unstreamed")
    /\ UNCHANGED <<notes, told>>

\* The finalization is as blank as the others; a text of the runner's replaces it.
ConcludeBlank(t) ==
    /\ phase[t] = "finalizing"
    /\ Stream(t, <<"end">>) /\ NextSegment(t)
    /\ Stopped(t, "failing", "blank", "unstreamed")
    /\ UNCHANGED <<notes, told>>

Fail(t) ==
    /\ phase[t] \in {"asking", "finalizing"} /\ "error" \in Troubles[t]
    /\ Stream(t, <<"end">>) /\ NextSegment(t)
    /\ Stopped(t, "failing", "error", "unstreamed")
    /\ UNCHANGED <<notes, told>>

\* A tool's fatal error ends the run after the pause; its text is the answer.
FailTool(t) ==
    /\ phase[t] = "asking" /\ parts[t] = 0 /\ segment[t] > 0 /\ "error" \in Troubles[t]
    /\ Stopped(t, "failing", "error", "unstreamed")
    /\ UNCHANGED <<published, segment, parts, notes, told>>

\* The second drain, after an error or an empty answer, finds follow-ups: the run
\* goes on and keeps its stop_reason.
Drained(t) ==
    /\ phase[t] = "failing" /\ segment[t] <= MaxSegments[t]
    /\ phase' = [phase EXCEPT ![t] = "asking"]
    /\ answer' = [answer EXCEPT ![t] = None]
    /\ resumed' = IF reason[t] = "error" THEN resumed \cup {t} ELSE resumed
    /\ UNCHANGED <<published, segment, parts, notes, told, reason>>

\* After the last iteration the answer is pushed through the stream.
Exhaust(t) ==
    /\ phase[t] = "asking" /\ parts[t] = 0 /\ segment[t] > 0
    /\ Stream(t, <<"delta", "end">>) /\ NextSegment(t)
    /\ Stopped(t, "closing", "exhausted", IF t \in Streaming THEN "streamed" ELSE "unstreamed")
    /\ UNCHANGED <<notes, told>>

\* With an active goal a continuation follows instead of an answer.
HandOver(t) ==
    /\ phase[t] = "asking" /\ parts[t] = 0 /\ segment[t] > 0
    /\ Stopped(t, "done", "exhausted", None)
    /\ UNCHANGED <<published, segment, parts, notes, told>>

\* The message tool, called between two responses of the model.
Tell(t, x) ==
    /\ phase[t] = "asking" /\ parts[t] = 0 /\ segment[t] > 0 /\ t \notin told
    /\ Say(<<Msg(t, "reply", x)>>)
    /\ told' = told \cup {t}
    /\ UNCHANGED <<phase, segment, parts, notes, ending>>

Note(t, kind) ==
    /\ phase[t] = "asking" /\ notes[t] < MaxNotes[t]
    /\ Say(<<Msg(t, kind, None)>>)
    /\ notes' = [notes EXCEPT ![t] = @ + 1]
    /\ UNCHANGED <<phase, segment, parts, told, ending>>

\* Mutant of AnswerKind: whatever the reason.
AnswerKindStreamed(t) == IF t \in Streaming THEN "streamed" ELSE "reply"

\* The outbound message is marked as streamed unless the run failed.
AnswerKind(t) == IF t \in Streaming /\ reason[t] # "error" THEN "streamed" ELSE "reply"

Done(t) ==
    /\ phase' = [phase EXCEPT ![t] = "done"]
    /\ UNCHANGED <<segment, parts, notes, told, reason, resumed>>

Answer(t, x) ==
    /\ phase[t] \in {"closing", "failing"}
    /\ Say(<<Msg(t, AnswerKind(t), x)>>)
    /\ Done(t) /\ UNCHANGED answer

\* The user has the answer from the message tool; with an injected follow-up, or
\* for an announcement, there is an Answer all the same.
AnswerTold(t) ==
    /\ phase[t] \in {"closing", "failing"} /\ t \in told /\ OwnId[t] # None
    /\ Say(<<Msg(t, "reply", None)>>)
    /\ Done(t) /\ UNCHANGED answer

Cut(t, ms) ==
    /\ phase[t] \in {"asking", "finalizing", "closing", "failing"} /\ "cut" \in Troubles[t]
    /\ Say(ms)
    /\ Done(t) /\ answer' = [answer EXCEPT ![t] = None]

Stop(t) == Cut(t, <<>>)
Raise(t) == Cut(t, <<Msg(t, "apology", None)>>)

TurnStep(t) ==
    \/ Start(t) \/ Delta(t) \/ Pause(t) \/ Blank(t) \/ Conclude(t) \/ ConcludeBlank(t)
    \/ Fail(t) \/ FailTool(t) \/ Drained(t) \/ Exhaust(t) \/ HandOver(t)
    \/ AnswerTold(t) \/ Stop(t) \/ Raise(t)
    \/ \E x \in Text : Tell(t, x) \/ Answer(t, x)
    \/ \E kind \in NoteKind : Note(t, kind)
=============================================================================
