----------------------------- MODULE MCOutbound -----------------------------
EXTENDS ChannelManager, TLC
CONSTANTS ask, other, away, plain, report, room, desk, attic, x, y

MCChatOf == [t \in Turn |-> IF t = other THEN desk ELSE IF t = away THEN attic ELSE room]
MCOwnId == [t \in Turn |-> IF t = report THEN None ELSE t]
MCOriginId == [t \in Turn |-> IF t = report THEN plain ELSE None]
MCTroubles == [t \in Turn |->
    IF t = ask THEN {"error", "blank", "malformed"}
    ELSE IF t = plain THEN {"error", "cut"} ELSE {}]
MCSegments == [t \in Turn |-> IF t \in {ask, plain} THEN 1 ELSE 0]
MCParts == [t \in Turn |-> IF t = other THEN 1 ELSE 2]
MCNotes == [t \in Turn |-> IF t = report THEN 1 ELSE 0]
MCWants == [c \in Chat |-> {"hint"}]

\* Of all turns, those of one scenario take place: two streams at once, without
\* failures; one with all of its ways and failing sends; one to a channel that is
\* not there; a turn and the announcement of its sub-agent.
Started == {t \in Turn : phase[t] # "waiting"}
Streams == up /\ \A i \in Position : published[i].text # y
Smooth ==
    /\ failures = 0
    /\ \A t \in Turn : /\ reason[t] \in {"completed", "exhausted"} /\ phase[t] # "finalizing"
                       /\ t \in Streaming => answer[t] # "unstreamed"
OneScenario ==
    \/ Started \subseteq {ask, other} /\ Streams /\ Smooth
    \/ Started \subseteq {ask} /\ Streams
    \/ Started \subseteq {away} /\ Streams
    \/ Started \subseteq {plain, report}
=============================================================================
