---------------------------- MODULE SessionService ----------------------------
(***************************************************************************)
(* What the dispatcher of nanobot's AgentLoop promises its callers,        *)
(* without its locks, queues and tasks: the docstring of _dispatch,        *)
(* "per-session serial, cross-session concurrent", and the comment of its  *)
(* finally block, that follow-ups are "processed as fresh inbound messages *)
(* rather than silently lost".                                             *)
(*                                                                         *)
(* A message waits, is served by a turn of its own, and is over. It may    *)
(* also be absorbed by the turn its session is serving. Only a command     *)
(* given to the session ends messages that are waiting.                    *)
(***************************************************************************)
EXTENDS Naturals, FiniteSets

CONSTANTS Session, Msg, Key, Kind, GateSize, InjectionsPerTurn

VARIABLE status   \* status[m]: "unsent", "waiting", "serving" or "over"

Commands == {m \in Msg : Kind[m] \in {"stop", "new"}}
Waiting(s) == {m \in Msg : Key[m] = s /\ status[m] = "waiting"}
Serving(s) == {m \in Msg : Key[m] = s /\ status[m] = "serving"}
Gated == {m \in Msg : status[m] = "serving" /\ Kind[m] # "direct"}

Move(S, to) == status' = [m \in Msg |-> IF m \in S THEN to ELSE status[m]]

Init == status = [m \in Msg |-> "unsent"]

Arrive(m) == status[m] = "unsent" /\ Move({m}, "waiting")

\* One turn of a session at a time, GateSize turns in all.
Serve(m) ==
    /\ status[m] = "waiting"
    /\ Serving(Key[m]) = {}
    /\ Kind[m] # "direct" => Cardinality(Gated) < GateSize
    /\ Move({m}, "serving")

Finish(m) == status[m] = "serving" /\ Move({m}, "over")

\* Follow-ups join the conversation of the turn in progress; automation turns
\* and commands do not.
Absorb(m, S) ==
    /\ status[m] = "serving"
    /\ S \subseteq {x \in Waiting(Key[m]) : Kind[x] \in {"user", "cont"}}
    /\ Cardinality(S) <= InjectionsPerTurn
    /\ Move(S, "over")

\* A command ends waiting messages of its session, itself among them.
EndWaiting(c, S) ==
    /\ status[c] # "unsent"
    /\ S \subseteq Waiting(Key[c])
    /\ Move(S, "over")

Next ==
    \/ \E m \in Msg : Arrive(m) \/ Serve(m) \/ Finish(m)
    \/ \E m \in Msg : \E S \in SUBSET Waiting(Key[m]) : Absorb(m, S)
    \/ \E c \in Commands : \E S \in SUBSET Waiting(Key[c]) : EndWaiting(c, S)

Spec == Init /\ [][Next]_status
=============================================================================
