----------------------------- MODULE MCDispatch -----------------------------
EXTENDS AgentDispatch, TLC
CONSTANTS s1, s2, u1, u2, u3, a1, a2, n1, x1, c1, b1, d1, v1

MCKey == [m \in Msg |-> IF m \in {v1} THEN s2 ELSE s1]
MCKind == [m \in Msg |->
    CASE m \in {u1, u2, u3, v1} -> "user"
      [] m \in {a1, a2} -> "auto"
      [] m = n1 -> "new"
      [] m = x1 -> "stop"
      [] m = c1 -> "cont"
      [] m = b1 -> "autoCont"
      [] m = d1 -> "direct"]

\* Of all messages, those of one scenario arrive: the commands and a direct call
\* against both kinds of turns, follow-ups that overflow the queue, or the
\* continuation of an automation turn against a command and a follow-up.
Arrived == {m \in Msg : phase[m] # "unsent"}
OneScenario ==
    \/ Arrived \subseteq {u1, a1, n1, x1, d1, v1}
    \/ Arrived \subseteq {u1, u2, u3, c1, x1}
    \/ Arrived \subseteq {u1, a1, a2, b1, x1}
=============================================================================
