------------------------------- MODULE History -------------------------------
(***************************************************************************)
(* The rows of a session's history (Session.messages,                      *)
(* nanobot/session/manager.py).                                            *)
(*                                                                         *)
(* A row stands for a message: its kind, the turn that wrote it, the       *)
(* iteration it comes from (0 for the turn's opening) and, for a user row, *)
(* the inbound messages whose text it carries.  The calls of an iteration  *)
(* are one row and their results another: the runner checkpoints them as a *)
(* whole.                                                                  *)
(***************************************************************************)
EXTENDS Naturals, FiniteSets, SequencesExt

CONSTANT Msg    \* inbound messages; the turn that serves m is called m

\* user: a turn's own message; inject: follow-ups met in mid-turn; prompt: the
\* runner's own "go on"; text: an assistant message without tool calls.
UserKind == {"user", "inject", "prompt"}
RowKind == UserKind \cup {"text", "call", "result", "interrupted"}

Row(kind, t, n, said) == [kind |-> kind, turn |-> t, n |-> n, said |-> said]
RowType == [kind : RowKind, turn : Msg, n : Nat, said : SUBSET Msg]

EndsWith(rows, kinds) == rows # <<>> /\ rows[Len(rows)].kind \in kinds

SameRow(r, s) == r.kind = s.kind /\ r.turn = s.turn /\ r.n = s.n

NoRowTwice(rows) ==
    \A i, j \in DOMAIN rows : SameRow(rows[i], rows[j]) => i = j

\* A provider refuses a tool call that its results do not follow, and results
\* without their call.  Rows that are gone may have been a call's results.
Answers(r, s) == r.kind \in {"result", "interrupted"} /\ r.turn = s.turn /\ r.n = s.n

CallsAnswered(rows, gone) ==
    \A i \in DOMAIN rows :
        rows[i].kind = "call" =>
            \/ i + 1 \in DOMAIN rows /\ Answers(rows[i + 1], rows[i])
            \/ \E r \in gone : Answers(r, rows[i])

ResultsCalled(rows) ==
    \A i \in DOMAIN rows :
        rows[i].kind \in {"result", "interrupted"} =>
            i - 1 \in DOMAIN rows /\ rows[i - 1].kind = "call" /\ Answers(rows[i], rows[i - 1])

NoneGone(rows, gone) == \A r \in gone : \A i \in DOMAIN rows : ~SameRow(rows[i], r)

WellFormed(rows, gone) ==
    /\ NoRowTwice(rows) /\ NoneGone(rows, gone)
    /\ CallsAnswered(rows, gone) /\ ResultsCalled(rows)
=============================================================================
