---------------------------- MODULE Conversation ----------------------------
(***************************************************************************)
(* What a session's user is promised, whatever happens to the turns and to *)
(* the process: the durable record of the conversation grows in order,     *)
(* stays a transcript a provider accepts, and loses rows to the archive,   *)
(* where they stay, or to /new; and the answer to a turn is in one of the  *)
(* two before the user is told it.                                         *)
(***************************************************************************)
EXTENDS History

VARIABLES
    record,     \* the rows on disk
    archive,    \* the rows that were too old for it
    replied     \* turns whose reply was sent

Init == record = <<>> /\ archive = {} /\ replied = {}

\* The record goes on with new rows, or with fewer, from its i-th row on.
GoesOnFrom(i) ==
    LET kept == SubSeq(record, i, Len(record))
    IN  /\ IsPrefix(kept, record') \/ IsPrefix(record', kept)
        /\ \A j \in 1 .. i - 1 : record[j] \in archive'

Extend ==
    /\ \E i \in 1 .. Len(record) + 1 : GoesOnFrom(i)
    /\ archive \subseteq archive'
    /\ \A j \in DOMAIN record : record[j] \in ToSet(record') \cup archive'
    /\ WellFormed(record', archive')
    /\ UNCHANGED replied

Forget == record' = <<>> /\ UNCHANGED <<archive, replied>>

Answered(m) ==
    \E r \in ToSet(record) \cup archive : r.turn = m /\ r.kind = "text"

\* An empty record is one the turn, a /new, has just cleared.
Reply(m) ==
    /\ m \notin replied
    /\ record = <<>> \/ Answered(m)
    /\ replied' = replied \cup {m}
    /\ UNCHANGED <<record, archive>>

Next == Extend \/ Forget \/ \E m \in Msg : Reply(m)

Spec == Init /\ [][Next]_<<record, archive, replied>>
=============================================================================
