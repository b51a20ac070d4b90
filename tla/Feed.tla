-------------------------------- MODULE Feed ---------------------------------
(***************************************************************************)
(* What the chats are promised of the messages that are published: each is *)
(* settled in the order of publication, and while it is at the front it is *)
(* shown, perhaps more than once, or not at all.  Only deltas of one       *)
(* stream that were published in a row may be shown as one.                *)
(***************************************************************************)
EXTENDS Integers, Sequences

CONSTANTS Chat, ChatOf

VARIABLES
    published,
    settled,    \* how many messages are settled
    shown       \* what each chat was shown, as positions of published

Init == published = <<>> /\ settled = 0 /\ shown = [c \in Chat |-> <<>>]

Publish ==
    /\ Len(published') > Len(published)
    /\ \A i \in DOMAIN published : published'[i] = published[i]
    /\ UNCHANGED <<settled, shown>>

Group(k) == [i \in 1 .. k - settled |-> settled + i]

OneStream(k) ==
    \A i \in settled + 1 .. k :
        /\ published[i].kind = "delta"
        /\ published[i].turn = published[k].turn /\ published[i].segment = published[k].segment

Shown(k) ==
    LET chat == ChatOf[published[k].turn]
    IN  shown' = [shown EXCEPT ![chat] = @ \o Group(k)]

\* The messages up to k, as one, are shown, settled, or both.
Serve(k) ==
    /\ k = settled + 1 \/ OneStream(k)
    /\ Shown(k) \/ shown' = shown
    /\ settled' \in {settled, k}
    /\ UNCHANGED published

Next == Publish \/ \E k \in settled + 1 .. Len(published) : Serve(k)

Spec == Init /\ [][Next]_<<published, settled, shown>>
=============================================================================
