---------------------------- MODULE DeliveryQueue ----------------------------
(***************************************************************************)
(* What a local trigger's delivery may rely on, without files, batches and *)
(* attempts: it is accepted once, gets an agent turn again and again while *)
(* it is open, MaxAttempts turns at most, and once it is closed it stays   *)
(* closed and gets no more.                                                *)
(***************************************************************************)
EXTENDS Naturals

CONSTANTS Delivery, MaxAttempts

VARIABLES status,   \* status[d]: "none", "open" or "closed"
          turns     \* turns[d]: the agent turns d has had

Init ==
    /\ status = [d \in Delivery |-> "none"]
    /\ turns = [d \in Delivery |-> 0]

Accept(d) ==
    /\ status[d] = "none"
    /\ status' = [status EXCEPT ![d] = "open"]
    /\ UNCHANGED turns

Attempt(d) ==
    /\ status[d] = "open"
    /\ turns[d] < MaxAttempts
    /\ turns' = [turns EXCEPT ![d] = @ + 1]
    /\ UNCHANGED status

\* One delivery is settled, or all those of a deleted trigger are dropped.
Close(D) ==
    /\ \A d \in D : status[d] = "open"
    /\ status' = [d \in Delivery |-> IF d \in D THEN "closed" ELSE status[d]]
    /\ UNCHANGED turns

Next ==
    \/ \E d \in Delivery : Accept(d) \/ Attempt(d)
    \/ \E D \in SUBSET Delivery : Close(D)

Spec == Init /\ [][Next]_<<status, turns>>
=============================================================================
