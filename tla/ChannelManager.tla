--------------------------- MODULE ChannelManager ---------------------------
(***************************************************************************)
(* The outbound dispatcher (nanobot/channels/manager.py): one task takes   *)
(* the messages off bus.outbound, drops what a channel does not want,      *)
(* merges the deltas of a stream, suppresses the repetition of an answer,  *)
(* and sends with retries, one message at a time for all channels.         *)
(***************************************************************************)
EXTENDS TurnOutput, FiniteSets

CONSTANTS
    Reachable,      \* chats of enabled channels
    Wants,          \* notes their channels show
    MaxAttempts,    \* max(send_max_retries, 1)
    MaxFailures,    \* bound: sends that a channel fails
    Stoppable       \* the gateway may be shut down

ASSUME ManagerAssumption ==
    /\ Reachable \subseteq Chat
    /\ Wants \in [Chat -> SUBSET (NoteKind \ {"retryWait"})]
    /\ MaxAttempts \in Nat \ {0} /\ MaxFailures \in Nat /\ Stoppable \in BOOLEAN

VARIABLES
    up,             \* the dispatcher's task has not been cancelled
    taken,          \* messages taken off the queue
    pending,        \* messages taken that could not be merged
    current,        \* the messages being sent as one
    attempt,
    fingerprints,   \* _origin_reply_fingerprints
    shown,          \* what the platform got of each chat
    suppressed, lost,
    failures        \* sends that failed so far

manager == <<up, taken, pending, current, attempt, fingerprints, suppressed, lost, shown, failures>>
vars == <<turns, manager>>

Position == 1 .. Len(published)

\* Types; attempts are within their bound.
TypeOK ==
    /\ TurnsTypeOK
    /\ up \in BOOLEAN
    /\ taken \in 0 .. Len(published)
    /\ pending \in Seq(Position) /\ current \in Seq(Position)
    /\ attempt \in 0 .. MaxAttempts - 1
    /\ fingerprints \in [Chat \X (Source \ {None}) -> Text \cup {None}]
    /\ shown \in [Chat -> Seq(Position)]
    /\ suppressed \subseteq Position /\ lost \subseteq Position
    /\ failures \in 0 .. MaxFailures

Init ==
    /\ InitTurns
    /\ up = TRUE /\ taken = 0 /\ pending = <<>> /\ current = <<>> /\ attempt = 0
    /\ fingerprints = [k \in Chat \X (Source \ {None}) |-> None]
    /\ shown = [c \in Chat |-> <<>>] /\ suppressed = {} /\ lost = {} /\ failures = 0

ChatAt(i) == ChatOf[published[i].turn]

-----------------------------------------------------------------------------
(* Taking a message: nothing is awaited before it is sent *)

\* Mutant of Ready: the queue is waited for, whatever is pending.
ReadyForQueue == up /\ current = <<>> /\ taken < Len(published)

Ready == up /\ current = <<>> /\ (pending # <<>> \/ taken < Len(published))

Front == IF pending # <<>> THEN Head(pending) ELSE taken + 1
Taken == IF pending # <<>> THEN taken ELSE taken + 1
Rest == IF pending # <<>> THEN Tail(pending) ELSE pending

TakeFront ==
    /\ Ready
    /\ taken' = Taken /\ pending' = Rest

\* The channel is not there, or does not show notes of this kind.
Unwanted(i) ==
    \/ ChatAt(i) \notin Reachable
    \/ published[i].kind \in NoteKind \ Wants[ChatAt(i)]

\* A streamed answer has been sent already.
Drop ==
    /\ TakeFront
    /\ published[Front].kind # "delta"
    /\ Unwanted(Front) \/ published[Front].kind = "streamed"
    /\ UNCHANGED <<up, current, attempt, fingerprints, suppressed, lost, shown, failures>>

\* Mutant of Joins: of any stream.
JoinsAny(i, j) == published[j].kind = "delta"

\* An end with content would join too, and close the merge; no turn publishes one.
Joins(i, j) ==
    /\ published[j].kind = "delta"
    /\ published[j].turn = published[i].turn /\ published[j].segment = published[i].segment

\* n queued messages join the delta in front, and no more.
Joining(n) ==
    /\ \A j \in Taken + 1 .. Taken + n : Joins(Front, j)
    /\ Taken + n < Len(published) => ~Joins(Front, Taken + n + 1)

Merged(n) == <<Front>> \o [k \in 1 .. n |-> Taken + k]

\* The first message that does not join is kept for the next round.
Coalesce ==
    /\ Ready /\ published[Front].kind = "delta"
    /\ \E n \in 0 .. Len(published) - Taken :
          /\ Joining(n)
          /\ current' = IF ChatAt(Front) \in Reachable THEN Merged(n) ELSE <<>>
          /\ IF Taken + n < Len(published)
             THEN taken' = Taken + n + 1 /\ pending' = Append(Rest, Taken + n + 1)
             ELSE taken' = Taken + n /\ pending' = Rest
    /\ UNCHANGED <<up, attempt, fingerprints, suppressed, lost, shown, failures>>

Ids(i) ==
    IF published[i].kind = "apology" THEN {}
    ELSE {OwnId[published[i].turn], OriginId[published[i].turn]} \ {None}

\* Mutant of Repeated: whatever message the answer goes back to.
RepeatedToChat(i) ==
    /\ published[i].kind = "reply" /\ published[i].text # None
    /\ \E s \in Source \ {None} : fingerprints[<<ChatAt(i), s>>] = published[i].text

\* The answer repeats the last one about the message it goes back to.
Repeated(i) ==
    LET origin == OriginId[published[i].turn]
    IN  /\ published[i].kind = "reply" /\ published[i].text # None /\ origin # None
        /\ fingerprints[<<ChatAt(i), origin>>] = published[i].text

Fingerprinted(i) ==
    [k \in DOMAIN fingerprints |->
        IF k[1] = ChatAt(i) /\ k[2] \in Ids(i) /\ published[i].text # None
        THEN published[i].text ELSE fingerprints[k]]

Suppress ==
    /\ TakeFront /\ ~Unwanted(Front) /\ Repeated(Front)
    /\ suppressed' = suppressed \cup {Front}
    /\ UNCHANGED <<up, current, attempt, fingerprints, lost, shown, failures>>

TakeMessage ==
    /\ TakeFront /\ ~Unwanted(Front) /\ ~Repeated(Front)
    /\ published[Front].kind \notin {"delta", "streamed"}
    /\ current' = <<Front>>
    /\ fingerprints' = Fingerprinted(Front)
    /\ UNCHANGED <<up, attempt, suppressed, lost, shown, failures>>

-----------------------------------------------------------------------------
(* Sending *)

Reach == shown' = [shown EXCEPT ![ChatAt(Head(current))] = @ \o current]

SendDone ==
    /\ current # <<>>
    /\ Reach
    /\ current' = <<>> /\ attempt' = 0
    /\ UNCHANGED <<up, taken, pending, fingerprints, suppressed, lost, failures>>

\* Mutant of LastAttempt: one attempt too many.
LastAttemptLate == attempt = MaxAttempts

LastAttempt == attempt = MaxAttempts - 1

\* The channel raises, whether or not the platform has the message.
SendFailed ==
    /\ current # <<>> /\ failures < MaxFailures
    /\ failures' = failures + 1
    /\ Reach \/ UNCHANGED shown
    /\ IF LastAttempt
       THEN current' = <<>> /\ attempt' = 0 /\ lost' = lost \cup {current[k] : k \in DOMAIN current}
       ELSE attempt' = attempt + 1 /\ UNCHANGED <<current, lost>>
    /\ UNCHANGED <<up, taken, pending, fingerprints, suppressed>>

\* stop_all cancels the task in its wait for a message, its send or its delay.
StopAll ==
    /\ Stoppable /\ up /\ up' = FALSE
    /\ (current # <<>> /\ Reach) \/ UNCHANGED shown
    /\ current' = <<>> /\ attempt' = 0
    /\ UNCHANGED <<taken, pending, fingerprints, suppressed, lost, failures>>

Dispatch == Drop \/ Coalesce \/ Suppress \/ TakeMessage \/ SendDone \/ SendFailed

Publish == \E t \in Turn : TurnStep(t) /\ UNCHANGED manager

Next ==
    \/ Publish
    \/ (Dispatch \/ StopAll) /\ UNCHANGED turns

Spec == Init /\ [][Next]_vars

\* A channel's send returns or raises, and the event loop resumes the task.
FairSpec == Spec /\ WF_vars(Dispatch /\ UNCHANGED turns)

-----------------------------------------------------------------------------
(* Properties *)

Settled ==
    IF current # <<>> THEN Head(current) - 1
    ELSE IF pending # <<>> THEN Head(pending) - 1 ELSE taken

\* Whatever the retries and merges, each chat is shown its messages in the
\* order of publication, and a merged message is a stretch of one stream.
FeedOf == INSTANCE Feed WITH settled <- Settled
ImplementsFeed == FeedOf!Spec

ShownAt(i) == {k \in DOMAIN shown[ChatAt(i)] : shown[ChatAt(i)][k] = i}

\* A message that is suppressed repeats one to the same chat about the same
\* source message, which has been shown, or given up after every attempt.
SuppressedRepeats ==
    \A i \in suppressed : \E j \in 1 .. i - 1 :
        /\ ChatAt(j) = ChatAt(i) /\ published[j].text = published[i].text
        /\ OriginId[published[i].turn] \in Ids(j)
        /\ j \in lost \/ ShownAt(j) # {}

\* What carries the answer of a turn that is over: the outbound message of its
\* end, or the deltas of its last segment.
Carriers(t) ==
    LET own == {i \in Position : published[i].turn = t}
        final == {i \in own : published[i].kind = "reply" /\ \A j \in own : j <= i}
    IN  IF final # {} THEN final
        ELSE {i \in own : published[i].kind = "delta" /\ published[i].segment = segment[t] - 1}

\* The turn is over with an answer, and nothing of it was lost or suppressed.
Undisturbed(t) ==
    /\ phase[t] = "done" /\ answer[t] # None
    /\ up /\ Settled = Len(published) /\ ChatOf[t] \in Reachable
    /\ \A i \in suppressed \cup lost : published[i].turn # t

\* An answer without a stream that is marked as streamed: one of a finalization,
\* or of the request without tools after malformed calls. No chat is shown it.
Withheld(t) == t \in Streaming /\ answer[t] = "unstreamed" /\ reason[t] # "error"

\* When a turn has ended its chat has been shown the answer, in one way: the
\* deltas of one that was streamed, a message for one that no stream carries, an
\* error's or another channel's. The code makes two exceptions: an answer that
\* is Withheld, and a streamed one in a run that went on after an error, which
\* is sent a second time as a message.
AnswerShownOnce ==
    \A t \in Turn :
        /\ Undisturbed(t) /\ ~Withheld(t) =>
              Carriers(t) # {} /\ \A i \in Carriers(t) : ShownAt(i) # {}
        /\ phase[t] = "done" /\ answer[t] = "streamed" /\ t \notin resumed =>
              \A i \in Carriers(t) : published[i].kind = "reply" => published[i].text = None

\* A message reaches its chat as often as it is attempted at most.
CopiesBounded ==
    \A i \in Position : Cardinality(ShownAt(i)) <= MaxAttempts

\* Every message is settled, whatever the channels raise, until the gateway stops.
QueueDrains == []<>(~up \/ Settled = Len(published))
=============================================================================
