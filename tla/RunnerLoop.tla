----------------------------- MODULE RunnerLoop -----------------------------
(***************************************************************************)
(* AgentRunner._run_core (nanobot/agent/runner.py): a run asks the model,  *)
(* executes its tools, takes in the messages that arrive meanwhile, and    *)
(* ends by an answer, an error or one of its bounds.  An action runs from  *)
(* one await, where others may step in, to the next.                       *)
(***************************************************************************)
EXTENDS SessionFile

CONSTANTS
    MaxIterations,       \* AgentRunSpec.max_iterations
    MaxEmptyRetries,     \* _MAX_EMPTY_RETRIES
    MaxLengthRecoveries, \* _MAX_LENGTH_RECOVERIES
    InjectionsPerTurn,   \* _MAX_INJECTIONS_PER_TURN
    InjectionCycles,     \* _MAX_INJECTION_CYCLES
    QueueMax,            \* the size of a pending queue
    Kind                 \* a text or a command, a /goal request, a continuation slice

ASSUME RunnerAssumption ==
    /\ MaxIterations \in Nat \ {0}
    /\ {MaxEmptyRetries, MaxLengthRecoveries, InjectionCycles} \subseteq Nat
    /\ {InjectionsPerTurn, QueueMax} \subseteq Nat \ {0}
    /\ Kind \in [Msg -> {"chat", "goal", "slice"}]
    /\ None \notin Msg \cup CheckpointType

VARIABLES
    stage,       \* the await the turn is in
    turn,        \* the message being served
    work,        \* messages[len(initial_messages):]
    iteration,
    emptyRetries,
    recoveries,
    cycles,      \* injection_cycles
    queue,       \* the turn's pending queue
    place        \* where each inbound message is, or what became of it

run == <<iteration, emptyRetries, recoveries, cycles>>
runner == <<stage, turn, work, run, queue, place>>

InRun == {"ask", "tools", "results", "finalize", "drainError", "exhausted", "closing"}

RunnerTypeOK ==
    /\ work \in Seq(RowType)
    /\ iteration \in 0 .. MaxIterations
    /\ emptyRetries \in 0 .. MaxIterations
    /\ recoveries \in 0 .. MaxLengthRecoveries
    /\ cycles \in 0 .. InjectionCycles
    /\ queue \in Seq(Msg) /\ Len(queue) <= QueueMax

ResetRun == iteration' = 0 /\ emptyRetries' = 0 /\ recoveries' = 0 /\ cycles' = 0

StartRun == stage' = "ask" /\ work' = <<>> /\ ResetRun

\* The next pass of the for loop, or its else branch.
ContinueWaiting ==
    /\ iteration' = iteration + 1
    /\ stage' = IF iteration + 1 < MaxIterations THEN "ask" ELSE "waiting"

Continue ==
    /\ iteration' = iteration + 1
    /\ stage' = IF iteration + 1 < MaxIterations THEN "ask" ELSE "exhausted"

-----------------------------------------------------------------------------
(* The messages a run appends *)

Ours(kind) == Row(kind, turn, iteration + 1, {})

\* _append_injected_messages: user rows in a row become one.  A run that has
\* appended nothing ends in the user's own message, which the session holds
\* already: what is merged into that one is never saved.
WithFollowUpsDropped(rows, said) ==
    IF EndsWith(rows, UserKind) THEN rows
    ELSE Append(rows, Row("inject", turn, iteration + 1, said))

WithFollowUps(rows, said) ==
    IF rows = <<>> THEN rows
    ELSE IF EndsWith(rows, UserKind) THEN [rows EXCEPT ![Len(rows)].said = @ \cup said]
    ELSE Append(rows, Row("inject", turn, iteration + 1, said))

\* _append_final_message
WithFinal(rows) ==
    IF EndsWith(rows, {"text"}) THEN [rows EXCEPT ![Len(rows)] = Ours("text")]
    ELSE Append(rows, Ours("text"))

\* _append_model_error_placeholder
WithPlaceholder(rows) ==
    IF EndsWith(rows, {"text"}) THEN rows ELSE Append(rows, Ours("text"))

-----------------------------------------------------------------------------
(* Mid-turn messages: _try_drain_injections *)

CanInject == cycles < InjectionCycles /\ queue # <<>>

Taken == SubSeq(queue, 1, IF Len(queue) < InjectionsPerTurn THEN Len(queue) ELSE InjectionsPerTurn)

Left == SubSeq(queue, Len(Taken) + 1, Len(queue))

Inject(rows) ==
    /\ CanInject
    /\ cycles' = cycles + 1
    /\ queue' = Left
    /\ work' = WithFollowUps(rows, ToSet(Taken))
    /\ place' = [m \in Msg |-> IF m \notin ToSet(Taken) THEN place[m]
                               ELSE IF rows = <<>> THEN "absorbed" ELSE "working"]

NoInjection == ~CanInject /\ UNCHANGED <<cycles, queue, place>>

\* The drain after an error, a blank reply, or the last iteration.
DrainOr(otherwise) ==
    \/ Inject(work) /\ Continue
    \/ NoInjection /\ otherwise

-----------------------------------------------------------------------------
(* Model and tools *)

AskTools ==
    /\ stage = "ask"
    /\ work' = Append(work, Ours("call"))
    /\ Emit("awaiting", turn, iteration + 1)
    /\ stage' = "tools"
    /\ UNCHANGED <<turn, run, queue, place>>

\* create_goal, which only a /goal turn may call, or update_goal.
ChangeGoal ==
    /\ stage = "tools"
    /\ goal \/ Kind[turn] = "goal"
    /\ goal' = ~goal
    /\ stage' = "results"
    /\ UNCHANGED <<log, checkpoint, pending, disk, archived, turn, work, run, queue, place>>

ToolsDone ==
    /\ stage \in {"tools", "results"}
    /\ LET rows == Append(work, Ours("result"))
       IN  \/ Inject(rows)
           \/ NoInjection /\ work' = rows
    /\ Emit("completed", turn, iteration + 1)
    /\ emptyRetries' = 0 /\ recoveries' = 0
    /\ Continue
    /\ UNCHANGED turn

ToolsFatal ==
    /\ stage \in {"tools", "results"}
    /\ work' = WithFinal(Append(work, Ours("result")))
    /\ stage' = "drainError"
    /\ UNCHANGED <<turn, run, queue, place, session>>

\* A blank reply: the next iteration asks again, or a request without tools.
AskBlank ==
    /\ stage = "ask"
    /\ emptyRetries' = emptyRetries + 1
    /\ IF emptyRetries + 1 < MaxEmptyRetries
       THEN Continue
       ELSE stage' = "finalize" /\ UNCHANGED iteration
    /\ UNCHANGED <<turn, work, recoveries, cycles, queue, place, session>>

\* A reply cut off by its length.
CanRecoverOffByOne == recoveries <= MaxLengthRecoveries
CanRecover == recoveries < MaxLengthRecoveries

CutOff ==
    /\ stage \in {"ask", "finalize"}
    /\ CanRecover
    /\ recoveries' = recoveries + 1
    /\ work' = work \o <<Ours("text"), Ours("prompt")>>
    /\ Continue
    /\ UNCHANGED <<turn, emptyRetries, cycles, queue, place, session>>

-----------------------------------------------------------------------------
(* The ends of a run *)

\* A follow-up, or an active goal, takes the run past its answer.
AnswerResumed ==
    /\ stage \in {"ask", "finalize"}
    /\ LET rows == Append(work, Ours("text"))
       IN  \/ Inject(rows)
           \/ NoInjection /\ goal /\ work' = Append(rows, Ours("prompt"))
    /\ Emit("final", turn, iteration + 1)
    /\ Continue
    /\ UNCHANGED <<turn, emptyRetries, recoveries>>

AnswerGiven ==
    /\ stage \in {"ask", "finalize"}
    /\ NoInjection /\ ~goal
    /\ work' = Append(work, Ours("text"))
    /\ Emit("final", turn, iteration + 1)
    /\ stage' = "save"
    /\ UNCHANGED <<turn, iteration, emptyRetries, recoveries>>

\* An error, or a blank reply to the request without tools, meets a follow-up
\* before or after its own row is written.
AskFailed ==
    /\ stage \in {"ask", "finalize"}
    /\ DrainOr(/\ \/ work' = WithPlaceholder(work)
                  \/ stage = "finalize" /\ work' = WithFinal(work)
               /\ stage' = "drainError"
               /\ UNCHANGED iteration)
    /\ UNCHANGED <<turn, emptyRetries, recoveries, session>>

DrainError ==
    /\ stage = "drainError"
    /\ DrainOr(stage' = "save" /\ UNCHANGED <<work, iteration>>)
    /\ UNCHANGED <<turn, emptyRetries, recoveries, session>>

\* The for loop ran out of iterations: follow-ups, then a request without tools.
Exhausted ==
    /\ stage = "exhausted"
    /\ \/ Inject(work)
       \/ NoInjection /\ UNCHANGED work
    /\ stage' = "closing"
    /\ UNCHANGED <<turn, iteration, emptyRetries, recoveries, session>>

RunnerNext ==
    \/ AskTools \/ ChangeGoal \/ ToolsDone \/ ToolsFatal \/ AskBlank \/ CutOff
    \/ AnswerResumed \/ AnswerGiven \/ AskFailed \/ DrainError \/ Exhausted
=============================================================================
