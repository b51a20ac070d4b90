------------------------------- MODULE GuiRuns -------------------------------
(***************************************************************************)
(* Calls of gui_task in the background (nanobot/agent/tools/gui.py) and    *)
(* the agent that works on the screen (guiclaw/agent.py).  A call is       *)
(* planned as one task or as a workflow of subtasks; a subtask is one      *)
(* GuiAgent.run, with retries; an attempt is a preflight and a loop of     *)
(* steps; a step asks the model, acts, observes and is recorded.           *)
(***************************************************************************)
EXTENDS BackgroundRuntime

CONSTANTS
    MaxSubtasks,        \* how many subtasks the plan of each call may have
    MaxSteps,           \* the max_steps of each call, or of the configuration
    MaxRetries,         \* the max_retries of each call
    StagnationLimit     \* stagnation_limit, not 0

ASSUME GuiAssumption ==
    /\ {MaxSubtasks, MaxSteps, MaxRetries} \subseteq [Run -> Nat \ {0}]
    /\ StagnationLimit \in Nat \ {0}
    /\ None \notin Nat

VARIABLES
    plan,       \* how many subtasks the call has
    left,       \* remaining_steps, None when the call names no max_steps
    subtask, attempt,
    step,       \* steps_taken of the attempt
    streak,     \* stagnation_streak
    said,       \* steps_taken of the last attempt that returned
    result,     \* run.success of result.json
    solved,     \* subtasks that succeeded, with their outputs
    spent,      \* steps of the call that were recorded
    retried,    \* calls with an attempt more
    aborted     \* calls that were cancelled or ended by an exception

workflow == <<plan, left, result, solved>>
attempts == <<subtask, attempt, step, streak, said, spent, retried>>
vars == <<runtime, workflow, attempts, aborted>>

InAttempt == {"look", "think", "act", "observe", "intervene"}
Places ==
    {"off", "plan", "route", "preflight", "lease", "starting", "inner"} \cup InAttempt
        \cup {"extract", "stop", "over"}

\* Subtasks, attempts, steps and the budget stay within the limits of the call.
TypeOK ==
    /\ RuntimeTypeOK
    /\ at \in [Run -> Places]
    /\ {plan, subtask, attempt, step, said, streak, solved, spent} \subseteq [Run -> Nat]
    /\ left \in [Run -> Nat \cup {None}]
    /\ result \in [Run -> {"none", "success", "failure"}]
    /\ \A r \in Run :
          /\ subtask[r] \in 1 .. plan[r] /\ plan[r] <= MaxSubtasks[r]
          /\ attempt[r] \in 1 .. MaxRetries[r]
          /\ step[r] <= MaxSteps[r] /\ said[r] <= MaxSteps[r]
          /\ left[r] # None => left[r] <= MaxSteps[r]
          /\ streak[r] <= StagnationLimit
    /\ retried \subseteq Run /\ aborted \subseteq Run

Init ==
    /\ InitRuntime
    /\ plan = [r \in Run |-> 1]
    /\ left = [r \in Run |-> None]
    /\ subtask = [r \in Run |-> 1] /\ attempt = [r \in Run |-> 1]
    /\ step = [r \in Run |-> 0] /\ said = [r \in Run |-> 0]
    /\ streak = [r \in Run |-> 0]
    /\ result = [r \in Run |-> "none"]
    /\ solved = [r \in Run |-> 0]
    /\ spent = [r \in Run |-> 0]
    /\ retried = {} /\ aborted = {}

Set(f, r, value) == f' = [f EXCEPT ![r] = value]
SameDisplay == UNCHANGED <<active, environ, up, original, leaked>>

-----------------------------------------------------------------------------
(* The call and its workflow *)

Begin(r) ==
    /\ at[r] = "off"
    /\ Goes(r, "plan")
    /\ SameDisplay
    /\ UNCHANGED <<workflow, attempts, aborted>>

\* The router's model plans; if it fails, the call is a single task.
Plan(r) ==
    /\ at[r] = "plan"
    /\ \E n \in 1 .. MaxSubtasks[r] : Set(plan, r, n)
    /\ \E budget \in {None, MaxSteps[r]} : Set(left, r, budget)
    /\ Goes(r, "route")
    /\ SameDisplay
    /\ UNCHANGED <<result, solved, attempts, aborted>>

\* finalize_run_result writes the outcome of the call over what the last subtask
\* wrote.
FinalizeUnrouted(r, success) ==
    /\ UNCHANGED result
    /\ Goes(r, "stop")

Finalize(r, success) ==
    /\ Set(result, r, IF success THEN "success" ELSE "failure")
    /\ Goes(r, "stop")

\* Before a subtask: is there budget, and are its inputs known?
Route(r) ==
    /\ at[r] = "route"
    /\ \/ /\ left[r] # 0
          /\ Set(attempt, r, 1) /\ Set(said, r, 0)
          /\ Goes(r, "preflight")
          /\ UNCHANGED result
       \/ /\ plan[r] > 1
          /\ Finalize(r, FALSE)
          /\ UNCHANGED <<attempt, said>>
    /\ SameDisplay
    /\ UNCHANGED <<plan, left, solved, subtask, step, streak, spent, retried, aborted>>

-----------------------------------------------------------------------------
(* The end of an attempt *)

SpendNothing(budget, taken) == budget

Spend(budget, taken) ==
    IF budget = None THEN None ELSE IF budget > taken THEN budget - taken ELSE 0

\* TrajectoryRecorder.finish writes result.json: the call is a success as long as
\* every subtask that has ended is one.  Then the workflow looks at the outcome.
EndSubtask(r, success, taken) ==
    \/ /\ plan[r] = 1
       /\ Finalize(r, success)
       /\ Set(solved, r, IF success THEN 1 ELSE 0)
       /\ UNCHANGED left
    \/ /\ plan[r] > 1
       /\ Set(left, r, Spend(left[r], taken))
       /\ UNCHANGED solved
       /\ IF success
          THEN Set(result, r, "success") /\ Goes(r, "extract")
          ELSE Finalize(r, FALSE)

\* An attempt that failed for good is the last one; another is followed by a
\* retry if there is one left.
EndAttempt(r, outcome, taken) ==
    /\ said' = [said EXCEPT ![r] = taken]
    /\ \/ /\ outcome = "failed" /\ attempt[r] < MaxRetries[r]
          /\ Set(attempt, r, attempt[r] + 1)
          /\ retried' = retried \cup {r}
          /\ Goes(r, "preflight")
          /\ UNCHANGED <<left, result, solved>>
       \/ /\ outcome # "failed" \/ attempt[r] = MaxRetries[r]
          /\ EndSubtask(r, outcome = "done", taken)
          /\ UNCHANGED <<attempt, retried>>
    /\ UNCHANGED <<plan, subtask, aborted>>

-----------------------------------------------------------------------------
(* An attempt *)

\* The wrapper's preflight; its failure is a failed attempt without steps.
Preflight(r) ==
    \/ /\ PreflightAgain(r) \/ AskLease(r) \/ Acquire(r) \/ DisplayStarts(r) \/ InnerReady(r)
       /\ UNCHANGED <<workflow, attempts, aborted>>
    \/ /\ PreflightFails(r)
       /\ EndAttempt(r, "failed", 0)
       /\ UNCHANGED <<step, streak, spent>>

\* The initial observation.
Look(r) ==
    /\ at[r] = "look"
    /\ Goes(r, "think")
    /\ UsesDisplay(r)
    /\ Set(step, r, 0) /\ Set(streak, r, 0)
    /\ UNCHANGED <<workflow, subtask, attempt, said, spent, retried, aborted>>

\* The model asks for an action, or for the user.
Ask(r) ==
    /\ at[r] = "think"
    /\ Goes(r, "act") \/ Goes(r, "intervene")
    /\ SameDisplay
    /\ UNCHANGED <<workflow, attempts, aborted>>

\* backend.execute, by itself or in a skill: DISPLAY, then the inner backend.  A
\* failure is a text for the model.
Act(r) ==
    /\ at[r] = "act"
    /\ Goes(r, "observe")
    /\ UsesDisplay(r)
    /\ UNCHANGED <<workflow, attempts, aborted>>

Record(r) ==
    /\ Set(step, r, step[r] + 1)
    /\ Set(spent, r, spent[r] + 1)

\* What is left of the budget is the max_steps of the subtask's agent.
StepLimit(r) == IF left[r] = None THEN MaxSteps[r] ELSE left[r]

\* What the loop does with a recorded step: it gives up on a screen that does not
\* change, or at the limit of steps, or goes on.  A step without an observation
\* leaves the streak as it is.
GoOn(r) ==
    \E count \in {0, streak[r], streak[r] + 1} :
        /\ Set(streak, r, count)
        /\ \/ count = StagnationLimit /\ EndAttempt(r, "stuck", step[r] + 1)
           \/ /\ count < StagnationLimit /\ step[r] + 1 = StepLimit(r)
              /\ EndAttempt(r, "failed", step[r] + 1)
           \/ /\ count < StagnationLimit /\ step[r] + 1 < StepLimit(r)
              /\ Goes(r, "think")
              /\ UNCHANGED <<workflow, subtask, attempt, said, retried, aborted>>

\* The step is over: after the action, after a reply without one (the step is
\* skipped), or after the user said that it may go on.
StepEnds(r) ==
    /\ \/ at[r] \in {"observe", "intervene"} /\ UsesDisplay(r)
       \/ at[r] = "think" /\ SameDisplay
    /\ Record(r)
    /\ GoOn(r)

\* The model says that it is done, or that it cannot.
Done(r) ==
    /\ at[r] = "think"
    /\ SameDisplay
    /\ Record(r)
    /\ \E outcome \in {"done", "failed"} : EndAttempt(r, outcome, step[r] + 1)
    /\ UNCHANGED streak

\* The user does not let it go on; this is not retried.
Refused(r) ==
    /\ at[r] = "intervene"
    /\ SameDisplay
    /\ Record(r)
    /\ EndAttempt(r, "stuck", step[r] + 1)
    /\ UNCHANGED streak

\* The step times out: it counts, but is not recorded.
TimesOut(r) ==
    /\ at[r] \in {"think", "act", "observe"}
    /\ SameDisplay
    /\ EndAttempt(r, "failed", step[r] + 1)
    /\ UNCHANGED <<step, streak, spent>>

\* An exception ends the attempt, and leaves what an earlier attempt said.
Raises(r) ==
    /\ at[r] \in {"look", "think", "observe", "intervene"}
    /\ SameDisplay
    /\ EndAttempt(r, "failed", said[r])
    /\ UNCHANGED <<step, streak, spent>>

\* The values that later subtasks need are read out of the last step.
Extract(r) ==
    /\ at[r] = "extract"
    /\ \/ /\ Set(solved, r, subtask[r])
          /\ \/ /\ subtask[r] < plan[r]
                /\ Set(subtask, r, subtask[r] + 1)
                /\ Goes(r, "route")
                /\ UNCHANGED result
             \/ subtask[r] = plan[r] /\ Finalize(r, TRUE) /\ UNCHANGED subtask
       \/ Finalize(r, FALSE) /\ UNCHANGED <<solved, subtask>>
    /\ SameDisplay
    /\ UNCHANGED <<plan, left, attempt, step, streak, said, spent, retried, aborted>>

-----------------------------------------------------------------------------
(* The end of a call *)

\* The call is cancelled at an await, or the router's model raises: the backend is
\* shut down and nothing else is written.
Abort(r) ==
    /\ at[r] \notin {"off", "stop", "over"}
    /\ aborted' = aborted \cup {r}
    /\ Goes(r, "stop")
    /\ SameDisplay
    /\ UNCHANGED <<workflow, attempts>>

End(r) == Shutdown(r) /\ UNCHANGED <<workflow, attempts, aborted>>

Goal(r) ==
    \/ Plan(r) \/ Route(r) \/ Preflight(r)
    \/ Look(r) \/ Ask(r) \/ Act(r) \/ StepEnds(r) \/ Done(r) \/ Refused(r)
    \/ TimesOut(r) \/ Raises(r)
    \/ Extract(r) \/ End(r)

Next == \E r \in Run : Begin(r) \/ Goal(r) \/ Abort(r)

Spec == Init /\ [][Next]_vars

\* The event loop runs what is ready; requests, steps and the backend time out.
FairSpec == Spec /\ \A r \in Run : WF_vars(Goal(r))

-----------------------------------------------------------------------------
(* Properties *)

\* The places where a run has its display.
Driving == {"inner"} \cup InAttempt

\* Unless a preflight failed with its display up, a run that works on a screen has
\* the lease and works on its own display.
LeaseHeld ==
    ~leaked => \A r \in Run : at[r] \in Driving => active = r /\ environ = r

\* ... and DISPLAY is the host's whenever nobody has the lease.
DisplayRestored == ~leaked /\ active = None => environ = Host

\* When a call is over, result.json says success if and only if every subtask of the
\* plan was solved.
ResultHonest ==
    \A r \in Run :
        at[r] \in {"stop", "over"} /\ r \notin aborted =>
            (result[r] = "success" <=> solved[r] = plan[r])

\* The subtasks of a call that names max_steps take that many steps together, if
\* no subtask is retried: only the last attempt is charged.
StepBudget ==
    \A r \in Run : left[r] # None /\ r \notin retried => spent[r] <= MaxSteps[r]

\* A call ends, whatever fails and whoever has the lease.
EveryRunEnds == \A r \in Run : at[r] # "off" ~> at[r] = "over"
=============================================================================
