---------------------------- MODULE GuiRunsProofs ----------------------------
(***************************************************************************)
(* What TLC checks of GuiRuns, proved for any number of calls and any      *)
(* limits.  A step is one call's: it leaves the state of the other calls   *)
(* alone (Own), so that the invariant of the calls is proved for the call  *)
(* that takes the step; only the display is shared.                        *)
(***************************************************************************)
EXTENDS GuiRuns, TLAPS

CallTypeOK(r) ==
    /\ at[r] \in Places
    /\ plan[r] \in Nat /\ subtask[r] \in 1 .. plan[r] /\ plan[r] <= MaxSubtasks[r]
    /\ attempt[r] \in 1 .. MaxRetries[r]
    /\ step[r] \in 0 .. MaxSteps[r] /\ said[r] \in 0 .. MaxSteps[r]
    /\ left[r] \in 0 .. MaxSteps[r] \cup {None}
    /\ streak[r] \in 0 .. StagnationLimit
    /\ solved[r] \in Nat /\ spent[r] \in Nat
    /\ result[r] \in {"none", "success", "failure"}

\* A call that is in an attempt has budget, and one that is in a step has not
\* used it up.
Stepping == {"think", "act", "observe", "intervene"}
Attempting == {"preflight", "lease", "starting", "inner", "look"} \cup Stepping

CallInv(r) ==
    /\ at[r] \in {"off", "plan"} => subtask[r] = 1 /\ spent[r] = 0 /\ left[r] = None
    /\ at[r] \in Attempting => left[r] # 0
    /\ at[r] \in Stepping => step[r] < StepLimit(r)
    /\ at[r] \notin {"stop", "over"} => solved[r] = subtask[r] - 1
    /\ at[r] \in {"stop", "over"} /\ r \notin aborted =>
          (result[r] = "success" <=> solved[r] = plan[r])
    /\ left[r] # None /\ r \notin retried =>
          /\ spent[r] <= MaxSteps[r]
          /\ at[r] \in Stepping => spent[r] + left[r] <= MaxSteps[r] + step[r]
          /\ at[r] \notin Stepping \cup {"stop", "over"} => spent[r] + left[r] <= MaxSteps[r]

Functions ==
    /\ at \in [Run -> Places]
    /\ plan \in [Run -> Nat] /\ subtask \in [Run -> Nat] /\ attempt \in [Run -> Nat]
    /\ step \in [Run -> Nat] /\ said \in [Run -> Nat] /\ streak \in [Run -> Nat]
    /\ solved \in [Run -> Nat] /\ spent \in [Run -> Nat]
    /\ left \in [Run -> Nat \cup {None}]
    /\ result \in [Run -> {"none", "success", "failure"}]
    /\ retried \subseteq Run /\ aborted \subseteq Run

CallsInv == Functions /\ \A r \in Run : CallTypeOK(r) /\ CallInv(r)

\* A step of call r.
Own(r) ==
    \A q \in Run \ {r} :
        /\ at'[q] = at[q]
        /\ plan'[q] = plan[q]
        /\ left'[q] = left[q]
        /\ subtask'[q] = subtask[q]
        /\ attempt'[q] = attempt[q]
        /\ step'[q] = step[q]
        /\ said'[q] = said[q]
        /\ streak'[q] = streak[q]
        /\ result'[q] = result[q]
        /\ solved'[q] = solved[q]
        /\ spent'[q] = spent[q]
        /\ q \in retried' <=> q \in retried
        /\ q \in aborted' <=> q \in aborted

LEMMA Limits ==
    /\ None \notin Nat /\ StagnationLimit \in Nat \ {0}
    /\ \A r \in Run : {MaxSubtasks[r], MaxSteps[r], MaxRetries[r]} \subseteq Nat \ {0}
  BY GuiAssumption

LEMMA OthersKept ==
    ASSUME CallsInv, NEW r \in Run, Functions', Own(r), CallTypeOK(r)', CallInv(r)'
    PROVE  CallsInv'
  <1>1. ASSUME NEW q \in Run, q # r PROVE CallTypeOK(q)' /\ CallInv(q)'
    BY <1>1, SMTT(30) DEF CallsInv, Functions, Own, CallTypeOK, CallInv, StepLimit
  <1> QED BY <1>1 DEF CallsInv

-----------------------------------------------------------------------------
(* The end of an attempt *)

LEMMA EndAttemptOwn ==
    ASSUME NEW r \in Run, NEW outcome, NEW taken, CallsInv, EndAttempt(r, outcome, taken)
    PROVE  /\ at' = [at EXCEPT ![r] = at'[r]] /\ left' = [left EXCEPT ![r] = left'[r]]
           /\ plan' = plan /\ subtask' = subtask /\ aborted' = aborted
           /\ attempt' = [attempt EXCEPT ![r] = attempt'[r]]
           /\ said' = [said EXCEPT ![r] = said'[r]]
           /\ result' = [result EXCEPT ![r] = result'[r]]
           /\ solved' = [solved EXCEPT ![r] = solved'[r]]
           /\ retried' \in {retried, retried \cup {r}}
  BY SMTT(60) DEF CallsInv, Functions, EndAttempt, EndSubtask, Set, Finalize, Goes

\* What is left after the attempt is not more than what was not spent.
Affords(r, n, taken) ==
    left[r] # None /\ r \notin retried /\ taken < left[r] => n + left[r] - taken <= MaxSteps[r]

LEMMA EndAttemptCalls ==
    ASSUME NEW r \in Run, NEW outcome \in {"done", "failed", "stuck"},
           NEW taken \in 0 .. MaxSteps[r],
           CallsInv, EndAttempt(r, outcome, taken),
           at[r] \in Attempting,
           step'[r] \in 0 .. MaxSteps[r], step' = [step EXCEPT ![r] = step'[r]],
           streak'[r] \in 0 .. StagnationLimit, streak' = [streak EXCEPT ![r] = streak'[r]],
           spent'[r] \in Nat, spent' = [spent EXCEPT ![r] = spent'[r]],
           left[r] # None /\ r \notin retried => spent'[r] <= MaxSteps[r],
           NEW n \in Nat, n = spent'[r], outcome = "done" => Affords(r, n, taken)
    PROVE  CallsInv'
  <1> USE Limits
  <1>1. CallTypeOK(r)'
    BY SMTT(60) DEF CallsInv, Functions, EndAttempt, EndSubtask, Set, Finalize, Goes, Spend,
       CallTypeOK, CallInv, Places, Attempting, Stepping, InAttempt
  <1>2. CallInv(r)'
    BY SMTT(60) DEF CallsInv, Functions, EndAttempt, EndSubtask, Set, Finalize, Goes, Spend,
       CallTypeOK, CallInv, Places, Attempting, Stepping, InAttempt, StepLimit, Affords
  <1>3. Functions'
    <2>1. /\ at'[r] \in Places /\ {attempt'[r], said'[r], solved'[r]} \subseteq Nat
          /\ left'[r] \in Nat \cup {None} /\ result'[r] \in {"none", "success", "failure"}
      BY <1>1 DEF CallTypeOK
    <2>2. /\ at' \in [Run -> Places] /\ plan' \in [Run -> Nat] /\ subtask' \in [Run -> Nat]
          /\ attempt' \in [Run -> Nat] /\ said' \in [Run -> Nat] /\ solved' \in [Run -> Nat]
      BY EndAttemptOwn, <2>1 DEF CallsInv, Functions
    <2>3. /\ left' \in [Run -> Nat \cup {None}]
          /\ result' \in [Run -> {"none", "success", "failure"}]
          /\ retried' \subseteq Run /\ aborted' \subseteq Run
      BY EndAttemptOwn, <2>1 DEF CallsInv, Functions
    <2>4. step' \in [Run -> Nat] /\ streak' \in [Run -> Nat] /\ spent' \in [Run -> Nat]
      BY DEF CallsInv, Functions
    <2> QED BY <2>2, <2>3, <2>4 DEF Functions
  <1>4. Own(r)
    BY EndAttemptOwn DEF CallsInv, Functions, Own
  <1> QED BY <1>1, <1>2, <1>3, <1>4, OthersKept

-----------------------------------------------------------------------------
(* Every action keeps the invariant of the calls *)

LEMMA BeginCalls == ASSUME CallsInv, NEW r \in Run, Begin(r) PROVE CallsInv'
  <1> USE Limits
  <1>0. Functions'
    BY SMTT(30) DEF CallsInv, Functions, Places, CallTypeOK, InAttempt, workflow, attempts, runtime, Set, Goes, Begin
  <1>1. Own(r)
    BY SMTT(30) DEF CallsInv, Functions, Own, workflow, attempts, runtime, Set, Goes, Begin
  <1>2. CallTypeOK(r)'
    BY SMTT(30) DEF CallsInv, Functions, CallTypeOK, CallInv, Places, Attempting, Stepping, InAttempt, StepLimit,
       workflow, attempts, runtime, Set, Goes, Begin
  <1>3. CallInv(r)'
    BY SMTT(30) DEF CallsInv, Functions, CallTypeOK, CallInv, Places, Attempting, Stepping, InAttempt, StepLimit,
       workflow, attempts, runtime, Set, Goes, CallTypeOK, Begin
  <1> QED BY <1>0, <1>1, <1>2, <1>3, OthersKept

LEMMA PlanCalls == ASSUME CallsInv, NEW r \in Run, Plan(r) PROVE CallsInv'
  <1> USE Limits
  <1>1. PICK n \in 1 .. MaxSubtasks[r], budget \in {None, MaxSteps[r]} :
          plan' = [plan EXCEPT ![r] = n] /\ left' = [left EXCEPT ![r] = budget]
    BY Zenon DEF Plan, Set
  <1>2. /\ at[r] = "plan" /\ at' = [at EXCEPT ![r] = "route"]
        /\ UNCHANGED <<result, solved, subtask, attempt, step, streak, said, spent, retried, aborted>>
    BY DEF Plan, Goes, attempts
  <1>3. Functions'
    BY <1>1, <1>2 DEF CallsInv, Functions, Places
  <1>4. Own(r)
    BY <1>1, <1>2 DEF CallsInv, Functions, Own
  <1>5. CallTypeOK(r)' /\ CallInv(r)'
    BY <1>1, <1>2 DEF CallsInv, Functions, CallTypeOK, CallInv, Places, Attempting, Stepping, InAttempt, StepLimit
  <1> QED BY <1>3, <1>4, <1>5, OthersKept

LEMMA RouteCalls == ASSUME CallsInv, NEW r \in Run, Route(r) PROVE CallsInv'
  <1> USE Limits
  <1>0. Functions'
    BY SMTT(30) DEF CallsInv, Functions, Places, CallTypeOK, InAttempt, workflow, attempts, runtime, Set, Goes, Route, Finalize
  <1>1. Own(r)
    BY SMTT(30) DEF CallsInv, Functions, Own, workflow, attempts, runtime, Set, Goes, Route, Finalize
  <1>2. CallTypeOK(r)'
    BY SMTT(30) DEF CallsInv, Functions, CallTypeOK, CallInv, Places, Attempting, Stepping, InAttempt, StepLimit,
       workflow, attempts, runtime, Set, Goes, Route, Finalize
  <1>3. CallInv(r)'
    BY SMTT(30) DEF CallsInv, Functions, CallTypeOK, CallInv, Places, Attempting, Stepping, InAttempt, StepLimit,
       workflow, attempts, runtime, Set, Goes, CallTypeOK, Route, Finalize
  <1> QED BY <1>0, <1>1, <1>2, <1>3, OthersKept

LEMMA LookCalls == ASSUME CallsInv, NEW r \in Run, Look(r) PROVE CallsInv'
  <1> USE Limits
  <1>1. /\ at[r] = "look" /\ at' = [at EXCEPT ![r] = "think"]
        /\ step' = [step EXCEPT ![r] = 0] /\ streak' = [streak EXCEPT ![r] = 0]
        /\ UNCHANGED <<plan, left, result, solved, subtask, attempt, said, spent, retried, aborted>>
    BY DEF Look, Goes, Set, workflow
  <1>3. Functions'
    BY <1>1 DEF CallsInv, Functions, Places, InAttempt
  <1>4. Own(r)
    BY <1>1 DEF CallsInv, Functions, Own
  <1>5. CallTypeOK(r)' /\ CallInv(r)'
    BY <1>1 DEF CallsInv, Functions, CallTypeOK, CallInv, Places, Attempting, Stepping, InAttempt, StepLimit
  <1> QED BY <1>3, <1>4, <1>5, OthersKept

LEMMA AskCalls == ASSUME CallsInv, NEW r \in Run, Ask(r) PROVE CallsInv'
  <1> USE Limits
  <1>0. Functions'
    BY SMTT(30) DEF CallsInv, Functions, Places, CallTypeOK, InAttempt, workflow, attempts, runtime, Set, Goes, Ask
  <1>1. Own(r)
    BY SMTT(30) DEF CallsInv, Functions, Own, workflow, attempts, runtime, Set, Goes, Ask
  <1>2. CallTypeOK(r)'
    BY SMTT(30) DEF CallsInv, Functions, CallTypeOK, CallInv, Places, Attempting, Stepping, InAttempt, StepLimit,
       workflow, attempts, runtime, Set, Goes, Ask
  <1>3. CallInv(r)'
    BY SMTT(30) DEF CallsInv, Functions, CallTypeOK, CallInv, Places, Attempting, Stepping, InAttempt, StepLimit,
       workflow, attempts, runtime, Set, Goes, CallTypeOK, Ask
  <1> QED BY <1>0, <1>1, <1>2, <1>3, OthersKept

LEMMA ActCalls == ASSUME CallsInv, NEW r \in Run, Act(r) PROVE CallsInv'
  <1> USE Limits
  <1>0. Functions'
    BY SMTT(30) DEF CallsInv, Functions, Places, CallTypeOK, InAttempt, workflow, attempts, runtime, Set, Goes, Act
  <1>1. Own(r)
    BY SMTT(30) DEF CallsInv, Functions, Own, workflow, attempts, runtime, Set, Goes, Act
  <1>2. CallTypeOK(r)'
    BY SMTT(30) DEF CallsInv, Functions, CallTypeOK, CallInv, Places, Attempting, Stepping, InAttempt, StepLimit,
       workflow, attempts, runtime, Set, Goes, Act
  <1>3. CallInv(r)'
    BY SMTT(30) DEF CallsInv, Functions, CallTypeOK, CallInv, Places, Attempting, Stepping, InAttempt, StepLimit,
       workflow, attempts, runtime, Set, Goes, CallTypeOK, Act
  <1> QED BY <1>0, <1>1, <1>2, <1>3, OthersKept

LEMMA RecordedStep ==
    ASSUME CallsInv, NEW r \in Run, at[r] \in Stepping
    PROVE  /\ step[r] + 1 \in 0 .. MaxSteps[r] /\ spent[r] + 1 \in Nat
           /\ step[r] \in 0 .. MaxSteps[r] /\ spent[r] \in Nat
           /\ streak[r] \in 0 .. StagnationLimit
           /\ left[r] \in 0 .. MaxSteps[r] \cup {None} /\ MaxSteps[r] \in Nat
           /\ left[r] # None /\ r \notin retried =>
                 /\ spent[r] + 1 <= MaxSteps[r]
                 /\ step[r] + 1 < left[r] => spent[r] + left[r] - step[r] <= MaxSteps[r]
  BY Limits DEF CallsInv, Functions, CallTypeOK, CallInv, Attempting, Stepping, StepLimit

LEMMA RecordedEnd ==
    ASSUME CallsInv, NEW r \in Run, at[r] \in Stepping \cap Attempting,
           NEW outcome \in {"done", "failed", "stuck"}, NEW c \in 0 .. StagnationLimit,
           EndAttempt(r, outcome, step[r] + 1),
           step' = [step EXCEPT ![r] = step[r] + 1],
           spent' = [spent EXCEPT ![r] = spent[r] + 1],
           streak' = [streak EXCEPT ![r] = c]
    PROVE  CallsInv'
  <1> USE Limits
  <1>1. PICK taken \in 0 .. MaxSteps[r], n \in Nat : taken = step[r] + 1 /\ n = spent[r] + 1
    BY RecordedStep
  <1>2. EndAttempt(r, outcome, taken)
    BY <1>1 DEF EndAttempt, EndSubtask
  <1>3. /\ step'[r] \in 0 .. MaxSteps[r] /\ step' = [step EXCEPT ![r] = step'[r]]
        /\ n = spent'[r] /\ spent' = [spent EXCEPT ![r] = spent'[r]]
        /\ streak'[r] \in 0 .. StagnationLimit /\ streak' = [streak EXCEPT ![r] = streak'[r]]
    BY <1>1 DEF CallsInv, Functions
  <1>4. left[r] # None /\ r \notin retried => spent'[r] <= MaxSteps[r]
    BY <1>1, <1>3, RecordedStep
  <1>5. Affords(r, n, taken)
    BY <1>1, RecordedStep DEF Affords
  <1>6. at[r] \in Attempting
    OBVIOUS
  <1> QED BY <1>2, <1>3, <1>4, <1>5, <1>6, EndAttemptCalls

LEMMA FailedCalls ==
    ASSUME CallsInv, NEW r \in Run, NEW taken \in 0 .. MaxSteps[r], at[r] \in Attempting,
           EndAttempt(r, "failed", taken), UNCHANGED <<step, streak, spent>>
    PROVE  CallsInv'
  <1>1. /\ step' = [step EXCEPT ![r] = step'[r]] /\ spent' = [spent EXCEPT ![r] = spent'[r]]
        /\ streak' = [streak EXCEPT ![r] = streak'[r]]
    BY DEF CallsInv, Functions
  <1>2. /\ step'[r] \in 0 .. MaxSteps[r] /\ streak'[r] \in 0 .. StagnationLimit
        /\ left[r] # None /\ r \notin retried => spent'[r] <= MaxSteps[r]
    BY DEF CallsInv, CallTypeOK, CallInv
  <1>3. PICK n \in Nat : n = spent'[r]
    BY DEF CallsInv, CallTypeOK
  <1> QED BY <1>1, <1>2, <1>3, EndAttemptCalls

LEMMA StepEndsCalls == ASSUME CallsInv, NEW r \in Run, StepEnds(r) PROVE CallsInv'
  <1> USE Limits
  <1>1. /\ at[r] \in Stepping \cap Attempting
        /\ step' = [step EXCEPT ![r] = step[r] + 1] /\ spent' = [spent EXCEPT ![r] = spent[r] + 1]
    BY DEF StepEnds, Record, Set, Stepping, Attempting
  <1>2. PICK count \in {0, streak[r], streak[r] + 1} :
          /\ streak' = [streak EXCEPT ![r] = count]
          /\ \/ count = StagnationLimit /\ EndAttempt(r, "stuck", step[r] + 1)
             \/ /\ count < StagnationLimit /\ step[r] + 1 = StepLimit(r)
                /\ EndAttempt(r, "failed", step[r] + 1)
             \/ /\ count < StagnationLimit /\ step[r] + 1 < StepLimit(r)
                /\ Goes(r, "think")
                /\ UNCHANGED <<workflow, subtask, attempt, said, retried, aborted>>
    BY Zenon DEF StepEnds, GoOn, Set
  <1>3. count \in Nat
    BY <1>1, RecordedStep
  <1>4. CASE \E outcome \in {"stuck", "failed"} :
                count \in 0 .. StagnationLimit /\ EndAttempt(r, outcome, step[r] + 1)
    BY <1>1, <1>2, <1>4, RecordedStep, RecordedEnd
  <1>5. CASE /\ count < StagnationLimit /\ step[r] + 1 < StepLimit(r)
             /\ Goes(r, "think")
             /\ UNCHANGED <<workflow, subtask, attempt, said, retried, aborted>>
    <2>1. /\ at' = [at EXCEPT ![r] = "think"]
          /\ UNCHANGED <<plan, left, result, solved, subtask, attempt, said, retried, aborted>>
      BY <1>5 DEF Goes, workflow
    <2>2. Functions'
      BY <1>1, <1>2, <1>3, <2>1 DEF CallsInv, Functions, Places, InAttempt
    <2>3. Own(r)
      BY <1>1, <1>2, <2>1 DEF CallsInv, Functions, Own
    <2>4. CallTypeOK(r)' /\ CallInv(r)'
      BY <1>1, <1>2, <1>3, <1>5, <2>1 DEF CallsInv, Functions, CallTypeOK, CallInv, Places,
         Attempting, Stepping, InAttempt, StepLimit
    <2> QED BY <2>2, <2>3, <2>4, OthersKept
  <1> QED BY <1>2, <1>3, <1>4, <1>5

LEMMA StepCalls ==
    ASSUME CallsInv, NEW r \in Run, Done(r) \/ Refused(r) \/ TimesOut(r) PROVE CallsInv'
  <1>1. at[r] \in Stepping \cap Attempting
    BY DEF Done, Refused, TimesOut, Stepping, Attempting
  <1>2. step[r] + 1 \in 0 .. MaxSteps[r]
    BY <1>1, RecordedStep
  <1>3. ASSUME Done(r) \/ Refused(r) PROVE CallsInv'
    <2>1. /\ step' = [step EXCEPT ![r] = step[r] + 1] /\ spent' = [spent EXCEPT ![r] = spent[r] + 1]
          /\ streak' = [streak EXCEPT ![r] = streak[r]]
      BY <1>3 DEF Done, Refused, Record, Set, CallsInv, Functions
    <2>2. \E outcome \in {"done", "failed", "stuck"} : EndAttempt(r, outcome, step[r] + 1)
      BY <1>3 DEF Done, Refused
    <2>3. PICK c \in 0 .. StagnationLimit : c = streak[r]
      BY <1>1, RecordedStep
    <2> QED BY <1>1, <2>1, <2>2, <2>3, RecordedEnd
  <1>4. ASSUME TimesOut(r) PROVE CallsInv'
    <2>1. PICK taken \in 0 .. MaxSteps[r] : taken = step[r] + 1
      BY <1>2
    <2>2. EndAttempt(r, "failed", taken) /\ UNCHANGED <<step, streak, spent>>
      BY <1>4, <2>1 DEF TimesOut, EndAttempt, EndSubtask
    <2> QED BY <1>1, <2>2, FailedCalls
  <1> QED BY <1>3, <1>4

LEMMA RaisesCalls == ASSUME CallsInv, NEW r \in Run, Raises(r) PROVE CallsInv'
  <1>1. said[r] \in 0 .. MaxSteps[r]
    BY DEF CallsInv, CallTypeOK
  <1>2. /\ at[r] \in Attempting /\ EndAttempt(r, "failed", said[r])
        /\ UNCHANGED <<step, streak, spent>>
    BY DEF Raises, Attempting, Stepping
  <1>3. PICK taken \in 0 .. MaxSteps[r] : taken = said[r]
    BY <1>1
  <1>4. EndAttempt(r, "failed", taken)
    BY <1>2, <1>3 DEF EndAttempt, EndSubtask
  <1> QED BY <1>2, <1>4, FailedCalls

LEMMA PreflightCalls == ASSUME CallsInv, NEW r \in Run, Preflight(r) PROVE CallsInv'
  <1> USE Limits
  <1>1. CASE /\ PreflightAgain(r) \/ AskLease(r) \/ Acquire(r) \/ DisplayStarts(r) \/ InnerReady(r)
             /\ UNCHANGED <<workflow, attempts, aborted>>
    <2>1. PICK place \in {"look", "lease", "starting", "inner"} :
            at[r] \in Attempting \ Stepping /\ at' = [at EXCEPT ![r] = place]
      BY <1>1 DEF PreflightAgain, AskLease, Acquire, DisplayStarts, InnerReady, Goes, Attempting, Stepping
    <2>2. UNCHANGED <<plan, left, result, solved, subtask, attempt, step, streak, said, spent, retried, aborted>>
      BY <1>1 DEF workflow, attempts
    <2>3. Functions'
      BY <2>1, <2>2 DEF CallsInv, Functions, Places, InAttempt
    <2>4. Own(r)
      BY <2>1, <2>2 DEF CallsInv, Functions, Own
    <2>5. CallTypeOK(r)' /\ CallInv(r)'
      BY <2>1, <2>2 DEF CallsInv, Functions, CallTypeOK, CallInv, Places,
         Attempting, Stepping, InAttempt, StepLimit
    <2> QED BY <2>3, <2>4, <2>5, OthersKept
  <1>2. CASE /\ PreflightFails(r)
             /\ EndAttempt(r, "failed", 0)
             /\ UNCHANGED <<step, streak, spent>>
    <2>1. at[r] \in Attempting /\ 0 \in 0 .. MaxSteps[r]
      BY <1>2 DEF PreflightFails, Attempting
    <2> QED BY <1>2, <2>1, FailedCalls
  <1> QED BY <1>1, <1>2 DEF Preflight

LEMMA ExtractCalls == ASSUME CallsInv, NEW r \in Run, Extract(r) PROVE CallsInv'
  <1> USE Limits
  <1>0. Functions'
    BY SMTT(30) DEF CallsInv, Functions, Places, CallTypeOK, InAttempt, workflow, attempts, runtime, Set, Goes, Extract, Finalize
  <1>1. Own(r)
    BY SMTT(30) DEF CallsInv, Functions, Own, workflow, attempts, runtime, Set, Goes, Extract, Finalize
  <1>2. CallTypeOK(r)'
    BY SMTT(30) DEF CallsInv, Functions, CallTypeOK, CallInv, Places, Attempting, Stepping, InAttempt, StepLimit,
       workflow, attempts, runtime, Set, Goes, Extract, Finalize
  <1>3. CallInv(r)'
    BY SMTT(30) DEF CallsInv, Functions, CallTypeOK, CallInv, Places, Attempting, Stepping, InAttempt, StepLimit,
       workflow, attempts, runtime, Set, Goes, CallTypeOK, Extract, Finalize
  <1> QED BY <1>0, <1>1, <1>2, <1>3, OthersKept

LEMMA AbortCalls == ASSUME CallsInv, NEW r \in Run, Abort(r) PROVE CallsInv'
  <1> USE Limits
  <1>0. Functions'
    BY SMTT(30) DEF CallsInv, Functions, Places, CallTypeOK, InAttempt, workflow, attempts, runtime, Set, Goes, Abort
  <1>1. Own(r)
    BY SMTT(30) DEF CallsInv, Functions, Own, workflow, attempts, runtime, Set, Goes, Abort
  <1>2. CallTypeOK(r)'
    BY SMTT(30) DEF CallsInv, Functions, CallTypeOK, CallInv, Places, Attempting, Stepping, InAttempt, StepLimit,
       workflow, attempts, runtime, Set, Goes, Abort
  <1>3. CallInv(r)'
    BY SMTT(30) DEF CallsInv, Functions, CallTypeOK, CallInv, Places, Attempting, Stepping, InAttempt, StepLimit,
       workflow, attempts, runtime, Set, Goes, CallTypeOK, Abort
  <1> QED BY <1>0, <1>1, <1>2, <1>3, OthersKept

LEMMA EndCalls == ASSUME CallsInv, NEW r \in Run, End(r) PROVE CallsInv'
  <1> USE Limits
  <1>0. Functions'
    BY SMTT(30) DEF CallsInv, Functions, Places, CallTypeOK, InAttempt, workflow, attempts, runtime, Set, Goes, End, Shutdown
  <1>1. Own(r)
    BY SMTT(30) DEF CallsInv, Functions, Own, workflow, attempts, runtime, Set, Goes, End, Shutdown
  <1>2. CallTypeOK(r)'
    BY SMTT(30) DEF CallsInv, Functions, CallTypeOK, CallInv, Places, Attempting, Stepping, InAttempt, StepLimit,
       workflow, attempts, runtime, Set, Goes, End, Shutdown
  <1>3. CallInv(r)'
    BY SMTT(30) DEF CallsInv, Functions, CallTypeOK, CallInv, Places, Attempting, Stepping, InAttempt, StepLimit,
       workflow, attempts, runtime, Set, Goes, CallTypeOK, End, Shutdown
  <1> QED BY <1>0, <1>1, <1>2, <1>3, OthersKept

LEMMA CallsInvInit == Init => CallsInv
  BY Limits, GuiAssumption DEF Init, InitRuntime, CallsInv, Functions, CallTypeOK, CallInv, Places,
     Attempting, Stepping, InAttempt

LEMMA CallsInvStep == CallsInv /\ [Next]_vars => CallsInv'
  <1> SUFFICES ASSUME CallsInv, [Next]_vars PROVE CallsInv'
    OBVIOUS
  <1>1. CASE UNCHANGED vars
    BY <1>1 DEF vars, runtime, workflow, attempts, CallsInv, Functions, CallTypeOK, CallInv, StepLimit
  <1>2. CASE Next
    <2>1. PICK r \in Run : Begin(r) \/ Goal(r) \/ Abort(r)
      BY <1>2 DEF Next
    <2> QED BY <2>1, BeginCalls, PlanCalls, RouteCalls, PreflightCalls, LookCalls, AskCalls, ActCalls,
         StepEndsCalls, StepCalls, RaisesCalls, ExtractCalls, EndCalls, AbortCalls DEF Goal
  <1> QED BY <1>1, <1>2

-----------------------------------------------------------------------------
(* The display *)

\* A backend has its display up from DisplayStarts on; unless a preflight leaked
\* one, whoever has it up has the lease until the end, found the host's DISPLAY,
\* and DISPLAY is the host's as long as nobody has both.
DisplayInv ==
    /\ RuntimeTypeOK
    /\ \A r \in Run :
          /\ at[r] \in {"starting", "inner"} => active = r
          /\ at[r] \in {"lease", "starting"} => ~up[r]
          /\ at[r] \in Driving => up[r]
          /\ up[r] <=> original[r] # None
    /\ ~leaked =>
          /\ \A r \in Run :
                up[r] /\ at[r] # "over" => active = r /\ environ = r /\ original[r] = Host
          /\ (\A r \in Run : active = r => ~up[r]) => environ = Host

LEMMA DisplayInit == Init => DisplayInv
  BY RuntimeAssumption DEF Init, InitRuntime, DisplayInv, RuntimeTypeOK, Driving, InAttempt

\* A step that leaves the display alone does not take a call to it.
LEMMA DisplayLeft ==
    ASSUME DisplayInv, Functions, NEW r \in Run, SameDisplay,
           NEW place \in Places \ {"lease", "starting", "inner", "over"},
           at' = [at EXCEPT ![r] = place],
           at[r] # "over", place \in Driving => at[r] \in Driving
    PROVE  DisplayInv'
  BY SMTT(30) DEF SameDisplay, DisplayInv, Functions, RuntimeTypeOK, Driving

\* backend.observe and backend.execute
LEMMA DisplayUsed ==
    ASSUME DisplayInv, Functions, NEW r \in Run, UsesDisplay(r), at[r] \in InAttempt,
           NEW place \in Places \ {"lease", "starting", "inner", "over"},
           at' = [at EXCEPT ![r] = place]
    PROVE  DisplayInv'
  <1>1. up[r] /\ at[r] # "over" /\ r # Host /\ r # None
    BY RuntimeAssumption DEF DisplayInv, Driving, InAttempt
  <1>2. environ' = r /\ UNCHANGED <<active, up, original, leaked>>
    BY DEF UsesDisplay
  <1>3. RuntimeTypeOK'
    BY <1>2 DEF DisplayInv, RuntimeTypeOK
  <1>4. ASSUME NEW q \in Run
        PROVE  /\ at'[q] \in {"starting", "inner"} => active' = q
               /\ at'[q] \in {"lease", "starting"} => ~up'[q]
               /\ at'[q] \in Driving => up'[q]
               /\ up'[q] <=> original'[q] # None
    BY <1>1, <1>2 DEF DisplayInv, Functions, Driving
  <1>5. ASSUME ~leaked'
        PROVE  /\ active' = r
               /\ \A q \in Run : up'[q] /\ at'[q] # "over" =>
                     active' = q /\ environ' = q /\ original'[q] = Host
    <2>1. active = r /\ ~leaked
      BY <1>1, <1>2, <1>5 DEF DisplayInv
    <2>2. ASSUME NEW q \in Run, up'[q], at'[q] # "over" PROVE q = r /\ original'[q] = Host
      BY <1>1, <1>2, <2>1, <2>2 DEF DisplayInv, Functions
    <2> QED BY <1>2, <2>1, <2>2
  <1> QED BY <1>1, <1>2, <1>3, <1>4, <1>5 DEF DisplayInv

LEMMA EndAttemptPlace ==
    ASSUME Functions, NEW r \in Run, NEW outcome, NEW taken, EndAttempt(r, outcome, taken)
    PROVE  \E place \in {"preflight", "extract", "stop"} : at' = [at EXCEPT ![r] = place]
  BY DEF EndAttempt, EndSubtask, Finalize, Goes

LEMMA PreflightDisplay ==
    ASSUME DisplayInv, Functions, NEW r \in Run, Preflight(r) PROVE DisplayInv'
  <1>1. CASE PreflightAgain(r) \/ AskLease(r) \/ Acquire(r) \/ DisplayStarts(r) \/ InnerReady(r)
    <2>1. CASE PreflightAgain(r)
      BY <2>1, SMTT(30), RuntimeAssumption DEF PreflightAgain, Goes, DisplayInv, Functions, RuntimeTypeOK, Driving, InAttempt
    <2>2. CASE AskLease(r)
      BY <2>2, SMTT(30), RuntimeAssumption DEF AskLease, Goes, DisplayInv, Functions, RuntimeTypeOK, Driving, InAttempt
    <2>3. CASE Acquire(r)
      BY <2>3, SMTT(30), RuntimeAssumption DEF Acquire, Goes, DisplayInv, Functions, RuntimeTypeOK, Driving, InAttempt
    <2>4. CASE DisplayStarts(r)
      <3>1. /\ at[r] = "starting" /\ at' = [at EXCEPT ![r] = "inner"]
            /\ up' = [up EXCEPT ![r] = TRUE] /\ original' = [original EXCEPT ![r] = environ]
            /\ environ' = r /\ active' = active /\ leaked' = leaked
        BY <2>4 DEF DisplayStarts, Goes
      <3>2. active = r /\ ~up[r] /\ environ # None /\ r # None
        BY <3>1, RuntimeAssumption DEF DisplayInv, RuntimeTypeOK
      <3>3. RuntimeTypeOK'
        BY <3>1 DEF DisplayInv, RuntimeTypeOK
      <3>4. ASSUME NEW q \in Run
            PROVE  /\ at'[q] \in {"starting", "inner"} => active' = q
                   /\ at'[q] \in {"lease", "starting"} => ~up'[q]
                   /\ at'[q] \in Driving => up'[q]
                   /\ up'[q] <=> original'[q] # None
        BY <3>1, <3>2 DEF DisplayInv, RuntimeTypeOK, Functions, Driving, InAttempt
      <3>5. ASSUME ~leaked'
            PROVE  \A q \in Run : up'[q] /\ at'[q] # "over" =>
                     active' = q /\ environ' = q /\ original'[q] = Host
        <4>1. environ = Host
          BY <3>1, <3>2, <3>5 DEF DisplayInv
        <4>2. ASSUME NEW q \in Run, q # r PROVE ~(up[q] /\ at[q] # "over")
          BY <3>1, <3>2, <3>5, <4>2 DEF DisplayInv
        <4> QED BY <3>1, <3>2, <4>1, <4>2 DEF DisplayInv, RuntimeTypeOK, Functions
      <3>6. active' = r /\ up'[r]
        BY <3>1, <3>2 DEF DisplayInv, RuntimeTypeOK
      <3> QED BY <3>3, <3>4, <3>5, <3>6 DEF DisplayInv
    <2>5. CASE InnerReady(r)
      BY <2>5, SMTT(30), RuntimeAssumption DEF InnerReady, Goes, DisplayInv, Functions, RuntimeTypeOK, Driving, InAttempt
    <2> QED BY <1>1, <2>1, <2>2, <2>3, <2>4, <2>5
  <1>2. CASE PreflightFails(r) /\ EndAttempt(r, "failed", 0)
    <2>1. PICK place \in {"preflight", "extract", "stop"} : at' = [at EXCEPT ![r] = place]
      BY <1>2, EndAttemptPlace
    <2> QED BY <1>2, <2>1, SMTT(60), RuntimeAssumption
         DEF PreflightFails, DisplayInv, Functions, RuntimeTypeOK, Driving, InAttempt
  <1> QED BY <1>1, <1>2 DEF Preflight

LEMMA EndDisplay ==
    ASSUME DisplayInv, Functions, NEW r \in Run, End(r) PROVE DisplayInv'
  BY SMTT(60), RuntimeAssumption
     DEF End, Shutdown, Goes, DisplayInv, Functions, RuntimeTypeOK, Driving, InAttempt

LEMMA StepDisplay ==
    ASSUME DisplayInv, Functions, NEW r \in Run,
           Look(r) \/ Ask(r) \/ Act(r) \/ StepEnds(r) \/ Done(r) \/ Refused(r) \/ TimesOut(r) \/ Raises(r)
    PROVE  DisplayInv'
  <1>1. at[r] \in InAttempt /\ (UsesDisplay(r) \/ SameDisplay)
    BY DEF Look, Ask, Act, StepEnds, Done, Refused, TimesOut, Raises, InAttempt
  <1>2. \E place \in {"think", "act", "intervene", "observe", "preflight", "extract", "stop"} :
          at' = [at EXCEPT ![r] = place]
    <2>1. CASE Look(r) \/ Ask(r) \/ Act(r)
      BY <2>1 DEF Look, Ask, Act, Goes
    <2>2. CASE StepEnds(r)
      BY <2>2 DEF StepEnds, GoOn, EndAttempt, EndSubtask, Finalize, Goes
    <2>3. CASE Done(r) \/ Refused(r) \/ TimesOut(r) \/ Raises(r)
      BY <2>3 DEF Done, Refused, TimesOut, Raises, EndAttempt, EndSubtask, Finalize, Goes
    <2> QED BY <2>1, <2>2, <2>3
  <1> QED BY <1>1, <1>2, DisplayLeft, DisplayUsed DEF Places, InAttempt, Driving

LEMMA DisplayStep == Functions /\ DisplayInv /\ [Next]_vars => DisplayInv'
  <1> SUFFICES ASSUME Functions, DisplayInv, [Next]_vars PROVE DisplayInv'
    OBVIOUS
  <1>1. CASE UNCHANGED vars
    BY <1>1 DEF vars, runtime, DisplayInv, RuntimeTypeOK
  <1>2. CASE Next
    <2>1. PICK r \in Run : Begin(r) \/ Goal(r) \/ Abort(r)
      BY <1>2 DEF Next
    <2>2. CASE Begin(r) \/ Plan(r) \/ Route(r) \/ Extract(r) \/ Abort(r)
      <3>1. at[r] # "over" /\ SameDisplay
        BY <2>2 DEF Begin, Plan, Route, Extract, Abort
      <3>2. \E place \in {"plan", "route", "preflight", "stop"} : at' = [at EXCEPT ![r] = place]
        BY <2>2 DEF Begin, Plan, Route, Extract, Abort, Finalize, Goes
      <3> QED BY <3>1, <3>2, DisplayLeft DEF Places, InAttempt, Driving
    <2> QED BY <2>1, <2>2, PreflightDisplay, StepDisplay, EndDisplay DEF Goal
  <1> QED BY <1>1, <1>2

-----------------------------------------------------------------------------
(* The theorems *)

Inv == CallsInv /\ DisplayInv

\* The counters of the calls and the ownership of the display, together.
THEOREM Invariance == Spec => []Inv
  <1>1. Init => Inv
    BY CallsInvInit, DisplayInit DEF Inv
  <1>2. Inv /\ [Next]_vars => Inv'
    BY CallsInvStep, DisplayStep DEF Inv, CallsInv
  <1> QED BY <1>1, <1>2, PTL DEF Spec

\* The steps, subtasks, attempts and budgets of a call stay within its limits
\* (GuiAgent.run, GuiWorkflowRunner).
THEOREM TypeCorrect == Spec => []TypeOK
  <1>1. Inv => TypeOK
    <2> SUFFICES ASSUME Inv PROVE TypeOK
      OBVIOUS
    <2>1. RuntimeTypeOK /\ Functions
      BY DEF Inv, CallsInv, DisplayInv
    <2>2. \A r \in Run : CallTypeOK(r)
      BY DEF Inv, CallsInv
    <2> QED BY <2>1, <2>2, Limits DEF TypeOK, Functions, CallTypeOK
  <1> QED BY <1>1, Invariance, PTL

\* A background run that observes or acts has the lease and its own display, as
\* long as no preflight failed after it had started one
\* (BackgroundRuntimeCoordinator.lease, BackgroundDesktopBackend).
THEOREM DisplayIsOwn == Spec => []LeaseHeld
  <1>1. Inv => LeaseHeld
    BY DEF Inv, DisplayInv, LeaseHeld, Driving, InAttempt
  <1> QED BY <1>1, Invariance, PTL

\* ... and leaves DISPLAY as it was (BackgroundDesktopBackend.shutdown).
THEOREM DisplayGivenBack == Spec => []DisplayRestored
  <1>1. Inv => DisplayRestored
    BY RuntimeAssumption DEF Inv, DisplayInv, DisplayRestored
  <1> QED BY <1>1, Invariance, PTL

\* result.json tells the outcome of the whole plan, whatever order finish() and
\* finalize_run_result() wrote it in, unless the call was cancelled.
THEOREM ResultIsHonest == Spec => []ResultHonest
  <1>1. Inv => ResultHonest
    BY DEF Inv, CallsInv, CallInv, ResultHonest
  <1> QED BY <1>1, Invariance, PTL

\* The recorded steps of a call without retries stay within the max_steps it named
\* (remaining_steps in _run_multi_app).
THEOREM BudgetKept == Spec => []StepBudget
  <1>1. Inv => StepBudget
    BY DEF Inv, CallsInv, CallInv, StepBudget
  <1> QED BY <1>1, Invariance, PTL
=============================================================================
