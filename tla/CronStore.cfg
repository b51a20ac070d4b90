SPECIFICATION FairSpec
CONSTANTS
    every = every  once = once  beat = beat
    None = None
    Job = {once, beat}
    OneShot = {once}
    SystemJob = {beat}
    MaxTime = 2
INVARIANTS
    JobsKept
    TimerArmed
PROPERTIES
    ServedOnceUndisturbed
    ImplementsAgenda
    DueJobRuns
CHECK_DEADLOCK FALSE
