SPECIFICATION FairSpec
CONSTANTS
    a = a  b = b
    Run = {a, b}
    Host = Host
    None = None
    MaxSubtasks <- MCSubtasks
    MaxSteps <- MCSteps
    MaxRetries <- MCRetries
    StagnationLimit = 1
INVARIANTS
    LeaseHeld
    DisplayRestored
    ResultHonest
    StepBudget
PROPERTY
    EveryRunEnds
CHECK_DEADLOCK FALSE
