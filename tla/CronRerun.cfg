SPECIFICATION Spec
CONSTANTS
    every = every  once = once  beat = beat
    None = None
    Job = {every, once}
    OneShot = {once}
    SystemJob = {}
    MaxTime = 1
PROPERTIES
    ServedOnce
CHECK_DEADLOCK FALSE
