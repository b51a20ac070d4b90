SPECIFICATION Spec
CONSTANTS
    every = every  once = once  beat = beat
    None = None
    Job = {every, beat}
    OneShot = {}
    SystemJob = {beat}
    MaxTime = 1
PROPERTIES
    ManualRunRecorded
CHECK_DEADLOCK FALSE
