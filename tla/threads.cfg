CONSTANTS
    MAX_PROCESSES = 3
    Policy = "rr"
    Priorities = {4}
    Overlays = 1
    SleepTicks = {}
    AlarmTicks = {}
    Signals = {}
SPECIFICATION ThreadsSpec
INVARIANTS
    OneThreadInside
CHECK_DEADLOCK FALSE
