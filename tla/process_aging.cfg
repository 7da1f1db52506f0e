CONSTANTS
    MAX_PROCESSES = 3
    Policy = "dp"
    Priorities <- MCTwoPriorities
    Overlays = 3
    SleepTicks = {1}
    AlarmTicks = {}
    Signals = {}
SPECIFICATION Spec
INVARIANTS
    AgeBounded
CHECK_DEADLOCK FALSE
