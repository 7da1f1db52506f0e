CONSTANTS
    MAX_PROCESSES = 2
    Policy = "rr"
    Priorities <- MCPriorities
    Overlays = 2
    SleepTicks = {2}
    AlarmTicks = {2}
    Signals = {15}
SPECIFICATION Spec
PROPERTIES
    SignalWakesPaused
CHECK_DEADLOCK FALSE
