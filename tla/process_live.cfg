CONSTANTS
    MAX_PROCESSES = 2
    Policy = "rr"
    Priorities <- MCPriorities
    Overlays = 2
    SleepTicks = {2}
    AlarmTicks = {0, 2}
    Signals = {15}
SPECIFICATION FairSpec
INVARIANTS
    DeliveredOnReturn
PROPERTIES
    ReadyRuns
    SleepersWake
    AlarmsRing
CHECK_DEADLOCK FALSE
