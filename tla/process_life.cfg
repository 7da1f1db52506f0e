CONSTANTS
    MAX_PROCESSES = 3
    Policy = "rr"
    Priorities <- MCPriorities
    Overlays = 2
    SleepTicks = {2}
    AlarmTicks = {}
    Signals = {9}
    b1 = b1
    b2 = b2
    b3 = b3
    b4 = b4
    Blocks <- MCBlocks
    Null = Null
    Image = Image
    Keys = {1, 2}
    SHM_ENTRIES = 1
SPECIFICATION ResourcesSpec
INVARIANTS
    TypeOK
    OneRunning
    NoStaleWaiter
    WorkConserving
    MemorySafe
    NothingLeaks
PROPERTIES
    RoundRobinProgress
SYMMETRY Symmetry
CHECK_DEADLOCK FALSE
