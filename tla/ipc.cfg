CONSTANTS
    MAX_PROCESSES = 3
    Policy = "rr"
    Priorities <- MCPriorities
    Overlays = 3
    SleepTicks = {1}
    AlarmTicks = {}
    Signals = {9}
    PIPE_SIZE = 3
    Values = {5, 7}
    Letters = {1, 2}
    Number = {1, 2}
    Calls <- MCCalls
    DeviceCalls = 2
    FS_DYN_SLOT_WORDS = 8
    DiskResults <- MCDiskResults
    HeaderWords = 6
    Services = {"sync", "pipe", "mailbox", "devices", "overlay", "launcher"}
SPECIFICATION MCSpec
INVARIANTS
    MutualExclusion
    LocksAgree
    NoLostWakeup
    NobodyMissesPipe
    WindowStable
    MenuAfterChild
PROPERTIES
    IsChannel
    BoxesAreChannels
    CallsAsMade
CONSTRAINT PlainProcesses
CHECK_DEADLOCK FALSE
