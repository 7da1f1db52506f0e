CONSTANTS
    Steps = 2
SPECIFICATION FrameSpec
PROPERTIES
    SigreturnReturns
CHECK_DEADLOCK FALSE
