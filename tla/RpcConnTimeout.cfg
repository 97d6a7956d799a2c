CONSTANTS
    Buffer = 1
    PipeCap = 1
    MaxCalls = 10
SPECIFICATION FairSpec
PROPERTIES CallReturns
CHECK_DEADLOCK FALSE
