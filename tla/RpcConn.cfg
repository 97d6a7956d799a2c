CONSTANTS
    Buffer = 1
    PipeCap = 1
    MaxCalls = 10
SPECIFICATION FairSpec
INVARIANTS TypeOK ReplyToItsCall
PROPERTIES CallReturnsUnlessClogged LinkLossEndsHandler
CHECK_DEADLOCK FALSE
