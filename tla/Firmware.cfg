CONSTANTS
    a = a
    b = b
    Sensors = {a, b}
    QueueDepth = 2
    TxCap = 2
    PacketLen = 3
    HelloLen = 1
    LocationLen = 2
    IdCount = 3
    MaxSamples = 5
    Edges <- MCEdges
SPECIFICATION FairSpec
INVARIANTS SamplesAccounted PacketsWhole CalibrationNearest
PROPERTIES SampleArrives
CHECK_DEADLOCK FALSE
