CONSTANTS
    h1 = h1
    h2 = h2
    Handlers = {h1, h2}
    EdgeChanCap = 1
    MaxChunk = 2
    MaxMsgs = 3
SPECIFICATION FairSpec
INVARIANTS TypeOK DisconnectedOnce ServedAreConnected ReadingsConserved
PROPERTIES HandlersShutDown CountedUntilMalformed
CHECK_DEADLOCK FALSE
