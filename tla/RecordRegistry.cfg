SPECIFICATION Spec
CONSTANTS
    TicksPerSecond = 2
    Records = {1, 2, 3}
    Content <- MCContent
    Batches <- MCBatches
    Handlers = {h1, h2}
    Readers = {q}
    MaxBatches = 2
    MaxReads = 1
INVARIANTS AckedStored StoredOnce ReadsWhole ReadsCurrent RecordListAgrees
CHECK_DEADLOCK FALSE
