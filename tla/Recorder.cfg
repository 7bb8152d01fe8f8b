SPECIFICATION Spec
CONSTANTS
    Callers = {"ui"}
    Serial = TRUE
    Overlap = FALSE
    Capacity = 2
    SegMax = 2
    Rates = {1, 2}
    MaxBlocks = 3
    MaxCalls = 3
    MaxFails = 1
    MaxCrashes = 1
CHECK_DEADLOCK FALSE
INVARIANT TypeOK
INVARIANT RingOwned
INVARIANT RecordingTruth
PROPERTY Durable
PROPERTY StopReturns
