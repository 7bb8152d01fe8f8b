SPECIFICATION Spec
CONSTANTS
    Callers = {"ui", "web"}
    Serial = FALSE
    Overlap = FALSE
    Capacity = 2
    SegMax = 2
    Rates = {1, 2}
    MaxBlocks = 3
    MaxCalls = 3
    MaxFails = 0
    MaxCrashes = 0
CHECK_DEADLOCK FALSE
INVARIANT RingOwned
