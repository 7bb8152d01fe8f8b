SPECIFICATION Spec
CONSTANTS
    Decks = {1}
    MaxPlugs = 2
    MaxLoads = 2
    MaxSorts = 1
    MaxFails = 1
    Bounce = TRUE
CHECK_DEADLOCK FALSE
PROPERTY UnmountAnnounced
