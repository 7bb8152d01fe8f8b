SPECIFICATION Spec
CONSTANTS
    Decks = {1, 2}
    MaxPlugs = 2
    MaxLoads = 2
    MaxSorts = 1
    MaxFails = 1
    Bounce = FALSE
CHECK_DEADLOCK FALSE
INVARIANT TypeOK
INVARIANT GateTruth
INVARIANT SourceOfMount
INVARIANT AgreeEmpty
PROPERTY Settles
