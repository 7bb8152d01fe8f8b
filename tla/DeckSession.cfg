\* Two loads, an EJECT and a drive removal in any order on two decks, with one
\* task creation that fails.  The callers run out of calls: no deadlock check,
\* CallsReturn says that none of them is stuck.
SPECIFICATION Spec
CHECK_DEADLOCK FALSE
CONSTANTS
    NDecks = 2
    MaxLoads = 2
    MaxStops = 1
    MaxSuspends = 1
    MaxFails = 1
INVARIANT TypeOK
INVARIANT BufferOutlivesTasks
INVARIANT OneSession
PROPERTY BarrierSpec
PROPERTY CallsReturn
