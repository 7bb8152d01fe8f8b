CONSTANTS
  Devices = {a}
  NChunks = 1
  Attempts = 2
  DescCap = 1
  SendCap = 1
  MaxPlugs = 2
  MaxEvents = 1
  MaxInstalls = 1
SPECIFICATION Spec
CHECK_DEADLOCK FALSE
INVARIANT TypeOK
INVARIANT MapsOwnSession
PROPERTY ProfileArrives
