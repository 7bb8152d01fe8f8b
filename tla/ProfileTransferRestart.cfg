CONSTANTS
  Devices = {a}
  NChunks = 2
  Attempts = 3
  DescCap = 1
  SendCap = 1
  MaxPlugs = 2
  MaxEvents = 1
  MaxInstalls = 0
SPECIFICATION Spec
CHECK_DEADLOCK FALSE
PROPERTY ServedAfterRestart
