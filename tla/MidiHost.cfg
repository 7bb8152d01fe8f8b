SPECIFICATION Spec
CONSTANTS
  Producers = {p1, p2}
  OutCap = 2
  BatchMax = 1
  MaxPlugs = 2
  MaxPackets = 2
  MaxFaults = 2
INVARIANT TypeOK
INVARIANT HandleOutlivesTransfers
INVARIANT LedsFresh
INVARIANT LedsConserved
PROPERTY InputAlive
PROPERTY StateConverges
