SPECIFICATION Spec
CONSTANTS
  NHeld = 1
  Levels = {0, 1}
  ReleaseOf <- MCReleaseOf
  NAbs = 1
  NJog = 1
  AbsValues = {1}
  FifoCap = 2
  ContCap = 2
  DeltaMax = 1
  FifoBudget = 1
  ContBudget = 1
  WireCap = 1
  Kinds <- ScheduledKinds
  MaxInputs = 3
  MaxConns = 2
  MaxFaults = 1
INVARIANT TypeOK
INVARIANT AtMostOneLate
INVARIANT JogConserved
PROPERTY CommandsInOrder
