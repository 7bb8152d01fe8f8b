SPECIFICATION Spec
CONSTANTS
  NHeld = 1
  Levels = {0, 1}
  ReleaseOf <- MCReleaseOf
  NAbs = 1
  NJog = 0
  AbsValues = {1, 2}
  FifoCap = 1
  ContCap = 1
  DeltaMax = 1
  FifoBudget = 1
  ContBudget = 1
  WireCap = 1
  Kinds <- LastingKinds
  MaxInputs = 2
  MaxConns = 1
  MaxFaults = 1
PROPERTY HeldConverge
PROPERTY AbsConverge
PROPERTY ConnConverge
