SPECIFICATION FairSpec
CONSTANTS
  NHeld = 2
  NIds = 2
  ConnId = 1
  QueueCap = 2
  DeltaMax = 3
  MaxFrames = 4
  MaxPosts = 2
  Levels = {0, 1}
  ReleaseOf <- MCReleaseOf
  Frames <- MCFramesMixed
INVARIANT TypeOK
INVARIANT HeldNeverLost
INVARIANT DeltaConserved
INVARIANT CommandsAccounted
PROPERTY LevelsAlternate
PROPERTY HeldConverge
