SPECIFICATION FairSpec
CONSTANTS
  i1 = i1
  i2 = i2
  Id <- TwoIds
  MaxPolls = 2
  MaxMishaps = 1
  None = None
INVARIANTS
  ShownStatusStands
PROPERTIES
  ButtonComesBack
  EveryLoopEnds
