SPECIFICATION FairSpec
CONSTANTS
  Wrap = 6
  Interval = 2
  NoiseTicks = 4
  NoiseDrop = 2
  RefillRise = 2
  MaxBlock = 1
  Tank = 3
  MaxRefills = 1
INVARIANTS IInv NoiseNotRectified
PROPERTIES Spaced PublishesAgain
