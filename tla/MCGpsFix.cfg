SPECIFICATION FairSpec
CONSTANTS
  Spots = {0, 4, 6}
  Places = {0, 1, 4, 6}
  Noise = 1
  Buffer = 2
  None = none
INVARIANTS IInv StillTankPinned
PROPERTIES FreshFix RelocationReported
