SPECIFICATION FairSpec
CONSTANTS
  v = v
  Empty = none
  Local = localhost
  Values = {none, v}
  Forms <- Network
  Entries <- Edited
  MaxCrashes = 1
PROPERTIES UnlinkHonoured PairingEnds
