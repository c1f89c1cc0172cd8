SPECIFICATION FairSpec
CONSTANTS
  v = v
  Empty = none
  Local = localhost
  Values = {none, v}
  Forms <- Bare
  Entries = {}
  MaxCrashes = 0
PROPERTIES AckLeadsToReboot
