SPECIFICATION FairSpec
CONSTANTS
  Accounts = {a1, a2}
  Brokers = {b1}
  Homes <- SharedOrNot
  None = none
  Edits = {a1}
  MaxCrashes = 1
INVARIANTS IInv SledAgrees
PROPERTIES ImplementsOwnership StoredAccountDialled UnlinkReleases
