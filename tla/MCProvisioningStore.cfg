SPECIFICATION StoreSpec
CONSTANTS
  v = v
  Empty = none
  Local = localhost
  Values = {none, v}
  Forms <- Sent
  Entries <- Typed
  MaxCrashes = 1
INVARIANTS StoreInv OperatesOnStored OperatesProvisioned
PROPERTIES ImplementsStore ProvisionedWhole AckedIsStored BindingSurvives
