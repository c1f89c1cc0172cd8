SPECIFICATION Spec
CONSTANTS
  v = v
  Empty = none
  Local = localhost
  Values = {none, v}
  Forms <- Accounts
  Entries <- Typed
  MaxCrashes = 0
PROPERTIES BindingHeld
