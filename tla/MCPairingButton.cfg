SPECIFICATION Spec
CONSTANTS
  DebounceTicks = 2
  LongTicks = 4
  MaxStep = 2
  ReleaseWait = 2
  MaxBlock = 5
  MaxLag = 20
INVARIANTS IInv HoldIsNoticed
PROPERTIES LongPressNeedsHold OneEventPerHold
