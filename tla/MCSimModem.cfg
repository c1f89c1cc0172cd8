SPECIFICATION FairSpec
CONSTANTS
  Apns = {a1, a2}
  Empty = none
  Signals = {4, 5, 12, 99}
INVARIANTS IInv ResolvedIsUsed AutoApnKnown
PROPERTIES BothApnsTried AlarmEnds
