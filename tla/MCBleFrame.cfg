SPECIFICATION Spec
CONSTANTS
  Frames <- MCFrames
  Fitting <- MCFitting
  KeyValues <- MCKeyValues
  Mtu = 3
  MaxBuffer = 6
  Silence = 1
INVARIANTS IInv FramesEndOnce
PROPERTIES Delivered
