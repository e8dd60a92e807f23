CONSTANTS
  Kinds <- HastyKinds
  MaxFrames = 2
  SizeMax = 8
  T35Chars = 5
  Paced = FALSE
SPECIFICATION Spec
CHECK_DEADLOCK FALSE
INVARIANT ForeignFrameIgnored
