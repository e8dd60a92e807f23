CONSTANTS
  Kinds <- PacedKinds
  MaxFrames = 3
  SizeMax = 8
  T35Chars = 6
  Paced = TRUE
SPECIFICATION FairSpec
CHECK_DEADLOCK FALSE
INVARIANTS
  ExecutesWholeFrame
  NoTransmitOverrun
  AssertsHold
PROPERTIES
  Implements
