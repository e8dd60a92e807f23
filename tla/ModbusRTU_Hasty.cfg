CONSTANTS
  Kinds <- HastyKinds
  MaxFrames = 2
  SizeMax = 8
  T35Chars = 5
  Paced = FALSE
SPECIFICATION FairSpec
CHECK_DEADLOCK FALSE
INVARIANTS
  TypeOK
  BufferNeverFull
  ReceiverNotWedged
  PostNeverLost
  TransmissionNotStranded
PROPERTIES
  BusReleased
