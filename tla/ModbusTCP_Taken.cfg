CONSTANTS
  Socks = 1
  Kinds <- SoundKinds
  MaxRequests = 3
  MaxConnects = 2
  BufSize = 6
  Patient = FALSE
SPECIFICATION Spec
INVARIANTS
  RequestTaken
