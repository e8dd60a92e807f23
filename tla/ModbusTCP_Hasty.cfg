CONSTANTS
  Socks = 1
  Kinds <- AllKinds
  MaxRequests = 3
  MaxConnects = 2
  BufSize = 5
  Patient = FALSE
SPECIFICATION Spec
INVARIANTS
  TypeOK
  NoMutualWait
  SendingHasAnswer
