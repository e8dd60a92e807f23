CONSTANTS
  Socks = 2
  Kinds <- SoundKinds
  MaxRequests = 3
  MaxConnects = 3
  BufSize = 6
  Patient = TRUE
SPECIFICATION FairSpec
INVARIANTS
  AnswerMatches
  RequestTaken
PROPERTIES
  Implements
