SPECIFICATION FairSpec
CONSTANTS
  Ids = {1}
  Stream <- BothEscapes
  Cuts = {0, 2, 5}
  Noise <- MCNoise
  Room = 3
  ChanSize = 1
  MaxSessions = 2
  MaxBacklog = 1
CHECK_DEADLOCK FALSE
INVARIANTS
  TypeOK
  InStep
  RepliesFit
  PacketsAreShort
  SessionsApart
PROPERTIES
  Resent
  StreamIsAnswered
