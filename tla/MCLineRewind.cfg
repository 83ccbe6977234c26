SPECIFICATION Spec
CONSTANTS
  Ids = {1}
  Stream <- TwoEscapes
  Cuts = {0, 2, 3}
  Noise <- NoNoise
  Room = 2
  ChanSize = 1
  MaxSessions = 1
  MaxBacklog = 1
CHECK_DEADLOCK FALSE
INVARIANT
  InBytesIsPosition
