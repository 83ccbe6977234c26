SPECIFICATION FairSpec
CONSTANTS
  Addrs = {1, 2}
  Bytes <- MCBytes
  Requests <- MCRequests
  Version <- MCVersion
  ChanSize = 1
  MaxRequests = 3
CHECK_DEADLOCK FALSE
INVARIANTS
  TypeOK
  AnswersInOrder
PROPERTIES
  AllAnswered
