SPECIFICATION Spec
CONSTANTS
  Addrs = {1}
  Bytes <- MCBytes
  Requests <- FewRequests
  Version <- MCVersion
  ChanSize = 1
  MaxRequests = 4
CHECK_DEADLOCK FALSE
INVARIANT
  NeverBothWait
