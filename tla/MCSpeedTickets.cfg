SPECIFICATION FairServerSpec
CONSTANTS
  v1 = v1
  Plates <- MCPlates
  Roads = {1}
  Posted <- MCPosted
  Observations <- TwoTickets
  MaxClients = 3
  Idents <- MCIdents
  ChanSize = 1
  MaxBacklog = 1
  LongErrors = FALSE
CHECK_DEADLOCK FALSE
INVARIANTS
  ServerTypeOK
  NoneWaitsWhileServed
PROPERTIES
  KeepsPromise
  MainReturns
  EndedIsForgotten
  RoadIsServed
