SPECIFICATION FairServerSpec
CONSTANTS
  v1 = v1
  Plates <- MCPlates
  Roads = {1}
  Posted <- MCPosted
  Observations <- OneTicket
  MaxClients = 3
  Idents <- MCIdents
  ChanSize = 1
  MaxBacklog = 1
  LongErrors = TRUE
CHECK_DEADLOCK FALSE
PROPERTY
  EndedIsForgotten
