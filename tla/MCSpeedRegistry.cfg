SPECIFICATION ServerSpec
CONSTANTS
  v1 = v1
  Plates <- MCPlates
  Roads = {1, 2}
  Posted <- MCPosted
  Observations <- OneTicket
  MaxClients = 4
  Idents <- MCIdents
  ChanSize = 1
  MaxBacklog = 2
  LongErrors = TRUE
CHECK_DEADLOCK FALSE
INVARIANTS
  CoverageMatches
  UnidentifiedIsUnheard
