SPECIFICATION Spec
CONSTANTS
  v1 = v1
  v2 = v2
  Plates <- MCPlates
  Roads <- MCRoads
  Posted <- MCPosted
  Observations <- MCObservations
SYMMETRY Symmetry
INVARIANTS
  TypeOK
  OneTicketPerDay
  TicketsJustified
  NoSpeederEscapes
  KeptIsUnticketed
