SPECIFICATION FairSpec
CONSTANTS
  MaxClients = 2
  MaxTexts = 1
  EventCap = 2
  MessageCap = 2
CHECK_DEADLOCK FALSE
INVARIANT
  LastLineIsSaid
