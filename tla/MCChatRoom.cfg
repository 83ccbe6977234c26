SPECIFICATION FairSpec
CONSTANTS
  MaxClients = 2
  MaxTexts = 2
  EventCap = 2
  MessageCap = 2
CHECK_DEADLOCK FALSE
INVARIANTS
  TypeOK
  AuthorKnown
  Visits
  CaughtUpKnowsRoom
  LinesAreWhole
PROPERTIES
  GoneIsForgotten
  JoinIsAnswered
