SPECIFICATION MCSpec
CONSTANTS
  BuffSize = 9
  ArrLen = 2
  MaxBeats = 1
  Scripts <- MCScripts
  Unspeakable <- MCUnspeakable
  PrimeClients = {1, 2}
  Lines <- MCLines
  MaxAsked = 2
CHECK_DEADLOCK FALSE
INVARIANTS
  ClientTypeOK
  EofLosesNothing
  TableIsPrimes
  AnswersRight
PROPERTIES
  ImplementsSession
  AllHandled
  HeartIsHeard
