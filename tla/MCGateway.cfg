SPECIFICATION FairSpec
CONSTANTS
  first = first
  second = second
  None = None
  Calls = {first, second}
  Ids = {"i", "j"}
  Preferred <- MCPreferred
  MaxConnections = 1
INVARIANTS
  AnswersTrue
  RelayedAsSent
PROPERTIES
  EveryCallSettles
CHECK_DEADLOCK FALSE
