SPECIFICATION FairSpec
CONSTANTS
  p1 = p1
  p2 = p2
  r1 = r1
  r2 = r2
  RowCount = 3
  RoomOf <- MCRoomOf
  Workers = {p1, p2}
  BatchSize = 2
  MaxAttempts = 2
  MaxCrashes = 1
INVARIANTS
  TypeOK
  PublishedWasSent
PROPERTIES
  NeverPendingAgain
  NoLateDuplicate
  OvertakenOnlyAfterAttempt
  EveryRowSettles
CHECK_DEADLOCK FALSE
