SPECIFICATION FairFeedSpec
CONSTANTS
  q1 = q1
  q2 = q2
  q3 = q3
  r1 = r1
  w1 = w1
  c1 = c1
  Rooms = {r1}
  Workspaces = {w1}
  WorkspaceOf <- MCWorkspaceOf
  Requests = {q1, q2, q3}
  MaxTime = 0
  Readers = {c1}
  RoomOf <- MCRoomOf
  PageLimit = 2
  MaxConnects = 2
INVARIANTS
  FeedTypeOK
  NothingSkipped
PROPERTIES
  ImplementsEventStream
  EventuallyReceived
CHECK_DEADLOCK FALSE
