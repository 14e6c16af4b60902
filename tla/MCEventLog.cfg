SPECIFICATION FairSpec
CONSTANTS
  q1 = q1
  q2 = q2
  q3 = q3
  r1 = r1
  r2 = r2
  r3 = r3
  w1 = w1
  w2 = w2
  Rooms = {r1, r2, r3}
  Workspaces = {w1, w2}
  WorkspaceOf <- MCWorkspaceOf
  Requests = {q1, q2, q3}
  MaxTime = 1
INVARIANTS
  TypeOK
  GapFree
  OutboxOrder
  ConflictHasWinner
PROPERTIES
  AppendOnly
  RequestsEnd
CHECK_DEADLOCK FALSE
