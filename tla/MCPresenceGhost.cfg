SPECIFICATION Spec
CONSTANTS
  c1 = c1
  c2 = c2
  u1 = u1
  r1 = r1
  r2 = r2
  Connections = {c1, c2}
  Users = {u1}
  UserOf <- MCUserOf
  Rooms = {r1}
  MaxCount = 2
  MaxUpdates = 0
  MaxFailures = 0
INVARIANT ClearsAfterDisconnect
CHECK_DEADLOCK FALSE
