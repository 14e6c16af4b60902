SPECIFICATION Spec
CONSTANTS
  c1 = c1
  c2 = c2
  Connections = {c1, c2}
  Member = {c2}
  Sent = {1}
  PageLimit = 1
  SeenCapacity = 1
  MaxEvents = 2
  MaxPublishes = 2
  MaxBreaks = 0
  MaxCommands = 2
INVARIANTS
  TypeOK
  NoHole
  BroadcastBound
  NoticeOnce
CHECK_DEADLOCK FALSE
