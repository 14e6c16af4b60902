SPECIFICATION FairSpec
CONSTANTS
  c1 = c1
  c2 = c2
  Connections = {c1, c2}
  Member = {c2}
  Sent = {1}
  PageLimit = 1
  SeenCapacity = 1
  MaxEvents = 1
  MaxPublishes = 1
  MaxBreaks = 1
  MaxCommands = 3
PROPERTIES
  EventArrives
CHECK_DEADLOCK FALSE
