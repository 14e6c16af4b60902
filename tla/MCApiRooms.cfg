SPECIFICATION FairSpec
CONSTANTS
  NoCall = NoCall
  Requests = {"q1", "q2"}
  MaxCalls = 2
  Suite = "rooms"
  EventNumbers = {}
  Net <- MCNet
  Users <- MCUsers
  Rooms <- MCRooms
  Messages <- Ids
  Keys <- MCKeys
  Scenarios <- MCScenarios
  Endpoint <- ApiEndpoint
INVARIANTS
  TypeOK
PROPERTIES
  LastOwnerKept
  MembersBelong
  ContactsMutual
  GroupComplete
  CrashNeedsConflict
  RequestsEnd
CHECK_DEADLOCK FALSE
