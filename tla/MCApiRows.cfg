SPECIFICATION Spec
CONSTANTS
  NoCall = NoCall
  Requests = {"q1", "q2"}
  MaxCalls = 4
  Suite = "rows"
  EventNumbers = {1, 2, 3, 4, 5}
  Net <- MCNet
  Users <- MCUsers
  Rooms <- MCRooms
  Messages <- Ids
  Keys <- MCKeys
  Scenarios <- MCScenarios
  Endpoint <- ApiEndpoint
PROPERTIES
  ReplayGivesTables
  RowsMoveForward
  NoticesReachMembers
  AdminsKept
  CredentialsHold
CHECK_DEADLOCK FALSE
