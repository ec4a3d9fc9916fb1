SPECIFICATION Spec
CONSTANTS
  a = a
  b = b
  NoOne = NoOne
  NoConn = NoConn
  Identities <- TwoClients
  Endpoints <- Devices
  Conns = {1, 4}
  EndOf <- ConnEnds
  KindOf <- AllSockets
  Messages <- JoinOnly
  Creator = a
  Private = TRUE
  MaxRoomSize = 2
  MaxRoutes = 2
  MaxSpeakers = 1
  MaxCommands = 3
INVARIANT LiveMembershipKept
CHECK_DEADLOCK FALSE
