SPECIFICATION ArrivedSpec
CONSTANTS
  a = a
  b = b
  NoOne = NoOne
  NoConn = NoConn
  Identities <- TwoClients
  Endpoints <- Devices
  Conns = {1, 2, 3, 4}
  EndOf <- ConnEnds
  KindOf <- AllSockets
  Messages <- WaysIn
  Creator = a
  Private = TRUE
  MaxRoomSize = 2
  MaxRoutes = 1
  MaxSpeakers = 1
  MaxCommands = 2
INVARIANTS OnlyAdmitted WithinLimits ConnectedCountExact
PROPERTY GhostsOnlyFromReplaced
VIEW ButView
CHECK_DEADLOCK FALSE
