SPECIFICATION OpenedSpec
CONSTANTS
  a = a
  b = b
  NoOne = NoOne
  NoConn = NoConn
  Identities <- TwoClients
  Endpoints <- Devices
  Conns = {1, 2, 3, 4}
  EndOf <- ConnEnds
  KindOf <- SocketAndStream
  Messages <- ComeAndGo
  Creator = a
  Private = TRUE
  MaxRoomSize = 1
  MaxRoutes = 2
  MaxSpeakers = 1
  MaxCommands = 3
INVARIANTS TypeOK RosterMirrorsDevices EmptyMarkExact NoGhost WithinLimits ConnectedCountExact
PROPERTY SpeakersUnaffected
VIEW ButView
CHECK_DEADLOCK FALSE
