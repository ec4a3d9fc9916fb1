SPECIFICATION ConnectedSpec
CONSTANTS
  d1 = d1
  d2 = d2
  d3 = d3
  r1 = r1
  r2 = r2
  Devices = {d1, d2, d3}
  Rooms = {r1, r2}
  Hosts = {1}
  SpaceHost = 1
  Contents = {1, 2}
  Cluster <- Alone
  Knows <- AllKnown
  Skew <- InStep
  Acts = {"create", "delete", "leave", "refuse"}
  MaxTime = 1
  MaxChanges = 2
INVARIANTS TypeOK SameTree
PROPERTY TradingStops
CHECK_DEADLOCK FALSE
