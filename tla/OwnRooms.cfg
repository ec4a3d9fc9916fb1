SPECIFICATION FirstSpec
CONSTANTS
  d1 = d1
  d2 = d2
  d3 = d3
  r1 = r1
  r2 = r2
  Devices = {d1, d2}
  Rooms = {r1}
  Hosts = {1, 2}
  SpaceHost = 1
  Contents = {}
  Cluster <- OneCluster
  Knows <- AllKnown
  Skew <- SecondAhead
  Acts = {"join", "delete", "hide", "list", "leave", "refuse"}
  MaxTime = 2
  MaxChanges = 3
INVARIANTS RemovedIsGone LaterWins
CHECK_DEADLOCK FALSE
