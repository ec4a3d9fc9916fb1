SPECIFICATION Spec
CONSTANTS
  a = a
  b = b
  c = c
  r1 = r1
  Nodes = {a, b, c}
  Named = {a}
  Rooms = {r1}
  Hosting <- AllButOne
  NoNode = NoNode
  NoRoom = NoRoom
  MaxAttempts = 1
  MaxCommands = 2
  MaxEvents = 2
  MaxQueue = 1
INVARIANTS TypeOK ReturnDoesNotSeize LeaveReachesAll FailoverAnswered
CHECK_DEADLOCK FALSE
