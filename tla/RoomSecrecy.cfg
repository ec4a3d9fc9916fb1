SPECIFICATION KeyedSpec
CONSTANTS
  Members = {1, 2, 3}
  Voice = {1}
  Chat = {2, 3}
  Speakers = {1}
  Nodes = {n1}
  EpochMod = 8
  Retained = 2
  MaxAdvance = 3
  MaxAttempts = 1
  MaxKeys = 3
  MaxChanges = 2
  MaxRestarts = 0
  Lossy = FALSE
INVARIANT ForwardSecrecy
CHECK_DEADLOCK FALSE
