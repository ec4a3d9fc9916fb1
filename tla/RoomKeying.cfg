SPECIFICATION StartSpec
CONSTANTS
  Members = {1, 2}
  Voice = {1, 2}
  Chat = {2}
  Speakers = {2}
  Nodes = {n1, n2}
  EpochMod = 8
  Retained = 2
  MaxAdvance = 3
  MaxAttempts = 2
  MaxKeys = 4
  MaxChanges = 2
  MaxRestarts = 1
  Lossy = TRUE
INVARIANTS TypeOK CurrentKeyHeld PendingWithinAttempts OnlyKeyerDistributes ViewCatchesUp
PROPERTY EpochNeverRollsBack EventuallyKeyed
CHECK_DEADLOCK FALSE
