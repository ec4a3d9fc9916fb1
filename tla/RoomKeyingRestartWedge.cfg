SPECIFICATION KeyedSpec
CONSTANTS
  Members = {1, 2}
  Voice = {1, 2}
  Chat = {}
  Speakers = {1, 2}
  Nodes = {n1}
  EpochMod = 8
  Retained = 2
  MaxAdvance = 3
  MaxAttempts = 1
  MaxKeys = 4
  MaxChanges = 1
  MaxRestarts = 1
  Lossy = TRUE
INVARIANTS QuietAgreement
CHECK_DEADLOCK FALSE
