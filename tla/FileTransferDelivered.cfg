SPECIFICATION FairSpec
CONSTANTS
  a = a
  b = b
  NoOne = NoOne
  Receivers = {a}
  Total = 3
  Budget = 2
  MaxAutoResume = 1
  Kinds = {"directSmall", "directLarge", "roomSmall", "roomLarge"}
  Faults = {}
  MaxRestarts = 0
PROPERTY Delivered
CHECK_DEADLOCK FALSE
