SPECIFICATION Spec
CONSTANTS
  a = a
  b = b
  NoOne = NoOne
  Receivers = {a}
  Total = 2
  Budget = 1
  MaxAutoResume = 1
  Kinds = {"directSmall", "directLarge", "roomSmall", "roomLarge"}
  Faults = {"source", "disk", "giveup", "age", "revoke", "cancel", "again", "gc"}
  MaxRestarts = 1
INVARIANTS TypeOK HeldIsResumable PartOwned NoSilentHole
PROPERTY KeepsThePromise
CHECK_DEADLOCK FALSE
