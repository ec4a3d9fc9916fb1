SPECIFICATION Spec
CONSTANTS
  pc = pc
  phone = phone
  desktop = desktop
  NoDevice = NoDevice
  Devices <- ThreeDevices
  IdentityOf <- TwoIdentities
  MaxCalls = 2
  MaxCommands = 3
  MaxPaths = 2
  MaxRestarts = 1
SYMMETRY TwoOfOne
INVARIANTS TypeOK OneAnswer FallbackInCall
PROPERTY AnswerKept
CHECK_DEADLOCK FALSE
