SPECIFICATION Spec
CONSTANTS
  M64 = 8
  M32 = 4
  STACK = 2
  NSLOTS = 2
  MAX_ENTRIES = 2
  ArrayMaps <- MCArrayMaps
  Inputs <- MCInputs
  Programs <- Halved
INVARIANT KeyRight
CHECK_DEADLOCK FALSE
