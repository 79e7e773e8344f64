SPECIFICATION LiveSpec
CONSTANTS
  Objects <- MCObjects
  Options <- MCOptions
  MapNames <- MCMapNames
  Strips = 2
  Capacity <- MCCapacity
  MAX_MAPS = 2
  MAP_MAX_SLOTS = 2
  MAP_SLOTS_MAX = 6
INVARIANTS Faithful Explained CountsAgree InStep SizeRight
PROPERTY Ends
CHECK_DEADLOCK FALSE
