SPECIFICATION Spec
CONSTANTS
  Keys = {0, 1, 2, 3, 4, 5}
  Values = {v1, v2}
  Absent = Absent
  MAP_SLOTS_MAX = 4
  MAX_SITES = 3
  MAX_ENTRIES = 5
INVARIANTS TypeOK NoStateDeleted Agree AutoFits
CHECK_DEADLOCK FALSE
