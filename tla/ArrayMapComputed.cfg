SPECIFICATION Spec
CONSTANTS
  Keys = {0, 1, 2, 3, 4, 5}
  Values = {v1, v2}
  Absent = Absent
  MAX_ENTRIES = 4
  MAX_BUDGET = 5
INVARIANT HitInRange
