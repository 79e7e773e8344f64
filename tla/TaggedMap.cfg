SPECIFICATION Spec
CONSTANTS
  Keys = {k1, k2, k3}
  Values = {v1, v2}
  Absent = Absent
  NSlots = 3
INVARIANT TypeOK
INVARIANT HeldStable
PROPERTY SlotsSettle
PROPERTY Implements
