CONSTANTS
  Nil = Nil
  Keys = {k1, k2, k3}
  Limits = {0, 1, 2}
  TtlSecs = {1, 2}
  Second = 2
  Fraction = 2
  MaxTime = 10
SPECIFICATION Spec
INVARIANTS Bounded ServedInTime NotLostEarly
CHECK_DEADLOCK FALSE
