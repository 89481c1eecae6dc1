CONSTANTS
  Nil = Nil
  Adapters = {a1, a2}
  Calls = {c1, c2}
SPECIFICATION FairSpec
INVARIANTS CountExact HandlesHeld
PROPERTY DrainEnds
CHECK_DEADLOCK FALSE
