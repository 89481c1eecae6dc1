CONSTANTS
  Nil = Nil
  Malformed = Malformed
  Persistent = Persistent
  Margin = 1
  Keys = {k1, k2, u1}
  Tracked = {k1, k2}
  Payloads = {p1}
  Ttls = {1, 3}
  Buffers = {0, 2}
  Floors = {2}
  MaxTime = 6
SPECIFICATION Spec
INVARIANTS TypeOK GuardOutlivesValues Fenced AcceptedOutsideFence
PROPERTY ImplementsFencedStore
