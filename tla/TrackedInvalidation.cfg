CONSTANTS
  Nil = Nil
  Malformed = Malformed
  Persistent = Persistent
  Margin = 1
  Keys = {k1, k2}
  Fills = {f1}
  Offsets = {0, 1}
  Skew = 1
  Lag = 1
  Work = 1
  Ttls = {1, 5}
  Buffers = {3}
  Floors = {1}
  MaxVersion = 1
  MaxTime = 7
SPECIFICATION Spec
INVARIANTS NoStaleHit NoStaleAcceptance
