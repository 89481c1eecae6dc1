CONSTANTS
  Nil = Nil
  Malformed = Malformed
  Persistent = Persistent
  Margin = 1
  Keys = {k1}
  Fills = {f1}
  Offsets = {0}
  Skew = 0
  Lag = 0
  Work = 1
  Ttls = {3}
  Buffers = {1}
  Floors = {1}
  MaxVersion = 1
  MaxTime = 6
  Instances = {i1}
  Delivery = 1
  LocalTtl = 1
SPECIFICATION CachesSpec
INVARIANTS LocalStalenessBounded
