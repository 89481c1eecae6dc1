CONSTANTS
  Absent = Absent
  MetricsAdapters = {a1, a2}
  MetricPrefixes = {p1}
  Foreign = {"disabled", "error", "observeSize"}
  MaxSamples = 1
SPECIFICATION RegistrySpec
INVARIANTS AllOrNothing NothingLost
CHECK_DEADLOCK FALSE
