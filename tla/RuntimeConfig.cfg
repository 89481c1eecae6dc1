CONSTANTS
  None = None
  Absent = Absent
  NotFinite = NotFinite
  Broken = Broken
  Calls = {c1, c2}
  Defaults <- MCDefaults
  Overlays <- MCOverlays
  Ttls <- MCTtls
  Ramps <- MCRamps
  Samples <- MCSamples
  MaxSafe = 2
  Full = 3
  MaxPublished = 2
SYMMETRY Alike
SPECIFICATION Spec
INVARIANTS OneSnapshot RolloutOnlyGrows KillSwitchStops InvalidFromProvider
CHECK_DEADLOCK FALSE
