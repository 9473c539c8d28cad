SPECIFICATION Spec
CONSTANTS
  k1 = k1
  k2 = k2
  s1 = s1
  s2 = s2
  w1 = w1
  p1 = p1
  p2 = p2
  None = None
  Keys = {k1}
  Stubs = {s1}
  Warmers = {}
  Procs = {p1}
  MaxBackends = 1
  MaxRetries = 0
  MaxDrains = 0
  FastDeathLimit = 1
  Events = {"idle", "stop"}
INVARIANTS
  NoOrphans
