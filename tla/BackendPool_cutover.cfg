SPECIFICATION FairSpec
CONSTANTS
  k1 = k1
  k2 = k2
  s1 = s1
  s2 = s2
  w1 = w1
  p1 = p1
  p2 = p2
  None = None
  Keys = {k1}
  Stubs = {s1, s2}
  Warmers = {}
  Procs = {p1, p2}
  MaxBackends = 1
  MaxRetries = 1
  MaxDrains = 1
  FastDeathLimit = 1
  Events = {"beat", "die"}
INVARIANTS
  NoStalePooled
PROPERTIES
  AcquireEnds
  DrainingReaped
