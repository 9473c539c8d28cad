SPECIFICATION Spec
CONSTANTS
  k1 = k1
  k2 = k2
  k3 = k3
  Keys = {k1, k2, k3}
  FastDeathLimit = 2
  Window = 2
  Cooldown = 2
  MaxTrackedKeys = 1
  MaxTime = 6
  MaxDeaths = 4
INVARIANTS
  TripExact
PROPERTIES
  RefusesWhileCooling
  OverflowIsActive
  ImplementsBreaker
CHECK_DEADLOCK FALSE
