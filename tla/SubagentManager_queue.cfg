SPECIFICATION FairSpec
CONSTANTS
  a1 = a1
  a2 = a2
  a3 = a3
  Agents = {a1, a2}
  Batched = {}
  MaxConcurrent = 1
  Gates = {"auto", "approval", "reject"}
  Events = {"reap", "shutdown"}
PROPERTIES
  QueueIsServed
INVARIANTS
  SlotAccounting
  OccupancyBounded
CHECK_DEADLOCK FALSE
