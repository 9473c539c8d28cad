SPECIFICATION Spec
CONSTANTS
  a1 = a1
  a2 = a2
  a3 = a3
  Agents = {a1, a2, a3}
  Batched = {a1}
  MaxConcurrent = 1
  Gates = {"reject", "auto", "hooksNone"}
  Events = {"stop"}
INVARIANTS
  NoLostWakeup
  AnnouncedOnce
CHECK_DEADLOCK FALSE
