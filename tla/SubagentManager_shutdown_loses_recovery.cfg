SPECIFICATION Spec
CONSTANTS
  a1 = a1
  a2 = a2
  a3 = a3
  Agents = {a1}
  Batched = {}
  MaxConcurrent = 1
  Gates = {"auto"}
  Events = {"stray", "shutdown"}
INVARIANT UnreportedRecoverable
CHECK_DEADLOCK FALSE
