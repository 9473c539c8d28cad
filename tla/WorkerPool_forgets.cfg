SPECIFICATION Spec
CONSTANTS
  t1 = t1
  t2 = t2
  t3 = t3
  w1 = w1
  w2 = w2
  w3 = w3
  w4 = w4
  NoWorker = NoWorker
  Tasks = {t1, t2}
  Workers = {w1, w2, w3}
  MaxWorkers = 2
  MaxStarting = 1
  Events = {"die", "cancelCleanup"}
INVARIANT NoneForgotten
CHECK_DEADLOCK FALSE
