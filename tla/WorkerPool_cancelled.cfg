SPECIFICATION Spec
CONSTANTS
  t1 = t1
  t2 = t2
  t3 = t3
  w1 = w1
  w2 = w2
  w3 = w3
  w4 = w4
  NoWorker = NoWorker
  Tasks = {t1, t2, t3}
  Workers = {w1, w2, w3, w4}
  MaxWorkers = 2
  MaxStarting = 1
  Events = {"fail", "die", "cancel", "cancelCleanup", "shutdown"}
INVARIANTS
  TypeOK
  PermitsConserved
  CleanSlate
PROPERTY ImplementsLeases
SYMMETRY Symmetry
CHECK_DEADLOCK FALSE
