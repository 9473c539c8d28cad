SPECIFICATION FairSpec
CONSTANTS
  m1 = m1
  m2 = m2
  m3 = m3
  Members = {m1, m2, m3}
  ChunkSize = 2
  MaxRetries = 1
  MaxFlushes = 1
  MaxCrashes = 1
CHECK_DEADLOCK FALSE
INVARIANTS
  TypeOK
  DeliveredMeansRead
  OnePlace
PROPERTIES
  ResultsDelivered
  WavesClose
