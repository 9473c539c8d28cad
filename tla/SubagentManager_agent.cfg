SPECIFICATION FairSpec
CONSTANTS
  a1 = a1
  a2 = a2
  a3 = a3
  Agents = {a1}
  Batched = {}
  MaxConcurrent = 1
  Gates = {"reject", "auto", "approval", "hooksNone", "bareNone"}
  Events = {"fail", "tools", "stray", "stop", "stopAll", "reap", "failReport", "shutdown"}
INVARIANTS
  TypeOK
  DeliveredTrailsTeardown
  AbandonedReportRecoverable
PROPERTIES
  OutcomeSettled
  NoReplayAfterTools
  NoStartAfterStop
  StartedIsReported
  SlotComesBack
  StopIsReported
  ShutdownEnds
CHECK_DEADLOCK FALSE
