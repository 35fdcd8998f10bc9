\* The service and the single run with every answer of Pulse.
SPECIFICATION Spec
CONSTANTS
  InitialBackoff = 1
  ProbeBackoff = 2
  BackoffCap = 2
  MaxRetries = 1
  MaxParts = 2
  MaxHold = 3
  MaxHalves = 1
  MaxNotices = 1
INVARIANTS
  TypeOK
  NoLostWakeup
  SuccessIsComplete
PROPERTIES
  RetryAfterHonoured
  ClosedLast
  RecoveryDrains
  ShutdownEnds
\* A closed service and a finished single run do nothing more.
CHECK_DEADLOCK FALSE
