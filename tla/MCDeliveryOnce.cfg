\* What once() does with the rejections it found.
SPECIFICATION Spec
CONSTANTS
  InitialBackoff = 1
  ProbeBackoff = 2
  BackoffCap = 2
  MaxRetries = 1
  MaxParts = 2
  MaxHold = 3
  MaxHalves = 1
  MaxNotices = 1
INVARIANT
  RejectionsReported
CHECK_DEADLOCK FALSE
