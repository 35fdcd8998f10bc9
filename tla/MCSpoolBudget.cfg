\* No fault at all: a refused part is split.
SPECIFICATION Spec
CONSTANTS
  Shapes <- MCShapes
  MaxItems = 3
  Bad = {2}
  CanHeal = FALSE
  Overhead = 1
  MaxBytes = 5
  MaxAge = 1
  KeyLife = 2
  MaxTime = 2
  MaxSplits = 1
  SplitHour = 1
  MaxQuarantine = 1
  FaultKinds = {"write", "sync", "remove", "send"}
  MaxFaults = 0
  MaxCrashes = 0
INVARIANT
  QueueWithinBudget
