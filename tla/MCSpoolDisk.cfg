\* A disk fault while a part is written.
SPECIFICATION Spec
CONSTANTS
  Shapes <- MCShapes
  MaxItems = 3
  Bad = {}
  CanHeal = FALSE
  Overhead = 1
  MaxBytes = 5
  MaxAge = 1
  KeyLife = 2
  MaxTime = 2
  MaxSplits = 1
  SplitHour = 1
  MaxQuarantine = 1
  FaultKinds = {"write", "sync", "remove", "send"}
  MaxFaults = 1
  MaxCrashes = 0
INVARIANT
  DiskWithinBudget
