\* Two faults of any kind and a crash; what Pulse refuses stays refused.
SPECIFICATION Spec
CONSTANTS
  Shapes <- MCShapes
  MaxItems = 3
  Bad = {2}
  CanHeal = FALSE
  Overhead = 1
  MaxBytes = 5
  MaxAge = 1
  KeyLife = 2
  MaxTime = 2
  MaxSplits = 1
  SplitHour = 1
  MaxQuarantine = 1
  FaultKinds = {"write", "sync", "remove", "send"}
  MaxFaults = 2
  MaxCrashes = 1
INVARIANTS
  NothingVanishes
  QueueOnDisk
  NamesUnique
  StoredOnce
  BytesExact
PROPERTIES
  OldestLostFirst
