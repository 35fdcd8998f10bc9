\* Crashes at every point, lost replies, no disk fault; Pulse may come to
\* accept item 2.
SPECIFICATION Spec
CONSTANTS
  Shapes <- MCDeepShapes
  MaxItems = 5
  Bad = {2}
  CanHeal = TRUE
  Overhead = 1
  MaxBytes = 7
  MaxAge = 1
  KeyLife = 2
  MaxTime = 2
  MaxSplits = 1
  SplitHour = 1
  MaxQuarantine = 1
  FaultKinds = {}
  MaxFaults = 0
  MaxCrashes = 1
INVARIANTS
  TypeOK
  NothingVanishes
  QueueOrdered
  HealthyNotQuarantined
  StoredOnce
PROPERTIES
  BudgetRestored
  ImplementsLog
