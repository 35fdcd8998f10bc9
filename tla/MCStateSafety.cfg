\* Losses, disk faults and ends of the process of every kind.
SPECIFICATION Spec
CONSTANTS
  f = f
  s = s
  Fast <- MCFast
  Slow <- MCSlow
  Values = {0, 1}
  First = 0
  MaxParts = 2
  MaxChanges = 2
  Kinds = {"loss", "fault", "clean", "crash"}
  MaxIncidents = 2
INVARIANTS
  TypeOK
  SuppressedIsCovered
