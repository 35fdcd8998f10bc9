\* Losses and crashes.
SPECIFICATION FairSpec
CONSTANTS
  f = f
  s = s
  Fast <- MCFast
  Slow <- MCSlow
  Values = {0, 1}
  First = 0
  MaxParts = 1
  MaxChanges = 1
  Kinds = {"loss", "crash"}
  MaxIncidents = 2
PROPERTY
  EventuallyCurrent
