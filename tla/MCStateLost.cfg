\* A loss and a clean stop, nothing else.
SPECIFICATION Spec
CONSTANTS
  f = f
  s = s
  Fast <- MCFast
  Slow <- MCSlow
  Values = {0, 1}
  First = 0
  MaxParts = 2
  MaxChanges = 0
  Kinds = {"loss", "clean"}
  MaxIncidents = 2
INVARIANT
  LossClearsCache
