\* One crash, no loss.
SPECIFICATION Spec
CONSTANTS
  f = f
  s = s
  Fast <- MCFast
  Slow <- MCSlow
  Values = {0, 1}
  First = 0
  MaxParts = 2
  MaxChanges = 2
  Kinds = {"crash"}
  MaxIncidents = 1
PROPERTY
  ChangesAreSent
