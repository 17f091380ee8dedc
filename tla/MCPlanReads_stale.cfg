\* The configured plan exists and does not change, but lacks what is read.
SPECIFICATION Spec
CONSTANTS
  None = None
  Plans = {p1, p2}
  Callers = {c1}
  Promises = {1, 2, 3, 4}
  Configurable = {p1}
  Lackings = {{p1}}
  MaxChanges = 0
INVARIANTS
  MovesOnlyFromStalePlans
