\* A token of the process before is used after a restart.
SPECIFICATION Spec
CONSTANTS
  None = None
  Callers = {c1}
  Plans = {p1, p2}
  Ttl = 2
  MaxAnalyses = 2
  MaxRestarts = 1
SYMMETRY Symmetry
INVARIANTS
  RelativeToItsToken
