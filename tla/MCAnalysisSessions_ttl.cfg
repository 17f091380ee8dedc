\* Overlapping analyses that expire; the server restarts once.
SPECIFICATION Spec
CONSTANTS
  None = None
  Callers = {c1, c2}
  Plans = {p1, p2}
  Ttl = 2
  MaxAnalyses = 3
  MaxRestarts = 1
SYMMETRY Symmetry
INVARIANTS
  TypeOK
  TokensAreNotReused
  KeptForItsTtl
PROPERTIES
  NothingStartsFromExpired
