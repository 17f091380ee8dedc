CONSTANTS
  Keys = {k1, k2}
  Callers = {c1, c2, c3}
  Objects = {o1, o2, o3, o4}
  MaxRequests = 1
  Window = 2
  RetryLimit = 0
  None = None
SPECIFICATION Spec
SYMMETRY Symmetric
INVARIANTS WindowBound
