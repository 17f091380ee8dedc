CONSTANTS
  Keys = {k1}
  Callers = {c1, c2, c3}
  Objects = {o1, o2}
  MaxRequests = 2
  Window = 4
  RetryLimit = 1
  None = None
SPECIFICATION Spec
INVARIANTS TypeOK WindowBound NeverOversleeps
PROPERTY EveryCallerAdmitted
