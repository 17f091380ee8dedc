\* With and without a configured plan; one plan or both lack what is read.
SPECIFICATION Spec
CONSTANTS
  None = None
  Plans = {p1, p2}
  Callers = {c1, c2}
  Promises = {1, 2, 3, 4}
  Configurable = {p1, None}
  Lackings = {{p1}, {p1, p2}}
  MaxChanges = 1
INVARIANTS
  TypeOK
  ReadsTheRightPlan
  SingleFlight
  FailuresAreNotCached
  ReadsAgree
PROPERTIES
  EveryCallEnds
