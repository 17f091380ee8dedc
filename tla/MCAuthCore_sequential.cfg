\* Two grants whose refreshes overlap with each other and with every other request,
\* but not with one of the same grant; failing writes, restarts and lost answers.
SPECIFICATION SequentialSpec
CONSTANTS
  None = None
  Clients = {web}
  StaticClients = {web}
  Scopes = {read, write}
  Flows = {f1, f2}
  Codes = {c1, c2}
  Grants = {g1, g2}
  Tokens = {t1, t2, t3}
  Requests = {r1, r2}
  ScopesOf <- AllScopes
  Second = 1
  StateTtl = 1
  AuthCodeTtl = 1
  AccessTokenTtl = 2
  RefreshTokenTtl = 3
  UpstreamTtls = {1}
  MaxTime = 0
  MaxFaults = 2
  MaxRotations = 3
SYMMETRY Symmetry
CHECK_DEADLOCK FALSE
INVARIANTS
  SuccessorRetires
  NeverLockedOut
  OneUpstreamTokenPerFault
PROPERTIES
  ScopesNeverWiden
