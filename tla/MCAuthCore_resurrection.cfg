\* Shows an overlapped refresh reviving a retired token, when every refresh
\* waits for the provider.
SPECIFICATION Spec
CONSTANTS
  None = None
  Clients = {web}
  StaticClients = {web}
  Scopes = {read}
  Flows = {f1}
  Codes = {c1}
  Grants = {g1}
  Tokens = {t1, t2, t3, t4}
  Requests = {r1, r2}
  ScopesOf <- AllScopes
  Second = 1
  StateTtl = 1
  AuthCodeTtl = 1
  AccessTokenTtl = 1
  RefreshTokenTtl = 1
  UpstreamTtls = {}
  MaxTime = 0
  MaxFaults = 0
  MaxRotations = 3
SYMMETRY Symmetry
CHECK_DEADLOCK FALSE
INVARIANTS
  SuccessorRetires
