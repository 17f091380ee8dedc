\* One grant, two refreshes overlapping at any time, up to three rotations. Two clock
\* units to a second, upstream tokens that expire before the local ones would.
SPECIFICATION Spec
CONSTANTS
  None = None
  Clients = {web}
  StaticClients = {web}
  Scopes = {read}
  Flows = {f1}
  Codes = {c1}
  Grants = {g1}
  Tokens = {t1, t2, t3, t4}
  Requests = {r1, r2}
  ScopesOf <- AllScopes
  Second = 2
  StateTtl = 1
  AuthCodeTtl = 1
  AccessTokenTtl = 2
  RefreshTokenTtl = 3
  UpstreamTtls = {1, 2}
  MaxTime = 3
  MaxFaults = 1
  MaxRotations = 2
SYMMETRY Symmetry
CHECK_DEADLOCK FALSE
INVARIANTS
  AtMostTwoActive
  DeliveredIsDurable
  LifetimeCapped
