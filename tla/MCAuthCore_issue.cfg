\* Two flows of two clients, overlapping, with failing writes and restarts.
\* The system may stop: identifiers, faults and time are bounded.
SPECIFICATION Spec
CONSTANTS
  None = None
  Clients = {web, cli}
  StaticClients = {web}
  Scopes = {read}
  Flows = {f1, f2}
  Codes = {c1, c2}
  Grants = {g1, g2}
  Tokens = {t1, t2}
  Requests = {r1, r2}
  ScopesOf <- AllScopes
  Second = 1
  StateTtl = 1
  AuthCodeTtl = 1
  AccessTokenTtl = 2
  RefreshTokenTtl = 2
  UpstreamTtls = {1}
  MaxTime = 1
  MaxFaults = 2
  MaxRotations = 1
SYMMETRY Symmetry
CHECK_DEADLOCK FALSE
INVARIANTS
  TypeOK
  SpentOnce
  Lineage
PROPERTIES
  FileIsLedger
