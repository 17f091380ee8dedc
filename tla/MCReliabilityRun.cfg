SPECIFICATION Spec
CONSTANTS
  None = None
  Slots <- MCSlots
  MaxFaults = 1
  Runs <- MCRuns
  Calls = 1
  LocalServer <- MCLocalServer
  Request <- MCRequest
  Traffic <- MCTraffic
  PolicyCases <- MCPolicyCases
  Samples <- MCSamples
INVARIANTS
  TypeOK
  HeldByOne
  AdmissionIsOne
  SettingsFailClosed
  EveryProbeOnce
  ReportsAreSound
PROPERTIES
  RunEnds
  CloseEnds
CHECK_DEADLOCK FALSE
