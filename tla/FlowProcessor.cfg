SPECIFICATION Spec
CONSTANTS
  host = host
  neighbour = neighbour
  outside = outside
  edge = edge
  Addr <- MCAddr
  Traffic <- MCTraffic
  PolicyName = {"quick", "slow"}
  ExporterName = {"edge"}
  Configs <- MCConfigs
  Scopes <- NetScopes
  Start = 3
  MaxTime = 6
  MaxFlows = 3
INVARIANTS
  TypeOK
  RatesAreTraffic
  CaptureIsRecent
  EveryAlertIsRated
CHECK_DEADLOCK FALSE
