SPECIFICATION Spec
CONSTANTS
  host = host
  neighbour = neighbour
  outside = outside
  edge = edge
  Addr <- MCAddr
  Traffic <- MCTraffic
  PolicyName = {"quick", "slow"}
  ExporterName = {"edge"}
  Configs <- MCConfigs
  Scopes <- NetScopes
  Start = 3
  MaxTime = 3
  MaxFlows = 3
INVARIANTS
  InboundByDestination
CHECK_DEADLOCK FALSE
