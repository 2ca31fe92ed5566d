SPECIFICATION Spec
CONSTANTS
  Bits = 4
  MaxRules = 3
  MaxFlows = 3
  Directions = {"outbound"}
  Categories = {"any", "tcp", "udp", "icmp", "tcp_syn"}
  Traffic <- MCTraffic
  Inputs <- MCInputs
INVARIANTS
  EveryRuleHits
CHECK_DEADLOCK FALSE
