SPECIFICATION Spec
CONSTANTS
  Bits = 4
  MaxRules = 3
  MaxFlows = 3
  Directions = {"inbound"}
  Categories = {"any", "tcp", "udp", "icmp", "gre", "esp", "tcp_syn", "dns", "https"}
  Traffic <- MCTraffic
  Inputs <- MCInputs
INVARIANTS
  ForcedIsTrivial
CHECK_DEADLOCK FALSE
