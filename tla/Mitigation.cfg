SPECIFICATION Spec
CONSTANTS
  Bits = 4
  MaxRules = 3
  MaxFlows = 5
  Directions = {"inbound", "outbound"}
  Categories = {"any", "tcp", "udp", "icmp", "gre", "esp", "tcp_syn", "dns", "https"}
  Traffic <- MCTraffic
  Inputs <- MCInputs
INVARIANTS
  TypeOK
  RulesStayInCategory
  SharpEnough
  NarrowestDominant
  EscapesBounded
  LeftAlone
CHECK_DEADLOCK FALSE
