SPECIFICATION Spec
CONSTANTS
  Timeout = 1
  Sizes = {"small", "large"}
  Window = 3
  Policies <- MCPolicies
  Attacks <- MCAttacks
  Start = 3
  MaxTime = 9
  MaxReloads = 2
INVARIANTS
  TypeOK
  DetectsInTime
  ScriptsInTurn
  PageConsistent
PROPERTIES
  FiresOnAttack
  RidesOutReload
CHECK_DEADLOCK FALSE
