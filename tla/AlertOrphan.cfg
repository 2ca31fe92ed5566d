SPECIFICATION Spec
CONSTANTS
  a = a
  b = b
  c = c
  prefix1 = prefix1
  prefix2 = prefix2
  script1 = script1
  NoScript = NoScript
  Key <- MCKey
  Scope = {prefix1, prefix2}
  ScopeOf <- MCScopeOf
  Script = {script1}
  Configs <- RepeatedKeys
  Rate = {0, 1, 2}
  Gap = {1}
  MaxTicks = 6
  MaxFlows = 0
INVARIANTS
  NoOrphan
CHECK_DEADLOCK FALSE
