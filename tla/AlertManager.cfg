SPECIFICATION Spec
CONSTANTS
  a = a
  b = b
  c = c
  prefix1 = prefix1
  prefix2 = prefix2
  script1 = script1
  NoScript = NoScript
  Key <- MCKey
  Scope = {prefix1, prefix2}
  ScopeOf <- MCScopeOf
  Script = {script1}
  Configs <- ThreeKeys
  Rate = {0, 2}
  Gap = {1}
  MaxTicks = 5
  MaxFlows = 2
INVARIANTS
  TypeOK
  NoOrphan
  ActiveHoldsOwn
  AnalysedOnce
PROPERTIES
  AnalysedTogether
  KeepsContract
CHECK_DEADLOCK FALSE
