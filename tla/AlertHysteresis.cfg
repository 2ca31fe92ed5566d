SPECIFICATION Spec
CONSTANTS
  Policies <- AnyPolicies
  Rate = {0, 1, 2, 3}
  Gap = {0, 1, 2}
  MaxNow = 9
INVARIANTS
  TypeOK
  FireOnlyAfterHold
  ResolveOnlyAfterQuiet
PROPERTIES
  UpdatesSpaced
  SustainedAttackFires
  SustainedQuietResolves
CHECK_DEADLOCK FALSE
