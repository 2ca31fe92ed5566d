SPECIFICATION Spec
CONSTANTS
  Policies <- OrderedPolicies
  Rate = {0, 1, 2, 3}
  Gap = {1}
  MaxNow = 7
PROPERTIES
  ReanalysisOnSchedule
CHECK_DEADLOCK FALSE
