SPECIFICATION Spec
CONSTANTS
  Window = 3
  Lag = 4
  Volume <- MCVolume
  Start = 4
  MaxTime = 10
  MaxFlows = 5
INVARIANTS
  TypeOK
  WindowExact
  StaleClockBounded
CHECK_DEADLOCK FALSE
