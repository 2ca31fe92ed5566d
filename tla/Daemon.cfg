SPECIFICATION FairSpec
CONSTANTS
  netflow = netflow
  sflow = sflow
  Receiver <- MCReceiver
  Capacity = 1
  WindowAtStart = {TRUE, FALSE}
  MaxReceived = 3
  MaxEdits = 2
INVARIANTS
  TypeOK
  FlowsAccounted
  GaugeSettles
  AlertsNeverAhead
  RatesMatchRules
PROPERTIES
  FlowsSettle
  LastConfigWins
  TicksEvaluate
