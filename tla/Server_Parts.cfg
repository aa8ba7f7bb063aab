\* The process under its orchestrator, and the inserts of the audit trail, each
\* in a behaviour of its own.
SPECIFICATION PartsSpec
CONSTANTS
  Grace = 12
  Period = 5
  Threshold = 2
  HealthThreshold = 3
  CheckTimeout = 2
  MaxStops = 1
  Events = {e1, e2, e3, e4}
  Connections = 2
  MaxId = 4
  Null = Null
  Nobody = Nobody
INVARIANTS
  TrafficInv
  ChainInv
  SerialFollowsIds
PROPERTIES
  RoutingFollows
  InsertsEnd
