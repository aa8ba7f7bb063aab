SPECIFICATION FairSpec
CONSTANTS
  Calls = {"tracer-validate", "midaz-create-tx", "other"}
  Configs = {"tracer", "midaz"}
  ConfigOf <- TwoConfigs
  Breakers = {1, 2, 3}
  Threshold = 2
  MaxRequests = 1
  MaxRetries = 3
  Missing = Missing
  Decisions = {"ALLOW", "DENY"}
INVARIANTS
  BreakerInv
  TransactionInv
PROPERTIES
  BreakerAct
  AllEnd
CHECK_DEADLOCK FALSE
