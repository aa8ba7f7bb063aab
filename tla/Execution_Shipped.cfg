SPECIFICATION FairSpec
CONSTANTS
  r1 = r1
  r2 = r2
  k = k
  NoKey = NoKey
  Requests = {r1, r2}
  Processes = {p1, p2}
  KeyOf <- SameKey
  Plans <- MixedPlans
  Indexed = TRUE
  RecoverOnStart = FALSE
  CanExpire = TRUE
  MaxFaults = 2
  MaxCrashes = 1
INVARIANTS
  SingleWriter
  ExecutionInv
  AuditAgrees
  SameKeySameExecution
PROPERTIES
  ImplementsLifecycle
  StepsAreALog
  AllEnd
CHECK_DEADLOCK FALSE
