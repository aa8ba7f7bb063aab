SPECIFICATION Spec
CONSTANTS
  r1 = r1
  r2 = r2
  k = k
  NoKey = NoKey
  Requests = {r1, r2}
  Processes = {p1}
  KeyOf <- SameKey
  Plans <- ShortPlans
  Indexed = TRUE
  RecoverOnStart = TRUE
  CanExpire = TRUE
  MaxFaults = 1
  MaxCrashes = 2
PROPERTIES
  ImplementsLifecycle
CHECK_DEADLOCK FALSE
