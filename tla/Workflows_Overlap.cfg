SPECIFICATION MCSpec
CONSTANTS
  w1 = w1
  w2 = w2
  c1 = c1
  c2 = c2
  Free = Free
  PageSize = 2
  Workflows = {w1, w2}
  Calls = {c1, c2}
  Definitions = {"one", "two", "none"}
  Valid = {"one", "two"}
  Keys = {"hook", "other"}
  RouteKey <- MCRouteKey
  Routes <- MCRoutes
  MaxFaults = 1
  MaxCrashes = 1
INVARIANTS
  IInv
  RoutesAreDeclared
  SerialRegistry
PROPERTIES
  ImplementsStatus
  SerialDefinitions
CHECK_DEADLOCK FALSE
