\* Two connections insert at the same time.
SPECIFICATION MCSpec
CONSTANTS
  Events = {e1, e2, e3}
  Connections = 2
  MaxId = 3
  Null = Null
  Nobody = Nobody
INVARIANTS
  NoFork
CHECK_DEADLOCK FALSE
