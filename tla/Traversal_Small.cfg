SPECIFICATION FairSpec
CONSTANTS
  a = a
  b = b
  c = c
  d = d
  z = z
  Ids = {a, b, c, d, z}
  Definitions <- AllGraphs
INVARIANTS
  CompletedIsClosed
  IInv
PROPERTIES
  WalkEnds
CHECK_DEADLOCK FALSE
