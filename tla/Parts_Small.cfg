\* Each part in a behaviour of its own.  Pages: three documents with ties, two
\* changes during the walk; the client repeats its parameters on every page.
SPECIFICATION PartsFairSpec
CONSTANTS
    Items = {1, 2, 3}
    Values = {1, 2}
    Limit = 1
    First <- ByUpdate
    Following <- ByUpdate
    FromCursor = FALSE
    MaxChanges = 2
    Calls = {"c1", "c2"}
    Password = TRUE
    CacheOn = TRUE
    UseRefresh = TRUE
    Buffer = 1
    Timeout = 1
    DocTTL = 3
    Lifetimes = {1, 3}
    MaxTime = 4
    MaxTokens = 2
    TestConfigs <- SmallConfigs
    MaxCalls = 1
    MaxServerChanges = 2
    Writers <- TwoWriters
    WrittenNodes <- AllNodes
    AnyContexts <- AllDocuments
    Runs = {"e1", "e2", "e3"}
    SavedNodes <- SharedNodes
    Contexts <- TwoDocuments
    MaxClears = 1
    MaxInstances = 4
INVARIANTS
  WalkIsExact
  DataInv
  CallsInv
PROPERTIES
  PartsAct
  CallsEnd
CHECK_DEADLOCK FALSE
