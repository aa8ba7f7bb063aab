\* Each part in a behaviour of its own, with two requests, calls, clients or
\* processes at once.  Some of them end: when the requests have been answered
\* and the workflows deleted, when the database is set up.
SPECIFICATION ApiSpec
CONSTANTS
    Parts = {"executors", "answers", "webhook", "edits", "catalog", "setup"}
    Requests = {r1, r2}
    Configs = {c}
    Settings = {s, t}
    Anonymous = {s}
    Operations = {"create", "update", "mark_configured", "mark_tested", "test", "activate", "disable", "enable", "delete"}
    Kinds = {"workflow", "provider", "executor"}
    Callers = {r1, r2}
    Ids = {i, j}
    Names = {m, n}
    MaxOutages = 1
    Workflows = {w1, w2}
    Open = {w2}
    Keys = {k1}
    NoKey = NoKey
    MaxVersion = 2
    MaxFaults = 1
    Offered = {m1, t1, t2}
    MidazOnes = {m1}
    Defaults <- SmallDefaults
    MaxChanges = 2
    MaxErrors = 1
SYMMETRY Symmetry
INVARIANTS
  UnmarkedIsVerified
  AnswersInv
  WebhookInv
  CatalogInv
  SetupInv
PROPERTIES
  ImplementsStatus
  SettingsFrozen
CHECK_DEADLOCK FALSE
