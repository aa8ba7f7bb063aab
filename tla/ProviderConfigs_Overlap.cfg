SPECIFICATION Spec
CONSTANTS
  Requests = {r1, r2}
  Providers = {"p", "q"}
  Configs = {"c"}
  Settings = {s, t}
  Workflows = {v, w}
  Definitions <- MCDefinitions
  Operations = {"create", "update", "disable", "enable", "delete", "create_workflow", "update_workflow", "clone", "activate", "deactivate", "move_to_draft", "execute"}
SYMMETRY Symmetry
INVARIANTS
  ProviderInv
  CallsAreCovered
PROPERTIES
  ActivationChecked
CHECK_DEADLOCK FALSE
