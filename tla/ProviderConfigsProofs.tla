------------------------ MODULE ProviderConfigsProofs ------------------------
(***************************************************************************)
(* Theorems about module ProviderConfigs, for every set of requests,       *)
(* providers, configurations, settings, workflows and definitions.         *)
(***************************************************************************)
EXTENDS ProviderConfigs, TLAPS

-----------------------------------------------------------------------------
(* Data *)

LEMMA SomeTypes == SomeConfig \in ConfigDocs /\ SomeWorkflow \in WorkflowDocs
  BY ConstantsAssumption DEF SomeConfig, ConfigDocs, SomeWorkflow, WorkflowDocs

LEMMA IdleType == Idle \in Slots /\ Idle.pc = "idle"
  BY ConstantsAssumption, SomeTypes DEF Idle, Slots, AllOperations

LEMMA DefinitionType ==
  ASSUME NEW d \in Definitions
  PROVE  d \in Seq(Nodes) /\ DOMAIN d = 1..Len(d) /\ \A i \in DOMAIN d : d[i] \in Nodes
  BY ConstantsAssumption

\* A change of the collection that keeps ids and providers.
KeepsConfigs ==
  /\ config' \in [Configs -> ConfigDocs]
  /\ \A c \in Configs : config[c].status # "absent" =>
       config'[c].status # "absent" /\ config'[c].provider = config[c].provider

LEMMA MatchStays ==
  ASSUME KeepsConfigs, NEW node \in Nodes, NodeMatches(node)
  PROVE  NodeMatches(node)'
  BY DEF KeepsConfigs, NodeMatches, Nodes

\* What a slot keeps when the collection changes under it.
LEMMA SlotStays ==
  ASSUME TypeOK, KeepsConfigs, NEW s \in Slots, SlotOK(s),
         NEW t \in Slots,
         t = [s EXCEPT !.seen = @ \cup ActiveSettings(config')]
  PROVE  SlotOK(t)'
  <1> USE DEF SlotOK
  <1>1. /\ t.pc = s.pc /\ t.op = s.op /\ t.config = s.config /\ t.workflow = s.workflow
        /\ t.expected = s.expected /\ t.configDoc = s.configDoc
        /\ t.workflowDoc = s.workflowDoc /\ t.pos = s.pos /\ t.sent = s.sent
        /\ t.seen = s.seen \cup ActiveSettings(config')
    BY DEF Slots
  <1>2. s.workflowDoc.nodes \in Definitions
    BY DEF Slots, WorkflowDocs
  <1>3. Fresh(t)'
    BY <1>1 DEF Fresh, ActiveSettings
  <1>4. KeepsProvider(t)'
    <2>1. s.config \in Configs
      BY DEF Slots
    <2>2. QED
      BY <1>1, <2>1 DEF KeepsProvider, KeepsConfigs
  <1>5. Matched(t)'
    <2>1. SUFFICES ASSUME NEW i \in DOMAIN s.workflowDoc.nodes,
                          \/ s.pc \in {"save_workflow", "node", "call"}
                          \/ s.pc = "check" /\ (i < s.pos \/ s.op = "activate")
                   PROVE  NodeMatches(s.workflowDoc.nodes[i])'
      BY <1>1 DEF Matched
    <2>2. NodeMatches(s.workflowDoc.nodes[i])
      BY <2>1 DEF Matched
    <2>3. s.workflowDoc.nodes[i] \in Nodes
      BY <1>2, DefinitionType
    <2>4. QED
      BY <2>2, <2>3, MatchStays
  <1>6. Checked(t)'
    BY <1>1 DEF Checked, WasActive
  <1>7. Covered(t)'
    BY <1>1 DEF Covered
  <1>8. QED
    BY <1>3, <1>4, <1>5, <1>6, <1>7

-----------------------------------------------------------------------------
(* The inductive invariant *)

\* A step that moves one slot and leaves the configurations alone.
LEMMA SlotStep ==
  ASSUME IInv, NEW r \in Requests, NEW w \in Slots,
         request' = [request EXCEPT ![r] = w],
         UNCHANGED config,
         workflow' \in [Workflows -> WorkflowDocs], ProviderMatches',
         w.pc # "idle" => SlotOK(w)
  PROVE  IInv'
  <1>1. TypeOK'
    BY DEF IInv, TypeOK
  <1>2. request'[r] = w /\ \A q \in Requests : q # r => request'[q] = request[q]
    BY DEF IInv, TypeOK
  <1>3. ASSUME NEW q \in Requests, request'[q].pc # "idle"
        PROVE  SlotOK(request[q])'
    <2>1. PICK s : s = request'[q]
      OBVIOUS
    <2>2. SlotOK(s)
      BY <1>2, <1>3, <2>1, SMTT(30) DEF IInv
    <2>3. SlotOK(s)'
      BY <2>2 DEF SlotOK, Fresh, ActiveSettings, KeepsProvider, Matched, NodeMatches,
                  Checked, Covered, WasActive
    <2>4. QED
      BY <2>1, <2>3
  <1>4. QED
    BY <1>1, <1>3 DEF IInv

\* A step that frees a slot and changes the configurations.
LEMMA ConfigStep ==
  ASSUME IInv, NEW r \in Requests, KeepsConfigs, UNCHANGED workflow,
         Becomes(r, Idle, config')
  PROVE  IInv'
  <1>1. \A q \in Requests : request[q] \in Slots
    BY DEF IInv, TypeOK
  <1>2. ActiveSettings(config') \in SUBSET (Configs \X Settings)
    BY DEF ActiveSettings
  <1>3. ASSUME NEW q \in Requests
        PROVE  /\ request'[q] \in Slots
               /\ request'[q].pc # "idle" => SlotOK(request[q])'
    <2>1. CASE q = r
      BY <2>1, IdleType DEF Becomes
    <2>2. CASE q # r /\ request[q].pc = "idle"
      BY <1>1, <2>2 DEF Becomes
    <2>3. CASE q # r /\ request[q].pc # "idle"
      <3>1. PICK s \in Slots : s = request[q]
        BY <1>1
      <3>2. PICK t : t = [s EXCEPT !.seen = @ \cup ActiveSettings(config')]
        OBVIOUS
      <3>3. t \in Slots
        BY <1>2, <3>2 DEF Slots
      <3>4. request'[q] = t
        BY <2>3, <3>1, <3>2 DEF Becomes
      <3>5. SlotOK(s)
        BY <2>3, <3>1 DEF IInv
      <3>6. SlotOK(t)'
        BY <3>2, <3>3, <3>5, SlotStays DEF IInv
      <3>7. QED
        BY <3>3, <3>4, <3>6
    <2>4. QED
      BY <2>1, <2>2, <2>3
  <1>4. TypeOK'
    BY <1>3 DEF IInv, TypeOK, KeepsConfigs, Becomes
  <1>5. ProviderMatches'
    <2>1. SUFFICES ASSUME NEW w \in Workflows, workflow[w].status # "absent",
                          NEW i \in DOMAIN workflow[w].nodes
                   PROVE  NodeMatches(workflow[w].nodes[i])'
      BY DEF ProviderMatches, NodesMatch
    <2>2. NodeMatches(workflow[w].nodes[i])
      BY <2>1 DEF IInv, ProviderMatches, NodesMatch
    <2>3. workflow[w].nodes[i] \in Nodes
      BY <2>1, DefinitionType DEF IInv, TypeOK, WorkflowDocs
    <2>4. QED
      BY <2>2, <2>3, MatchStays
  <1>6. QED
    BY <1>3, <1>4, <1>5 DEF IInv

\* A step that changes neither collection leaves the workflows matched.
LEMMA MatchesStay ==
  ASSUME IInv, UNCHANGED <<config, workflow>>
  PROVE  workflow' \in [Workflows -> WorkflowDocs] /\ ProviderMatches'
  BY DEF IInv, TypeOK, ProviderMatches, NodesMatch, NodeMatches

LEMMA AskInv == ASSUME IInv, NEW r \in Requests, Ask(r) PROVE IInv'
  <1>1. PICK op \in Operations, c \in Configs, w \in Workflows, s \in Settings,
             d \in Definitions :
          /\ op \in {"update", "disable", "enable", "delete"} \/ c = Idle.config
          /\ op \in OnWorkflows \/ w = Idle.workflow
          /\ op \in {"create", "update"} \/ s = Idle.settings
          /\ op \in {"create_workflow", "update_workflow"} \/ d = SomeWorkflow.nodes
          /\ request' = [request EXCEPT ![r] =
               [Idle EXCEPT !.pc = "asked", !.op = op, !.config = c, !.workflow = w,
                            !.settings = s, !.workflowDoc.nodes = d,
                            !.seen = ActiveSettings(config)]]
    BY Zenon DEF Ask
  <1>2. PICK u : u = [Idle EXCEPT !.pc = "asked", !.op = op, !.config = c, !.workflow = w,
                         !.settings = s, !.workflowDoc.nodes = d,
                         !.seen = ActiveSettings(config)]
    OBVIOUS
  <1>3. ActiveSettings(config) \in SUBSET (Configs \X Settings)
    BY DEF ActiveSettings
  <1>8. op \in AllOperations /\ Idle.pos = 1
    BY ConstantsAssumption DEF Idle
  <1>4. /\ u \in Slots /\ u.pc = "asked" /\ u.pos = 1
        /\ u.seen = ActiveSettings(config)
    BY <1>2, <1>3, <1>8, IdleType DEF Slots, WorkflowDocs
  <1>5. SlotOK(u)
    BY <1>4 DEF SlotOK, Fresh, KeepsProvider, Matched, Checked, Covered
  <1>6. request' = [request EXCEPT ![r] = u] /\ UNCHANGED <<config, workflow>>
    BY <1>1, <1>2 DEF Ask
  <1>7. QED
    BY <1>4, <1>5, <1>6, SlotStep, MatchesStay

LEMMA FailInv == ASSUME IInv, NEW r \in Requests, Fail(r) \/ Complete(r) PROVE IInv'
  BY IdleType, SlotStep, MatchesStay DEF Fail, Complete, Free

LEMMA CreateInv == ASSUME IInv, NEW r \in Requests, Create(r) PROVE IInv'
  <1>1. PICK c \in Configs, p \in Providers :
          /\ config[c].status = "absent"
          /\ config' = [config EXCEPT ![c] = [status |-> "active", provider |-> p,
                                              settings |-> request[r].settings]]
    BY DEF Create
  <1>2. request[r].settings \in Settings
    BY DEF IInv, TypeOK, Slots
  <1>3. KeepsConfigs
    <2>1. PICK d : d = [status |-> "active", provider |-> p, settings |-> request[r].settings]
      OBVIOUS
    <2>2. d \in ConfigDocs
      BY <1>2, <2>1 DEF ConfigDocs
    <2>3. config' = [config EXCEPT ![c] = d]
      BY <1>1, <2>1
    <2>4. QED
      BY <1>1, <2>2, <2>3 DEF KeepsConfigs, IInv, TypeOK
  <1>4. QED
    BY <1>3, ConfigStep DEF Create

LEMMA SaveConfigInv == ASSUME IInv, NEW r \in Requests, SaveConfig(r) PROVE IInv'
  <1>1. PICK s \in Slots : s = request[r]
    BY DEF IInv, TypeOK
  <1>2. KeepsProvider(s) /\ s.pc = "save_config"
    BY <1>1 DEF SaveConfig, IInv, SlotOK
  <1>3. config' = [config EXCEPT ![s.config] = s.configDoc]
    BY <1>1 DEF SaveConfig
  <1>4. s.config \in Configs /\ s.configDoc \in ConfigDocs
    BY DEF Slots
  <1>5. KeepsConfigs
    BY <1>2, <1>3, <1>4 DEF KeepsConfigs, KeepsProvider, IInv, TypeOK
  <1>6. QED
    BY <1>5, ConfigStep DEF SaveConfig

\* The copy of a configuration: its provider is the one that was read.
LEMMA CopyType ==
  ASSUME NEW d \in ConfigDocs, d.status \in {"active", "disabled"},
         NEW settings \in Settings, NEW new \in ConfigDocs,
         \/ Update(d, settings, new) \/ Disable(d, new) \/ Enable(d, new) \/ Delete(d, new)
  PROVE  new.provider = d.provider /\ new.status # "absent"
  BY DEF Update, Disable, Enable, Delete, ConfigDocs

LEMMA LoadConfigInv == ASSUME IInv, NEW r \in Requests, LoadConfig(r) PROVE IInv'
  <1>1. PICK s \in Slots : s = request[r]
    BY DEF IInv, TypeOK
  <1>2. PICK d \in ConfigDocs : d = config[s.config]
    BY <1>1 DEF IInv, TypeOK, Slots
  <1>3. PICK new \in ConfigDocs :
          /\ \/ s.op = "update" /\ Update(d, s.settings, new)
             \/ s.op = "disable" /\ Disable(d, new)
             \/ s.op = "enable" /\ Enable(d, new)
             \/ s.op = "delete" /\ Delete(d, new)
          /\ request' = [request EXCEPT ![r].pc = "save_config",
                                        ![r].expected = d.status, ![r].configDoc = new]
    BY <1>1, <1>2 DEF LoadConfig
  <1>4. d.status \in {"active", "disabled"} /\ s.settings \in Settings
    BY <1>1, <1>2 DEF LoadConfig, Stored, Slots
  <1>5. PICK u : u = [s EXCEPT !.pc = "save_config", !.expected = d.status,
                               !.configDoc = new]
    OBVIOUS
  <1>6. /\ u \in Slots /\ u.pc = "save_config" /\ u.op = s.op /\ u.config = s.config
        /\ u.configDoc = new /\ u.seen = s.seen
    BY <1>4, <1>5 DEF Slots
  <1>7. new.provider = d.provider /\ new.status # "absent"
    BY <1>3, <1>4, CopyType
  <1>8. Fresh(s)
    BY <1>1 DEF LoadConfig, IInv, SlotOK
  <1>9. SlotOK(u)
    BY <1>2, <1>3, <1>4, <1>6, <1>7, <1>8
    DEF SlotOK, Fresh, KeepsProvider, Matched, Checked, Covered
  <1>10. request' = [request EXCEPT ![r] = u] /\ UNCHANGED <<config, workflow>>
    BY <1>1, <1>3, <1>5 DEF LoadConfig
  <1>11. QED
    BY <1>6, <1>9, <1>10, SlotStep, MatchesStay

LEMMA BeginCreateInv == ASSUME IInv, NEW r \in Requests, BeginCreateWorkflow(r) PROVE IInv'
  <1>1. PICK s \in Slots : s = request[r]
    BY DEF IInv, TypeOK
  <1>2. PICK u : u = [s EXCEPT !.pc = "check", !.workflowDoc.status = "draft"]
    OBVIOUS
  <1>3. /\ u \in Slots /\ u.pc = "check" /\ u.op = s.op /\ u.seen = s.seen
        /\ u.workflowDoc.status = "draft"
    BY <1>2 DEF Slots, WorkflowDocs
  <1>4. Fresh(s) /\ s.op = "create_workflow" /\ u.pos = 1
    BY <1>1, <1>2 DEF BeginCreateWorkflow, IInv, SlotOK, Slots, Checked
  <1>8. \A i \in DOMAIN u.workflowDoc.nodes : i \in Nat \ {0} /\ ~(i < 1)
    BY <1>3, DefinitionType DEF Slots, WorkflowDocs
  <1>5. SlotOK(u)
    BY <1>3, <1>4, <1>8 DEF SlotOK, IsChecked, Fresh, KeepsProvider, Matched, Checked, Covered
  <1>6. request' = [request EXCEPT ![r] = u] /\ UNCHANGED <<config, workflow>>
    BY <1>1, <1>2 DEF BeginCreateWorkflow
  <1>7. QED
    BY <1>3, <1>5, <1>6, SlotStep, MatchesStay

LEMMA LoadWorkflowInv == ASSUME IInv, NEW r \in Requests, LoadWorkflow(r) PROVE IInv'
  <1>1. PICK s \in Slots : s = request[r]
    BY DEF IInv, TypeOK
  <1>2. PICK d \in WorkflowDocs : d = workflow[s.workflow]
    BY <1>1 DEF IInv, TypeOK, Slots
  <1>3. PICK t \in Transitions :
          /\ t[1] = s.op /\ t[2] = d.status
          /\ request' = [request EXCEPT
               ![r].pc = IF IsChecked(s.op) THEN "check" ELSE "save_workflow",
               ![r].expected = d.status,
               ![r].workflowDoc =
                  [status |-> t[3],
                   nodes |-> IF s.op = "update_workflow" THEN @.nodes ELSE d.nodes]]
    BY <1>1, <1>2 DEF LoadWorkflow
  <1>4. PICK nodes \in Definitions :
          nodes = IF s.op = "update_workflow" THEN s.workflowDoc.nodes ELSE d.nodes
    BY DEF Slots, WorkflowDocs
  <1>5. PICK u : u = [s EXCEPT !.pc = IF IsChecked(s.op) THEN "check" ELSE "save_workflow",
                               !.expected = d.status,
                               !.workflowDoc = [status |-> t[3], nodes |-> nodes]]
    OBVIOUS
  <1>6. /\ t[3] \in {"draft", "active", "inactive"}
        /\ d.status \in {"draft", "active", "inactive"}
        /\ s.op \in {"update_workflow", "activate", "deactivate", "move_to_draft", "clone"}
    BY <1>3 DEF Transitions
  <1>7. /\ u \in Slots /\ u.op = s.op /\ u.seen = s.seen /\ u.pos = s.pos
        /\ u.pc = IF IsChecked(s.op) THEN "check" ELSE "save_workflow"
        /\ u.expected = d.status
        /\ u.workflowDoc.status = t[3] /\ u.workflowDoc.nodes = nodes
    BY <1>5, <1>6, ZenonT(60) DEF Slots, WorkflowDocs
  <1>8. Fresh(s) /\ s.pos = 1
    BY <1>1 DEF LoadWorkflow, IInv, SlotOK, Checked
  <1>9. s.op # "update_workflow" => NodesMatch(nodes)
    BY <1>1, <1>2, <1>4, <1>6 DEF IInv, ProviderMatches, Slots
  <1>10. \A i \in DOMAIN nodes : i \in Nat \ {0} /\ ~(i < 1)
    BY DefinitionType
  <1>11. Matched(u)
    BY <1>6, <1>7, <1>8, <1>9, <1>10 DEF Matched, NodesMatch, IsChecked
  <1>12. Checked(u)
    BY <1>3, <1>6, <1>7, <1>8, <1>10 DEF Checked, IsChecked, Transitions
  <1>13. SlotOK(u)
    BY <1>7, <1>8, <1>11, <1>12 DEF SlotOK, Fresh, KeepsProvider, Covered, IsChecked
  <1>14. request' = [request EXCEPT ![r] = u] /\ UNCHANGED <<config, workflow>>
    BY <1>1, <1>3, <1>4, <1>5, ZenonT(60) DEF LoadWorkflow
  <1>15. QED
    BY <1>7, <1>13, <1>14, SlotStep, MatchesStay

LEMMA CheckNodeInv == ASSUME IInv, NEW r \in Requests, CheckNode(r) PROVE IInv'
  <1>1. PICK s \in Slots : s = request[r]
    BY DEF IInv, TypeOK
  <1>2. PICK u : u = [s EXCEPT !.pos = s.pos + 1]
    OBVIOUS
  <1>3. s.pos \in Nat \ {0} /\ s.workflowDoc.nodes \in Definitions
    BY DEF Slots, WorkflowDocs
  <1>4. /\ u \in Slots /\ u.pc = s.pc /\ u.op = s.op /\ u.seen = s.seen
        /\ u.workflowDoc = s.workflowDoc /\ u.pos = s.pos + 1
    BY <1>2, <1>3 DEF Slots
  <1>5. SlotOK(s) /\ s.pc = "check" /\ s.pos \in DOMAIN s.workflowDoc.nodes
        /\ Passes(s.op, s.workflowDoc.nodes[s.pos])
    BY <1>1 DEF CheckNode, IInv
  <1>6. \A i \in DOMAIN s.workflowDoc.nodes : i \in Nat
    BY <1>3, DefinitionType
  <1>7. s.workflowDoc.nodes[s.pos].config \in Configs
    BY <1>3, <1>5, DefinitionType DEF Nodes
  <1>8. config[s.workflowDoc.nodes[s.pos].config].settings \in Settings
    BY <1>7 DEF IInv, TypeOK, ConfigDocs
  <1>9. WasActive(s, s.workflowDoc.nodes[s.pos].config)
    BY <1>5, <1>7, <1>8 DEF SlotOK, Fresh, ActiveSettings, Passes, Active, WasActive
  <1>10. Matched(u)
    BY <1>3, <1>4, <1>5, <1>6 DEF SlotOK, Matched, Passes, Active, NodeMatches
  <1>11. Checked(u)
    BY <1>3, <1>4, <1>5, <1>6, <1>9 DEF SlotOK, Checked, WasActive
  <1>12. SlotOK(u)
    BY <1>4, <1>5, <1>10, <1>11 DEF SlotOK, Fresh, KeepsProvider, Covered
  <1>13. request' = [request EXCEPT ![r] = u] /\ UNCHANGED <<config, workflow>>
    BY <1>1, <1>2 DEF CheckNode
  <1>14. QED
    BY <1>4, <1>12, <1>13, SlotStep, MatchesStay

\* A slot that goes on with the nodes it has.
LEMMA PcType ==
  ASSUME NEW s \in Slots, NEW pc \in {"save_workflow", "node", "call"},
         NEW u, u = [s EXCEPT !.pc = pc]
  PROVE  /\ u \in Slots /\ u.pc = pc /\ u.op = s.op /\ u.seen = s.seen /\ u.pos = s.pos
         /\ u.workflowDoc = s.workflowDoc /\ u.expected = s.expected
  BY DEF Slots

LEMMA EndCheckInv == ASSUME IInv, NEW r \in Requests, EndCheck(r) PROVE IInv'
  <1>1. PICK s \in Slots : s = request[r]
    BY DEF IInv, TypeOK
  <1>2. PICK u : u = [s EXCEPT !.pc = "save_workflow"]
    OBVIOUS
  <1>3. /\ u \in Slots /\ u.pc = "save_workflow" /\ u.op = s.op /\ u.seen = s.seen
        /\ u.workflowDoc = s.workflowDoc /\ u.expected = s.expected
    BY <1>2, PcType
  <1>4. SlotOK(s) /\ s.pc = "check" /\ s.pos \notin DOMAIN s.workflowDoc.nodes
    BY <1>1 DEF EndCheck, IInv
  <1>5. \A i \in DOMAIN s.workflowDoc.nodes : i < s.pos
    <2>1. /\ s.pos \in Nat \ {0}
          /\ DOMAIN s.workflowDoc.nodes = 1..Len(s.workflowDoc.nodes)
          /\ Len(s.workflowDoc.nodes) \in Nat
      BY DefinitionType DEF Slots, WorkflowDocs
    <2>2. QED
      BY <1>4, <2>1
  <1>6. SlotOK(u)
    BY <1>3, <1>4, <1>5
    DEF SlotOK, Fresh, KeepsProvider, Matched, Checked, Covered, WasActive
  <1>7. request' = [request EXCEPT ![r] = u] /\ UNCHANGED <<config, workflow>>
    BY <1>1, <1>2 DEF EndCheck
  <1>8. QED
    BY <1>3, <1>6, <1>7, SlotStep, MatchesStay

LEMMA SaveWorkflowInv == ASSUME IInv, NEW r \in Requests, SaveWorkflow(r) PROVE IInv'
  <1>1. PICK s \in Slots : s = request[r]
    BY DEF IInv, TypeOK
  <1>2. s.pc = "save_workflow" /\ SlotOK(s) /\ s.workflowDoc \in WorkflowDocs
    BY <1>1 DEF SaveWorkflow, IInv, Slots
  <1>3. PICK w \in Workflows : workflow' = [workflow EXCEPT ![w] = s.workflowDoc]
    BY <1>1 DEF SaveWorkflow, WrittenWorkflow, Slots
  <1>4. NodesMatch(s.workflowDoc.nodes)
    BY <1>2 DEF SlotOK, Matched, NodesMatch
  <1>5. UNCHANGED config /\ Free(r)
    BY DEF SaveWorkflow
  <1>6. workflow' \in [Workflows -> WorkflowDocs]
    BY <1>2, <1>3 DEF IInv, TypeOK
  <1>7. ProviderMatches'
    <2>1. SUFFICES ASSUME NEW v \in Workflows, workflow'[v].status # "absent"
                   PROVE  NodesMatch(workflow[v].nodes)'
      BY DEF ProviderMatches
    <2>2. NodesMatch(workflow'[v].nodes)
      BY <1>3, <1>4, <2>1 DEF IInv, TypeOK, ProviderMatches
    <2>3. QED
      BY <1>5, <2>2 DEF NodesMatch, NodeMatches
  <1>8. QED
    BY <1>5, <1>6, <1>7, IdleType, SlotStep DEF Free

LEMMA ExecuteInv == ASSUME IInv, NEW r \in Requests, Execute(r) PROVE IInv'
  <1>1. PICK s \in Slots : s = request[r]
    BY DEF IInv, TypeOK
  <1>2. PICK d \in WorkflowDocs : d = workflow[s.workflow]
    BY <1>1 DEF IInv, TypeOK, Slots
  <1>3. PICK u : u = [s EXCEPT !.pc = "node", !.workflowDoc = d]
    OBVIOUS
  <1>4. /\ u \in Slots /\ u.pc = "node" /\ u.op = s.op /\ u.seen = s.seen
        /\ u.workflowDoc = d
    BY <1>3 DEF Slots
  <1>5. /\ SlotOK(s) /\ s.op = "execute" /\ d.status = "active"
        /\ request' = [request EXCEPT ![r] = u] /\ UNCHANGED <<config, workflow>>
    BY <1>1, <1>2, <1>3 DEF Execute, IInv
  <1>6. NodesMatch(d.nodes)
    BY <1>2, <1>5 DEF IInv, ProviderMatches, Slots
  <1>7. SlotOK(u)
    BY <1>4, <1>5, <1>6
    DEF SlotOK, Fresh, KeepsProvider, Matched, NodesMatch, Checked, Covered
  <1>8. QED
    BY <1>4, <1>5, <1>7, SlotStep, MatchesStay

LEMMA LoadNodeConfigInv == ASSUME IInv, NEW r \in Requests, LoadNodeConfig(r) PROVE IInv'
  <1>1. PICK s \in Slots : s = request[r]
    BY DEF IInv, TypeOK
  <1>2. PICK node \in Nodes : node = s.workflowDoc.nodes[s.pos]
    BY <1>1, DefinitionType DEF LoadNodeConfig, Slots, WorkflowDocs
  <1>3. PICK settings \in Settings :
          /\ CanUse(node.config, settings)
          /\ request' = [request EXCEPT ![r].pc = "call", ![r].sent = settings]
    BY <1>1, <1>2 DEF LoadNodeConfig
  <1>4. PICK u : u = [s EXCEPT !.pc = "call", !.sent = settings]
    OBVIOUS
  <1>5. /\ u \in Slots /\ u.pc = "call" /\ u.op = s.op /\ u.seen = s.seen /\ u.pos = s.pos
        /\ u.workflowDoc = s.workflowDoc /\ u.sent = settings
    BY <1>4 DEF Slots
  <1>6. SlotOK(s) /\ s.pc = "node" /\ s.pos \in DOMAIN s.workflowDoc.nodes
    BY <1>1 DEF LoadNodeConfig, IInv
  <1>7. <<node.config, settings>> \in s.seen
    BY <1>3, <1>6 DEF CanUse, Active, SlotOK, Fresh, ActiveSettings, Nodes
  <1>8. SlotOK(u)
    BY <1>2, <1>5, <1>6, <1>7 DEF SlotOK, Fresh, KeepsProvider, Matched, Checked, Covered
  <1>9. request' = [request EXCEPT ![r] = u] /\ UNCHANGED <<config, workflow>>
    BY <1>1, <1>3, <1>4 DEF LoadNodeConfig
  <1>10. QED
    BY <1>5, <1>8, <1>9, SlotStep, MatchesStay

LEMMA CalledInv == ASSUME IInv, NEW r \in Requests, Called(r) PROVE IInv'
  <1>1. PICK s \in Slots : s = request[r]
    BY DEF IInv, TypeOK
  <1>2. PICK u : u = [s EXCEPT !.pc = "node", !.pos = s.pos + 1,
                               !.seen = ActiveSettings(config)]
    OBVIOUS
  <1>3. s.pos + 1 \in Nat \ {0} /\ ActiveSettings(config) \in SUBSET (Configs \X Settings)
    BY DEF Slots, ActiveSettings
  <1>4. /\ u \in Slots /\ u.pc = "node" /\ u.op = s.op /\ u.seen = ActiveSettings(config)
        /\ u.workflowDoc = s.workflowDoc
    BY <1>2, <1>3 DEF Slots
  <1>5. SlotOK(s) /\ s.pc = "call"
    BY <1>1 DEF Called, IInv
  <1>6. SlotOK(u)
    BY <1>4, <1>5 DEF SlotOK, Fresh, KeepsProvider, Matched, Checked, Covered
  <1>7. request' = [request EXCEPT ![r] = u] /\ UNCHANGED <<config, workflow>>
    BY <1>1, <1>2 DEF Called
  <1>8. QED
    BY <1>4, <1>6, <1>7, SlotStep, MatchesStay

LEMMA InitInv == ASSUME Init PROVE IInv
  BY SomeTypes, IdleType DEF Init, IInv, TypeOK, ProviderMatches, SomeWorkflow

LEMMA NextInv == ASSUME IInv, [Next]_vars PROVE IInv'
  <1>1. CASE UNCHANGED vars
    <2>1. UNCHANGED <<config, workflow, request>>
      BY <1>1 DEF vars
    <2>2. TypeOK' /\ ProviderMatches'
      BY <2>1 DEF IInv, TypeOK, ProviderMatches, NodesMatch, NodeMatches
    <2>3. ASSUME NEW r \in Requests, request'[r].pc # "idle" PROVE SlotOK(request[r])'
      <3>1. config' = config /\ request'[r] = request[r]
        BY <2>1, Zenon
      <3>2. SlotOK(request[r])
        BY <2>3, <3>1, Zenon DEF IInv
      <3>3. Fresh(request[r])'
        BY <3>1, <3>2, Zenon DEF SlotOK, Fresh, ActiveSettings
      <3>4. KeepsProvider(request[r])'
        BY <3>1, <3>2, Zenon DEF SlotOK, KeepsProvider
      <3>5. Matched(request[r])'
        BY <3>1, <3>2, Zenon DEF SlotOK, Matched, NodeMatches
      <3>6. Checked(request[r])'
        BY <3>1, <3>2, Zenon DEF SlotOK, Checked, WasActive
      <3>7. Covered(request[r])'
        BY <3>1, <3>2, Zenon DEF SlotOK, Covered
      <3>8. QED
        BY <3>3, <3>4, <3>5, <3>6, <3>7, Zenon DEF SlotOK
    <2>4. QED
      BY <2>2, <2>3 DEF IInv
  <1>2. QED
    BY <1>1, AskInv, FailInv, CreateInv, LoadConfigInv, SaveConfigInv, BeginCreateInv,
       LoadWorkflowInv, CheckNodeInv, EndCheckInv, SaveWorkflowInv, ExecuteInv,
       LoadNodeConfigInv, CalledInv DEF Next

\* The inductive invariant holds of every run of the service.
THEOREM Invariance == Spec => []IInv
  BY InitInv, NextInv, PTL DEF Spec

-----------------------------------------------------------------------------
(* What follows from it *)

\* Every executor node of a stored workflow, and every call, names a
\* configuration of its executor's own provider, although only creation and
\* update compare them (create_workflow.go:170-189).
THEOREM NodesNameTheirProvider == Spec => []ProviderInv
  <1>1. IInv => ProviderMatches
    BY DEF IInv
  <1>2. IInv => CallsMatch
    BY DEF IInv, CallsMatch, SlotOK, Matched, Covered
  <1>3. QED
    BY <1>1, <1>2, Invariance, PTL DEF ProviderInv

\* A call uses settings its configuration had, while active, since the node
\* began.
THEOREM CallsUseActiveSettings == Spec => []CallsAreCovered
  <1>1. IInv => CallsAreCovered
    BY DEF IInv, CallsAreCovered, SlotOK, Covered
  <1>2. QED
    BY <1>1, Invariance, PTL

\* What becomes active names only configurations that were active at some time
\* since the activation was asked for.
THEOREM ActivationsAreChecked == Spec => ActivationChecked
  <1>1. ASSUME IInv, [Next]_vars, NEW w \in Workflows,
               workflow[w].status # "active", workflow'[w].status = "active"
        PROVE  \E r \in Requests :
                 /\ request[r].op = "activate" /\ request[r].workflow = w
                 /\ \A i \in DOMAIN workflow'[w].nodes :
                      WasActive(request[r], workflow'[w].nodes[i].config)
    <2>1. PICK r \in Requests : SaveWorkflow(r)
      BY <1>1 DEF Next, vars, Ask, Fail, Create, LoadConfig, SaveConfig,
         BeginCreateWorkflow, LoadWorkflow, CheckNode, EndCheck, Execute, LoadNodeConfig,
         Called, Complete
    <2>2. PICK s \in Slots : s = request[r]
      BY <1>1 DEF IInv, TypeOK
    <2>3. s.pc = "save_workflow" /\ SlotOK(s)
      BY <1>1, <2>1, <2>2 DEF SaveWorkflow, IInv
    <2>4. s.op \in {"create_workflow", "clone"} => s.workflowDoc.status # "active"
      BY <2>3 DEF SlotOK, Checked
    <2>5. \/ s.op \notin {"create_workflow", "clone"} /\ w = s.workflow
             /\ workflow'[w] = s.workflowDoc
          \/ workflow'[w] = s.workflowDoc /\ s.op \in {"create_workflow", "clone"}
      BY <1>1, <2>1, <2>2 DEF SaveWorkflow, WrittenWorkflow, IInv, TypeOK, Slots
    <2>6. s.op = "activate" /\ w = s.workflow /\ workflow'[w] = s.workflowDoc
      BY <1>1, <2>3, <2>4, <2>5 DEF SlotOK, Checked
    <2>7. \A i \in DOMAIN workflow'[w].nodes : WasActive(s, workflow'[w].nodes[i].config)
      BY <2>3, <2>6 DEF SlotOK, Checked
    <2>8. QED
      BY <2>2, <2>6, <2>7
  <1>2. IInv /\ [Next]_vars =>
          [\A w \in Workflows :
             workflow[w].status # "active" /\ workflow'[w].status = "active" =>
               \E r \in Requests :
                 /\ request[r].op = "activate" /\ request[r].workflow = w
                 /\ \A i \in DOMAIN workflow'[w].nodes :
                      WasActive(request[r], workflow'[w].nodes[i].config)]_vars
    BY <1>1
  <1>3. QED
    BY <1>2, Invariance, PTL DEF Spec, ActivationChecked
=============================================================================
