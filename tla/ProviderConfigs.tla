--------------------------- MODULE ProviderConfigs ---------------------------
(***************************************************************************)
(* Provider configurations and those who depend on them.  A workflow names *)
(* configurations in its executor nodes; they are checked when it is       *)
(* created, updated and activated, and once more when a node runs.  A      *)
(* configuration may be updated, disabled, enabled or deleted at any time, *)
(* whoever names it.                                                       *)
(*                                                                         *)
(* Workflows are modelled as far as they name configurations; module       *)
(* Workflows has the rest of their life.                                   *)
(***************************************************************************)
EXTENDS Naturals, Sequences

CONSTANTS
  Requests,     \* requests and executions that are in flight at the same time
  Providers,    \* providers of the catalog
  Configs,      \* ids of configurations
  Settings,     \* what a configuration holds: URL, headers, credentials
  Workflows,    \* ids of workflows
  Definitions,  \* the executor nodes of a workflow: its executor's provider and a configuration
  Operations    \* operations that clients use

Nodes == [provider : Providers, config : Configs]

AllOperations ==
  {"create", "update", "disable", "enable", "delete",
   "create_workflow", "update_workflow", "clone", "activate", "deactivate",
   "move_to_draft", "execute"}

ASSUME ConstantsAssumption ==
  /\ Providers # {} /\ Configs # {} /\ Settings # {} /\ Workflows # {}
  /\ Definitions # {} /\ Definitions \subseteq Seq(Nodes)
  /\ Operations \subseteq AllOperations

VARIABLES
  config,    \* the provider_configurations collection
  workflow,  \* the workflows collection
  request    \* request[r]: the request or execution in slot r

vars == <<config, workflow, request>>

-----------------------------------------------------------------------------
(* Data *)

ConfigDocs == [status : {"absent", "active", "disabled", "deleted"},
               provider : Providers, settings : Settings]

WorkflowDocs == [status : {"absent", "draft", "active", "inactive"}, nodes : Definitions]

\* config, workflow, settings and nodes are what the client asks for; expected,
\* configDoc and workflowDoc are the status that was read and the copy to be
\* written; pos is the node in turn; sent are the settings of the call in
\* flight.  seen is not in the code: the settings that active configurations
\* had since the request, or the node of an execution, began.
Slots ==
  [pc : {"idle", "asked", "save_config", "check", "save_workflow", "node", "call"},
   op : AllOperations, config : Configs, workflow : Workflows, settings : Settings,
   expected : {"absent", "active", "disabled", "draft", "inactive"},
   configDoc : ConfigDocs, workflowDoc : WorkflowDocs, pos : Nat \ {0},
   sent : Settings, seen : SUBSET (Configs \X Settings)]

TypeOK ==
  /\ config \in [Configs -> ConfigDocs]
  /\ workflow \in [Workflows -> WorkflowDocs]
  /\ request \in [Requests -> Slots]

SomeConfig == [status |-> "absent", provider |-> CHOOSE p \in Providers : TRUE,
               settings |-> CHOOSE s \in Settings : TRUE]

SomeWorkflow == [status |-> "absent", nodes |-> CHOOSE d \in Definitions : TRUE]

Idle == [pc |-> "idle", op |-> "create", config |-> CHOOSE c \in Configs : TRUE,
         workflow |-> CHOOSE w \in Workflows : TRUE,
         settings |-> CHOOSE s \in Settings : TRUE, expected |-> "absent",
         configDoc |-> SomeConfig, workflowDoc |-> SomeWorkflow, pos |-> 1,
         sent |-> CHOOSE s \in Settings : TRUE, seen |-> {}]

OnWorkflows ==
  {"update_workflow", "clone", "activate", "deactivate", "move_to_draft", "execute"}

\* FindByID finds it.
Stored(c) == config[c].status \in {"active", "disabled"}

\* IsActive.
Active(c) == config[c].status = "active"

ActiveSettings(cs) ==
  {cs2 \in Configs \X Settings :
     cs[cs2[1]].status = "active" /\ cs[cs2[1]].settings = cs2[2]}

\* Slot r is now s; all others have seen the settings of cs.
Becomes(r, s, cs) ==
  request' = [q \in Requests |->
    IF q = r THEN s
    ELSE IF request[q].pc = "idle" THEN request[q]
    ELSE [request[q] EXCEPT !.seen = @ \cup ActiveSettings(cs)]]

\* The request is answered, or the execution ends.
Free(r) == request' = [request EXCEPT ![r] = Idle]

-----------------------------------------------------------------------------
(* Requests *)

\* A client asks for an operation, with the inputs that the operation uses.
Ask(r) ==
  /\ request[r].pc = "idle"
  /\ \E op \in Operations, c \in Configs, w \in Workflows, s \in Settings,
        d \in Definitions :
       /\ op \in {"update", "disable", "enable", "delete"} \/ c = Idle.config
       /\ op \in OnWorkflows \/ w = Idle.workflow
       /\ op \in {"create", "update"} \/ s = Idle.settings
       /\ op \in {"create_workflow", "update_workflow"} \/ d = SomeWorkflow.nodes
       /\ request' = [request EXCEPT ![r] =
            [Idle EXCEPT !.pc = "asked", !.op = op, !.config = c, !.workflow = w,
                         !.settings = s, !.workflowDoc.nodes = d,
                         !.seen = ActiveSettings(config)]]
  /\ UNCHANGED <<config, workflow>>

\* An error is answered, at any point: not found, wrong status, a failed check,
\* a conflict, a failure of the database; an execution fails.
Fail(r) ==
  /\ request[r].pc # "idle"
  /\ Free(r)
  /\ UNCHANGED <<config, workflow>>

-----------------------------------------------------------------------------
(* Commands on configurations *)

\* CreateProviderConfigCommand: a new id, active at once.
Create(r) ==
  /\ request[r].pc = "asked"
  /\ request[r].op = "create"
  /\ \E c \in Configs, p \in Providers :
       /\ config[c].status = "absent"
       /\ config' = [config EXCEPT ![c] = [status |-> "active", provider |-> p,
                                           settings |-> request[r].settings]]
  /\ Becomes(r, Idle, config')
  /\ UNCHANGED workflow

\* Mutant: an update may name another provider.
UpdateAll(d, settings, new) ==
  \E p \in Providers : new = [d EXCEPT !.settings = settings, !.provider = p]

\* UpdateProviderConfigCommand: in any status, everything but the provider.
Update(d, settings, new) == new = [d EXCEPT !.settings = settings]

Disable(d, new) == d.status = "active" /\ new = [d EXCEPT !.status = "disabled"]

Enable(d, new) == d.status = "disabled" /\ new = [d EXCEPT !.status = "active"]

\* DeleteProviderConfigCommand: in any status.
Delete(d, new) == new = [d EXCEPT !.status = "deleted"]

LoadConfig(r) ==
  LET s == request[r]
      d == config[s.config] IN
  /\ s.pc = "asked"
  /\ Stored(s.config)
  /\ \E new \in ConfigDocs :
       /\ \/ s.op = "update" /\ Update(d, s.settings, new)
          \/ s.op = "disable" /\ Disable(d, new)
          \/ s.op = "enable" /\ Enable(d, new)
          \/ s.op = "delete" /\ Delete(d, new)
       /\ request' = [request EXCEPT ![r].pc = "save_config",
                                     ![r].expected = d.status, ![r].configDoc = new]
  /\ UNCHANGED <<config, workflow>>

\* Update or Delete of the repository, with the status in the filter.
SaveConfig(r) ==
  LET s == request[r] IN
  /\ s.pc = "save_config"
  /\ config[s.config].status = s.expected
  /\ config' = [config EXCEPT ![s.config] = s.configDoc]
  /\ Becomes(r, Idle, config')
  /\ UNCHANGED workflow

-----------------------------------------------------------------------------
(* Commands on workflows *)

\* CreateWorkflowCommand checks the nodes of the input.
BeginCreateWorkflow(r) ==
  /\ request[r].pc = "asked"
  /\ request[r].op = "create_workflow"
  /\ request' = [request EXCEPT ![r].pc = "check", ![r].workflowDoc.status = "draft"]
  /\ UNCHANGED <<config, workflow>>

\* The copy that a command makes of workflow d: an update takes the nodes of
\* the input, a clone is a draft with the nodes of the original.
Transitions ==
  {<<"update_workflow", "draft", "draft">>, <<"activate", "draft", "active">>,
   <<"deactivate", "active", "inactive">>, <<"move_to_draft", "inactive", "draft">>}
  \cup {<<"clone", s, "draft">> : s \in {"draft", "active", "inactive"}}

\* Mutant: an activation is not checked.
IsCheckedLess(op) == op \in {"create_workflow", "update_workflow"}

IsChecked(op) == op \in {"create_workflow", "update_workflow", "activate"}

LoadWorkflow(r) ==
  LET s == request[r]
      d == workflow[s.workflow] IN
  /\ s.pc = "asked"
  /\ \E t \in Transitions :
       /\ t[1] = s.op /\ t[2] = d.status
       /\ request' = [request EXCEPT
            ![r].pc = IF IsChecked(s.op) THEN "check" ELSE "save_workflow",
            ![r].expected = d.status,
            ![r].workflowDoc =
               [status |-> t[3],
                nodes |-> IF s.op = "update_workflow" THEN @.nodes ELSE d.nodes]]
  /\ UNCHANGED <<config, workflow>>

\* Mutant: the provider of the configuration is not compared.
PassesStatusOnly(op, node) == Active(node.config)

\* validateProviderConfigs, and validateProviderConfigsForActivation without
\* the comparison.
Passes(op, node) ==
  /\ Active(node.config)
  /\ op # "activate" => config[node.config].provider = node.provider

\* The nodes are checked one by one; each check reads its configuration.
CheckNode(r) ==
  LET s == request[r] IN
  /\ s.pc = "check"
  /\ s.pos \in DOMAIN s.workflowDoc.nodes
  /\ Passes(s.op, s.workflowDoc.nodes[s.pos])
  /\ request' = [request EXCEPT ![r].pos = @ + 1]
  /\ UNCHANGED <<config, workflow>>

EndCheck(r) ==
  /\ request[r].pc = "check"
  /\ request[r].pos \notin DOMAIN request[r].workflowDoc.nodes
  /\ request' = [request EXCEPT ![r].pc = "save_workflow"]
  /\ UNCHANGED <<config, workflow>>

\* $set of every field.
WrittenWorkflow(stored, d) == d

\* The draft is inserted under a new id, or the copy written if the status is
\* the one that was read.
SaveWorkflow(r) ==
  LET s == request[r] IN
  /\ s.pc = "save_workflow"
  /\ \/ /\ s.op \in {"create_workflow", "clone"}
        /\ \E w \in Workflows :
             /\ workflow[w].status = "absent"
             /\ workflow' = [workflow EXCEPT ![w] = s.workflowDoc]
     \/ /\ s.op \notin {"create_workflow", "clone"}
        /\ workflow[s.workflow].status = s.expected
        /\ workflow' = [workflow EXCEPT ![s.workflow] = WrittenWorkflow(@, s.workflowDoc)]
  /\ Free(r)
  /\ UNCHANGED config

-----------------------------------------------------------------------------
(* Executions *)

\* An execution works on the definition of the active workflow it read.
Execute(r) ==
  LET s == request[r] IN
  /\ s.pc = "asked"
  /\ s.op = "execute"
  /\ workflow[s.workflow].status = "active"
  /\ request' = [request EXCEPT ![r].pc = "node", ![r].workflowDoc = workflow[s.workflow]]
  /\ UNCHANGED <<config, workflow>>

\* Mutant: a disabled configuration is used.
CanUseStored(c, settings) == Stored(c) /\ config[c].settings = settings

\* The configuration is read and must be active.
CanUse(c, settings) == Active(c) /\ config[c].settings = settings

\* executeWithProviderConfig builds the input of the runner.
LoadNodeConfig(r) ==
  LET s == request[r]
      node == s.workflowDoc.nodes[s.pos] IN
  /\ s.pc = "node"
  /\ s.pos \in DOMAIN s.workflowDoc.nodes
  /\ \E settings \in Settings :
       /\ CanUse(node.config, settings)
       /\ request' = [request EXCEPT ![r].pc = "call", ![r].sent = settings]
  /\ UNCHANGED <<config, workflow>>

\* The call, however often it was tried, succeeded; the next node begins.
Called(r) ==
  /\ request[r].pc = "call"
  /\ request' = [request EXCEPT ![r].pc = "node", ![r].pos = @ + 1,
                                ![r].seen = ActiveSettings(config)]
  /\ UNCHANGED <<config, workflow>>

Complete(r) ==
  /\ request[r].pc = "node"
  /\ request[r].pos \notin DOMAIN request[r].workflowDoc.nodes
  /\ Free(r)
  /\ UNCHANGED <<config, workflow>>

-----------------------------------------------------------------------------

Init ==
  /\ config = [c \in Configs |-> SomeConfig]
  /\ workflow = [w \in Workflows |-> SomeWorkflow]
  /\ request = [r \in Requests |-> Idle]

Next ==
  \E r \in Requests :
    \/ Ask(r) \/ Fail(r)
    \/ Create(r) \/ LoadConfig(r) \/ SaveConfig(r)
    \/ BeginCreateWorkflow(r) \/ LoadWorkflow(r) \/ CheckNode(r) \/ EndCheck(r)
    \/ SaveWorkflow(r)
    \/ Execute(r) \/ LoadNodeConfig(r) \/ Called(r) \/ Complete(r)

Spec == Init /\ [][Next]_vars

-----------------------------------------------------------------------------
(* Properties *)

NodeMatches(node) ==
  config[node.config].status # "absent" /\ config[node.config].provider = node.provider

NodesMatch(d) == \A i \in DOMAIN d : NodeMatches(d[i])

\* Every executor node of a stored workflow names a configuration of its
\* executor's own provider.  Activation and execution do not check this: they
\* rely on the checks of creation and update, on updates that keep the
\* provider and on ids that are not used twice (create_workflow.go:170-189).
ProviderMatches ==
  \A w \in Workflows : workflow[w].status # "absent" => NodesMatch(workflow[w].nodes)

\* So the settings and credentials of one provider are never sent to an
\* executor of another.
CallsMatch ==
  \A r \in Requests : request[r].pc = "call" =>
    NodeMatches(request[r].workflowDoc.nodes[request[r].pos])

\* What is stored and what is called: no node ever meets another provider.
ProviderInv == ProviderMatches /\ CallsMatch

\* Slot s has seen an active configuration c.
WasActive(s, c) == \E settings \in Settings : <<c, settings>> \in s.seen

\* A call uses settings that its configuration had, while it was active, since
\* the node began: who disables or changes a configuration is sure that nodes
\* that begin later respect it (execute_workflow.go:471-491).
CallsAreCovered ==
  \A r \in Requests : request[r].pc = "call" =>
    LET s == request[r] IN <<s.workflowDoc.nodes[s.pos].config, s.sent>> \in s.seen

\* What becomes active names only configurations that were active at some time
\* since the request for it began (activate_workflow.go:126-130).
ActivationChecked ==
  [][\A w \in Workflows :
       workflow[w].status # "active" /\ workflow'[w].status = "active" =>
         \E r \in Requests :
           /\ request[r].op = "activate" /\ request[r].workflow = w
           /\ \A i \in DOMAIN workflow'[w].nodes :
                WasActive(request[r], workflow'[w].nodes[i].config)]_vars

\* What becomes active names configurations that are active at that moment
\* (activate_workflow.go:78: "Validates that all referenced provider
\* configurations exist and are active.").  One that is disabled or deleted
\* after its check and before the write is not noticed.
ActivatedWhileActive ==
  [][\A w \in Workflows :
       workflow[w].status # "active" /\ workflow'[w].status = "active" =>
         \A i \in DOMAIN workflow'[w].nodes : Active(workflow'[w].nodes[i].config)]_vars

\* What the slots keep: they have seen what is active; a copy of a
\* configuration keeps its provider; nodes that were checked, or come from a
\* stored workflow, match their configurations and those of an activation were
\* active; only an activation makes a workflow active; a call is of the node in turn and is covered.
Fresh(s) == ActiveSettings(config) \subseteq s.seen

KeepsProvider(s) ==
  s.pc = "save_config" =>
    /\ s.op \in {"update", "disable", "enable", "delete"}
    /\ config[s.config].status # "absent" /\ s.configDoc.status # "absent"
    /\ s.configDoc.provider = config[s.config].provider

Matched(s) ==
  \A i \in DOMAIN s.workflowDoc.nodes :
    (\/ s.pc \in {"save_workflow", "node", "call"}
     \/ s.pc = "check" /\ (i < s.pos \/ s.op = "activate"))
    => NodeMatches(s.workflowDoc.nodes[i])

Checked(s) ==
  /\ s.pc = "asked" => s.pos = 1
  /\ s.pc = "check" => IsChecked(s.op)
  /\ s.op = "activate" =>
       \A i \in DOMAIN s.workflowDoc.nodes :
         s.pc = "save_workflow" \/ (s.pc = "check" /\ i < s.pos)
         => WasActive(s, s.workflowDoc.nodes[i].config)
  /\ s.pc \in {"check", "save_workflow"} /\ s.op # "activate" =>
       s.workflowDoc.status # "active"

Covered(s) ==
  s.pc = "call" =>
    /\ s.pos \in DOMAIN s.workflowDoc.nodes
    /\ <<s.workflowDoc.nodes[s.pos].config, s.sent>> \in s.seen

SlotOK(s) == Fresh(s) /\ KeepsProvider(s) /\ Matched(s) /\ Checked(s) /\ Covered(s)

IInv ==
  /\ TypeOK
  /\ ProviderMatches
  /\ \A r \in Requests : request[r].pc # "idle" => SlotOK(request[r])
=============================================================================
