------------------------------- MODULE Catalog -------------------------------
(***************************************************************************)
(* The catalog of executors, providers and templates (pkg/executor/        *)
(* catalog.go), its handler (internal/adapters/http/in/catalog) and the    *)
(* way a client goes through it: it reads a template with the provider     *)
(* configurations that it may choose from, has its parameters validated,   *)
(* and creates a workflow from them (create_workflow_from_template.go),    *)
(* while others enable, disable and delete those configurations.           *)
(*                                                                         *)
(* The catalog is filled once, before the process listens.  A template has *)
(* one parameter for each provider that it uses, and builds one executor   *)
(* node with it.                                                           *)
(***************************************************************************)
EXTENDS Naturals, Sequences

CONSTANTS
    Defaults,     \* what may be registered: sequences of [provider, executors]
    Configs,      \* ids of provider configurations
    ProviderOf,   \* the provider of each
    Clients,      \* clients of the catalog
    MaxChanges,   \* bound on the changes of configurations
    MaxErrors     \* bound on the errors of the database

VARIABLES
    defaults,     \* what is registered, in this order
    phase,        \* of the process: "registering", "listening" or "failed"
    next,         \* position of the next registration
    providers,    \* registered providers
    executors,    \* for each registered executor the provider that it calls its own
    owners,       \* for each linked executor the provider it is linked to
    active,       \* configurations that exist and are active
    gone,         \* those that were deleted
    client,       \* where each client is
    changes,      \* changes of configurations so far
    errors        \* errors of the database so far

start == <<defaults, phase, next>>
catalogVars == <<start, providers, executors, owners, active, gone, client, changes, errors>>
registered == <<providers, executors, owners>>

NoExecutor == "nil"

\* Parameters that refer to configurations, with the provider of each, in the
\* order of ProviderConfigFields; the executor nodes that are built have this
\* order too.
Fields == <<"tracer", "midaz">>
Calls  == <<"tracer.validate-transaction", "midaz.create-transaction">>

\* A client without a list to choose from writes what it likes.
NotAnId == {"unset", "empty", "malformed"}
Free    == Configs \cup NotAnId

Outside == [at |-> "out", field |-> 1, options |-> [f \in DOMAIN Fields |-> {}],
            params |-> [f \in DOMAIN Fields |-> "unset"],
            steady |-> FALSE, seen |-> {}, broken |-> FALSE, code |-> 0]

Init ==
    /\ defaults \in Defaults /\ phase = "registering" /\ next = 1
    /\ providers = {} /\ executors = << >> /\ owners = << >>
    /\ active \in SUBSET Configs /\ gone = {}
    /\ client = [c \in Clients |-> Outside] /\ changes = 0 /\ errors = 0

-----------------------------------------------------------------------------
(* Registration                                                             *)

\* All executors are looked at before anything is changed.
Complete(r) == NoExecutor \notin r.executors
RegistersAny(r) == r.provider \notin providers
Registers(r) == r.provider \notin providers /\ Complete(r)

\* f with the value v for every member of S.
With(f, S, v) == [x \in DOMAIN f \cup S |-> IF x \in S THEN v ELSE f[x]]

RegisterProvider ==
    /\ phase = "registering"
    /\ LET r == defaults[next]
       IN  /\ Registers(r)
           /\ providers' = providers \cup {r.provider}
           /\ executors' = With(executors, r.executors, r.provider)
           /\ owners' = With(owners, r.executors, r.provider)
    /\ next' = next + 1 /\ phase' = IF next = Len(defaults) THEN "listening" ELSE phase
    /\ UNCHANGED <<defaults, active, gone, client, changes, errors>>

\* An error of the registration ends the start of the process.
RefuseProvider ==
    /\ phase = "registering" /\ ~Registers(defaults[next])
    /\ phase' = "failed"
    /\ UNCHANGED <<defaults, next, registered, active, gone, client, changes, errors>>

GetProviderExecutors(p) == {e \in DOMAIN owners : owners[e] = p}

-----------------------------------------------------------------------------
(* Provider configurations, which others change meanwhile                   *)

\* What each client may have seen active while it reads or creates.
Sees(now) == client' = [c \in Clients |-> [client[c] EXCEPT !.steady = FALSE, !.seen = @ \cup now]]

ChangeConfig ==
    /\ phase = "listening" /\ changes < MaxChanges /\ changes' = changes + 1
    /\ \E id \in Configs \ gone :
        \/ active' = active \cup {id} /\ gone' = gone
        \/ active' = active \ {id} /\ gone' \in {gone, gone \cup {id}}
    /\ Sees(active')
    /\ UNCHANGED <<start, registered, errors>>

-----------------------------------------------------------------------------
(* A client                                                                 *)

Becomes(c, x) == client' = [client EXCEPT ![c] = x]
Only(c) == UNCHANGED <<start, registered, active, gone, changes>>
Error == errors < MaxErrors /\ errors' = errors + 1

\* GetTemplate.
GetTemplate(c) ==
    /\ phase = "listening" /\ client[c].at = "out"
    /\ Becomes(c, [Outside EXCEPT !.at = "template", !.steady = TRUE, !.seen = active])
    /\ Only(c) /\ UNCHANGED errors

\* ListActiveByProvider.
AllOf(provider) == {id \in Configs \ gone : ProviderOf[id] = provider}
ActiveOf(provider) == {id \in active : ProviderOf[id] = provider}

\* enrichSchemaWithOptions, field by field: a parameter whose configurations
\* cannot be listed is left as free text.
Enrich(c) ==
    LET f == client[c].field
        Next(options) ==
            [client[c] EXCEPT !.options[f] = options,
                              !.field = IF f = Len(Fields) THEN 1 ELSE f + 1,
                              !.at = IF f = Len(Fields) THEN "form" ELSE "template"]
    IN  /\ client[c].at = "template"
        /\ \/ Becomes(c, Next(ActiveOf(Fields[f]))) /\ UNCHANGED errors
           \/ Becomes(c, Next(Free)) /\ Error
        /\ Only(c)

\* The client fills in the form; without an option there is nothing to choose.
Choose(c) ==
    /\ client[c].at = "form"
    /\ \E params \in [DOMAIN Fields -> Free] :
        /\ \A f \in DOMAIN Fields : params[f] \in client[c].options[f]
        /\ Becomes(c, [client[c] EXCEPT !.at = "filled", !.params = params])
    /\ Only(c) /\ UNCHANGED errors

Refuse(c, code) == [client[c] EXCEPT !.at = "answered", !.code = code]

\* ValidateParams, of the handler and then of the command: the schema of the
\* template asks that a parameter is there; that its format is the one of an id
\* is no assertion of a schema of 2020-12.
ValidParams(params) == \A f \in DOMAIN Fields : params[f] # "unset"

\* The client has its parameters validated, or creates at once.
ValidateTemplateParams(c) ==
    /\ client[c].at = "filled"
    /\ Becomes(c, IF ValidParams(client[c].params) THEN [client[c] EXCEPT !.at = "valid"] ELSE Refuse(c, 400))
    /\ Only(c) /\ UNCHANGED errors

\* build: the configuration of a parameter goes to the node that calls its
\* provider.
Node(params, f) == [config |-> params[f], executor |-> Calls[f]]

\* ValidateNodesWithCatalog: the first node that is wrong.
NodeCode(node) ==
    CASE node.executor \notin DOMAIN executors -> 404
      [] node.executor \in DOMAIN executors /\ node.config \in NotAnId -> 400
      [] OTHER -> 0
NodesCode(params) ==
    LET wrong == {f \in DOMAIN Fields : NodeCode(Node(params, f)) # 0}
    IN  IF wrong = {} THEN 0
        ELSE NodeCode(Node(params, CHOOSE f \in wrong : \A g \in wrong : f <= g))

\* What the command says before it asks the database; the error of build has
\* no type.
Refusal(params) ==
    CASE ~ValidParams(params) -> 400
      [] ValidParams(params) /\ \E f \in DOMAIN Fields : params[f] = "empty" -> 500
      [] OTHER -> NodesCode(params)

CreateFromTemplate(c) ==
    LET code == Refusal(client[c].params)
    IN  /\ client[c].at \in {"filled", "valid"}
        /\ Becomes(c, IF code = 0 THEN [client[c] EXCEPT !.at = "nodes", !.seen = active]
                      ELSE Refuse(c, code))
        /\ Only(c) /\ UNCHANGED errors

\* validateProviderConfigs, node by node; an error of the database is reported
\* as a configuration that is not found.
AcceptsActive(node) == node.config \in active
Accepts(node) == node.config \in active /\ ProviderOf[node.config] = executors[node.executor]

CheckNode(c) ==
    LET f == client[c].field
        node == Node(client[c].params, f)
    IN  /\ client[c].at = "nodes"
        /\ \/ /\ Accepts(node)
              /\ Becomes(c, [client[c] EXCEPT !.field = IF f = Len(Fields) THEN 1 ELSE f + 1,
                                              !.at = IF f = Len(Fields) THEN "insert" ELSE "nodes"])
              /\ UNCHANGED errors
           \/ ~Accepts(node) /\ Becomes(c, Refuse(c, 400)) /\ UNCHANGED errors
           \/ Becomes(c, [Refuse(c, 400) EXCEPT !.broken = TRUE]) /\ Error
        /\ Only(c)

Insert(c) ==
    /\ client[c].at = "insert"
    /\ \/ Becomes(c, [client[c] EXCEPT !.at = "answered", !.code = 201]) /\ UNCHANGED errors
       \/ Becomes(c, [client[c] EXCEPT !.at = "answered", !.code = 500, !.broken = TRUE]) /\ Error
    /\ Only(c)

Next ==
    \/ RegisterProvider \/ RefuseProvider \/ ChangeConfig
    \/ \E c \in Clients : GetTemplate(c) \/ Enrich(c) \/ Choose(c) \/ ValidateTemplateParams(c)
                          \/ CreateFromTemplate(c) \/ CheckNode(c) \/ Insert(c)

Spec == Init /\ [][Next]_catalogVars

-----------------------------------------------------------------------------
(* Properties                                                               *)

CatalogTypeOK ==
    /\ phase \in {"registering", "listening", "failed"} /\ next \in 1 .. Len(defaults) + 1
    /\ active \subseteq Configs \ gone
    /\ \A c \in Clients : /\ client[c].field \in DOMAIN Fields
                          /\ client[c].code \in {0, 201, 400, 404, 500}
    /\ changes \in 0 .. MaxChanges /\ errors \in 0 .. MaxErrors

\* Whatever is registered, in whatever order and how often: every linked
\* executor is there, and both it and the link name the same provider, which
\* is registered; a registration that fails leaves nothing (RegisterProvider:
\* "Validate all executors before modifying state to ensure atomicity").
CatalogIsLinked ==
    /\ DOMAIN owners = DOMAIN executors
    /\ \A e \in DOMAIN owners : owners[e] = executors[e] /\ owners[e] \in providers
    /\ \A p \in providers : \E n \in DOMAIN defaults :
        defaults[n].provider = p /\ Complete(defaults[n])

\* What the catalog offers, the creation accepts: where no configuration
\* changed since the template was read and the database did not fail, a client
\* that chose from the options is not refused (enrichSchemaWithOptions lists
\* what validateProviderConfigs then asks for).
OfferedIsAccepted ==
    \A c \in Clients :
        (client[c].code \in {400, 404, 500} /\ client[c].steady /\ ~client[c].broken) =>
            \E f \in DOMAIN Fields : client[c].options[f] = Free

\* A workflow is created only with configurations each of which was active
\* at some time during the creation, of the provider of its node, however long
\* ago they were offered or validated (create_workflow.go).
CreatedWithActive ==
    \A c \in Clients : client[c].code = 201 =>
        \A f \in DOMAIN Fields : /\ client[c].params[f] \in client[c].seen
                                 /\ ProviderOf[client[c].params[f]] = Fields[f]

CatalogInv ==
    /\ CatalogTypeOK
    /\ CatalogIsLinked
    /\ OfferedIsAccepted
    /\ CreatedWithActive
=============================================================================
