# Flowker verification

TLA+ models of Flowker, the workflow orchestrator of this repository: what its
components do under concurrency, failures and restarts, checked with TLC on
small instances, and for the core of the system proved with TLAPS for all of them.

- [The system](#the-system): components, their state, how they interact
- [Modules](#modules): which module models what, and how it corresponds to the code
- [Runs](#runs): what each run checks, with which bounds
- [Fairness](#fairness)
- [Proofs](#proofs)
- [Where code and documents disagree](#where-code-and-documents-disagree)
- [What is not modelled](#what-is-not-modelled)
- [Plan](#plan)

Paths are relative to the root of the repository, without `src/`.  To repeat a
run: `tlc -config Execution_Shipped.cfg MCExecution.tla`; to repeat a proof:
`tlapm ExecutionProofs.tla`.  `PROJECT.json` lists every run, the lines of code
that each definition stands for, the mutations under which each property fails,
and the hazards the properties are aimed at.

## The system

Flowker keeps *workflows*, graphs of trigger, executor, conditional and action
nodes.  An active workflow is *executed* for a request of the API or of a
webhook: a goroutine walks the graph and calls the services its executor nodes
name (Tracer, Midaz, any HTTP service), with the settings of a *provider
configuration*.  MongoDB holds workflows, executions and configurations;
PostgreSQL an audit log that is a hash chain.

| Component | Keeps | Operations | Works with |
|---|---|---|---|
| Execution engine (`internal/services/command/execute_workflow.go`) | a document per execution: status, steps, idempotency key; in memory the entity and the workflow context | Execute, the state machine goroutine, RecoverIncompleteExecutions | workflow and configuration repositories, runners, audit |
| Traversal (same file, `traverseNode`) | recursion stack, path, workflow context | one call per visit of a node | condition evaluator, runners |
| Workflow commands (`create_`, `update_`, `clone_`, `activate_`, `deactivate_`, `move_to_draft_`, `delete_workflow.go`) | a document per workflow: status, nodes, edges | as named: read, decide on the copy, write under a filter on the status | webhook registry, configurations |
| Webhook registry (`pkg/webhook/registry.go`) and endpoint (`adapters/http/in/webhook`) | routes, in memory, under a lock | Register, Unregister, Resolve, population at start | workflow commands, engine |
| Provider configurations | a document each: provider, settings, status | create, update, disable, enable, delete, connectivity test | workflows and executions that name them |
| Executor configurations | a document each: settings, status from unconfigured to active | as the state machine of the entity, connectivity test in four stages | an executor under test |
| Calls: retries (`executeRunnerWithRetry`) and circuit breakers (`pkg/circuitbreaker`) | attempt number; one breaker per provider configuration, shared by all executions | five attempts with backoff; closed, open, half-open | runners |
| HTTP runner and authentication (`pkg/executors/http`) | for the time of one call, caches of tokens and discovery documents | discovery, grant, refresh, the request | token servers, services |
| Conditions (`pkg/condition`) | nothing | Evaluate a text on the workflow context | conditional nodes |
| Transformation (`pkg/transformation`) | a shared cache of compiled specifications | build, validate, compile, transform | executor nodes, activation |
| Pagination (`adapters/mongodb/*/repository.go`, `pkg/net/http/cursor.go`) | the cursor, held by the client | one query per page | all listings, population of the registry |
| Audit (`record_audit_event.go`, `migrations`) | rows with previous hash and hash | record in a goroutine, verify | every command |
| Process (`internal/bootstrap`) | draining flag, self-probe result, connections | start, /health, /readyz, drain, stop | orchestrator, databases |
| Management API (`adapters/http/in/workflow`, `provider_configuration`, `executor_configuration`) | nothing | parse, one command or query, error to status code | the commands above |
| Catalog (`pkg/executor`, `adapters/http/in/catalog`) | executors, providers, triggers and templates, in memory | filled at start; templates with the configurations a client may choose | configurations, creation of workflows |
| Set-up of the database (`internal/bootstrap/collections.go`, `indexes.go`) | collections with validators, indexes | create what is missing | every repository |
| Template (`pkg/templates/tracer_midaz`) | nothing | builds the workflow that validates with Tracer and books with Midaz | engine |

Components share state in four ways.  Requests meet in *documents*, each
command reading one, deciding on its copy and writing all of it back under a
filter that compares the status only.  Handlers and executions of one process
meet in *memory*: the registry, the breakers, the caches.  Executions read
workflows and configurations that *change while they run*.  And what is written
by one process is read by the next one after a *crash or restart*.

What is hard here, and what makes each component correct:

- **Engine.** Requests repeated with one idempotency key race to insert;
  timeouts end the context that the last write needs; a crash takes the
  goroutine with it; recovery restarts what may still run.  Correct: one
  execution per key, one writer per execution, statuses move forward, the steps
  are a log, the audit agrees with the stored outcome, everything ends.
- **Workflows and registry.** Two stores change one after the other, without a
  transaction.  Correct: active workflows are valid and routed, no route
  outlives the activity of its workflow, a definition changes in draft only.
- **Configurations.** Settings change between check and use, and during tests
  that take a minute.  Correct: what is called was active since the node began
  and belongs to the right provider; what is marked tested was tested.
- **Traversal.** Cycles, joins and repeated ids are legal.  Correct: it ends,
  and a completed execution has left nothing out.
- **Breakers and caches.** Shared by concurrent calls and touched outside
  their locks.  Correct: bounded failures, one probe, the specification of the
  right node.
- **HTTP runner.** A call may ask three servers one after the other.  Correct: it
  ends in time, and the token it sends is still live.
- **Audit.** Goroutines insert concurrently.  Correct: one chain.
- **Management API and catalog.** Calls overlap between the reading of a
  document and its writing, and options are old when they are used.  Correct: a
  client is told what happened, one client is told of a deletion, what is
  offered is accepted.
- **Set-up of the database.** Looks and creates, in several processes at once,
  while documents come in.  Correct: who reports no error has left nothing out.
- **Process.** The orchestrator's probes, the drain and the databases each have
  their own clock.  Correct: no traffic to a process that does not listen, and
  service again after an outage.

## Modules

A component's module has the state as variables, one action per step that other
actors can see between (a database call, a critical section, a request to a
service), and the properties at its end.  An `MC` module gives the constants
that are functions or sets of structures their values, states conjunctions of
properties that one run checks, and in three cases adds a history variable
(`overlapped`, `marked`) by which a property is limited to the behaviours it is
promised for.  Three `MC` modules hold several parts that share no state, one part
in each behaviour: `MCServer` extends `Server` and `AuditChain`; `MCParts`
instantiates `Pagination`, `Conditions`, `Mapping`, `Requests` and `Tokens`; `MCApi` extends `ExecutorConfigs` and `Answers` and
instantiates `Webhook`, `Catalog` and `Setup`, which take turns with one
set of variables (`v1` to `v11`).  Definitions marked
*Mutant* are not used by the specification: each is a plausible bug, and
replacing the definition that follows it breaks a property.

| Module | Models | Correspondence |
|---|---|---|
| `Lifecycle` | what the executions collection promises | abstract: absent, pending, running, terminal; implemented by `Execution` |
| `Execution` | the engine, from request to last write | a thread per request or goroutine with a program counter and its copy of the entity; `db` is the collection; each database call may fail, be applied although it fails, or find its context expired; crash and start of processes |
| `WorkflowStatus`, `Workflows` | workflow commands and registry | abstract statuses and the detailed commands: read, register or not, conditional write, unregister; `registry` is memory and lost in a crash |
| `Webhook` | both handlers that start executions, over changing workflows | the handlers' order of lookups and refusals, the command Execute as they see it, and the commands one at a time (their overlap is `Workflows`).  It takes the unique index on keys for granted, which the program does not create (`Indexed` of `Execution`) |
| `ProviderConfigs` | configurations against the workflows and executions that use them | requests that read, check node by node, and write; what each has seen is in its record |
| `ExecutorStatus`, `ExecutorConfigs` | executor configurations | abstract statuses, and the commands with the four stages of the test |
| `Traversal` | `traverseNode` | the stack of calls as a sequence of frames; the definition is any that the validation of activation accepts |
| `Circuit` | what a breaker promises its configuration | abstract: closed, open, half-open, the calls it let through, their score, who was refused; implemented by `Breaker` |
| `Breaker` | retries and breakers | calls with a program counter; gobreaker's generation, counts and states; creation of a breaker between read lock and write lock |
| `Tokens` | a call of the HTTP runner with OIDC | calls under deadlines, each with a provider and caches of its own, as `applyAuth` makes them, against an issuer and a token server; time is a counter |
| `Requests` | the credentials a call carries and those a test tries | a configuration is a record of what its settings contain, a server of what it accepts |
| `Conditions` | the evaluator | texts are sequences of words; the evaluator as an operator, its loop over the text as a recursive function, next to the meaning of the formula the text was written for |
| `Mapping` | transformation | specifications as data, documents as sets of leaves; the operations one after the other, the fields of a shift in any order; executions that share the cache |
| `Pagination` | a walk over pages | documents with sort values; the filter and order of a query as the repository builds it from request and cursor |
| `AuditChain` | inserts and verification | sequences of ids, the trigger's lock, transactions that commit or are lost |
| `Server` | start, probes, drain, stop | the stages of InitServers in their order, and an orchestrator with a clock |
| `Answers` | what the management API tells its clients | a call is parsed, a command reads the document and decides on its copy (`Rules`), writes it where the status is still the one it read, and `HandleError` turns the error into a code; a document is a status and a name, since the commands have modules of their own |
| `Catalog` | the catalog and a client's way through it | registration in order, a template with its options, the form, validation, and the creation node by node, while configurations change |
| `Setup` | collections and indexes | processes with a position in the definitions, that look and then create; the first document or index creates a collection without its validator |
| `Template` | a run of the built-in template | extends `Breaker`: composes its graph, its condition, the retries and the breakers they share with another execution, with two services whose effects may come late |

How modules compose: `Execution` takes the order of visits and the outcome of
calls as given; `Traversal` shows where the order comes from, `Breaker`,
`Tokens`, `Mapping` and `Conditions` what a call and a condition do, and
`Template` joins graph, condition, retries and breakers with the effects
outside.
`Webhook` composes the endpoint with `Workflows`' commands and `Execution`'s
answers, `ProviderConfigs` the configurations with both, `Catalog` a client's
choices with the configurations and the creation of a workflow.  Refinement runs in
four places: `Execution` implements `Lifecycle`, `Workflows` implements
`WorkflowStatus`, `ExecutorConfigs` implements `ExecutorStatus`, `Breaker`
implements `Circuit`, each with the abstract specification under a mapping as a
property of the runs and a theorem.  The last mapping is the least obvious: the
circuit of a configuration is what whoever looks at its breaker *would* find,
so an open period that is over is a half-open circuit before anybody looks, the
calls in flight are those of the generation it would be in, and a breaker that
has yet to be made is closed.

What the models abstract from, throughout: payloads are model values or small
sets; wording and logging are left out; ids are drawn fresh; a single MongoDB
update is atomic (as the server promises for one document).

## Runs

Every run is finite because of the bounds its configuration names.  Invariants
and action properties that belong together are checked as one conjunction of
named parts (`BreakerInv`, `DataInv`, ...); `PROJECT.json` has a mutation for
each part that says most.

| Run | Module, configuration | Checks |
|---|---|---|
| `exec_shipped` | `MCExecution`, `Execution_Shipped.cfg` | `SingleWriter`, `ExecutionInv`, `AuditAgrees`, `SameKeySameExecution`, `ImplementsLifecycle`, `StepsAreALog`, `AllEnd` |
| `exec_recovery` | `MCExecution`, `Execution_Recovery.cfg` | `ImplementsLifecycle` |
| `workflows` | `MCWorkflows`, `Workflows_Overlap.cfg` | `IInv`, `RoutesAreDeclared`, `SerialRegistry`, `ImplementsStatus`, `SerialDefinitions` |
| `workflow_unrouted` (violation) | `MCWorkflows`, `Workflows_Loser.cfg` | `ActiveIsRouted` |
| `workflow_lost_update` (violation) | `MCWorkflows`, `Workflows_Lost.cfg` | `StatusChangeKeepsDefinition` |
| `provider_configs` | `MCProviderConfigs`, `ProviderConfigs_Overlap.cfg` | `ProviderInv`, `CallsAreCovered`, `ActivationChecked` |
| `api` | `MCApi`, `Api_Small.cfg` | `UnmarkedIsVerified`, `AnswersInv`, `WebhookInv`, `CatalogInv`, `SetupInv`, `ImplementsStatus`, `SettingsFrozen` |
| `traversal` | `MCTraversal`, `Traversal_Small.cfg` | `IInv`, `CompletedIsClosed`, `WalkEnds` |
| `calls` | `MCTemplate`, `Template_Calls.cfg` | `BreakerInv`, `TransactionInv`, `BreakerAct`, `AllEnd` |
| `server` | `MCServer`, `Server_Parts.cfg` | `TrafficInv`, `RoutingFollows`, `ChainInv`, `SerialFollowsIds`, `InsertsEnd` |
| `audit_fork` (violation) | `MCAuditChain`, `AuditChain_Fork.cfg` | `NoFork` |
| `parts` | `MCParts`, `Parts_Small.cfg` | `WalkIsExact`, `DataInv`, `CallsInv`, `PartsAct`, `CallsEnd` |

What each shows, and why its bounds are enough:

- **`exec_shipped`**: the engine as the program wires it, without recovery, over
  a database with its indexes.  One operation is sent twice, to two processes,
  under a crash, two database errors and timeouts; plans have up to three
  visits of every kind.  It is one execution, with one writer; its steps are a
  log, its audit trail agrees with what is stored, statuses move as `Lifecycle`
  says, and where nothing disturbs it, it finishes.  A race for a key needs two
  requests, and for a document two processes; more of each repeats the same
  steps, and the theorems hold for any number.
- **`exec_recovery`**: were `RecoverIncompleteExecutions` called at the start of
  the only process, statuses would still only move forward, over two crashes, so
  that a recovered execution may be interrupted and recovered again.
  (`OneProcessRefinement` says so for any number; with recovery in a second
  process it is false.)
- **`workflows`**: two commands in flight on two workflows that fight for a
  route (spelled in two ways), with a failed write and a restart, over a listing
  of as many workflows as a page holds.  The history variable `overlapped` tells
  behaviours in which requests come one after the other: for these the registry
  is exactly the routes of the active workflows, and exclusive.  For requests
  that overlap less is true, which the next two runs show.  A route has one
  holder, so a conflict has two parties.
- **`workflow_unrouted`, `workflow_lost_update`**: the same instance without
  failed writes and restarts, asked for what holds of serial requests only: the
  routes of an active workflow lead to it once its requests have ended, and a
  change of status leaves the definition alone.  Two activations of one workflow
  break the first, an update during an activation the second.
- **`provider_configs`**: two overlapping requests of every kind, two providers,
  two workflows (one with two nodes, since the checks go node by node), and a
  configuration with two settings, updated, disabled, enabled and deleted.  What
  becomes active names what was active since the request began; that it is still
  active then (`ActivatedWhileActive`) is false: a request may disable it between
  its check and the write.
- **`api`**: parts without shared state, one in each behaviour, chosen by `part`.
  *Executors*: two overlapping requests of every kind on one configuration with
  two settings, one of which answers without credentials; the history variable
  `marked` tells whether anybody used mark_tested, which asks the executor
  nothing.  *Answers*: two calls of every route of a resource on two documents
  and two names, with and without the unique index on names, and an error of
  the database that may hide a write that was made.  *Webhook, edits*: two
  requests to the endpoint or to the API, with or without one key, while two
  workflows are activated, deactivated and deleted, or one of them is edited
  twice, and a write fails once.  *Catalog*: a registration that is right and
  three that are not; two clients on three configurations of two providers, two
  changes and one error.  *Setup*: two processes with the whole set-up or half
  of it, two documents, one error, over two collections: nothing passes from one
  collection to another, and workflow_executions has indexes of both kinds,
  audit_entries none that is unique.
  `AnswersInv` has that a client of workflows is told 500 for an outage or for a
  template that could not be built, of which nothing was stored
  (`ServerErrorIsExplained`); for the two kinds of configurations not even that
  is true.
- **`traversal`**: all validated graphs of two and three nodes with up to three
  edges, cycles and repeated ids included, and all acyclic graphs of four
  nodes, where paths part and join.
- **`calls`**: an execution of the template and another call to Tracer share a
  breaker; three attempts of five and a threshold of two instead of five, so
  that the failures of one call, and of two together, can open it; any number of
  half-open periods.  Tracer allows, denies or says neither, and either service
  may answer, reject, stay silent or act after nobody waits any more.
  `BreakerAct` says that a breaker closes by its probe only and that every step
  of the breakers is one of `Circuit` or none: a late result, the race to create
  a breaker and the lazy change to half-open do not show.
- **`server`**: two modules without shared state, one per behaviour, chosen by
  `part`.  *Process*: the timing of `docs/readyz-guide.md` (12 s of drain, two
  failed probes 5 s apart, 2 s for a ping) in seconds, one stop by the
  orchestrator, every configuration and every sequence of outages; `RoutingFollows` is
  `DownIsUnrouted` and `ServesAgain`.  *Audit
  trail*: four events over two connections, each lost at any step.  The chain has
  one start and its links lead back; as long as inserts do not overlap
  (`overlapped`) it follows the ids.
- **`audit_fork`**: when they do overlap the chain forks; three events are enough.
- **`parts`**: five modules without shared state again, one per behaviour, chosen by
  `part`: a run of their disjoint union is one run of each.  *Pages*: three
  documents with ties, pages of one, two changes during the walk.  *Tokens*: two
  calls, repeated within four units of time, with a timeout of one and tokens
  that live as long as the timeout or longer; each call begins with empty
  caches (`NewProvider`).  Were the provider kept from call to call, a token that
  is fresh when it is looked up could die before the request leaves.  Whatever
  asks for a token, the document of the issuer first, ends with the deadline of
  the call (`CallsEnd`).  *Conditions*:
  two authors, of whom one writes all formulas of two comparisons with every
  operator and kind of operand, and the other those of four terms that are true,
  false or missing.  *Mapping, sharing*, of one instance of `Mapping`: every node
  of one or two mappings or operations on every document of two fields, and three executions of three nodes on a cache that is cleared
  under them.  *Test*: every configuration that the schemas allow over what can
  be present or absent, and a server that changes twice.

Deadlock checking is off where the modelled system has an end: the requests of
an instance have been answered, the walk is over, the changes are used
up.  It is on for `server`.

## Fairness

Safety needs no fairness.  The liveness properties assume, each with
the reason in the code:

| Module | Assumed | Because |
|---|---|---|
| `Execution` | weak fairness of every request and goroutine, and of starting a process that is down | Go's scheduler runs what can run; every database call and every call of a runner has a timeout and returns; an orchestrator restarts what died |
| `Traversal` | weak fairness of the walk | one goroutine, whose calls have timeouts of their own |
| `Template`, with `Breaker` | weak fairness of the goroutine with its client's timeout, and of the other call | as above.  Tracer and Midaz are obliged to nothing, and an open breaker may stay open |
| `AuditChain` | weak fairness of drawing an id and committing, strong fairness of getting the lock | PostgreSQL grants a lock to those that wait in their order; without that an insert may starve |
| `Tokens` | weak fairness of the call's own step and of its deadline, strong fairness of time | Go's scheduler and timers.  Calls may begin again and again before the clock moves, hence strong.  No server is obliged to answer |
| `Server` | weak fairness of time, the process, pings, probes and restarts | tickers, timeouts, and what an orchestrator does |

Where a run holds several parts, each has the fairness of its own module only.
`Requests` states fairness too (`FairSpec`), for liveness that the run of the
parts does not check: that a test ends.
That a walk ends over a collection that stays finite
follows from `CursorAdvances`, which it checks and `WalkAdvances` proves.

`EveryExecutionFinishes` speaks of executions that no crash, database error or
timeout disturbs (`Disturbed`): with each of them it fails, as
[described below](#where-code-and-documents-disagree).

## Proofs

Eight modules hold theorems; TLAPS checks every leaf.  They hold for every
number of requests, processes, documents, edges, pages and for every timing the
named assumptions allow, where the runs are small instances.

| Theorem | Property | Establishes |
|---|---|---|
| `ApiProofs!AnswersAreTrue` | `AnswersInv` | Whatever the number of clients and documents, however their calls overlap and whenever the database fails, clients are told what happened to what they asked; and a client of workflows is told 500 only for an outage or for a template that could not be built, of which nothing was stored. |
| `ServerProofs!Invariance` |  | The inductive invariant: the holder of the lock is the transaction that linked its row, the hash it read is still the last one, ids are drawn once. |
| `ServerProofs!SerialChainFollowsIds` | `SerialFollowsIds` | While at most one insert is in flight at a time, each row is linked to the one with the id before its own, over the gaps that lost inserts leave. |
| `ServerProofs!ChainIsSound` | `ChainInv` | For any number of events, connections and ids at most one row starts the chain, every row is linked to a row committed before it, and a row is stored for each committed insert, once. |
| `ApiProofs!Invariance` |  | The inductive invariant: copies in flight are legal successors of what was read, and what was read in a late status is still current. |
| `ApiProofs!TestedWereVerified` |  | Without the mark_tested command, tested, active and disabled configurations answered a full request with the stored settings, for any number of overlapping requests. |
| `ApiProofs!UnmarkedWereVerified` | `UnmarkedIsVerified` | Until the first mark_tested, a tested, active or disabled configuration answered a full request with the stored settings, in every part of the API run and however requests overlap. |
| `ApiProofs!TestedSettingsStay` | `SettingsFrozen` | The settings of a configuration that was tested never change. |
| `ApiProofs!StatusImplemented` | `ImplementsStatus` | The stored status of every configuration follows the abstract life cycle. |
| `ExecutionProofs!TypeCorrect` |  | Types of all variables, and a thread that has an entity has its status, for any requests, processes, plans and bounds, with or without recovery. |
| `ExecutionProofs!OneWriter` | `SingleWriter` | Without recovery an execution has at most one writer, whose belief about the stored status is true, and none once it is audited as finished. |
| `ExecutionProofs!Refinement` | `ImplementsLifecycle` | Without recovery the executions collection implements Lifecycle: every write of the engine moves one stored status along a legal transition. |
| `ExecutionProofs!CreatedStays` |  | Without recovery an execution reported as created is never absent or pending again. |
| `ExecutionProofs!AuditIsConsistent` | `AuditAgrees` | Without recovery the audit trail never contradicts the stored outcome. |
| `ExecutionProofs!SameKeyAnswers` | `SameKeySameExecution` | Where the unique index exists, with or without recovery, answers to requests with the same idempotency key show the same execution. |
| `ExecutionProofs!ClientsCanRely` | `ExecutionInv` | Without recovery and with the unique index: what was created stays stored, a keyed operation calls the providers from one execution, in plan order and each node at most once, and a completed execution stores every step once, its executor steps being the calls made. |
| `ExecutionProofs!StepsAreLogged` | `StepsAreALog` | Without recovery the stored steps are a log: every write keeps what was stored, and after a failed step nothing is added. |
| `ExecutionProofs!OneProcessRefinement` | `ImplementsLifecycle` | With a single process the executions collection implements Lifecycle also when recovery runs at each of its starts, over any number of crashes, expired contexts and database errors. |
| `ProviderConfigsProofs!Invariance` |  | The inductive invariant: what each request in flight has read, checked and prepared to write stays sound under the steps of all others. |
| `ProviderConfigsProofs!NodesNameTheirProvider` | `ProviderInv` | Every executor node of a stored workflow, and every call, names a configuration of its executor's own provider. |
| `ProviderConfigsProofs!CallsUseActiveSettings` | `CallsAreCovered` | A call uses settings that its configuration had, while active, since the node began. |
| `ProviderConfigsProofs!ActivationsAreChecked` | `ActivationChecked` | A workflow becomes active only if each configuration it names was active at some time since the activation was asked for. |
| `ApiProofs!SetUpIsComplete` | `SetupInv` | A set-up that reported no error left nothing missing, one that failed had duplicates or a failed call, and no unique index is there with documents it forbids, for any number of processes, documents and errors. |
| `ApiProofs!WebhookHolds` | `WebhookInv` | For any workflows, requests, keys, edits and failed writes: executions are started for active workflows only and once for a key, and a request to a webhook that meets no command is served if its workflow is active and refused if it is not. |
| `ApiProofs!CatalogHolds` | `CatalogInv` | For any configurations, clients, changes and errors: what is registered is linked, what a template offers is accepted unless something changed meanwhile, and a workflow is created with configurations of the right providers that were active while it was made. |
| `ServerProofs!ServerInvariance` |  | The inductive invariant: while it drains, the seconds left cover the failed probes that are still needed to end the routing. |
| `ServerProofs!TrafficIsSafe` | `TrafficInv` | For every timing with Threshold * Period < Grace and pings shorter than a period, a pod is routed only while its process listens; and no start, whatever fails in it, opens a connection without TLS in SaaS mode. |
| `TraversalProofs!Invariance` | `IInv` | The inductive invariant: every call on the stack is on the path once and all edges it has left behind lead to finished nodes. |
| `TraversalProofs!CompletedLeavesNothingOut` | `CompletedIsClosed` | On every graph, a completed execution visited the root and all that the edges of visited nodes, or the results of their conditions, lead to. |
| `TraversalProofs!PathIsInContext` |  | The outputs of all executors on the path to a node are in the context when it runs. |
| `TraversalProofs!NeverLeavesTheGraph` |  | A validated definition never makes the walk look for a node that is not there. |
| `TraversalProofs!NoNodeTwiceOnItsPath` |  | No node is entered while a call for it has not returned: the recursion is at most as deep as the graph has nodes. |
| `WorkflowsProofs!Invariance` | `IInv` | The inductive invariant: copies in flight are coherent, active definitions are valid, and every route of the registry is declared by an active workflow or owed to a request in flight. |
| `WorkflowsProofs!ActivesAreValid` |  | The definition of an active workflow was accepted by the validation of activation, for any number of overlapping requests, failed writes and crashes. |
| `WorkflowsProofs!NoStrayRoute` | `RoutesAreDeclared` | Without a failed write, a route that no request works on belongs to an active workflow that declares it. |
| `WorkflowsProofs!SerialRegistryHolds` | `SerialRegistry` | As long as requests come one after the other and no write fails, also over crashes and restarts, every route of an active workflow leads to it and no two declare one route, for every set of workflows that fits on the page read at start. |
| `WorkflowsProofs!StatusRefinement` | `ImplementsStatus` | The stored status of every workflow follows the state machine of the entity. |
| `WorkflowsProofs!SerialDefinitionsHold` | `SerialDefinitions` | As long as requests come one after the other, the definition of an active workflow stays, and a change of status leaves the definition alone. |
| `PartsProofs!PagesHold` | `WalkIsExact` | When the requests agree on an order or the cursor carries it, a walk over all pages returns exactly once what was left alone, for every page size, collection and number of changes. |
| `PartsProofs!CursorSeparates` |  | The cursor separates the returned documents from the others. |
| `PartsProofs!WalkAdvances` |  | Every page but the last moves the cursor past all that came before it. |
| `PartsProofs!CallsHold` | `CallsInv` | For any calls, lifetimes, configurations and changes of the server: a token is live until the call that carries it ends, unless it was issued for less than the timeout, and the verdict of a connectivity test is that of its stages, of which one fails at most, and true of a server that stayed as it was. |
| `PartsProofs!StepsHold` | `PartsAct` | Where the requests of a walk agree on an order, its cursor never goes back, and no text is compiled twice while its entry stays. |
| `PartsProofs!TokensLive` |  | For any number of calls, lifetimes, buffers and late answers, a token that was issued for at least the timeout is live when the request that carries it leaves, because the deadline of the call covers its authentication too. |
| `PartsProofs!NoTextTwice` |  | While an entry stays in the cache of compiled specifications no other is put in its place, however many executions miss it at once. |
| `PartsProofs!StagesRunTheirOwn` |  | For any executions, nodes, documents and clearings of the cache: a stage of a saved node ends with an outcome of its own specification on its own document, whoever compiled the specification. |
| `TemplateProofs!SharedBreaker` |  | Calls of one configuration share one breaker, also when they race to create it, for any calls and configurations. |
| `TemplateProofs!OwnFailuresOnly` |  | A call is refused only after failures of calls with its own configuration. |
| `TemplateProofs!FailingCallsBounded` |  | Between two open periods a failing configuration is called no more often than the threshold and the calls in flight allow. |
| `TemplateProofs!BreakersHold` | `BreakerInv` | With the one half-open request that the code asks for: one breaker for each configuration, one probe at a time, bounded failures and isolation, for any calls, thresholds and retries. |
| `TemplateProofs!ClosedByItsProbe` |  | A breaker that opened closes by the success of a call its half-open state let through, never by the late answer of an older one. |
| `TemplateProofs!CircuitImplemented` |  | Breakers that racing calls make on demand, which change their state when somebody looks and drop the results of earlier generations, implement one circuit for each configuration (closed, open, half-open, with the calls it let through and their score), for any threshold and number of half-open requests. |
| `TemplateProofs!BreakersStep` | `BreakerAct` | Both of these: a breaker closes by its own probe, and each configuration has the circuit it was promised. |
| `TemplateProofs!TransactionHolds` | `TransactionInv` | Whatever Tracer and Midaz answer and when, for every number of attempts: the transaction is booked only if it was allowed, a completed execution says what was decided and done, and a node has no more effects than attempts. |
| `PartsProofs!MappingHolds` |  | For any nodes, documents, executions and clearings of the cache, and in whatever order a shift visits its fields: each target gets what its own mapping says, no stage completes without a required field, and what was accepted with its workflow compiles. |
| `PartsProofs!ConditionsHold` |  | For formulas of any length, operands and operators: the search of the text finds the formula that was meant, AND binding stronger than OR and evaluation stopping at what decides, and an operator and its opposite never agree unless NaN is compared. |
| `PartsProofs!DataHold` | `DataInv` | Both of these in every behaviour of the parts: what is evaluated and what is sent is what the author of the workflow wrote, for expressions and mappings of any size. |

The arguments, where the invariant alone says too little:

- **`ExecutionProofs`.**  `SingleWriter` is the strengthening on which the others
  rest: for each execution at most one thread can write (the request that
  inserted it, then the goroutine it started), and what that thread believes of
  the stored status is true.  Without it a conditional write says nothing about
  who made the last change.  `OneWriter`, `Refinement`, `CreatedStays` and
  `AuditIsConsistent` assume that recovery does not run, as no code calls it;
  with recovery in a second process they are false
  (`WinnerIsNotOverwritten`).  `SameKeyAnswers` assumes nothing of recovery but
  needs the unique index.
  `ClientsCanRely` assumes both, and adds what a thread has behind it
  (`LogInv`): the steps it holds in memory are numbered up to its position and
  successful, its executor steps are the calls its execution made, and these lie
  below its position.  So the array that the last write stores is the whole
  run.  That needs `SingleWriter` too: only one thread makes those calls.
  The refinement maps a document to its status, and each of the engine's
  writes to one transition of `Lifecycle` or a stutter.
  `StepsAreLogged` adds what a thread knows of the stored steps (`StoredInv`):
  they are a prefix of its own, which are successful unless the goroutine is
  failing, and then it adds none.  `OneProcessRefinement` drops the assumption
  on recovery and assumes a single process instead (`OneProcess`).  `StageInv`
  is what survives there of the single writer: as a crash takes all threads
  with it, a thread that runs has the stored status or is about to store a
  failure, and recovery resumes with the status that it reads.
- **`WorkflowsProofs`.**  A command works on a copy, so the invariant relates
  the copy of every request in flight to what its filter will compare
  (`Coherent`), and every route to an active workflow that declares it or to a
  request that still owes its removal (`Pending`).  Routes are covered as long
  as no write has failed: a write that is applied but reported as failed leaves
  an active workflow without its routes.  `SerialRegistryHolds` is the converse
  for one administrator at a time: a request that is alone knows the stored
  status, and its activation has the routes that it has passed.  A restart reads
  every active workflow because they fit on the one page it asks for
  (`FitsOnPage`), and the listing leaves none out.  `SerialDefinitionsHold` rests
  on the same: a request that is alone writes back the definition that is
  stored, unless it is the update of a draft.
- **`ProviderConfigsProofs`, `ApiProofs`.**  Again copies: what a
  request read, checked and prepared remains legal under every step of the
  others, because providers of a configuration never change, and because a late
  status is left only by writes that name it in their filter.  The second half of
  `ApiProofs` is about the answers: `AInv` adds to `AnswersInv` that the copy of
  a call that is about to write still has the stored status or was marked
  `changed` by the write of another, that creations in flight hold different ids
  which no document has, and that a call that was told 204 has a deleted
  document, which no write matches again.  `UnmarkedWereVerified` carries the
  first half through the whole API run, with a history of marks.  Three parts of the
  API run follow, each proved in the terms of its own module and lifted to
  `ApiSpec`; their assumptions are those that TLC evaluates on the run.
  *Set-up*: each process is between the ends of its plan and what it has passed
  exists; the lists of collections and indexes are sequences
  (`SetupAssumption`).  *Webhook*: the registry has the stored version of a
  workflow exactly while it is active and while a command
  other than its deletion changes it (`Routed`),
  because an activation registers before it saves and the others unregister
  after it; and a request that has met no command since it came got in by the
  webhook of an active workflow (`OnItsWay`).  Workflows have at least one
  version (`WebhookAssumption`).  *Catalog*: what is registered so far is linked
  (`Registered`), and of a client that has met no change, the options are free
  text or exactly what is active, it chose from them, and what it passed on its
  way through the nodes was active and of the right provider (`Consults`).
  `CatalogAssumption` says that ids are no free text, and that whatever is
  registered, the executors the template calls come with their providers and
  with no other.
- **`TraversalProofs`.**  The stack is the path: each frame is on it once, the
  edges it has left behind lead to finished nodes.  When the stack is empty and
  nothing failed, the visited nodes are closed under edges.  That no node is on
  the stack twice bounds the recursion; that the walk *ends* is checked by TLC.
- **`TemplateProofs`.**  Three parts, of which the first is the breakers' own.
  `LinkInv` relates the creation of a breaker to its use: a call that has a
  breaker has the one of its configuration, whoever is about to create one holds
  the write lock and has looked again, and a breaker that nobody uses is closed.
  `CountInv` relates gobreaker's counts to the calls in flight of its
  generation, and `BlameInv` an open breaker, and every refusal, to a failure of
  a call with that configuration; the bound on failing calls comes from the
  first two.  The second part is the refinement of `Circuit`: with `LinkInv` a
  call in flight has the breaker of its configuration, so each step moves one
  circuit and leaves the others (`SameCircuit`), and a result counts exactly
  when its call is in flight.  Two facts are needed besides (`CircuitInv`): an
  unused breaker has counted nothing, so that making one does not show; and the
  requests a half-open breaker has counted are the calls in flight and the
  successes together, so that gobreaker's limit on requests is the limit of
  `Circuit`.  The refinement holds for any number of half-open requests.  The
  third part is the transaction: the walk, the decision it took
  and the effects outside are related by where each attempt is (`AttemptInv`,
  `BookInv`, `DecisionInv`), so that an effect that comes late still belongs to
  an attempt that was made.  Assumed: finitely many calls
  (`ConstantsAssumption`), and that while some configuration has no breaker
  there is an unused one (`BreakersAssumption`), both of which TLC evaluates; and
  for `BreakersHold` the one half-open request of `DefaultMaxRequests`
  (breaker.go:16), since with two a probe is not the only one.
- **`PartsProofs`.**  Each part of `MCParts` is proved in its own terms, with the
  constants of the parts free, and lifted: a behaviour of the parts is one of
  `Pagination`, one of `Tokens`, and if it is of the connectivity test one of
  `Requests` (`PartsArePages`, `PartsAreTokens`, `PartsAreTests`).
  *Pages*: the cursor separates what has been returned from what has not, in the
  order of the walk; that survives every change, since a change takes the
  document out of those the claim is about.  Assumed: the requests ask for one
  order, or the cursor carries it, and its sort value has the type of the stored
  one (`Consistent`): [where they do not](#where-code-and-documents-disagree),
  documents are missed.  *Tokens*: what a call remembers it was given
  since it began (`CacheInv`), because its provider is new; and a token that was
  issued since then ends after the deadline of the call, if it lives as long as
  the timeout (`CallInv`).  Nothing is assumed of buffer and lifetimes.  *Test*: `AgreeInv` says that while the server
  has not changed since the test began, the results so far are what the stages
  would find now, and `StageInv` how many there are at each stage; the verdict
  then follows by counting.  *Cache of specifications*: one entry for one text,
  kept because an entry is added only where the look under the write lock finds
  none.  An entry is what its text says, and whoever holds a compiled
  specification holds that of its own node (`MapInv`), so that a stage ends with
  an outcome of its own specification on its own document (`StagesRunTheirOwn`):
  sharing adds nothing to what the specification alone does.

  What it does is the second half (`MappingHolds`).  A document is a set of
  leaves of which none is above another, which every operation keeps
  (`IsDocument`).  After any number of its fields, in any order, a shift has put
  together what these fields are; the transformations that follow touch one
  target each, which is neither above nor below another's (`Clean`); so after the
  i-th operation the document is the union of what each mapping gives, with the
  transformations of those up to i.  A required field is there because a shift
  that requires fails without it, and the last mapping of a target is the one
  that the map keeps.  Assumed: nodes and documents have the types that the
  definitions name (`MappingAssumption`).

  *Conditions* (`ConditionsHold`): the text of a formula of k terms is that of
  k - 1 and of one more, and cutting it at a word yields the parts of the shorter
  text and a new part, or the last of them made longer, according to the word
  that joins the term.  Hence the parts between ORs are the texts of the runs of
  the formula, the parts of these between ANDs the texts of its terms; and in the
  text of one term the operators are tried until the one that was written is
  found, at its place.  What is left is the first part that decides, for which
  both sides take the least index.  Assumed: operands are words, or words between
  quotes, of which none is an operator or a logical word
  (`ConditionsAssumption`); where one is, the evaluator finds it
  ([below](#where-code-and-documents-disagree)).

  *Induction.*  Both are inductions over data.  The induction theorems of the
  library take an operator as a parameter, which the provers here cannot
  instantiate; `SetInduction` says the same of a *set* of numbers, and follows
  from the pigeonhole principle: were n missing from a set that contains 0 and
  every successor, the successor would be an injection of its elements below n
  into those of them that are not 0.  With it a recursive function is shown to
  exist, to be what its definition says of each step (`OutcomesAre`, `FilledIs`,
  `SplitIs`, ...), and to have what holds at its beginning and is kept by its
  steps.  So `Mapping` and `Conditions` define recursion by functions on an
  interval (`OutcomesUpTo`, `SplitUpTo`, ...).

  Of the numbers in `Tokens` and `Requests` only their types are assumed
  (`TokensAssumption`, `RequestsAssumption`).
- **`ServerProofs`.**  While draining, the seconds that are left cover the probes
  that have yet to fail.  Assumed: Threshold * Period < Grace, and a ping is
  shorter than a period.  The second half of the module is the audit chain: the
  lock's holder alone has read the last hash, and the last hash stays the last
  until it commits or is lost.  While inserts do not overlap, the one in flight
  has drawn the last id and the rows before it are linked in the order of their
  ids; nothing more can be said when they do (`NoFork` fails,
  [below](#where-code-and-documents-disagree)).

Only model-checked are the liveness properties: `AllEnd` twice, `InsertsEnd`,
`WalkEnds`, `CallsEnd` and `RoutingFollows`.  The prover
has no rules for fairness and ENABLED.  Every invariant, action property and
refinement of a passing run is stated by a theorem.

## Where code and documents disagree

Modelling the code meant reading what documents, comments and tests say of it.
Here they disagree.  In brackets is the property, in the module of the part,
that states what is said; it is false of the model, and TLC finds a
counterexample when it is added to a configuration.  Those that name a run are
checked as part of the project; the others are stated and not run.

- migrations/000001_audit_events.up.sql:45 (run `audit_fork`, `NoFork`): The id of a row is the default of a BIGSERIAL column, drawn before the BEFORE INSERT trigger takes the advisory lock, and the trigger reads the hash of the row with the highest id: when the row with the higher id commits first, the row with the lower id and the next one are linked to the same row. migrations/000001_audit_events.up.sql:39 says "This prevents concurrent inserts from reading the same previous_hash."
- internal/adapters/http/in/provider_configuration/handler.go:362 (`Answers!ServerErrorMeansOutage` with the kind "provider"): A provider configuration that does not match the schema of its provider is answered 500. The commands report it as a pkg.ValidationError with the code of ErrProviderConfigInvalidSchema (create_provider_config.go:90, update_provider_config.go:101), the handler looks for the sentinel itself with errors.Is, which that type never matches, and the error falls through to the default branch; so do a missing name and an empty configuration, and the same errors of executor configurations. The handler's documentation says "@Failure      422" (handler.go:87), and create_provider_config.go:123 calls these errors "a regular error for config validation failures (client input issue)".
- internal/services/command/create_workflow_from_template.go:64 (`Answers!ServerErrorMeansOutage` with the kind "workflow"): A creation from a template whose configuration parameter is empty is answered 500.  Format uuid (pkg/templates/tracer_midaz/template.go:219) is not asserted by the schema compiler, so the empty text passes ValidateParams; Build refuses it with an untyped error, "tracerProviderConfigId is required" (template.go:60), which the command wraps and no case of the handler knows (adapters/http/in/workflow/handler.go:443).  The documentation of the route says "@Failure      400" (handler.go:115) for what the client got wrong.
- internal/adapters/postgresql/audit/repository.go:269 (`AuditChain!VerifySucceeds`): VerifyHashChain scans previous_hash into a string, but the first row of the chain has NULL there (migrations/000001_audit_events.up.sql:48), which pgx cannot scan into a string: every verification ends in an error. docs/PROJECT_RULES.md:148 says "`VerifyAuditHashChainQuery` validates integrity".
- internal/services/command/execute_workflow.go:817 (`Breaker`, whose calls share `ConfigOf`): callRunnerWithInput names the breaker by the id of the provider configuration, so all executors that use one configuration share a breaker and the failures of one refuse the others. pkg/circuitbreaker/breaker.go:5 says "Package circuitbreaker provides a per-executor circuit breaker manager."
- pkg/condition/evaluator.go:149 (`Conditions!NeverPanics`): splitLogical does not know quotes: the condition s == " AND " is cut into two parts that end and begin with a lone quote, and resolveValue slices such a part as expr[1:0], which panics; the goroutine of the execution has no recover, so the process ends. The same line is commented "// Quoted string literal" (pkg/condition/evaluator.go:146), and Evaluate is declared to return an error.
- pkg/condition/evaluator.go:267 (`Conditions!TextEqualsItself`): toFloat64 parses every text, and ParseFloat accepts "nan" in any case: a field that holds the name Nan is not equal to 'Nan' nor to itself. pkg/condition/evaluator.go:128 says "// String comparison for == and !=", and pkg/condition/evaluator_test.go:89 expects "string equal true" for a field that holds the quoted text.
- internal/adapters/mongodb/executor_configuration/repository.go:222 (`ExecutorConfigs!UpdatesStay`): The filter of Update compares the status only and $set writes every field: an update that was answered between the read and the write of another command (another update, MarkConfigured) is undone, since both leave the status as the filter expects it. internal/adapters/mongodb/executor_configuration/repository.go:220 says "expectedStatus is included in the filter to prevent race conditions (atomic check-and-set)."
- internal/bootstrap/config.go:176 (`Execution!SameKeySameExecution` with Indexed = FALSE): InitServers connects to MongoDB and goes on to wire the repositories; nothing in the program calls IndexManager.CreateIndexes (only tests/integration/main_test.go:90 and tests/e2e/main_test.go:101 do), so the unique index on idempotencyKey is missing and two concurrent requests with one key both insert and run. internal/services/command/execute_workflow.go:175-176 says "If a concurrent request already inserted the same idempotency key, the unique index will reject the insert."; internal/bootstrap/indexes.go:43 says "CreateIndexes creates all required indexes for Flowker collections".
- internal/services/command/execute_workflow.go:295 (`Execution!FinalStateIsStored`): runStateMachine passes the five-minute context to persistBestEffort; when the execution failed because that context expired, the write fails too and the document stays running for ever, while the FAILED audit event is recorded. execute_workflow.go:292-294 says "Always persist the final state — inner handlers may have called MarkFailed without a subsequent Update, so the DB could still show "running" even though the in-memory status is "failed"."
- internal/services/execution_service.go:64 (`Execution!InterruptedAreRecovered`): No code calls RecoverIncompleteExecutions, so an execution that a crash or a restart interrupts stays pending or running for ever. execution_service.go:63 says "RecoverIncompleteExecutions recovers executions interrupted by restart."
- internal/services/command/execute_workflow.go:1094 (`Execution!StateMachineIsRunning`): RecoverIncompleteExecutions also starts the state machine of executions found pending, without MarkRunning: MarkCompleted is then refused, and the first stored step is taken for a conflict. execute_workflow.go:243 says "Execution is already in "running" state (set by Execute before goroutine launch)." (The operation has no caller in the program; the property shows what calling it at start would do.)
- internal/services/command/execute_workflow.go:549 (`Execution!WinnerIsNotOverwritten`): A failed step is written with persistBestEffort, whose filter has no expected status, while the in-memory status is still running: a stale worker puts running over the terminal status another worker stored. execute_workflow.go:276-278 says "another worker already owns this execution's state. Bail out immediately — do NOT call persistBestEffort which would overwrite the winner's state with empty expectedStatus." (A second worker exists only if recovery is called in another process.)
- internal/services/command/execute_workflow.go:1094 (`Execution!NoStepIsStoredTwice`): A recovered execution starts again at the trigger node and keeps its stored steps: completed steps are executed and appended a second time. execute_workflow.go:1053 says "RecoverIncompleteExecutions resumes executions that were interrupted."
- internal/adapters/http/in/execution/handler.go:126 (`Execution!ReplayIs200`): The handler answers 200 only when the execution is terminal, so a replay of a running execution is answered 201. handler.go:82 says "@Success 200 {object} model.ExecutionCreateOutput "Idempotent request"".
- internal/services/command/execute_workflow.go:219 (`Execution!CreatedIsReturnedPending`): Execute marks the execution running before it takes the snapshot it returns. execute_workflow.go:115 says "Returns immediately with the execution in pending status." and handler.go:74 "Starts a new workflow execution. Returns immediately with pending status."
- pkg/transformation/mapper.go:46 (`Mapping!OptionalMayBeMissing`): BuildKazaamSpec puts every mapping of a node into one shift and requires all of its paths as soon as one mapping is required: the node fails for a field that is optional and missing. pkg/model/workflow_node.go:67 says of the flag of one mapping "If true, source must exist".
- pkg/model/workflow_validation.go:174 (`Mapping!AcceptedIsComplete`): Validation compiles the specification only, and compiling looks at the names of operations: a custom transform without the field it needs fails every run, and one without a spec dereferences nil in the goroutine of the execution, which nothing recovers. pkg/transformation/mapper.go:135 says "ValidateOperations validates that Kazaam operations form a valid transformation spec".
- internal/services/command/activate_workflow.go:126 (`ProviderConfigs!ActivatedWhileActive`): The configurations are read one by one and the workflow is written afterwards with a filter on its own status only: a configuration that is disabled or deleted in between leaves an active workflow that names it. internal/services/command/activate_workflow.go:78 says "Validates that all referenced provider configurations exist and are active."
- internal/bootstrap/config.go:889 (`Pagination!NothingMissed` with First and Following that sort by created_at): populateWebhookRegistry sorts by "created_at", which mapSortField turns into createdAt but ParseSortValue leaves a string: from the second page on a string is compared with BSON dates and nothing matches, so only the first 100 active workflows get their webhook routes. config.go:872 says "It paginates through all pages to ensure no workflows are missed."
- internal/adapters/mongodb/workflow/repository.go:116 (`Pagination!NothingMissed` with a Following that differs from First): List takes the sort field and direction from the request and ignores those in the cursor; with the cursor alone the handler's defaults apply and documents are skipped. docs/PROJECT_RULES.md:575 says "The cursor contains all information needed to resume pagination consistently" and its usage (line 605) sends the cursor alone.
- internal/services/command/execute_workflow.go:702 (`Requests!CallsCarryTheKey`): buildAuthConfig returns nil unless the configuration has auth_type, a field that the schema of Tracer does not mention and nothing sets: the call of an execution leaves without the key. pkg/executors/tracer/provider.go:60 says "Authentication uses API Key via the X-API-Key header, which is the primary auth method".
- internal/services/command/test_provider_config_connectivity.go:368 (`Requests!SkippedHasNone`): runAuthenticationTest looks for api_key and headers only, while the credentials of a Midaz configuration are in its auth block: the stage is skipped, and where the base URL is open the overall result is passed, whatever the credentials are worth. internal/services/command/test_provider_config_connectivity.go:371 reports "No authentication credentials configured".
- internal/services/command/test_provider_config_connectivity.go:400 (`Requests!TestedAsUsed`): The test sends api_key as "Authorization: Bearer", the executions and Tracer use X-API-Key: a configuration that works is reported as rejected. pkg/executors/tracer/provider.go:74 says "API key for authenticating with Tracer via X-API-Key header".
- internal/bootstrap/http_server.go:50 (`Server!DependenciesClosed`): GracefulShutdownConfig.OnShutdown is nil and nothing calls Disconnect of either database manager: the process exits with its pools open. docs/readyz-guide.md:250 says "**Dependencies closed** (MongoDB, PostgreSQL connections)" before "**Process exits**".
- internal/services/command/execute_workflow.go:757 (`Template!OneTransaction`): executeRunnerWithRetry sends a request again after any error of the runner, a lost answer included, and the request to Midaz carries nothing by which the retry could be told from a second transaction: up to five are booked by one execution. pkg/templates/tracer_midaz/template.go:34 says "creates a transaction in Midaz if approved".
- internal/services/command/execute_workflow.go:797 (`Template!AttemptFailed`, which does not tell a rejection from another failure): isNonRetryableError knows two texts of errors; a 4xx, which the runner reports as "http request failed with status N", is not one of them and is sent five times. The comment at internal/services/command/execute_workflow.go:768-770 says it does not retry on "errors that indicate permanent failures (missing runner, validation errors) rather than transient network issues".
- pkg/executors/http/runner.go:176 (`Tokens!NoNeedlessGrant`): applyAuth calls auth.NewFromConfig on every request, and each OIDC provider makes a TokenFetcher and a DiscoveryClient with empty caches: every call of a Midaz executor costs a discovery and a grant. pkg/executors/http/auth/token_fetcher.go:43 says "TokenFetcher fetches and caches OAuth2 tokens.", and the schema of the configuration offers "Enable token caching" (pkg/executors/http/http.go:196).
- internal/services/command/execute_workflow.go:169 (`Traversal!StepsWithinTotal`): totalSteps counts the nodes of the definition, but traverseNode visits a node once for every path that leads to it: where paths join, the node and all that follows it run again, and currentStepNumber exceeds totalSteps. pkg/model/execution.go:348 says "TotalSteps returns the total number of steps." (internal/services/command/execute_workflow.go:335 calls joins "valid DAG merges (diamond patterns)".)
- internal/services/command/execute_workflow.go:251 (`Traversal!EntryIsEntered`): Every trigger of an active workflow gets its webhook route, but the state machine always starts at the first trigger of the definition: a call through another trigger's webhook never visits that trigger nor what only it leads to. pkg/model/workflow_node.go:26 says "NodeTypeTrigger indicates an entry point of the workflow."
- internal/services/command/execute_workflow.go:393 (`Traversal!ConditionsAreMet`): The condition of an edge is validated, stored and returned but no code evaluates it: the edge is always followed. pkg/model/workflow_edge.go:97 says "Condition returns the optional condition for edge traversal."
- internal/services/command/execute_workflow.go:1118 (`Webhook!AnswerIsItsWorkflows`): Keys of idempotency are looked up without the workflow: a request to one webhook with a key that was used at another starts nothing and is answered with the other workflow's execution, under a header that names its own. internal/adapters/http/in/webhook/handler.go:65 says the handler "resolves the request method+path against the registry and triggers" the workflow that belongs to them.
- internal/services/command/execute_workflow.go:1120 (`Webhook!DuplicateIsRefused`): Execute returns the execution that has the key, so the handler answers 200 or 201; 409 is left for a lookup that fails after the insert was refused. internal/adapters/http/in/webhook/handler.go:93 says "@Failure      409  {object} api.ErrorResponse  "Duplicate idempotency key"".
- internal/services/command/activate_workflow.go:216 (run `workflow_unrouted`, `Workflows!ActiveIsRouted`): When Register finds the key taken, registerWebhookRoutes calls Unregister(workflowID), which removes every route of that workflow, also the one a concurrent activation of the same workflow has just registered: the workflow becomes active with no route. registry.go:27-30 says "It is used to dynamically register and unregister webhook endpoints as workflows are activated and deactivated." and activate_workflow.go:214-215 "Unregister any routes we just registered for this workflow so we leave no partial state."
- internal/services/command/activate_workflow.go:216 (`Workflows!RoutesAreExclusive`): Once the route of an active workflow was removed by a failing second activation, another workflow with the same route activates without an error. activate_workflow.go:139-140 says "If the webhook path is already taken by another active workflow, fail the activation with a clear error."
- internal/bootstrap/config.go:889 (`Workflows!ActiveIsRouted` with more active workflows than PageSize): The consequence of the empty second page for the program: with more active workflows than one page holds, a restart leaves some of them without routes and their webhooks answer 404. config.go:870-871 says "populateWebhookRegistry loads all active workflows from the database and populates the webhook registry with any webhook trigger routes."
- internal/adapters/mongodb/workflow/repository.go:221 (`Workflows!EditedInDraftOnly`): Update filters on the status only and sets every field: a deactivation that read the workflow in an earlier active period writes the definition of that period over the one that is active now. workflow.go:22 says "WorkflowStatusActive indicates a workflow that is executable but not editable."
- internal/adapters/mongodb/workflow/repository.go:228 (run `workflow_lost_update`, `Workflows!StatusChangeKeepsDefinition`): An update of a draft that was accepted between the read and the write of an activation is overwritten by the definition the activation had read, since both leave the status as the filter expects it. repository.go:219 says "expectedStatus is included in the filter to prevent race conditions (atomic check-and-set)."

Less than a disagreement, but met while modelling the API and worth knowing:

- Deactivating or disabling may be answered 409 for a duplicate name: the command
  writes back the name it read, which another document may have taken since a
  rename (`Answers!Write`).
- validateProviderConfigs (create_workflow.go:129-194) reports a fault of the
  database as a configuration that is not found: 400 (`Catalog!CheckNode`).
- The format of a template's parameters (uuid) is not asserted by the schema
  compiler: a text that is no id passes the validation and is refused by the
  creation (`Catalog!Refusal`); an empty one is answered 500
  (`Answers!ServerErrorMeansOutage`).
- The set-up of collections and indexes is called by tests/integration/main_test.go:90
  and tests/e2e/main_test.go:101 only.

## What is not modelled

| Part | Why |
|---|---|
| Transformation of data (partly modelled) | The specification built from mappings, its validation with the workflow, the shared cache of compiled specifications and what they do to a document. Kazaam's own operations other than shift, and arrays, are left out. |
| Catalog of executors, providers, triggers and templates (partly modelled) | The registration of providers with their executors at the start, and the way of a client from the template to the workflow, while configurations change. Triggers and templates are registered once each, by constants; the reads of the handler other than the one of a template return what was registered, and the schemas of executors are data without state. |
| Schemas and requests of the Midaz, Tracer, S3 and HTTP executors | JSON schemas as text and the building of URLs and bodies from them: data without state. Their credentials are in module Requests, their effects in module Template. |
| Authentication of clients | A pure decision per request between two middlewares, made from constants of the configuration; the plugin's decision is a library's. The order in which Fiber runs the guards of groups with one prefix is external. |
| Dashboard | One aggregation per request, without state of its own; its totals are sums over one cursor. |
| Search and reading of the audit log | Filters and output of rows that are never changed; the verification of the chain is in AuditChain. |
| Queries | Reads of one document or one page. The pages are in module Pagination, what a read of an execution may show in module Execution. |
| Documents and outputs | Copies between entities, BSON and JSON, field by field. |
| Middlewares for client address and fault injection | The first sets a value of the request's context; the second is for tests and is not wired. |
| Metrics, logging, telemetry and API documentation | Observed and never read by the program, or generated. |
| Utilities | Environment variables, formats and clocks. |
| Requests to providers: runner input and connectivity test (partly modelled) | The credentials that an execution and the connectivity test of a provider configuration send, and the test's stages with its verdict against a server that may change between them. URLs, bodies, path parameters and durations are left out, and the resolution of the address is one outcome of Refuse. |
| Process lifecycle: start, probes, drain and shutdown (partly modelled) | The stages of InitServers that can fail and their order, the self-probe, /readyz with its parallel pings, /health, the signal handler with its drain period, against an orchestrator that probes, routes and restarts. Left out: the metrics of the probes, the logger, telemetry, what the components are wired from, and what the server manager of lib-commons does with the same signals. |
| HTTP runner and its authentication (partly modelled) | One call of the runner under its deadline, with the provider it builds, the discovery, refresh and grant and the caches of that provider, for concurrent calls. Static credentials (api_key, bearer, basic), which take no step of their own, the building of URL, headers and body, and the schema of http.go are left out. InvalidateCache of both caches has no caller. |
| Webhook endpoint (partly modelled) | Both handlers that start executions, with their order of refusals, the command Execute as they see it, and the commands that change routes and statuses under it, one at a time. The input given to the workflow (body, headers, query) is left out. |

Hazards that no property of a run covers yet:

- `internal/adapters/postgresql/audit/repository.go:269`: The verification of the first row of the chain, which has no previous hash. The operator Verify models the check and VerifySucceeds states what it should find; the first row alone makes it fail, so no run checks it (see the README).
- `internal/services/command/record_audit_event.go:114`: Two events of one execution are recorded by two goroutines: EXECUTION_COMPLETED may get a lower id than EXECUTION_STARTED. Nothing in the code or the documents promises the order of recording; the model lets events be inserted in any order.
- `internal/adapters/postgresql/audit/repository.go:160`: A walk over the audit log by ascending id passes an id whose transaction has not committed yet and never sees its row. The walk of Pagination has the same shape; the log is not walked while it grows in any documented use.
- `pkg/condition/evaluator.go:149`: A panic of the evaluator runs in the goroutine of an execution and ends the process with every other execution in it. It does go wrong: a quoted operand that holds a logical word is cut into lone quotes, and resolving one panics. Conditions!NeverPanics states that it must not and is false of the code; no run checks it.
- `pkg/transformation/service.go:128`: The cache keeps one entry for every specification ever run and nothing clears it: edits of workflows leave theirs behind. Growth over the life of the process, with a bound in the model for TLC's sake only.
- `internal/services/command/execute_workflow.go:222`: The goroutine keeps the context of its request, without its cancellation, after the request was answered; fasthttp reuses that object for other requests, whose values the goroutine may then read. The engine takes loggers and tracers from that context, and the audit writer the client address; none of them decides a step. What fasthttp does with the object is outside the source.
- `pkg/webhook/registry.go:37`: Each process has a registry of its own: a workflow activated through one replica has no route in the others until they restart, and one deactivated there stays routed here. Modules Workflows and Webhook have one process. The handler reads the status of the workflow, so that a stale route starts nothing; a missing one is refused with 404 until the restart.
- `internal/services/command/execute_workflow.go:222`: A panic in the goroutine of an execution is not recovered: the middleware covers handlers only, and the process ends with all other executions. Where such a panic comes from is modelled (Conditions!NeverPanics, Mapping!AcceptedIsComplete); the end of the process is the crash of Execution at any moment, from which recovery is checked.
- `internal/adapters/mongodb/execution/repository.go:325`: Sorting executions by completedAt with unfinished ones: the cursor of an unfinished execution has no time and the next page drops the other unfinished ones. The code declares it unsupported (repository.go:350-353); the model leaves documents without the sort value out.
- `internal/services/command/execute_workflow.go:702`: Three places read one configuration, the schema, the runner input and the test, and each has its own idea of where the credentials are. They do disagree: CallsCarryTheKey, TestedAsUsed and SkippedHasNone of Requests state what they should agree on and are false of the code; no run checks them.
- `internal/services/command/test_provider_config_connectivity.go:284`: A provider that does not answer holds the request of the operator for the timeout of the stage. Requests!TestEnds states it under Requests!FairSpec; no run checks it.
- `internal/services/command/test_provider_config_connectivity.go:195`: Of the two URLs of a Midaz configuration only the first, of onboarding, is tested. The model has one server for a configuration; the second URL is never requested by the test, so there is nothing to check.
- `internal/services/command/execute_workflow.go:730`: buildAuthConfig copies token_url, client_id and client_secret, while the OIDC providers require issuer_url: an auth_type of that kind never works through a provider configuration. No registered provider uses it: Midaz has a builder of its own.
- `internal/bootstrap/http_server.go:56`: StartWithGracefulShutdown of lib-commons is given the same application; if its manager handles SIGTERM as well, the listener closes at once and the drain period is lost. The comment above the call says that it does not. The library is not part of the repository; the model takes the comment's word and leaves its handler out.
- `internal/services/command/execute_workflow.go:797`: A permanent rejection is not told from a transient failure, because the kind of an error is found in its text. A rejection is retried as any failure is (AttemptFailed); the texts of errors are below the abstraction.
- `pkg/templates/tracer_midaz/template.go:156`: The template writes its mappings as []map[string]any, which parseFieldMappings does not recognise before the document has been through MongoDB: they are validated at activation and not at creation. Creation and activation are in module Workflows, where a definition is valid or not; the type that a mapping has in memory is below that abstraction.
- `pkg/executors/http/runner.go:158`: setupHTTPClient writes Timeout and Transport of a client it is given; concurrent calls that share one would race. No caller injects a client: ExecutionInput.HTTPClient is nil outside the tests, so each call makes its own.
- `internal/services/command/execute_workflow.go:169`: The number of steps is announced before the walk, from the definition, while the walk repeats what several paths share. The number is announced and never compared; it is not the number of steps where paths join (StepsWithinTotal of Traversal, see the README).
- `internal/services/command/execute_workflow.go:583`: Outputs are stored under the id of their node, in the map that also holds "workflow" and "output": a node with one of these ids overwrites the input or becomes the output. Ids are opaque in the model; the collision is a matter of the validation of names, which the code does not have.

## Plan

Done, in this order, the parts that decide whether money moves twice first:
the engine with its proofs, workflows and registry, pagination (which start-up
rests on), the audit chain, breakers, executor and provider configurations,
traversal, the process, tokens, conditions, requests, transformation, the
webhook endpoint, the template, and what the process offers around them: the
answers of the management API, the catalog, the set-up of the database.  Then
the proofs of all safety properties of the runs, with the refinement of the
engine also under recovery in one process, then what expressions and mappings
mean, by induction over them, and last the refinement of the circuits.

Next:

1. `Webhook`: several processes, each with its own registry.
2. `Template`: what a promise per booking would need (a key that Midaz
   compares).
3. A composition of `Execution` with `Breaker`, so that the retries of several
   executions meet the breaker they share under the five-minute limit.
4. `Mapping`: the operations of Kazaam that flows use besides shift, arrays.
