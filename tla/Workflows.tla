------------------------------ MODULE Workflows ------------------------------
(***************************************************************************)
(* The life of workflow definitions: the commands on workflows             *)
(* (internal/services/command/*_workflow.go) over the workflows collection *)
(* of MongoDB and the in-memory webhook registry (pkg/webhook).            *)
(*                                                                         *)
(* A command reads the document, decides on its copy, and writes the whole *)
(* copy back if the stored status is still the one it read.  A slot of     *)
(* Calls is one request in flight; between two of its steps other requests *)
(* run.                                                                    *)
(*                                                                         *)
(* A definition is a model value: what matters of it is the sequence of    *)
(* its webhook triggers and whether activation accepts it.                 *)
(***************************************************************************)
EXTENDS Naturals, Sequences, FiniteSets

CONSTANTS
  Workflows,     \* workflow ids
  Calls,         \* requests that are in flight at the same time
  Definitions,   \* nodes and edges a workflow may have
  Valid,         \* the definitions that ValidateWorkflowStructure accepts
  Keys,          \* "METHOD /path"
  RouteKey,      \* the key of each method and path written in a trigger
  Routes,        \* Routes[d]: method and path of the webhook triggers of d
  Free,          \* no workflow holds the key
  PageSize,      \* workflows on a page of the listing at start (100)
  MaxFaults,     \* bound: MongoDB operations that report an error
  MaxCrashes     \* bound: process crashes

ASSUME ConstantsAssumption ==
  /\ Workflows # {}
  /\ Free \notin Workflows
  /\ Valid \subseteq Definitions
  /\ Definitions # {}
  /\ Routes \in [Definitions -> Seq(DOMAIN RouteKey)]
  /\ RouteKey \in [DOMAIN RouteKey -> Keys]
  /\ PageSize \in Nat \ {0}
  /\ MaxFaults \in Nat
  /\ MaxCrashes \in Nat

VARIABLES
  db,          \* the workflows collection
  registry,    \* registry[k]: the workflow whose route has key k
  call,        \* call[c]: the request in slot c and its copy of the document
  up,          \* is the process running?
  faults,      \* database errors so far
  crashes      \* crashes so far

vars == <<db, registry, call, up, faults, crashes>>

-----------------------------------------------------------------------------
(* Data *)

Statuses == {"absent", "draft", "active", "inactive", "deleted"}

Docs == [status : Statuses, def : Definitions]

Operations == {"activate", "deactivate", "moveToDraft", "update", "delete"}

\* expected is the status that was read; doc is what will be written.
CallRecords ==
  [pc : {"idle", "register", "save", "unregister"}, op : Operations,
   w : Workflows, expected : Statuses, doc : Docs, pos : Nat \ {0}]

TypeOK ==
  /\ db \in [Workflows -> Docs]
  /\ registry \in [Keys -> Workflows \cup {Free}]
  /\ call \in [Calls -> CallRecords]
  /\ up \in BOOLEAN
  /\ faults \in 0..MaxFaults
  /\ crashes \in 0..MaxCrashes

\* A slot without a request, and the definition of a document that is absent.
AnyDefinition == CHOOSE d \in Definitions : TRUE

NoDoc == [status |-> "absent", def |-> AnyDefinition]

Idle == [pc |-> "idle", op |-> "update", w |-> CHOOSE w \in Workflows : TRUE,
         expected |-> "absent", doc |-> NoDoc, pos |-> 1]

KeysOf(d) == {RouteKey[Routes[d][i]] : i \in DOMAIN Routes[d]}

Stored(w) == db[w].status \notin {"absent", "deleted"}

-----------------------------------------------------------------------------
(* The entity: which transitions it allows *)

\* Mutant: active workflows may be updated.
UpdateWhileActive ==
  {<<"activate", "draft", "active">>, <<"deactivate", "active", "inactive">>,
   <<"moveToDraft", "inactive", "draft">>, <<"update", "draft", "draft">>,
   <<"update", "active", "active">>,
   <<"delete", "draft", "deleted">>, <<"delete", "inactive", "deleted">>}

\* Operation, status it requires, status it leaves.
Transitions ==
  {<<"activate", "draft", "active">>, <<"deactivate", "active", "inactive">>,
   <<"moveToDraft", "inactive", "draft">>, <<"update", "draft", "draft">>,
   <<"delete", "draft", "deleted">>, <<"delete", "inactive", "deleted">>}

\* Only activation validates the definition that is stored.
Accepts(op, d) == op = "activate" => d \in Valid

\* Mutant: moving back to draft starts from an empty definition.
ForgetOnDraft(op, w, input) ==
  CASE op = "update" -> input [] op = "moveToDraft" -> AnyDefinition
    [] OTHER -> db[w].def

\* The definition the copy has: Update replaces it, the others keep it.
DefinitionAfter(op, w, input) == IF op = "update" THEN input ELSE db[w].def

\* Mutant: the stored status is not compared.
AnyMatches(w, expected) == Stored(w)

\* The filter of Update and Delete.
Matches(w, expected) == db[w].status = expected

-----------------------------------------------------------------------------
(* The registry *)

\* Mutant: a route replaces the one with the same key.
NeverTaken(k) == FALSE

\* Register refuses a key that has a route, whichever workflow's it is.
Taken(k) == registry[k] # Free

Unregister(w) ==
  registry' = [k \in Keys |-> IF registry[k] = w THEN Free ELSE registry[k]]

\* PopulateRegistryFromWorkflows: active workflows in the order of the list;
\* a key that is taken is skipped.
FirstWith(order, k, w) ==
  \/ \E i \in DOMAIN order :
       /\ w = order[i]
       /\ k \in KeysOf(db[w].def)
       /\ \A j \in 1..i - 1 : k \notin KeysOf(db[order[j]].def)
  \/ w = Free /\ \A i \in DOMAIN order : k \notin KeysOf(db[order[i]].def)

\* Mutant: the registry is not populated.
PopulateNothing(order) == UNCHANGED registry

PopulateFrom(order) ==
  registry' \in {r \in [Keys -> Workflows \cup {Free}] :
                  \A k \in Keys : FirstWith(order, k, r[k])}

ActiveWorkflows == {w \in Workflows : db[w].status = "active"}

\* What the listing at start returns: its second page is empty, whatever is
\* stored (module Pagination, whose cursors by created_at lead nowhere).
FirstPages ==
  {S \in SUBSET ActiveWorkflows :
     Cardinality(S) = IF Cardinality(ActiveWorkflows) > PageSize THEN PageSize
                      ELSE Cardinality(ActiveWorkflows)}

\* The orders of a page.
Listings(S) == {s \in [1..Cardinality(S) -> S] :
                  \A i, j \in DOMAIN s : s[i] = s[j] => i = j}

-----------------------------------------------------------------------------
(* The commands *)

Fault == faults < MaxFaults /\ faults' = faults + 1

Become(c, pc) ==
  call' = [call EXCEPT ![c] = IF pc = "idle" THEN Idle ELSE [@ EXCEPT !.pc = pc]]

\* CreateWorkflowCommand, from a request or a template: one insert.
Create(w, d) ==
  /\ up
  /\ db[w].status = "absent"
  /\ db' = [db EXCEPT ![w] = [status |-> "draft", def |-> d]]
  /\ UNCHANGED <<registry, call, up, faults, crashes>>

\* CloneWorkflowCommand: the insert of a copy of a stored definition.
Clone(w, original) == Stored(original) /\ Create(w, db[original].def)

\* A command reads the document and changes its copy; a missing document, a
\* status that does not allow the operation or a definition that is refused
\* ends it here.
Load(c, op, w, input) ==
  /\ up
  /\ call[c].pc = "idle"
  /\ Accepts(op, db[w].def)
  /\ \E to \in Statuses :
       /\ <<op, db[w].status, to>> \in Transitions
       /\ call' = [call EXCEPT ![c] =
            [pc |-> IF op = "activate" THEN "register" ELSE "save",
             op |-> op, w |-> w, expected |-> db[w].status,
             doc |-> [status |-> to, def |-> DefinitionAfter(op, w, input)],
             pos |-> 1]]
  /\ UNCHANGED <<db, registry, up, faults, crashes>>

\* registerWebhookRoutes: one critical section per route; a key that is
\* taken, also by the same workflow, makes the activation fail.
Register(c) ==
  LET routes == Routes[call[c].doc.def]
      k      == RouteKey[routes[call[c].pos]] IN
  /\ call[c].pc = "register"
  /\ \/ /\ call[c].pos > Len(routes)
        /\ Become(c, "save")
        /\ UNCHANGED registry
     \/ /\ call[c].pos <= Len(routes)
        /\ ~Taken(k)
        /\ registry' = [registry EXCEPT ![k] = call[c].w]
        /\ call' = [call EXCEPT ![c].pos = @ + 1]
     \/ /\ call[c].pos <= Len(routes)
        /\ Taken(k)
        /\ Become(c, "unregister")
        /\ UNCHANGED registry
  /\ UNCHANGED <<db, up, faults, crashes>>

\* Mutant: a failed activation keeps its routes.
NoRollback(op, saved) ==
  IF op \in {"deactivate", "delete"} /\ saved THEN "unregister" ELSE "idle"

\* Mutant: only a failed activation and a deletion remove routes.
StaysRouted(op, saved) ==
  IF \/ op = "activate" /\ ~saved
     \/ op = "delete" /\ saved
  THEN "unregister" ELSE "idle"

\* Where a command goes after its write.
AfterSave(op, saved) ==
  IF \/ op = "activate" /\ ~saved
     \/ op \in {"deactivate", "delete"} /\ saved
  THEN "unregister" ELSE "idle"

\* Mutant: a change of status sets the status only.
WriteStatus(c) ==
  db' = [db EXCEPT ![call[c].w] =
           IF call[c].op = "update" THEN call[c].doc
           ELSE [@ EXCEPT !.status = call[c].doc.status]]

Write(c) == db' = [db EXCEPT ![call[c].w] = call[c].doc]

\* Update or Delete with the status that was read; an error leaves it
\* unknown whether the write happened.
Save(c) ==
  /\ call[c].pc = "save"
  /\ \/ /\ Matches(call[c].w, call[c].expected)
        /\ Write(c)
        /\ Become(c, AfterSave(call[c].op, TRUE))
        /\ UNCHANGED faults
     \/ /\ ~Matches(call[c].w, call[c].expected)
        /\ Become(c, AfterSave(call[c].op, FALSE))
        /\ UNCHANGED <<db, faults>>
     \/ /\ Fault
        /\ UNCHANGED db \/ (Matches(call[c].w, call[c].expected) /\ Write(c))
        /\ Become(c, AfterSave(call[c].op, FALSE))
  /\ UNCHANGED <<registry, up, crashes>>

\* The routes of the workflow are removed, whichever call put them there.
UnregisterRoutes(c) ==
  /\ call[c].pc = "unregister"
  /\ Unregister(call[c].w)
  /\ Become(c, "idle")
  /\ UNCHANGED <<db, up, faults, crashes>>

-----------------------------------------------------------------------------
(* Crash and start *)

Crash ==
  /\ up
  /\ crashes < MaxCrashes
  /\ crashes' = crashes + 1
  /\ up' = FALSE
  /\ registry' = [k \in Keys |-> Free]
  /\ call' = [c \in Calls |-> Idle]
  /\ UNCHANGED <<db, faults>>

\* populateWebhookRegistry, before requests are served; when the page cannot
\* be read there are no routes.
Start ==
  /\ ~up
  /\ up' = TRUE
  /\ \E S \in FirstPages \cup {{}} :
       /\ \E order \in Listings(S) : PopulateFrom(order)
       /\ \/ S \in FirstPages /\ UNCHANGED faults
          \/ S = {} /\ Fault
  /\ UNCHANGED <<db, call, crashes>>

-----------------------------------------------------------------------------
(* The specification *)

Init ==
  /\ db = [w \in Workflows |-> NoDoc]
  /\ registry = [k \in Keys |-> Free]
  /\ call = [c \in Calls |-> Idle]
  /\ up = TRUE
  /\ faults = 0
  /\ crashes = 0

Command(c) == Register(c) \/ Save(c) \/ UnregisterRoutes(c)

Next ==
  \/ \E w \in Workflows, d \in Definitions : Create(w, d)
  \/ \E w, v \in Workflows : Clone(w, v)
  \/ \E c \in Calls, op \in Operations, w \in Workflows, d \in Definitions :
       Load(c, op, w, d)
  \/ \E c \in Calls : Command(c)
  \/ Crash \/ Start

Spec == Init /\ [][Next]_vars

-----------------------------------------------------------------------------
(* Properties *)

\* The stored status moves as module WorkflowStatus says, whatever requests
\* overlap and whichever writes fail (repository.go:218-283 of the workflow
\* repository).
StoredStatus == [w \in Workflows |-> db[w].status]

Abstract == INSTANCE WorkflowStatus WITH status <- StoredStatus

ImplementsStatus == Abstract!Spec

\* The definition that an active workflow has was validated for activation,
\* also when it was edited while the activation was under way
\* (activate_workflow.go:103-107).
ActiveIsValid == \A w \in ActiveWorkflows : db[w].def \in Valid

\* No request is in flight that works on w.
Quiet(w) == \A c \in Calls : call[c].pc # "idle" => call[c].w # w

\* As long as no write reports an error, what is left in the registry when
\* the requests on a workflow have ended are routes that the workflow
\* declares, and it is active: nothing resolves to a draft or a deleted
\* workflow (activate_workflow.go:139-157, deactivate_workflow.go:108-114).
RoutesAreDeclared ==
  \A k \in Keys : LET w == registry[k] IN
    w # Free /\ Quiet(w) /\ faults = 0
      => db[w].status = "active" /\ k \in KeysOf(db[w].def)

\* Where a route of the registry comes from: its workflow is active and
\* declares it, or a request in flight will remove it or store its workflow
\* as active.
Declared(w, k) == db[w].status = "active" /\ k \in KeysOf(db[w].def)

Pending(w, k) == \E c \in Calls :
  /\ call[c].w = w
  /\ \/ call[c].pc = "unregister"
     \/ /\ call[c].pc \in {"register", "save"}
        /\ call[c].op = "activate"
        /\ \E i \in 1..call[c].pos - 1 :
             /\ i \in DOMAIN Routes[call[c].doc.def]
             /\ k = RouteKey[Routes[call[c].doc.def][i]]

\* What the copy of a request that is in flight satisfies.
Coherent(r) ==
  /\ r.pc \in {"register", "save"} =>
       <<r.op, r.expected, r.doc.status>> \in Transitions
  /\ r.pc = "register" => r.op = "activate"
  /\ r.pc \in {"register", "save"} /\ r.op = "activate" => r.doc.def \in Valid

\* The inductive invariant.
IInv ==
  /\ TypeOK
  /\ \A c \in Calls : Coherent(call[c])
  /\ ActiveIsValid
  /\ faults = 0 => \A k \in Keys, w \in Workflows :
       registry[k] = w => Declared(w, k) \/ Pending(w, k)

\* When the requests on an active workflow have ended, its routes resolve to
\* it (registry.go:27-30: "dynamically register and unregister webhook
\* endpoints as workflows are activated and deactivated").  Of two activations
\* of one workflow the second is refused its route and removes the first's
\* (activate_workflow.go:213-217).
ActiveIsRouted ==
  up => \A w \in ActiveWorkflows :
    Quiet(w) => \A k \in KeysOf(db[w].def) : registry[k] = w

\* Two active workflows never declare the same route (activate_workflow.go:
\* 139-140: "If the webhook path is already taken by another active
\* workflow, fail the activation").
RoutesAreExclusive ==
  \A w, v \in ActiveWorkflows :
    w # v => KeysOf(db[w].def) \cap KeysOf(db[v].def) = {}

\* Only an update of a draft changes a definition: an active workflow is
\* "executable but not editable" (workflow.go:22).
EditedInDraftOnly ==
  [][\A w \in Workflows :
       db[w].status = "active" => db'[w].def = db[w].def]_db

\* Activation, deactivation and the way back to draft leave the definition
\* alone, whatever was saved since they read it (repository.go:219,
\* "included in the filter to prevent race conditions").  An update between
\* the two leaves the status as it was, and is overwritten.
StatusChangeKeepsDefinition ==
  [][\A w \in Workflows :
       /\ Stored(w)
       /\ db'[w].status \notin {"deleted", db[w].status}
       => db'[w].def = db[w].def]_db
=============================================================================
