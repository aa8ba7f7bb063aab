--------------------------- MODULE ExecutorConfigs ---------------------------
(***************************************************************************)
(* Executor configurations: the commands of the service over their         *)
(* collection (internal/services/command, adapters/mongodb/                *)
(* executor_configuration).  A command reads the document, decides on its  *)
(* copy and writes the whole copy back if the stored status is still the   *)
(* one it read; the connectivity test calls the executor in between.       *)
(*                                                                         *)
(* A slot of Requests is one request in flight.                            *)
(***************************************************************************)
EXTENDS Naturals

CONSTANTS
  Requests,     \* requests that are in flight at the same time
  Configs,      \* ids of configurations
  Settings,     \* base URL, endpoints and authentication
  Anonymous,    \* settings without authentication
  Operations    \* operations that clients use

ASSUME ConstantsAssumption ==
  /\ Configs # {}
  /\ Settings # {}
  /\ Anonymous \subseteq Settings
  /\ Operations \subseteq
       {"create", "update", "mark_configured", "mark_tested", "test", "activate",
        "disable", "enable", "delete"}

VARIABLES
  db,          \* the executor_configurations collection
  request,     \* request[r]: the request in slot r and its copy of the document
  verified     \* verified[c]: settings with which c answered a full request

vars == <<db, request, verified>>

-----------------------------------------------------------------------------
(* Data *)

Docs == [status : {"absent", "unconfigured", "configured", "tested", "active",
                   "disabled", "deleted"},
         settings : Settings, lastTested : BOOLEAN]

Stored(c) == db[c].status \notin {"absent", "deleted"}

\* read is the document as it was found, doc the copy to be written.
Slots ==
  [pc : {"idle", "asked", "connectivity", "authentication", "end_to_end", "save"},
   op : {"create", "update", "mark_configured", "mark_tested", "test", "activate",
         "disable", "enable", "delete"},
   config : Configs, input : Settings, read : Docs, doc : Docs, failed : BOOLEAN]

TypeOK ==
  /\ db \in [Configs -> Docs]
  /\ request \in [Requests -> Slots]
  /\ verified \in [Configs -> SUBSET Settings]

AnySettings == CHOOSE s \in Settings : TRUE

NoDoc == [status |-> "absent", settings |-> AnySettings, lastTested |-> FALSE]

Idle == [pc |-> "idle", op |-> "create", config |-> CHOOSE c \in Configs : TRUE,
         input |-> AnySettings, read |-> NoDoc, doc |-> NoDoc, failed |-> FALSE]

\* The transitions of the entity, from a copy d to new.
Become(d, from, to, new) == d.status = from /\ new = [d EXCEPT !.status = to]

MarkConfigured(d, new) == Become(d, "unconfigured", "configured", new)

Tested(d) == [d EXCEPT !.status = "tested", !.lastTested = TRUE]

MarkTested(d, new) == d.status = "configured" /\ new = Tested(d)

Activate(d, new) == Become(d, "tested", "active", new)

Disable(d, new) == Become(d, "active", "disabled", new)

Enable(d, new) == Become(d, "disabled", "active", new)

Update(d, input, new) ==
  d.status \in {"unconfigured", "configured"} /\ new = [d EXCEPT !.settings = input]

Delete(d, new) ==
  d.status \notin {"active", "tested"} /\ new = [d EXCEPT !.status = "deleted"]

\* The copy that operation op makes of d, if it may.
Changed(op, d, input, new) ==
  \/ op = "mark_configured" /\ MarkConfigured(d, new)
  \/ op = "mark_tested" /\ MarkTested(d, new)
  \/ op = "activate" /\ Activate(d, new)
  \/ op = "disable" /\ Disable(d, new)
  \/ op = "enable" /\ Enable(d, new)
  \/ op = "update" /\ Update(d, input, new)
  \/ op = "delete" /\ Delete(d, new)

-----------------------------------------------------------------------------
(* Commands *)

\* A client asks for an operation.
Ask(r) ==
  /\ request[r].pc = "idle"
  /\ \E op \in Operations, c \in Configs, s \in Settings :
       request' = [request EXCEPT ![r] =
         [Idle EXCEPT !.pc = "asked", !.op = op, !.config = c, !.input = s]]
  /\ UNCHANGED <<db, verified>>

\* The request is answered and its slot is free.
Free(r) == request' = [request EXCEPT ![r] = Idle]

\* CreateExecutorConfigCommand: a new id.
Create(r) ==
  /\ request[r].pc = "asked"
  /\ request[r].op = "create"
  /\ \E c \in Configs :
       /\ db[c].status = "absent"
       /\ db' = [db EXCEPT ![c] = [status |-> "unconfigured",
                                   settings |-> request[r].input, lastTested |-> FALSE]]
  /\ Free(r)
  /\ UNCHANGED verified

\* FindByID and the decision on the copy.
Load(r) ==
  LET d == db[request[r].config] IN
  /\ request[r].pc = "asked"
  /\ Stored(request[r].config)
  /\ \E new \in Docs :
       /\ Changed(request[r].op, d, request[r].input, new)
       /\ request' = [request EXCEPT ![r].pc = "save", ![r].read = d, ![r].doc = new]
  /\ UNCHANGED <<db, verified>>

\* TestExecutorConnectivityCommand reads the document once.
BeginTest(r) ==
  LET d == db[request[r].config] IN
  /\ request[r].pc = "asked"
  /\ request[r].op = "test"
  /\ Stored(request[r].config)
  /\ request' = [request EXCEPT ![r].pc = "connectivity", ![r].read = d, ![r].doc = d]
  /\ UNCHANGED <<db, verified>>

\* Mutant: a change of the status writes nothing else.
WriteStatus(stored, d) ==
  IF d.status = stored.status THEN d
  ELSE [stored EXCEPT !.status = d.status, !.lastTested = d.lastTested]

\* $set of every field.
Written(stored, d) == d

\* Mutant: the filter has no status.
AnyStatus(r) == Stored(request[r].config)

SameStatus(r) == db[request[r].config].status = request[r].read.status

\* Update or Delete: one atomic operation with the status in its filter.
Save(r) ==
  LET c == request[r].config IN
  /\ request[r].pc = "save"
  /\ SameStatus(r)
  /\ db' = [db EXCEPT ![c] = Written(@, request[r].doc)]
  /\ Free(r)
  /\ UNCHANGED verified

\* An error is answered: not found, wrong status, conflict, or a failure of the
\* database (the index on the name among them); a process that dies answers
\* nothing, with the same effect.
Fail(r) ==
  /\ request[r].pc # "idle"
  /\ Free(r)
  /\ UNCHANGED <<db, verified>>

-----------------------------------------------------------------------------
(* The connectivity test *)

\* What a request to the executor may meet: no response, 2xx, 401 or 403,
\* another status below 500, 500 or above.
Responses == {"none", "ok", "denied", "other", "server_error"}

Reached == {"ok", "denied", "other"}

Accepted == {"ok", "other", "server_error"}

Stage(r, from, to, passed) ==
  /\ request[r].pc = from
  /\ request' = [request EXCEPT ![r].pc = to, ![r].failed = @ \/ ~passed]

\* runConnectivityTest: a request without credentials.
TestConnectivity(r) ==
  /\ \E a \in Responses : Stage(r, "connectivity", "authentication", a \in Reached)
  /\ UNCHANGED <<db, verified>>

\* runAuthenticationTest, skipped without authentication.
TestAuthentication(r) ==
  /\ \/ /\ request[r].read.settings \in Anonymous
        /\ Stage(r, "authentication", "end_to_end", TRUE)
     \/ /\ request[r].read.settings \notin Anonymous
        /\ \E a \in Responses : Stage(r, "authentication", "end_to_end", a \in Accepted)
  /\ UNCHANGED <<db, verified>>

\* Mutant: a partial success is enough.
OneStagePassed(failed) == TRUE

Passed(failed) == ~failed

\* Mutant: authentication is proof enough.
AcceptsReached(a) == a \in Reached

Succeeds(a) == a = "ok"

\* runEndToEndTest and what follows: when every stage passed, a configured
\* configuration is marked as tested in the copy that was read before them.
TestEndToEnd(r) ==
  LET d == request[r].read
      c == request[r].config IN
  /\ request[r].pc = "end_to_end"
  /\ \E a \in Responses :
       LET failed == request[r].failed \/ ~Succeeds(a) IN
       /\ verified' = IF a = "ok" THEN [verified EXCEPT ![c] = @ \cup {d.settings}]
                      ELSE verified
       /\ request' = [request EXCEPT ![r] =
            IF Passed(failed) /\ d.status = "configured"
            THEN [@ EXCEPT !.pc = "save", !.doc = Tested(d)]
            ELSE Idle]
  /\ UNCHANGED db

-----------------------------------------------------------------------------

Init ==
  /\ db = [c \in Configs |-> NoDoc]
  /\ request = [r \in Requests |-> Idle]
  /\ verified = [c \in Configs |-> {}]

Proceed(r) ==
  \/ Create(r) \/ Load(r) \/ BeginTest(r) \/ Save(r) \/ Fail(r)
  \/ TestConnectivity(r) \/ TestAuthentication(r) \/ TestEndToEnd(r)

Next == \E r \in Requests : Ask(r) \/ Proceed(r)

Spec == Init /\ [][Next]_vars

-----------------------------------------------------------------------------
(* Properties *)

Late == {"tested", "active", "disabled"}

\* The stored status of each configuration moves as ExecutorStatus says,
\* whatever requests overlap.
StoredStatus == [c \in Configs |-> db[c].status]

Lifecycle == INSTANCE ExecutorStatus WITH status <- StoredStatus

ImplementsStatus == Lifecycle!Spec

\* The settings of a configuration that was tested never change: what is
\* active is what was tested (executor_configuration.go:466-476).
SettingsFrozen ==
  [][\A c \in Configs : db[c].status \in Late /\ db'[c].status \in Late =>
       db'[c].settings = db[c].settings]_vars

\* When configurations are marked as tested by the connectivity test alone,
\* a tested configuration answered a full request with the very settings that
\* are stored, although updates run during the test.
TestedIsVerified ==
  \A c \in Configs : db[c].status \in Late => db[c].settings \in verified[c]

\* Stored settings change only to what an update asks for: an update that was
\* answered is not undone by an operation that changes the status
\* (adapters/mongodb/executor_configuration/repository.go:216-217:
\* "expectedStatus is included in the filter to prevent race conditions").
UpdatesStay ==
  [][\A c \in Configs : Stored(c) /\ db'[c].settings # db[c].settings =>
       \E r \in Requests : request[r].op = "update" /\ request[r].pc = "save"
                           /\ request[r].config = c /\ request'[r].pc = "idle"]_vars

\* What slot s read was a stored configuration and, when its status was late,
\* is still current but for the status.
Current(s) ==
  LET stored == db[s.config] IN
  /\ s.read.status \notin {"absent", "deleted"}
  /\ stored.status # "absent"
  /\ s.read.status \in Late => /\ stored.status \in Late \cup {"deleted"}
                               /\ stored.settings = s.read.settings

CopiesAreCurrent ==
  \A r \in Requests : request[r].pc \notin {"idle", "asked"} => Current(request[r])

\* The copy to be written is what the operation makes of the one that was read;
\* when a test marked it, its settings have answered.
Legal(s) ==
  \/ Changed(s.op, s.read, s.input, s.doc)
  \/ /\ s.read.status = "configured"
     /\ s.doc = Tested(s.read)
     /\ s.read.settings \in verified[s.config]

CopiesAreLegal ==
  \A r \in Requests : request[r].pc = "save" => Legal(request[r])

\* Nobody asks for what is not among the operations.
OnlyOperations == \A r \in Requests : request[r].pc # "idle" => request[r].op \in Operations

\* The inductive invariant.  It holds for any operations; the test is the only
\* way to a tested configuration when mark_tested is not one of them.
IInv ==
  /\ TypeOK
  /\ CopiesAreCurrent
  /\ CopiesAreLegal
  /\ OnlyOperations
  /\ "mark_tested" \notin Operations => TestedIsVerified
=============================================================================
