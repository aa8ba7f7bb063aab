------------------------------- MODULE Answers -------------------------------
(***************************************************************************)
(* What the management API tells its clients (internal/adapters/http/in/   *)
(* workflow, provider_configuration, executor_configuration): a handler    *)
(* parses the request, a command reads the document, decides on its copy   *)
(* and writes it where the status is still the one that was read, and the  *)
(* handler turns the error of either into a status code.  Calls overlap,   *)
(* and the database fails with or without having written.                  *)
(*                                                                         *)
(* What the commands write is the subject of Workflows, ProviderConfigs    *)
(* and ExecutorConfigs; here a document is a status and a name, and the    *)
(* question is whether the answers are true.                               *)
(***************************************************************************)
EXTENDS Naturals

CONSTANTS
    Kinds,       \* resources of the API
    Callers,     \* calls in flight at the same time
    Ids,         \* ids of documents
    Names,       \* names of documents
    MaxOutages   \* bound on the errors of the database

ASSUME AnswersAssumption ==
    /\ Kinds \subseteq {"workflow", "provider", "executor"}
    /\ Ids # {} /\ Names # {} /\ MaxOutages \in Nat

VARIABLES
    kind,        \* the resource of this behaviour
    indexed,     \* does its collection have the unique index on names?
    stored,      \* its documents
    calls,       \* the calls of clients
    outages      \* errors of the database so far

answerVars == <<kind, indexed, stored, calls, outages>>

-----------------------------------------------------------------------------
(* Errors: the sentinels of pkg/constant, and the types of pkg/errors.go    *)

Sentinel(name)   == [type |-> "sentinel", name |-> name]
Validation(name) == [type |-> "validation", name |-> name]
NotInCatalog(name) == [type |-> "entity", name |-> name]
OtherError       == [type |-> "other", name |-> "none"]

NotFound      == Sentinel("NotFound")
DuplicateName == Sentinel("DuplicateName")
CannotModify  == Sentinel("CannotModify")
StateChanged  == Sentinel("ConflictStateChanged")

\* handleError of each handler.
WithoutStatusCode(e) ==
    CASE e = NotFound -> 404
      [] e \in {DuplicateName, StateChanged} -> 409
      [] e \in {CannotModify, Validation("NodesRequired"), Validation("NoTrigger")} -> 422
      [] e = Validation("Other") -> 400
      [] OTHER -> 500
WorkflowCode(e) ==
    CASE e \in {NotFound, Sentinel("ExecutorNotFound"), NotInCatalog("Template")} -> 404
      [] e \in {DuplicateName, StateChanged} -> 409
      [] e \in {CannotModify, Sentinel("InvalidStatus"),
                Validation("NodesRequired"), Validation("NoTrigger")} -> 422
      [] e = Validation("Other") -> 400
      [] OTHER -> 500

ProviderCode(e) ==
    CASE e \in {NotFound, Sentinel("ProviderNotFoundInCatalog")} -> 404
      [] e \in {DuplicateName, StateChanged} -> 409
      [] e \in {CannotModify, Validation("CannotModify"), Sentinel("BaseURL")} -> 422
      [] OTHER -> 500

ExecutorCode(e) ==
    CASE e = NotFound -> 404
      [] e \in {DuplicateName, StateChanged} -> 409
      [] e \in {CannotModify, Validation("CannotModify")} -> 422
      [] OTHER -> 500

HandleError(e) ==
    CASE kind = "workflow" -> WorkflowCode(e)
      [] kind = "provider" -> ProviderCode(e)
      [] kind = "executor" -> ExecutorCode(e)

-----------------------------------------------------------------------------
(* Operations: what each answers when all is well                           *)

WorkflowSuccess ==
    [create |-> 201, template |-> 201, clone |-> 201, get |-> 200, list |-> 200, update |-> 200,
     delete |-> 204, activate |-> 200, deactivate |-> 200, draft |-> 200]

ProviderSuccess ==
    [create |-> 201, get |-> 200, list |-> 200, update |-> 200, delete |-> 204,
     disable |-> 200, enable |-> 200, test |-> 200]

ExecutorSuccess == [get |-> 200, list |-> 200, update |-> 200, delete |-> 204]

Success ==
    CASE kind = "workflow" -> WorkflowSuccess
      [] kind = "provider" -> ProviderSuccess
      [] kind = "executor" -> ExecutorSuccess

\* Requests that a handler refuses before it calls a command: an id that is
\* none, a body that is not JSON, a filter out of range.
WorkflowParses == {"create", "template", "clone", "get", "update", "delete", "activate",
                   "deactivate", "draft"}
ProviderParses == DOMAIN ProviderSuccess
ExecutorParses == {"get", "update", "delete"}

Parses ==
    CASE kind = "workflow" -> WorkflowParses
      [] kind = "provider" -> ProviderParses
      [] kind = "executor" -> ExecutorParses

-----------------------------------------------------------------------------
(* Operations: what a command asks of its input and of the document.  Of an *)
(* input that is wrong the error is one of `before` or `after`, according   *)
(* to whether the command looks at it before the status or after it.        *)

LiveStatus == {"draft", "active", "inactive", "disabled", "unconfigured", "configured", "tested"}

Rule(before, from, wrong, after, to) ==
    [before |-> before, from |-> from, wrong |-> wrong, after |-> after, to |-> to]

Reads(errors) == Rule(errors, LiveStatus, OtherError, {}, "same")

DefinitionErrors == {Sentinel("ExecutorNotFound"), Validation("Other")}
StructureErrors  == {Validation("NodesRequired"), Validation("NoTrigger")}

\* What the schema of a template lets through and its builder refuses: an
\* error of fmt.Errorf, which has no type.
NotBuilt == OtherError

WorkflowRules ==
    [create   |-> Rule(DefinitionErrors, LiveStatus, OtherError, {}, "draft"),
     template |-> Rule({NotInCatalog("Template"), NotBuilt} \cup DefinitionErrors,
                       LiveStatus, OtherError, {}, "draft"),
     clone    |-> Rule({}, LiveStatus, OtherError, {Validation("Other")}, "draft"),
     get      |-> Reads({}),
     list     |-> Reads({Validation("Other")}),
     update   |-> Rule({}, {"draft"}, CannotModify, DefinitionErrors, "same"),
     delete   |-> Rule({}, {"draft", "inactive"}, CannotModify, {}, "deleted"),
     activate |-> Rule(StructureErrors \cup DefinitionErrors, {"draft"}, Sentinel("InvalidStatus"),
                       {Validation("Other")}, "active"),
     deactivate |-> Rule({}, {"active"}, Sentinel("InvalidStatus"), {}, "inactive"),
     draft    |-> Rule({}, {"inactive"}, Sentinel("InvalidStatus"), {}, "draft")]

ConfigErrors == {Sentinel("ProviderNotFoundInCatalog"), Validation("InvalidSchema"), Validation("Other")}

ProviderRules ==
    [create  |-> Rule(ConfigErrors, LiveStatus, OtherError, {}, "active"),
     get     |-> Reads({}),
     list    |-> Reads({Validation("Other")}),
     update  |-> Rule(ConfigErrors, LiveStatus, OtherError, {}, "same"),
     delete  |-> Rule({}, LiveStatus, OtherError, {}, "deleted"),
     disable |-> Rule({}, {"active"}, Validation("CannotModify"), {}, "disabled"),
     enable  |-> Rule({}, {"disabled"}, Validation("CannotModify"), {}, "active"),
     test    |-> Reads({Sentinel("BaseURL")})]

ExecutorRules ==
    [get    |-> Reads({}),
     list   |-> Reads({Validation("Other")}),
     update |-> Rule({Validation("Other")}, {"unconfigured", "configured"},
                     Validation("CannotModify"), {Validation("Other")}, "same"),
     delete |-> Rule({}, {"unconfigured", "configured", "disabled"}, CannotModify, {}, "deleted")]

Rules ==
    CASE kind = "workflow" -> WorkflowRules
      [] kind = "provider" -> ProviderRules
      [] kind = "executor" -> ExecutorRules

-----------------------------------------------------------------------------
(* Documents and calls                                                      *)

Status == [workflow |-> {"draft", "active", "inactive"}, provider |-> {"active", "disabled"},
           executor |-> {"unconfigured", "configured", "tested", "active", "disabled"}]

AnyId   == CHOOSE i \in Ids : TRUE
AnyName == CHOOSE n \in Names : TRUE

Missing == [status |-> "absent", name |-> AnyName]
Deleted == [status |-> "deleted", name |-> AnyName]

Held(i) == stored[i].status \in LiveStatus

\* Another document than i has the name, and the index knows.
Clash(i, name) == indexed /\ \E j \in Ids \ {i} : Held(j) /\ stored[j].name = name

Silent == [code |-> 0, error |-> OtherError]

\* new is the id that a creation gives; read is the document as it was found.
\* The rest is for the properties: did the call write, did another write the
\* document since this one read it, did the call meet an error of the database?
Nobody == [pc |-> "idle", op |-> "get", id |-> AnyId, new |-> AnyId, name |-> AnyName,
           read |-> Missing, told |-> Silent, wrote |-> FALSE, changed |-> FALSE, outage |-> FALSE]

AnswersInit ==
    /\ kind \in Kinds /\ indexed \in BOOLEAN
    /\ stored \in [Ids -> {Missing} \cup [status : Status[kind], name : Names]]
    /\ \A i \in Ids : Held(i) => ~Clash(i, stored[i].name)
    /\ calls = [c \in Callers |-> Nobody] /\ outages = 0

-----------------------------------------------------------------------------
(* Steps of a call                                                          *)

\* An answered call keeps what it asked and what it was told.
Told(call, code, e) == [call EXCEPT !.pc = "answered", !.told = [code |-> code, error |-> e],
                                    !.new = AnyId, !.name = AnyName, !.read = Missing]
Well(call) == Told(call, Success[call.op], OtherError)
Refused(call, e) == Told(call, HandleError(e), e)
Broken(call, wrote) == [Refused(call, OtherError) EXCEPT !.outage = TRUE, !.wrote = wrote]

Becomes(c, call) == calls' = [calls EXCEPT ![c] = call]
NothingStored == UNCHANGED <<kind, indexed, stored>>
Quietly == NothingStored /\ UNCHANGED outages

Outage == outages < MaxOutages /\ outages' = outages + 1

Creating == {"create", "template", "clone"}
Reading  == {"get", "list", "test"}
Finding  == {"clone", "get", "update", "delete", "activate", "deactivate", "draft",
             "disable", "enable", "test"}
Naming   == Creating \cup {"update"}

\* The id of a creation is drawn before its document is written.
Fresh(i) ==
    /\ stored[i] = Missing
    /\ \A c \in Callers : calls[c].pc = "write" /\ calls[c].op \in Creating => calls[c].new # i

\* What a client may ask, the fields that an operation does not use aside.
Asked(op, i, new, name) == [Nobody EXCEPT !.op = op, !.id = i, !.new = new, !.name = name]
Asks(op) ==
    { Asked(op, i, new, name) :
        i \in IF op \in Finding THEN Ids ELSE {AnyId},
        new \in IF op \in Creating THEN {j \in Ids : Fresh(j)} ELSE {AnyId},
        name \in IF op \in Naming THEN Names ELSE {AnyName} }

\* A handler refuses a request that it cannot parse.
Malformed(c) ==
    /\ calls[c].pc = "idle"
    /\ \E op \in Parses :
        Becomes(c, Told([Nobody EXCEPT !.op = op], 400, OtherError))
    /\ Quietly

\* The command on its copy d: the errors that it meets in its order.
Decide(c, call, d) ==
    LET rule == Rules[call.op]
    IN  \/ \E e \in rule.before : Becomes(c, Refused(call, e))
        \/ d.status \notin rule.from /\ Becomes(c, Refused(call, rule.wrong))
        \/ d.status \in rule.from /\ \E e \in rule.after : Becomes(c, Refused(call, e))
        \/ d.status \in rule.from /\ call.op \in Reading /\ Becomes(c, Well(call))
        \/ /\ d.status \in rule.from /\ call.op \notin Reading
           /\ Becomes(c, [call EXCEPT !.pc = "write", !.read = d])

\* A handler calls a command that begins with FindByID.
Find(c) ==
    /\ calls[c].pc = "idle"
    /\ \E op \in Finding \cap DOMAIN Success : \E call \in Asks(op) :
        \/ Held(call.id) /\ Decide(c, call, stored[call.id]) /\ Quietly
        \/ ~Held(call.id) /\ Becomes(c, Refused(call, NotFound)) /\ Quietly
        \/ Becomes(c, Broken(call, FALSE)) /\ Outage /\ NothingStored

\* Or one that reads no document of its own.
Validate(c) ==
    /\ calls[c].pc = "idle"
    /\ \E op \in {"create", "template"} \cap DOMAIN Success : \E call \in Asks(op) :
        \/ \E e \in Rules[op].before : Becomes(c, Refused(call, e))
        \/ Becomes(c, [call EXCEPT !.pc = "write"])
    /\ Quietly

List(c) ==
    /\ calls[c].pc = "idle"
    /\ \E call \in Asks("list") :
        \/ \E e \in Rules["list"].before : Becomes(c, Refused(call, e)) /\ Quietly
        \/ Becomes(c, Well(call)) /\ Quietly
        \/ Becomes(c, Broken(call, FALSE)) /\ Outage /\ NothingStored

\* What a call writes, and where.
Target(call) == IF call.op \in Creating THEN call.new ELSE call.id

Outcome(call) ==
    LET to == Rules[call.op].to
    IN  IF to = "deleted" THEN Deleted
        ELSE [status |-> IF to = "same" THEN call.read.status ELSE to,
              name |-> IF call.op \in Naming THEN call.name ELSE call.read.name]

\* The filter of the write: the status that was read.
MatchesAlways(call) == TRUE
Matches(call) == call.op \in Creating \/ stored[call.id].status = call.read.status

Applies(call) ==
    Matches(call) /\ (Outcome(call) # Deleted => ~Clash(Target(call), Outcome(call).name))

\* The write takes effect: calls that read the document hold an old copy.
Apply(c, answer) ==
    /\ stored' = [stored EXCEPT ![Target(calls[c])] = Outcome(calls[c])]
    /\ calls' = [b \in Callers |->
                    IF b = c THEN answer
                    ELSE [calls[b] EXCEPT !.changed = @ \/ (calls[b].pc = "write" /\ calls[b].id = Target(calls[c]))]]
    /\ UNCHANGED <<kind, indexed>>

Write(c) ==
    LET call == calls[c]
    IN  /\ call.pc = "write"
        /\ \/ Applies(call) /\ Apply(c, [Well(call) EXCEPT !.wrote = TRUE]) /\ UNCHANGED outages
           \/ ~Matches(call) /\ Becomes(c, Refused(call, StateChanged)) /\ Quietly
           \/ Matches(call) /\ ~Applies(call) /\ Becomes(c, Refused(call, DuplicateName)) /\ Quietly
           \/ Applies(call) /\ Apply(c, Broken(call, TRUE)) /\ Outage
           \/ Becomes(c, Broken(call, FALSE)) /\ Outage /\ NothingStored

Forget(c) == calls[c].pc = "answered" /\ Becomes(c, Nobody) /\ Quietly

AnswersNext ==
    \E c \in Callers : Malformed(c) \/ Find(c) \/ Validate(c) \/ List(c) \/ Write(c) \/ Forget(c)

AnswersSpec == AnswersInit /\ [][AnswersNext]_answerVars

-----------------------------------------------------------------------------
(* Properties                                                               *)

Errors ==
    [type : {"sentinel", "validation", "entity", "other"},
     name : {"NotFound", "DuplicateName", "CannotModify", "ConflictStateChanged", "InvalidStatus",
             "ExecutorNotFound", "ProviderNotFoundInCatalog", "Template", "BaseURL", "NodesRequired",
             "NoTrigger", "InvalidSchema", "Other", "none"}]

Ops     == DOMAIN WorkflowSuccess \cup DOMAIN ProviderSuccess
Copies  == [status : LiveStatus \cup {"absent"}, name : Names]
Replies == [code : {0, 200, 201, 204, 400, 404, 409, 422, 500}, error : Errors]

CallType ==
    [pc : {"idle", "write", "answered"}, op : Ops,
     id : Ids, new : Ids, name : Names, read : Copies, told : Replies,
     wrote : BOOLEAN, changed : BOOLEAN, outage : BOOLEAN]

AnswersTypeOK ==
    /\ kind \in Kinds /\ indexed \in BOOLEAN /\ outages \in 0 .. MaxOutages
    /\ stored \in [Ids -> [status : LiveStatus \cup {"absent", "deleted"}, name : Names]]
    /\ calls \in [Callers -> CallType]

Answered(c) == calls[c].pc = "answered"

\* A client that is told 2xx of a change finds it made, and one that is told
\* 4xx finds nothing made, whatever other calls and errors of the database
\* came between the reading and the writing (handler.go, handleError).
AnswersTellTheEffect ==
    \A c \in Callers : Answered(c) =>
        /\ calls[c].told.code \in 200 .. 299 /\ calls[c].op \notin Reading => calls[c].wrote
        /\ calls[c].told.code \in 400 .. 499 => ~calls[c].wrote

\* "Resource state changed concurrently" is told to no client whose document
\* nobody else touched (repository.go, MatchedCount == 0).
ConflictMeansChanged ==
    \A c \in Callers : calls[c].told.error = StateChanged => calls[c].changed

\* Of the clients that delete one document, one is told so (repository.go,
\* Delete: the status in the filter).
OneIsToldOfADeletion ==
    \A b, c \in Callers :
        (b # c /\ calls[b].told.code = 204 /\ calls[c].told.code = 204) => calls[b].id # calls[c].id

\* With the index two documents never share a name, however many clients
\* create, rename and change the status of documents that they read before.
NamesStayUnique ==
    \A i \in Ids : Held(i) => ~Clash(i, stored[i].name)

\* 500 tells a client that the service failed: the database did (handleError
\* of each handler, "default").  False of the code: a wrong configuration of a
\* provider and a template that cannot be built are answered 500 too.
ServerErrorMeansOutage ==
    \A c \in Callers : calls[c].told.code = 500 => calls[c].outage

\* Of the wrong requests about workflows that one alone is, and it has made
\* nothing: every other one is told that it was wrong (workflow/handler.go,
\* handleError), also where the command looked at an old copy.
ServerErrorIsExplained ==
    \A c \in Callers : calls[c].told.code = 500 /\ ~calls[c].outage =>
        calls[c].op = "template" /\ ~calls[c].wrote

AnswersInv ==
    /\ AnswersTypeOK
    /\ AnswersTellTheEffect
    /\ ConflictMeansChanged
    /\ OneIsToldOfADeletion
    /\ NamesStayUnique
    /\ kind = "workflow" => ServerErrorIsExplained
=============================================================================
