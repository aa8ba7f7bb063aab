------------------------------- MODULE Webhook -------------------------------
(***************************************************************************)
(* Requests to webhooks (internal/adapters/http/in/webhook/handler.go) and *)
(* to execute a workflow (execution/handler.go), and what of activation,   *)
(* deactivation, edits and deletions they can meet.                        *)
(*                                                                         *)
(* HandleWebhook finds the route in the registry of the process and then   *)
(* lets the command look at the database: the key of the request, the workflow *)
(* and its status, one after the other, while commands change them.  The   *)
(* commands come one at a time here; Workflows has what they do to each    *)
(* other.  Each workflow has one webhook, whose token, if it has one, is   *)
(* the version of its definition.                                          *)
(***************************************************************************)
EXTENDS Naturals, FiniteSets

CONSTANTS
    Workflows,   \* workflows with a webhook
    Open,        \* those whose webhook has no token
    Requests,    \* requests to webhooks
    Keys,        \* values of the header Idempotency-Key
    NoKey,       \* a request without the header
    MaxVersion,  \* bound on the versions of a definition
    MaxFaults    \* bound on the errors of the database

VARIABLES
    status,     \* status of each workflow in the database
    version,    \* version of its definition
    route,      \* version whose route is registered, or 0
    command,    \* the command under way: its workflow and what is left of it
    faults,     \* errors of the database so far
    request,    \* where each request is, and what it asks
    answer,     \* its answer: status code and execution
    executions, \* executions in the database
    since       \* for each request: no command ran since it came, and
                \* its workflow was active at some time since

vars == <<status, version, route, command, faults, request, answer, executions, since>>
workflows == <<status, version, route, command>>

Statuses == {"draft", "active", "inactive", "deleted"}
Places   == {"out", "resolved", "looked", "loaded", "inserted", "answered"}
Codes    == {200, 201, 400, 401, 404, 409, 413, 422, 500}

NoExecution == [by |-> NoKey, w |-> NoKey, key |-> NoKey, status |-> "none"]
NoAnswer    == [code |-> 0, execution |-> NoExecution]
Idle        == [step |-> "idle", w |-> NoKey]
Outside     == [at |-> "out", door |-> "webhook", w |-> NoKey, key |-> NoKey, token |-> 0]

Init ==
    /\ status = [w \in Workflows |-> "draft"] /\ version = [w \in Workflows |-> 1]
    /\ route = [w \in Workflows |-> 0] /\ command = Idle /\ faults = 0
    /\ request = [r \in Requests |-> Outside]
    /\ answer = [r \in Requests |-> NoAnswer]
    /\ executions = {} /\ since = [r \in Requests |-> [steady |-> FALSE, active |-> FALSE]]

(***************************************************************************)
(* Commands                                                                *)
(***************************************************************************)
Fault == faults < MaxFaults /\ faults' = faults + 1

\* Requests that are on their way have met a command.
Meets ==
    since' = [r \in Requests |->
                 [steady |-> FALSE,
                  active |-> \/ since[r].active
                             \/ request[r].at # "out" /\ status'[request[r].w] = "active"]]
KeepRequests == UNCHANGED <<request, answer, executions>>

\* Activation registers the route before it saves the status.
Activate(w) ==
    /\ command = Idle /\ status[w] = "draft" /\ route[w] = 0
    /\ route' = [route EXCEPT ![w] = version[w]]
    /\ command' = [step |-> "activate", w |-> w]
    /\ KeepRequests /\ UNCHANGED <<status, version, faults>> /\ Meets

ForgetAll(w) == route' = [v \in Workflows |-> 0]
Unregister(w) == route' = [route EXCEPT ![w] = 0]

SaveActive(w) ==
    /\ command = [step |-> "activate", w |-> w]
    /\ \/ /\ status' = [status EXCEPT ![w] = "active"]
          /\ UNCHANGED <<route, faults>>
       \/ /\ Fault
          /\ Unregister(w) /\ UNCHANGED status
    /\ command' = Idle
    /\ KeepRequests /\ UNCHANGED version /\ Meets

\* Deactivation saves the status before it removes the route.
Deactivate(w) ==
    /\ command = Idle /\ status[w] = "active"
    /\ status' = [status EXCEPT ![w] = "inactive"]
    /\ command' = [step |-> "unregister", w |-> w]
    /\ KeepRequests /\ UNCHANGED <<version, route, faults>> /\ Meets

LeaveRoute(w) ==
    /\ command = [step |-> "unregister", w |-> w]
    /\ command' = Idle
    /\ KeepRequests /\ UNCHANGED <<status, version, route, faults>> /\ Meets

RemoveRoute(w) ==
    /\ command = [step |-> "unregister", w |-> w]
    /\ Unregister(w)
    /\ command' = Idle
    /\ KeepRequests /\ UNCHANGED <<status, version, faults>> /\ Meets

MoveToDraft(w) ==
    /\ command = Idle /\ status[w] = "inactive"
    /\ status' = [status EXCEPT ![w] = "draft"]
    /\ KeepRequests /\ UNCHANGED <<version, route, command, faults>> /\ Meets

\* The edit of a draft may change its token.
Edit(w) ==
    /\ command = Idle /\ status[w] = "draft" /\ version[w] < MaxVersion
    /\ version' = [version EXCEPT ![w] = @ + 1]
    /\ KeepRequests /\ UNCHANGED <<status, route, command, faults>> /\ Meets

\* So does deletion.
Delete(w) ==
    /\ command = Idle /\ status[w] \in {"draft", "inactive"}
    /\ status' = [status EXCEPT ![w] = "deleted"]
    /\ command' = [step |-> "unregister", w |-> w]
    /\ KeepRequests /\ UNCHANGED <<version, route, faults>> /\ Meets

(***************************************************************************)
(* Requests                                                                *)
(***************************************************************************)
Move(r, place) == request' = [request EXCEPT ![r].at = place]

AnswerOnly(r, code, x) ==
    /\ answer' = [answer EXCEPT ![r] = [code |-> code, execution |-> x]]
    /\ UNCHANGED request
Answered(r, code, x) ==
    /\ Move(r, "answered")
    /\ answer' = [answer EXCEPT ![r] = [code |-> code, execution |-> x]]

\* 200 for an execution that is over, 201 for any other, new or not.
Returned(r, x) == Answered(r, IF x.status \in {"completed", "failed"} THEN 200 ELSE 201, x)

\* The handler up to the command: of what others change it reads the route only.
\* Size, route, token and body, in this order.
Refusal(w, size, token, body) ==
    IF size = "large" THEN 413
    ELSE IF route[w] = 0 THEN 404
    ELSE IF w \notin Open /\ token # route[w] THEN 401
    ELSE IF body = "malformed" THEN 400 ELSE 0

\* The request as it came, and how far it gets; of one that is refused the key
\* is forgotten.
Come(r, code, came) ==
    /\ request[r].at = "out"
    /\ request' = [request EXCEPT ![r] = IF code = 0 THEN [came EXCEPT !.at = "resolved"]
                                         ELSE [came EXCEPT !.at = "answered", !.key = NoKey]]
    /\ answer' = [answer EXCEPT ![r].code = code]
    /\ since' = [since EXCEPT ![r] = [steady |-> command = Idle, active |-> status[came.w] = "active"]]
    /\ UNCHANGED <<workflows, faults, executions>>

HandleWebhook(r) ==
    \E w \in Workflows, key \in Keys \cup {NoKey},
      size \in {"small", "large"}, body \in {"object", "malformed"} :
      \E token \in IF w \in Open THEN {0} ELSE 1 .. MaxVersion :
        Come(r, Refusal(w, size, token, body),
             [Outside EXCEPT !.w = w, !.key = key, !.token = token])

\* The handler of executions asks for a key and knows no route and no token.
Execute(r) ==
    \E w \in Workflows, key \in Keys \cup {NoKey},
      size \in {"small", "large"}, body \in {"object", "malformed"} :
        Come(r, IF size = "large" THEN 413 ELSE IF body = "malformed" \/ key = NoKey THEN 400 ELSE 0,
             [Outside EXCEPT !.door = "executions", !.w = w, !.key = key])

WithKey(key) == {x \in executions : key # NoKey /\ x.key = key}

\* The fast path of the command: an execution with the key, whosever it is.
CheckIdempotencyFastPath(r) ==
    /\ request[r].at = "resolved"
    /\ \/ /\ WithKey(request[r].key) = {}
          /\ Move(r, "looked") /\ UNCHANGED <<answer, faults>>
       \/ /\ \E x \in WithKey(request[r].key) : Returned(r, x)
          /\ UNCHANGED faults
       \/ /\ request[r].key # NoKey /\ Fault
          /\ Answered(r, 500, NoExecution)
    /\ UNCHANGED <<workflows, executions, since>>

LoadAny(r) ==
    /\ request[r].at = "looked" /\ Move(r, "loaded")
    /\ UNCHANGED <<workflows, answer, faults, executions, since>>

LoadWorkflow(r) ==
    LET found == status[request[r].w]
    IN  /\ request[r].at = "looked"
        /\ \/ /\ found = "deleted" /\ Answered(r, 404, NoExecution)
              /\ UNCHANGED faults
           \/ /\ found \in {"draft", "inactive"} /\ Answered(r, 422, NoExecution)
              /\ UNCHANGED faults
           \/ /\ found = "active" /\ Move(r, "loaded") /\ UNCHANGED <<answer, faults>>
           \/ /\ Fault /\ Answered(r, 500, NoExecution)
        /\ UNCHANGED <<workflows, executions, since>>

New(r) == [by |-> r, w |-> request[r].w, key |-> request[r].key, status |-> "pending"]

Insert(r) ==
    /\ executions' = executions \cup {New(r)}
    /\ Move(r, "inserted") /\ UNCHANGED <<answer, faults>>

InsertAnyway(r) ==
    /\ request[r].at = "loaded" /\ Insert(r)
    /\ UNCHANGED <<workflows, since>>

\* The unique index of keys lets one of two requests insert; the other finds
\* what the first inserted, or gives up.
CreateExecution(r) ==
    LET taken == WithKey(request[r].key)
    IN  /\ request[r].at = "loaded"
        /\ \/ /\ taken = {} /\ Insert(r)
           \/ /\ \E x \in taken : Returned(r, x)
              /\ UNCHANGED <<executions, faults>>
           \/ /\ taken # {} /\ Fault /\ Answered(r, 409, NoExecution)
              /\ UNCHANGED executions
           \/ /\ Fault /\ Answered(r, 500, NoExecution)
              /\ UNCHANGED executions
        /\ UNCHANGED <<workflows, since>>

Save(x, to) == executions' = (executions \ {x}) \cup {[x EXCEPT !.status = to]}

\* The execution is running before it is returned; where that cannot be saved
\* it is failed, where that cannot be saved either it stays pending.
StartExecution(r) ==
    /\ request[r].at = "inserted"
    /\ LET x == New(r)
       IN  \/ /\ Save(x, "running")
              /\ Returned(r, [x EXCEPT !.status = "running"])
              /\ UNCHANGED faults
           \/ /\ Fault /\ Answered(r, 500, NoExecution)
              /\ Save(x, "failed") \/ UNCHANGED executions
    /\ UNCHANGED <<workflows, since>>

\* The goroutine of an execution reaches its end.
RunStateMachine(x) ==
    /\ x.status = "running"
    /\ \E to \in {"completed", "failed"} : Save(x, to)
    /\ UNCHANGED <<workflows, faults, request, answer, since>>

Next ==
    \/ \E w \in Workflows : \/ Activate(w) \/ SaveActive(w) \/ Deactivate(w)
                            \/ RemoveRoute(w) \/ MoveToDraft(w) \/ Edit(w) \/ Delete(w)
    \/ \E r \in Requests : \/ HandleWebhook(r) \/ Execute(r) \/ CheckIdempotencyFastPath(r)
                           \/ LoadWorkflow(r) \/ CreateExecution(r) \/ StartExecution(r)
    \/ \E x \in executions : RunStateMachine(x)

Spec == Init /\ [][Next]_vars

(***************************************************************************)
(* Properties                                                              *)
(***************************************************************************)
TypeInv ==
    /\ status \in [Workflows -> Statuses] /\ version \in [Workflows -> 1 .. MaxVersion]
    /\ \A w \in Workflows : route[w] \in 0 .. version[w]
    /\ command.step \in {"idle", "activate", "unregister"} /\ faults \in 0 .. MaxFaults
    /\ \A r \in Requests : /\ request[r].at \in Places
                           /\ answer[r].code \in Codes \cup {0}
                           /\ request[r].at = "answered" <=> answer[r].code # 0
    /\ since \in [Requests -> [steady : BOOLEAN, active : BOOLEAN]]

Over(r) == request[r].at = "answered"
Direct(r) == request[r].door = "executions"
Knows(r) == Direct(r) \/ request[r].w \in Open \/ request[r].token = version[request[r].w]

\* A request that comes to an active workflow, by its webhook with its token or
\* by its id, small and well formed, and meets no command, is served: what the handler finds in the
\* registry and what Execute finds in the database belong together
\* (activate_workflow.go registers before it saves).
ServedWhileActive ==
    \A r \in Requests :
        LET w == request[r].w
        IN  (Over(r) /\ since[r].steady /\ status[w] = "active" /\ Knows(r))
                => answer[r].code \notin {401, 404, 422}

\* Neither an old token nor the route of a workflow that is not active gets a
\* request further than the registry (deactivate_workflow.go unregisters after
\* it saves, delete_workflow.go too).
GoneWhileInactive ==
    \A r \in Requests :
        LET w == request[r].w
        IN  (Over(r) /\ ~Direct(r) /\ since[r].steady /\ (status[w] # "active" \/ ~Knows(r)))
                => answer[r].code \in {401, 404, 413}

\* No execution begins for a request during which its workflow was never
\* active, though the registry had its route: an activation under way that
\* fails leaves nothing behind (execute_workflow.go, IsActive).
StartsOnlyActive == \A x \in executions : since[x.by].active

\* All the requests with one key, to any webhook, at any time, are answered
\* with one execution: the lookup and the unique index leave no gap
\* (execute_workflow.go, checkIdempotencyFastPath and handleCreateError).
OneExecutionPerKey ==
    \A x, y \in executions : (x.key # NoKey /\ x.key = y.key) => x = y

\* The execution that a webhook answers with is one of the workflow it belongs
\* to (handler.go: "triggers the corresponding workflow execution").
AnswerIsItsWorkflows ==
    \A r \in Requests :
        (Over(r) /\ answer[r].execution # NoExecution)
            => answer[r].execution.w = request[r].w

\* The second request with a key is refused (handler.go, @Failure 409:
\* "Duplicate idempotency key").
DuplicateIsRefused ==
    \A r \in Requests :
        (Over(r) /\ answer[r].code \in {200, 201}) => answer[r].execution.by = r

\* All of it but the last two, which do not hold (see the README).
WebhookInv ==
    /\ TypeInv
    /\ StartsOnlyActive
    /\ OneExecutionPerKey
    /\ ServedWhileActive
    /\ GoneWhileInactive
=============================================================================
