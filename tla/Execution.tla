------------------------------ MODULE Execution ------------------------------
(***************************************************************************)
(* The execution engine: ExecuteWorkflowCommand                            *)
(* (internal/services/command/execute_workflow.go) over the executions     *)
(* collection of MongoDB (internal/adapters/mongodb/execution).            *)
(*                                                                         *)
(* A request creates at most one execution, so an execution is named after *)
(* the request that created it.  A thread <<p, e>> is, in process p, first *)
(* the handler of request e and then the goroutine that runs the state     *)
(* machine of execution e; its fields are the Go locals: the in-memory     *)
(* entity (status, steps), the workflow (plan, pos) and whether the        *)
(* five-minute context has expired.                                        *)
(*                                                                         *)
(* A workflow is abstracted to its plan: the kinds of the nodes that the   *)
(* depth-first traversal visits, in visiting order.                        *)
(***************************************************************************)
EXTENDS Naturals, Sequences, FiniteSets

CONSTANTS
  Requests,         \* calls of the execution endpoint or of a webhook
  Processes,        \* Flowker processes that share one MongoDB
  KeyOf,            \* the idempotency key of each request
  NoKey,            \* KeyOf of a webhook call without a key
  Plans,            \* the plans a workflow may have
  Indexed,          \* were the indexes created? InitServers does not, the tests do
  RecoverOnStart,   \* does a starting process call RecoverIncompleteExecutions?
  CanExpire,        \* may an execution outlive executionTimeout?
  MaxFaults,        \* bound: MongoDB operations that report an error
  MaxCrashes        \* bound: process crashes

\* What traverseNode finds at a node: one of three node types, or an error
\* of the graph itself (a cycle, an edge to a missing node).
Kinds == {"executor", "conditional", "action", "broken"}

ASSUME ConstantsAssumption ==
  /\ Plans \subseteq Seq(Kinds)
  /\ Indexed \in BOOLEAN
  /\ RecoverOnStart \in BOOLEAN
  /\ CanExpire \in BOOLEAN
  /\ MaxFaults \in Nat
  /\ MaxCrashes \in Nat

VARIABLES
  db,        \* the executions collection: the document of each execution
  thread,    \* thread[p][e], see above
  answer,    \* what each request was answered
  up,        \* is the process running?
  audit,     \* the audit events handed to the audit writer
  calls,     \* calls[e]: positions whose provider call e made, in order
  faults,    \* database errors so far
  crashes    \* crashes so far

vars == <<db, thread, answer, up, audit, calls, faults, crashes>>

-----------------------------------------------------------------------------
(* Data *)

Statuses == {"absent", "pending", "running", "completed", "failed"}

Terminal == {"completed", "failed"}

Steps == [number : Nat, kind : Kinds, ok : BOOLEAN]

Docs == [status : Statuses, steps : Seq(Steps)]

\* The stages of Execute, then those of runStateMachine.
RequestStages ==
  {"fastPath", "load", "create", "duplicate", "markRunning", "startFailed"}

WorkerStages ==
  {"visit", "call", "persistStep", "stepFailed", "failing", "finishing",
   "abandon"}

Threads == [pc : {"none"} \cup RequestStages \cup WorkerStages,
            status : Statuses, steps : Seq(Steps),
            plan : Seq(Kinds), pos : Nat \ {0}, expired : BOOLEAN]

Idle == [pc |-> "none", status |-> "absent", steps |-> << >>,
         plan |-> << >>, pos |-> 1, expired |-> FALSE]

NoDoc == [status |-> "absent", steps |-> << >>]

Replies == {"unsent", "waiting", "lost", "error", "created", "existing"}

\* An answer: the execution it shows and the status it shows it in.
Reply(kind, e, s) == [kind |-> kind, execution |-> e, status |-> s]

Answers == [kind : Replies, execution : Requests, status : Statuses]

TypeOK ==
  /\ db \in [Requests -> Docs]
  /\ thread \in [Processes -> [Requests -> Threads]]
  /\ answer \in [Requests -> Answers]
  /\ up \in [Processes -> BOOLEAN]
  /\ audit \subseteq Requests \X {"STARTED", "COMPLETED", "FAILED"}
  /\ calls \in [Requests -> Seq(Nat)]
  /\ faults \in 0..MaxFaults
  /\ crashes \in 0..MaxCrashes

-----------------------------------------------------------------------------
(* The repository *)

Present == {e \in Requests : db[e].status # "absent"}

\* FindByIdempotencyKey: the executions stored with the key of r.
WithKeyOf(r) == {e \in Present : KeyOf[e] = KeyOf[r]}

\* Mutant: the unique index is missing.
NoIndex(r) == FALSE

\* The unique sparse index on idempotencyKey, where it exists, rejects a
\* second document.
Duplicate(r) == Indexed /\ KeyOf[r] # NoKey /\ WithKeyOf(r) # {}

\* A database operation reports an error that does not come from its filter.
Fault == faults < MaxFaults /\ faults' = faults + 1

Store(e, doc) == db' = [db EXCEPT ![e] = doc]

\* Update(ctx, execution, expectedStatus): the check and the write are one
\* atomic operation; an error leaves it unknown whether the write happened,
\* and nothing is written once the context has expired.
Update(e, doc, expected, expired, reply) ==
  \/ /\ reply = "ok"
     /\ ~expired /\ db[e].status \in expected
     /\ Store(e, doc)
     /\ UNCHANGED faults
  \/ /\ reply = "conflict"
     /\ ~expired /\ db[e].status \notin expected
     /\ UNCHANGED <<db, faults>>
  \/ /\ reply = "error"
     /\ expired
     /\ UNCHANGED <<db, faults>>
  \/ /\ reply = "error"
     /\ ~expired
     /\ Fault
     /\ \/ UNCHANGED db
        \/ db[e].status \in expected /\ Store(e, doc)

\* expectedStatus "": any stored document matches.
AnyStatus == Statuses \ {"absent"}

\* Mutant: $set leaves the status out.
DocWithoutStatus(t) == [status |-> "pending", steps |-> t.steps]

\* The fields that Create and Update store.
DocOf(t) == [status |-> t.status, steps |-> t.steps]

\* Mutant: nothing is written.
PersistNothing(e, t) == UNCHANGED <<db, faults>>

\* persistBestEffort: the outcome of the write is only logged.
PersistBestEffort(e, t) ==
  \E reply \in {"ok", "conflict", "error"} :
    Update(e, DocOf(t), AnyStatus, t.expired, reply)

-----------------------------------------------------------------------------
(* The in-memory entity *)

Goto(t, pc) == [t EXCEPT !.pc = pc]

\* Mutant: the entity is born running.
BornRunning(t, plan) ==
  [Goto(t, "create") EXCEPT !.plan = plan, !.status = "running"]

NewWorkflowExecution(t, plan) ==
  [Goto(t, "create") EXCEPT !.plan = plan, !.status = "pending"]

\* Mutant: a status outside the enumeration.
MarkErrored(t) ==
  IF t.status \in Terminal THEN t ELSE [t EXCEPT !.status = "errored"]

MarkFailed(t) ==
  IF t.status \in Terminal THEN t ELSE [t EXCEPT !.status = "failed"]

MarkCompleted(t) ==
  IF t.status = "running" THEN [t EXCEPT !.status = "completed"] ELSE t

\* Mutant: only executor and conditional nodes leave a step.
AddNoActionStep(t, ok) ==
  IF t.plan[t.pos] = "action" THEN t
  ELSE [t EXCEPT !.steps =
          Append(@, [number |-> t.pos, kind |-> t.plan[t.pos], ok |-> ok])]

\* Mutant: the steps are replaced instead of appended to.
ReplaceSteps(t, ok) ==
  [t EXCEPT !.steps = << [number |-> t.pos, kind |-> t.plan[t.pos], ok |-> ok] >>]

AddStep(t, ok) ==
  [t EXCEPT !.steps =
     Append(@, [number |-> t.pos, kind |-> t.plan[t.pos], ok |-> ok])]

Set(p, e, t) == thread' = [thread EXCEPT ![p][e] = t]

\* Mutant: the thread goes on instead of returning.
NoReturn(p, e) == UNCHANGED thread

End(p, e) == Set(p, e, Idle)

-----------------------------------------------------------------------------
(* Execute: the request *)

Respond(r, kind, e, s) == answer' = [answer EXCEPT ![r] = Reply(kind, e, s)]

Refuse(r) == Respond(r, "error", r, "absent")

Arrive(p, r) ==
  /\ up[p]
  /\ answer[r].kind = "unsent"
  /\ Respond(r, "waiting", r, "absent")
  /\ Set(p, r, Goto(Idle, IF KeyOf[r] = NoKey THEN "load" ELSE "fastPath"))
  /\ UNCHANGED <<db, up, audit, calls, faults, crashes>>

\* checkIdempotencyFastPath
FastPath(p, r) ==
  /\ thread[p][r].pc = "fastPath"
  /\ \/ /\ WithKeyOf(r) = {}
        /\ Set(p, r, Goto(thread[p][r], "load"))
        /\ UNCHANGED <<answer, faults>>
     \/ /\ \E e \in WithKeyOf(r) : Respond(r, "existing", e, db[e].status)
        /\ End(p, r)
        /\ UNCHANGED faults
     \/ /\ Fault
        /\ Refuse(r)
        /\ End(p, r)
  /\ UNCHANGED <<db, up, audit, calls, crashes>>

\* The workflow is loaded; a missing or inactive one, or an error, refuses.
Load(p, r) ==
  /\ thread[p][r].pc = "load"
  /\ \/ /\ \E plan \in Plans :
             Set(p, r, NewWorkflowExecution(thread[p][r], plan))
        /\ UNCHANGED answer
     \/ /\ Refuse(r)
        /\ End(p, r)
  /\ UNCHANGED <<db, up, audit, calls, faults, crashes>>

Create(p, r) ==
  LET t == thread[p][r] IN
  /\ t.pc = "create"
  /\ \/ /\ ~Duplicate(r)
        /\ Store(r, DocOf(t))
        /\ Set(p, r, [Goto(t, "markRunning") EXCEPT !.status = "running"])
        /\ UNCHANGED <<answer, faults>>
     \/ /\ Duplicate(r)
        /\ Set(p, r, Goto(t, "duplicate"))
        /\ UNCHANGED <<db, answer, faults>>
     \/ /\ Fault
        /\ UNCHANGED db \/ (~Duplicate(r) /\ Store(r, DocOf(t)))
        /\ Refuse(r)
        /\ End(p, r)
  /\ UNCHANGED <<up, audit, calls, crashes>>

\* handleCreateError after a duplicate key
ResolveDuplicate(p, r) ==
  /\ thread[p][r].pc = "duplicate"
  /\ \/ /\ \E e \in WithKeyOf(r) : Respond(r, "existing", e, db[e].status)
        /\ UNCHANGED faults
     \/ Fault /\ Refuse(r)
  /\ End(p, r)
  /\ UNCHANGED <<db, up, audit, calls, crashes>>

\* The running status is stored, the audit event recorded, the goroutine
\* launched and the snapshot returned.
MarkRunning(p, r) ==
  LET t == thread[p][r] IN
  /\ t.pc = "markRunning"
  /\ \E reply \in {"ok", "conflict", "error"} :
       /\ Update(r, DocOf(t), {"pending"}, FALSE, reply)
       /\ \/ /\ reply = "ok"
             /\ audit' = audit \cup {<<r, "STARTED">>}
             /\ Respond(r, "created", r, "running")
             /\ Set(p, r, Goto(t, "visit"))
          \/ /\ reply = "conflict"
             /\ Refuse(r)
             /\ End(p, r)
             /\ UNCHANGED audit
          \/ /\ reply = "error"
             /\ Set(p, r, Goto(MarkFailed(t), "startFailed"))
             /\ UNCHANGED <<answer, audit>>
  /\ UNCHANGED <<up, calls, crashes>>

StartFailed(p, r) ==
  /\ thread[p][r].pc = "startFailed"
  /\ PersistBestEffort(r, thread[p][r])
  /\ Refuse(r)
  /\ End(p, r)
  /\ UNCHANGED <<up, audit, calls, crashes>>

-----------------------------------------------------------------------------
(* runStateMachine: the goroutine *)

\* traverseNode enters the node at pos: the context is checked first.
Enters(t, kind) ==
  /\ t.pc = "visit"
  /\ t.pos <= Len(t.plan)
  /\ ~t.expired
  /\ t.plan[t.pos] = kind

\* The traversal returns without an error; the context is not checked here.
TraversalEnds(p, e) ==
  LET t == thread[p][e] IN
  /\ t.pc = "visit" /\ t.pos > Len(t.plan)
  /\ Set(p, e, Goto(t, "finishing"))
  /\ UNCHANGED <<db, answer, up, audit, calls, faults, crashes>>

\* The traversal returns an error that is not a step's: the context has
\* expired, or the graph has a cycle or an edge to a missing node.
TraversalFails(p, e) ==
  LET t == thread[p][e] IN
  /\ \/ t.pc = "visit" /\ t.pos <= Len(t.plan) /\ t.expired
     \/ Enters(t, "broken")
  /\ Set(p, e, Goto(t, "failing"))
  /\ UNCHANGED <<db, answer, up, audit, calls, faults, crashes>>

\* An action node leaves its step in memory only.
ExecuteActionNode(p, e) ==
  LET t == thread[p][e] IN
  /\ Enters(t, "action")
  /\ Set(p, e, [AddStep(t, TRUE) EXCEPT !.pos = @ + 1])
  /\ UNCHANGED <<db, answer, up, audit, calls, faults, crashes>>

\* A condition is evaluated, or is missing or malformed.
EvaluateConditionalNode(p, e) ==
  LET t == thread[p][e] IN
  /\ Enters(t, "conditional")
  /\ \E ok \in BOOLEAN :
       Set(p, e, Goto(AddStep(t, ok), IF ok THEN "persistStep" ELSE "stepFailed"))
  /\ UNCHANGED <<db, answer, up, audit, calls, faults, crashes>>

\* The provider configuration is loaded and the input built, or the node
\* fails: no or a bad configuration id, a configuration that is missing or
\* not active, an input that cannot be built.
ExecuteExecutorNode(p, e) ==
  LET t == thread[p][e] IN
  /\ Enters(t, "executor")
  /\ \/ Set(p, e, Goto(t, "call"))
     \/ Set(p, e, Goto(AddStep(t, FALSE), "stepFailed"))
  /\ UNCHANGED <<db, answer, up, audit, calls, faults, crashes>>

\* executeRunnerWithRetry and the output transformation.  The provider may
\* have been reached even when the call fails; an open circuit or a missing
\* runner fails without reaching it.
Call(p, e) ==
  LET t == thread[p][e] IN
  /\ t.pc = "call"
  /\ \E ok, reached \in BOOLEAN :
       /\ ok => reached /\ ~t.expired
       /\ Set(p, e, Goto(AddStep(t, ok),
                         IF ok THEN "persistStep" ELSE "stepFailed"))
       /\ calls' = IF reached THEN [calls EXCEPT ![e] = Append(@, t.pos)]
                              ELSE calls
  /\ UNCHANGED <<db, answer, up, audit, faults, crashes>>

\* A completed step is stored while the document is still running; another
\* status means that another worker owns the execution.
PersistStep(p, e) ==
  LET t == thread[p][e] IN
  /\ t.pc = "persistStep"
  /\ \E reply \in {"ok", "conflict", "error"} :
       /\ Update(e, DocOf(t), {"running"}, t.expired, reply)
       /\ \/ reply = "ok"       /\ Set(p, e, [Goto(t, "visit") EXCEPT !.pos = @ + 1])
          \/ reply = "conflict" /\ End(p, e)
          \/ reply = "error"    /\ Set(p, e, Goto(t, "failing"))
  /\ UNCHANGED <<answer, up, audit, calls, crashes>>

\* Mutant: the error of the step is not returned to the traversal.
StepErrorDropped(p, e) ==
  LET t == thread[p][e] IN
  /\ t.pc = "stepFailed"
  /\ PersistBestEffort(e, t)
  /\ Set(p, e, Goto(MarkFailed(t), "finishing"))
  /\ UNCHANGED <<answer, up, audit, calls, crashes>>

\* A failed step: the step is stored first, under the status the entity
\* still has, and the entity marked failed afterwards.
StepFailed(p, e) ==
  LET t == thread[p][e] IN
  /\ t.pc = "stepFailed"
  /\ PersistBestEffort(e, t)
  /\ Set(p, e, Goto(MarkFailed(t), "failing"))
  /\ UNCHANGED <<answer, up, audit, calls, crashes>>

Failing(p, e) ==
  LET t == thread[p][e] IN
  /\ t.pc = "failing"
  /\ PersistBestEffort(e, MarkFailed(t))
  /\ audit' = audit \cup {<<e, "FAILED">>}
  /\ End(p, e)
  /\ UNCHANGED <<answer, up, calls, crashes>>

Finishing(p, e) ==
  LET t == thread[p][e] IN
  /\ t.pc = "finishing"
  /\ PersistBestEffort(e, MarkCompleted(t))
  /\ audit' = audit \cup {<<e, "COMPLETED">>}
  /\ End(p, e)
  /\ UNCHANGED <<answer, up, calls, crashes>>

\* No trigger node, or a recovery that cannot load the workflow: failed, and
\* no audit event.
Abandon(p, e) ==
  /\ thread[p][e].pc = "abandon"
  /\ PersistBestEffort(e, MarkFailed(thread[p][e]))
  /\ End(p, e)
  /\ UNCHANGED <<answer, up, audit, calls, crashes>>

\* executionTimeout passes while the goroutine runs.
Expire(p, e) ==
  /\ CanExpire
  /\ thread[p][e].pc \in WorkerStages \ {"abandon"}
  /\ ~thread[p][e].expired
  /\ Set(p, e, [thread[p][e] EXCEPT !.expired = TRUE])
  /\ UNCHANGED <<db, answer, up, audit, calls, faults, crashes>>

-----------------------------------------------------------------------------
(* Crash, start, recovery *)

\* A crash loses every thread of the process; whoever waits for an answer
\* sees the connection drop.
Crash(p) ==
  /\ up[p]
  /\ crashes < MaxCrashes
  /\ crashes' = crashes + 1
  /\ up' = [up EXCEPT ![p] = FALSE]
  /\ thread' = [thread EXCEPT ![p] = [e \in Requests |-> Idle]]
  /\ answer' = [r \in Requests |->
                  IF thread[p][r].pc \in RequestStages
                  THEN Reply("lost", r, "absent") ELSE answer[r]]
  /\ UNCHANGED <<db, audit, calls, faults>>

\* FindIncomplete
Incomplete == {e \in Requests : db[e].status \in {"pending", "running"}}

\* Mutant: a recovered execution is reset to pending.
ResetToPending(e, plan, pc) ==
  [pc |-> pc, status |-> "pending", steps |-> db[e].steps,
   plan |-> plan, pos |-> 1, expired |-> FALSE]

\* RecoverIncompleteExecutions: a goroutine per incomplete execution, from
\* the trigger, on the entity as it was read.
Resumed(e, plan, pc) ==
  [pc |-> pc, status |-> db[e].status, steps |-> db[e].steps,
   plan |-> plan, pos |-> 1, expired |-> FALSE]

RecoverIncompleteExecutions(p) ==
  \E plan \in [Incomplete -> Plans], pc \in [Incomplete -> {"visit", "abandon"}] :
    thread' = [thread EXCEPT ![p] =
                 [e \in Requests |-> IF e \in Incomplete
                                     THEN Resumed(e, plan[e], pc[e])
                                     ELSE Idle]]

Start(p) ==
  /\ ~up[p]
  /\ up' = [up EXCEPT ![p] = TRUE]
  /\ \/ RecoverOnStart /\ RecoverIncompleteExecutions(p) /\ UNCHANGED faults
     \/ RecoverOnStart /\ Fault /\ UNCHANGED thread
     \/ ~RecoverOnStart /\ UNCHANGED <<thread, faults>>
  /\ UNCHANGED <<db, answer, audit, calls, crashes>>

-----------------------------------------------------------------------------
(* The specification *)

Init ==
  /\ db = [e \in Requests |-> NoDoc]
  /\ thread = [p \in Processes |-> [e \in Requests |-> Idle]]
  /\ answer = [r \in Requests |-> Reply("unsent", r, "absent")]
  /\ up \in [Processes -> BOOLEAN]
  /\ audit = {}
  /\ calls = [e \in Requests |-> << >>]
  /\ faults = 0
  /\ crashes = 0

RequestStep(p, r) ==
  \/ FastPath(p, r) \/ Load(p, r) \/ Create(p, r) \/ ResolveDuplicate(p, r)
  \/ MarkRunning(p, r) \/ StartFailed(p, r)

WorkerStep(p, e) ==
  \/ TraversalEnds(p, e) \/ TraversalFails(p, e) \/ ExecuteActionNode(p, e)
  \/ EvaluateConditionalNode(p, e) \/ ExecuteExecutorNode(p, e)
  \/ Call(p, e) \/ PersistStep(p, e) \/ StepFailed(p, e)
  \/ Failing(p, e) \/ Finishing(p, e) \/ Abandon(p, e)

Next ==
  \/ \E p \in Processes, e \in Requests :
       Arrive(p, e) \/ RequestStep(p, e) \/ WorkerStep(p, e) \/ Expire(p, e)
  \/ \E p \in Processes : Crash(p) \/ Start(p)

Spec == Init /\ [][Next]_vars

\* The Go scheduler runs every runnable goroutine, a database or provider
\* call returns, and a process that is down is started again.
Fairness ==
  /\ \A p \in Processes, e \in Requests :
       WF_vars(RequestStep(p, e) \/ WorkerStep(p, e))
  /\ \A p \in Processes : WF_vars(Start(p))

FairSpec == Spec /\ Fairness

-----------------------------------------------------------------------------
(* Properties *)

\* The executions collection implements module Lifecycle: whatever the
\* crashes, faults and timeouts, a stored status only moves forward and a
\* terminal status is final (pkg/model/execution.go:368-417 seen through
\* the conditional writes of repository.go:109-142).
StoredStatus == [e \in Requests |-> db[e].status]

Abstract == INSTANCE Lifecycle WITH Executions <- Requests,
                                    status <- StoredStatus

ImplementsLifecycle == Abstract!Spec

\* Two answered requests with the same idempotency key show the same
\* execution, whichever of the two paths of Execute answered them
\* (execute_workflow.go:138-180, 1105-1167).
Answered(r) == answer[r].kind \in {"created", "existing"}

SameKeySameExecution ==
  \A r, s \in Requests :
    Answered(r) /\ Answered(s) /\ KeyOf[r] = KeyOf[s] /\ KeyOf[r] # NoKey
      => answer[r].execution = answer[s].execution

\* However often a keyed request is sent, one execution makes the provider
\* calls, in plan order, and enters the call of a node at most once.
Increasing(s) == \A i, j \in DOMAIN s : i < j => s[i] < s[j]

KeyedCallsOnce ==
  /\ \A e \in Requests : Increasing(calls[e])
  /\ \A e, f \in Requests :
       KeyOf[e] = KeyOf[f] /\ KeyOf[e] # NoKey /\ calls[e] # << >> /\ calls[f] # << >>
         => e = f

\* A client that was told its execution is running finds it stored, and
\* never pending again (execute_workflow.go:182-184).
CreatedIsDurable ==
  \A r \in Requests :
    answer[r].kind = "created" => db[r].status \notin {"absent", "pending"}

\* A completed execution stores every step once, in order and successful,
\* and its executor steps are the provider calls that were made: no step is
\* lost although action steps are stored late (execute_workflow.go:387,
\* 584-594, 955-976).
ExecutorPositions(steps) ==
  {steps[i].number : i \in {j \in DOMAIN steps : steps[j].kind = "executor"}}

CompletedIsClean ==
  \A e \in Requests : db[e].status = "completed" =>
    /\ \A i \in DOMAIN db[e].steps :
         db[e].steps[i].number = i /\ db[e].steps[i].ok
    /\ ExecutorPositions(db[e].steps) = {calls[e][i] : i \in DOMAIN calls[e]}

\* The audit trail never contradicts the stored outcome: an execution
\* audited as completed is not stored as failed, nor the reverse, and no
\* execution is audited as both (execute_workflow.go:295-329).
AuditAgrees ==
  \A e \in Requests :
    /\ <<e, "COMPLETED">> \in audit =>
         db[e].status \in {"running", "completed"} /\ <<e, "FAILED">> \notin audit
    /\ <<e, "FAILED">> \in audit => db[e].status # "completed"

\* Stored steps are a log: a write keeps the steps stored before it and a
\* failed step is the last one (Update replaces the whole array,
\* repository.go:117-126).
Extends(s, t) == Len(s) <= Len(t) /\ \A i \in DOMAIN s : t[i] = s[i]

StepsAreALog ==
  [][\A e \in Requests :
       /\ Extends(db[e].steps, db'[e].steps)
       /\ \A i \in DOMAIN db[e].steps :
            ~db[e].steps[i].ok => db'[e].steps = db[e].steps]_db

\* Every goroutine ends, also after a timeout or a failed write.
EveryThreadEnds ==
  \A p \in Processes, e \in Requests :
    thread[p][e].pc # "none" ~> thread[p][e].pc = "none"

\* An execution that is stored reaches a stored terminal status, in every
\* behaviour without a crash, a database error and a timeout of its own.
Disturbed(e) ==
  crashes > 0 \/ faults > 0 \/ \E p \in Processes : thread[p][e].expired

EveryExecutionFinishes ==
  \A e \in Requests :
    []~Disturbed(e) => (e \in Present ~> db[e].status \in Terminal)

-----------------------------------------------------------------------------
(* Invariants that the proofs rest on *)

\* A thread that has an entity has its status, and the node that is called
\* is a node of the plan.
Coherent(t) ==
  /\ t.pc \in {"create", "duplicate", "markRunning", "startFailed"} \cup WorkerStages
       => t.status # "absent"
  /\ t.pc = "call" => t.pos <= Len(t.plan)

TypeInv ==
  /\ TypeOK
  /\ \A p \in Processes, e \in Requests : Coherent(thread[p][e])

\* The status that is stored while the thread is at a stage.
StageMatchesStore(t, stored) ==
  /\ t.pc \in {"fastPath", "load", "create", "duplicate"} => stored = "absent"
  /\ t.pc \in {"create", "duplicate"} => t.status = "pending"
  /\ t.pc = "markRunning" => stored = "pending" /\ t.status = "running"
  /\ t.pc = "startFailed" => stored \in {"pending", "running"} /\ t.status = "failed"
  /\ t.pc \in WorkerStages => stored = "running" /\ t.status \in {"running", "failed"}
  /\ t.pc \in WorkerStages \ {"failing"} => t.status = "running"
  /\ t.pc # "abandon"

\* As the engine is wired, an execution has one writer, what the writer
\* believes of the stored status is true although most writes do not check
\* it, and an execution audited as finished has no writer left
\* (execute_workflow.go:1169-1179, 295-329).
SingleWriter ==
  \A e \in Requests :
    /\ \A p, q \in Processes :
         thread[p][e].pc # "none" /\ thread[q][e].pc # "none" => p = q
    /\ \A p \in Processes : StageMatchesStore(thread[p][e], db[e].status)
    /\ answer[e].kind = "unsent" =>
         db[e].status = "absent" /\ \A p \in Processes : thread[p][e].pc = "none"
    /\ <<e, "COMPLETED">> \in audit \/ <<e, "FAILED">> \in audit =>
         answer[e].kind # "unsent" /\ \A p \in Processes : thread[p][e].pc = "none"

-----------------------------------------------------------------------------
(* What comments of the code say, and the code does not do *)

\* execute_workflow.go:292-294, "Always persist the final state": an
\* execution audited as failed is stored in a terminal status.
FinalStateIsStored ==
  \A e \in Requests : <<e, "FAILED">> \in audit => db[e].status \in Terminal

\* execution_service.go:63, "recovers executions interrupted by restart": an
\* execution interrupted by a crash still reaches a terminal status.
InterruptedAreRecovered ==
  \A e \in Requests : e \in Present ~> db[e].status \in Terminal

\* execute_workflow.go:243, "Execution is already in running state": a state
\* machine never visits a node for an entity that is not running.
StateMachineIsRunning ==
  \A p \in Processes, e \in Requests :
    thread[p][e].pc \in {"visit", "call"} => thread[p][e].status = "running"

\* execute_workflow.go:276-278: a stale worker must not overwrite the
\* winner's state; a terminal status is never replaced.
WinnerIsNotOverwritten ==
  [][\A e \in Requests :
       db[e].status \in Terminal => db'[e].status = db[e].status]_db

\* execute_workflow.go:1053, "resumes executions that were interrupted": a
\* step stored as completed is not executed and stored a second time.
NoStepIsStoredTwice ==
  \A e \in Requests : \A i, j \in DOMAIN db[e].steps :
    /\ i # j
    /\ db[e].steps[i].ok /\ db[e].steps[j].ok
    => db[e].steps[i].number # db[e].steps[j].number

\* handler.go:81-82: 201 for a new execution, 200 for an idempotent request.
HttpStatus(a) == IF a.status \in Terminal THEN 200 ELSE 201

ReplayIs200 ==
  \A r \in Requests : answer[r].kind = "existing" => HttpStatus(answer[r]) = 200

\* handler.go:74 and execute_workflow.go:115: a new execution is returned in
\* pending status.
CreatedIsReturnedPending ==
  \A r \in Requests : answer[r].kind = "created" => answer[r].status = "pending"
=============================================================================
