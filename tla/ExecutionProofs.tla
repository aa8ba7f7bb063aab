-------------------------- MODULE ExecutionProofs --------------------------
(***************************************************************************)
(* Theorems about module Execution, for every set of requests and          *)
(* processes, every set of plans and all bounds.                           *)
(***************************************************************************)
EXTENDS MCExecution, TLAPS

-----------------------------------------------------------------------------
(* The helpers on threads keep their type *)

Stages == {"none"} \cup RequestStages \cup WorkerStages

LEMMA IdleType == Idle \in Threads
  BY DEF Idle, Threads, Statuses

\* Goto changes the stage only.
LEMMA GotoType ==
  ASSUME NEW t \in Threads, NEW pc \in Stages
  PROVE  /\ Goto(t, pc) \in Threads
         /\ Goto(t, pc).pc = pc
         /\ Goto(t, pc).status = t.status
         /\ Goto(t, pc).steps = t.steps
         /\ Goto(t, pc).plan = t.plan
         /\ Goto(t, pc).pos = t.pos
         /\ Goto(t, pc).expired = t.expired
  BY DEF Goto, Threads, Stages

\* MarkFailed and MarkCompleted change the status only.
LEMMA MarkFailedType ==
  ASSUME NEW t \in Threads
  PROVE  /\ MarkFailed(t) \in Threads
         /\ MarkFailed(t).pc = t.pc
         /\ MarkFailed(t).plan = t.plan
         /\ MarkFailed(t).pos = t.pos
         /\ MarkFailed(t).expired = t.expired
         /\ t.status \notin Terminal => MarkFailed(t).status = "failed"
  BY DEF MarkFailed, Threads, Statuses

LEMMA MarkCompletedType ==
  ASSUME NEW t \in Threads
  PROVE  /\ MarkCompleted(t) \in Threads
         /\ t.status = "running" => MarkCompleted(t).status = "completed"
  BY DEF MarkCompleted, Threads, Statuses

LEMMA NewWorkflowExecutionType ==
  ASSUME NEW t \in Threads, NEW plan \in Seq(Kinds)
  PROVE  /\ NewWorkflowExecution(t, plan) \in Threads
         /\ NewWorkflowExecution(t, plan).pc = "create"
         /\ NewWorkflowExecution(t, plan).status = "pending"
  BY DEF NewWorkflowExecution, Goto, Threads, Statuses, RequestStages

\* A step is added for a node of the plan.
LEMMA AddStepType ==
  ASSUME NEW t \in Threads, t.pos <= Len(t.plan), NEW ok \in BOOLEAN
  PROVE  /\ AddStep(t, ok) \in Threads
         /\ AddStep(t, ok).pc = t.pc
         /\ AddStep(t, ok).status = t.status
         /\ AddStep(t, ok).pos = t.pos
         /\ AddStep(t, ok).plan = t.plan
  <1>1. t.pos \in 1..Len(t.plan) /\ t.plan \in Seq(Kinds)
    BY DEF Threads
  <1>2. t.plan[t.pos] \in Kinds
    BY <1>1
  <1>3. [number |-> t.pos, kind |-> t.plan[t.pos], ok |-> ok] \in Steps
    BY <1>1, <1>2 DEF Steps
  <1>4. Append(t.steps, [number |-> t.pos, kind |-> t.plan[t.pos], ok |-> ok]) \in Seq(Steps)
    BY <1>3 DEF Threads
  <1>5. QED
    BY <1>4 DEF AddStep, Threads

LEMMA AdvanceType ==
  ASSUME NEW t \in Threads
  PROVE  /\ [t EXCEPT !.pos = @ + 1] \in Threads
         /\ [t EXCEPT !.pos = @ + 1].pc = t.pc
         /\ [t EXCEPT !.pos = @ + 1].status = t.status
         /\ [t EXCEPT !.pos = @ + 1].steps = t.steps
  <1>1. t.pos + 1 \in Nat \ {0}
    <2>1. t.pos \in Nat
      BY DEF Threads
    <2>2. QED
      BY <2>1
  <1>2. QED
    BY <1>1 DEF Threads

LEMMA DocOfType ==
  ASSUME NEW t \in Threads
  PROVE  /\ DocOf(t) \in Docs
         /\ DocOf(t).status = t.status
  BY DEF DocOf, Docs, Threads

-----------------------------------------------------------------------------
(* The writes keep the types of the variables *)

LEMMA SetType ==
  ASSUME TypeOK, NEW p \in Processes, NEW e \in Requests, NEW t \in Threads,
         Set(p, e, t)
  PROVE  /\ thread' \in [Processes -> [Requests -> Threads]]
         /\ thread'[p][e] = t
         /\ \A q \in Processes, f \in Requests :
              <<q, f>> # <<p, e>> => thread'[q][f] = thread[q][f]
  BY DEF Set, TypeOK

LEMMA RespondType ==
  ASSUME TypeOK, NEW r \in Requests, NEW kind \in Replies,
         NEW e \in Requests, NEW s \in Statuses, Respond(r, kind, e, s)
  PROVE  /\ answer' \in [Requests -> Answers]
         /\ answer'[r] = Reply(kind, e, s)
         /\ \A q \in Requests : q # r => answer'[q] = answer[q]
  BY DEF Respond, Reply, TypeOK, Answers

LEMMA FaultType == ASSUME TypeOK, Fault PROVE faults' \in 0..MaxFaults
  BY ConstantsAssumption DEF Fault, TypeOK

LEMMA StoreType ==
  ASSUME TypeOK, NEW e \in Requests, NEW doc \in Docs, Store(e, doc)
  PROVE  /\ db' \in [Requests -> Docs]
         /\ db'[e] = doc
         /\ \A f \in Requests : f # e => db'[f] = db[f]
  BY DEF Store, TypeOK

\* An update changes at most the document of e, and then to the given one,
\* from an expected status.
LEMMA UpdateType ==
  ASSUME TypeOK, NEW e \in Requests, NEW doc \in Docs, NEW expected, NEW expired,
         NEW reply, Update(e, doc, expected, expired, reply)
  PROVE  /\ db' \in [Requests -> Docs]
         /\ faults' \in 0..MaxFaults
         /\ db' = db \/ (db[e].status \in expected /\ db'[e] = doc)
         /\ \A f \in Requests : f # e => db'[f] = db[f]
         /\ reply = "ok" => db[e].status \in expected /\ db'[e] = doc
         /\ reply = "conflict" => db[e].status \notin expected /\ db' = db
  <1>1. CASE reply = "ok"
    BY <1>1, StoreType DEF Update, TypeOK
  <1>2. CASE reply = "conflict"
    BY <1>2 DEF Update, TypeOK
  <1>3. CASE reply = "error"
    <2>1. CASE UNCHANGED db /\ UNCHANGED faults
      BY <1>3, <2>1 DEF TypeOK
    <2>2. CASE Fault /\ UNCHANGED db
      BY <1>3, <2>2, FaultType DEF TypeOK
    <2>3. CASE Fault /\ db[e].status \in expected /\ Store(e, doc)
      BY <1>3, <2>3, FaultType, StoreType
    <2>4. QED
      BY <1>3, <2>1, <2>2, <2>3 DEF Update
  <1>4. QED
    BY <1>1, <1>2, <1>3 DEF Update

LEMMA PersistType ==
  ASSUME TypeOK, NEW e \in Requests, NEW t \in Threads, PersistBestEffort(e, t)
  PROVE  /\ db' \in [Requests -> Docs]
         /\ faults' \in 0..MaxFaults
         /\ db' = db \/ (db[e].status # "absent" /\ db'[e] = DocOf(t))
         /\ \A f \in Requests : f # e => db'[f] = db[f]
  <1>1. PICK reply : Update(e, DocOf(t), AnyStatus, t.expired, reply)
    BY DEF PersistBestEffort
  <1>2. QED
    BY <1>1, UpdateType, DocOfType DEF AnyStatus

-----------------------------------------------------------------------------
(* Every action keeps the type invariant *)

\* A step of thread <<p, e>>.
LEMMA TypeFrame ==
  ASSUME TypeInv, NEW p \in Processes, NEW e \in Requests, NEW t \in Threads,
         Coherent(t), Set(p, e, t),
         db' \in [Requests -> Docs],
         answer' \in [Requests -> Answers],
         up' \in [Processes -> BOOLEAN],
         audit' \subseteq Requests \X {"STARTED", "COMPLETED", "FAILED"},
         calls' \in [Requests -> Seq(Nat)],
         faults' \in 0..MaxFaults,
         crashes' \in 0..MaxCrashes
  PROVE  TypeInv'
  <1>1. TypeOK'
    BY SetType DEF TypeInv, TypeOK
  <1>2. \A q \in Processes, f \in Requests : Coherent(thread[q][f])'
    <2>1. SUFFICES ASSUME NEW q \in Processes, NEW f \in Requests
                   PROVE  Coherent(thread'[q][f])
      BY DEF Coherent
    <2>2. CASE q = p /\ f = e
      BY <2>2, SetType DEF TypeInv
    <2>3. CASE <<q, f>> # <<p, e>>
      BY <2>3, SetType DEF TypeInv
    <2>4. QED
      BY <2>2, <2>3
  <1>3. QED
    BY <1>1, <1>2 DEF TypeInv

LEMMA IdleCoherent == Coherent(Idle)
  BY DEF Coherent, Idle, WorkerStages

LEMMA ArriveType ==
  ASSUME TypeInv, NEW p \in Processes, NEW r \in Requests, Arrive(p, r)
  PROVE  TypeInv'
  <1> DEFINE t == Goto(Idle, IF KeyOf[r] = NoKey THEN "load" ELSE "fastPath")
  <1>1. t \in Threads /\ Coherent(t)
    BY IdleType, GotoType DEF Stages, RequestStages, Coherent, WorkerStages
  <1>2. answer' \in [Requests -> Answers]
    BY RespondType DEF Arrive, TypeInv, Replies, Statuses
  <1>3. QED
    BY <1>1, <1>2, TypeFrame DEF Arrive, TypeInv, TypeOK

LEMMA FastPathType ==
  ASSUME TypeInv, NEW p \in Processes, NEW r \in Requests, FastPath(p, r)
  PROVE  TypeInv'
  <1> DEFINE t == thread[p][r]
  <1>1. t \in Threads /\ Goto(t, "load") \in Threads /\ Coherent(Goto(t, "load"))
    BY GotoType DEF TypeInv, TypeOK, Stages, RequestStages, Coherent, WorkerStages
  <1>2. CASE WithKeyOf(r) = {} /\ Set(p, r, Goto(t, "load")) /\ UNCHANGED <<answer, faults>>
    BY <1>1, <1>2, TypeFrame DEF FastPath, TypeInv, TypeOK
  <1>3. ASSUME NEW e \in WithKeyOf(r), Respond(r, "existing", e, db[e].status),
               End(p, r), UNCHANGED faults
        PROVE  TypeInv'
    <2>1. e \in Requests /\ db[e].status \in Statuses
      BY DEF WithKeyOf, Present, TypeInv, TypeOK, Docs
    <2>2. answer' \in [Requests -> Answers]
      BY <1>3, <2>1, RespondType DEF TypeInv, Replies
    <2>3. QED
      BY <1>3, <2>2, IdleType, IdleCoherent, TypeFrame DEF FastPath, End, TypeInv, TypeOK
  <1>4. CASE Fault /\ Refuse(r) /\ End(p, r)
    <2>1. answer' \in [Requests -> Answers]
      BY <1>4, RespondType DEF Refuse, TypeInv, Replies, Statuses
    <2>2. faults' \in 0..MaxFaults
      BY <1>4, FaultType DEF TypeInv
    <2>3. QED
      BY <1>4, <2>1, <2>2, IdleType, IdleCoherent, TypeFrame DEF FastPath, End, TypeInv, TypeOK
  <1>5. QED
    BY <1>2, <1>3, <1>4 DEF FastPath

LEMMA LoadType ==
  ASSUME TypeInv, NEW p \in Processes, NEW r \in Requests, Load(p, r)
  PROVE  TypeInv'
  <1> DEFINE t == thread[p][r]
  <1>1. t \in Threads
    BY DEF TypeInv, TypeOK
  <1>2. ASSUME NEW plan \in Plans, Set(p, r, NewWorkflowExecution(t, plan)), UNCHANGED answer
        PROVE  TypeInv'
    <2>1. plan \in Seq(Kinds)
      BY ConstantsAssumption
    <2>2. /\ NewWorkflowExecution(t, plan) \in Threads
          /\ Coherent(NewWorkflowExecution(t, plan))
      BY <1>1, <2>1, NewWorkflowExecutionType DEF Coherent, WorkerStages
    <2>3. QED
      BY <1>2, <2>2, TypeFrame DEF Load, TypeInv, TypeOK
  <1>3. CASE Refuse(r) /\ End(p, r)
    <2>1. answer' \in [Requests -> Answers]
      BY <1>3, RespondType DEF Refuse, TypeInv, Replies, Statuses
    <2>2. QED
      BY <1>3, <2>1, IdleType, IdleCoherent, TypeFrame DEF Load, End, TypeInv, TypeOK
  <1>4. QED
    BY <1>2, <1>3 DEF Load

LEMMA CreateType ==
  ASSUME TypeInv, NEW p \in Processes, NEW r \in Requests, Create(p, r)
  PROVE  TypeInv'
  <1> DEFINE t == thread[p][r]
  <1>1. t \in Threads /\ t.pc = "create" /\ DocOf(t) \in Docs
    BY DocOfType DEF TypeInv, TypeOK, Create
  <1>2. CASE ~Duplicate(r) /\ Store(r, DocOf(t)) /\ UNCHANGED <<answer, faults>>
             /\ Set(p, r, [Goto(t, "markRunning") EXCEPT !.status = "running"])
    <2>1. [Goto(t, "markRunning") EXCEPT !.status = "running"] \in Threads
      BY <1>1, GotoType DEF Stages, RequestStages, Threads, Statuses
    <2>2. Coherent([Goto(t, "markRunning") EXCEPT !.status = "running"])
      BY <1>1 DEF Coherent, Goto, WorkerStages, Threads
    <2>3. db' \in [Requests -> Docs]
      BY <1>1, <1>2, StoreType DEF TypeInv
    <2>4. QED
      BY <1>2, <2>1, <2>2, <2>3, TypeFrame DEF Create, TypeInv, TypeOK
  <1>3. CASE Duplicate(r) /\ Set(p, r, Goto(t, "duplicate")) /\ UNCHANGED <<db, answer, faults>>
    <2>1. Goto(t, "duplicate") \in Threads /\ Coherent(Goto(t, "duplicate"))
      BY <1>1, GotoType DEF Stages, RequestStages, TypeInv, Coherent, WorkerStages
    <2>2. QED
      BY <1>3, <2>1, TypeFrame DEF Create, TypeInv, TypeOK
  <1>4. CASE Fault /\ (UNCHANGED db \/ (~Duplicate(r) /\ Store(r, DocOf(t))))
             /\ Refuse(r) /\ End(p, r)
    <2>1. answer' \in [Requests -> Answers]
      BY <1>4, RespondType DEF Refuse, TypeInv, Replies, Statuses
    <2>2. faults' \in 0..MaxFaults
      BY <1>4, FaultType DEF TypeInv
    <2>3. db' \in [Requests -> Docs]
      BY <1>1, <1>4, StoreType DEF TypeInv, TypeOK
    <2>4. QED
      BY <1>4, <2>1, <2>2, <2>3, IdleType, IdleCoherent, TypeFrame
      DEF Create, End, TypeInv, TypeOK
  <1>5. QED
    BY <1>2, <1>3, <1>4 DEF Create

LEMMA ResolveDuplicateType ==
  ASSUME TypeInv, NEW p \in Processes, NEW r \in Requests, ResolveDuplicate(p, r)
  PROVE  TypeInv'
  <1>1. answer' \in [Requests -> Answers] /\ faults' \in 0..MaxFaults
    <2>1. ASSUME NEW e \in WithKeyOf(r), Respond(r, "existing", e, db[e].status)
          PROVE  answer' \in [Requests -> Answers]
      <3>1. e \in Requests /\ db[e].status \in Statuses
        BY DEF WithKeyOf, Present, TypeInv, TypeOK, Docs
      <3>2. QED
        BY <2>1, <3>1, RespondType DEF TypeInv, Replies
    <2>2. Refuse(r) => answer' \in [Requests -> Answers]
      BY RespondType DEF Refuse, TypeInv, Replies, Statuses
    <2>3. QED
      BY <2>1, <2>2, FaultType DEF ResolveDuplicate, TypeInv, TypeOK
  <1>2. QED
    BY <1>1, IdleType, IdleCoherent, TypeFrame DEF ResolveDuplicate, End, TypeInv, TypeOK

LEMMA MarkRunningType ==
  ASSUME TypeInv, NEW p \in Processes, NEW r \in Requests, MarkRunning(p, r)
  PROVE  TypeInv'
  <1> DEFINE t == thread[p][r]
  <1>1. t \in Threads /\ DocOf(t) \in Docs /\ t.pc = "markRunning" /\ Coherent(t)
    BY DocOfType DEF TypeInv, TypeOK, MarkRunning
  <1>2. PICK reply \in {"ok", "conflict", "error"} :
          /\ Update(r, DocOf(t), {"pending"}, FALSE, reply)
          /\ \/ /\ reply = "ok"
                /\ audit' = audit \cup {<<r, "STARTED">>}
                /\ Respond(r, "created", r, "running")
                /\ Set(p, r, Goto(t, "visit"))
             \/ reply = "conflict" /\ Refuse(r) /\ End(p, r) /\ UNCHANGED audit
             \/ /\ reply = "error"
                /\ Set(p, r, Goto(MarkFailed(t), "startFailed"))
                /\ UNCHANGED <<answer, audit>>
    BY DEF MarkRunning
  <1>3. db' \in [Requests -> Docs] /\ faults' \in 0..MaxFaults
    BY <1>1, <1>2, UpdateType DEF TypeInv
  <1>4. CASE reply = "ok"
    <2>1. answer' \in [Requests -> Answers]
      BY <1>2, <1>4, RespondType DEF TypeInv, Replies, Statuses
    <2>2. Goto(t, "visit") \in Threads /\ Coherent(Goto(t, "visit"))
      BY <1>1, GotoType DEF Stages, WorkerStages, Coherent
    <2>3. audit' \subseteq Requests \X {"STARTED", "COMPLETED", "FAILED"}
      BY <1>2, <1>4 DEF TypeInv, TypeOK
    <2>4. Set(p, r, Goto(t, "visit"))
      BY <1>2, <1>4
    <2>5. QED
      BY <1>3, <2>1, <2>2, <2>3, <2>4, TypeFrame DEF MarkRunning, TypeInv, TypeOK
  <1>5. CASE reply = "conflict"
    <2>1. answer' \in [Requests -> Answers]
      BY <1>2, <1>5, RespondType DEF Refuse, TypeInv, Replies, Statuses
    <2>2. QED
      BY <1>2, <1>3, <1>5, <2>1, IdleType, IdleCoherent, TypeFrame
      DEF MarkRunning, End, TypeInv, TypeOK
  <1>6. CASE reply = "error"
    <2>0. MarkFailed(t) \in Threads /\ MarkFailed(t).status # "absent"
      BY <1>1, MarkFailedType DEF Coherent, MarkFailed, Terminal
    <2>1. /\ Goto(MarkFailed(t), "startFailed") \in Threads
          /\ Goto(MarkFailed(t), "startFailed").pc = "startFailed"
          /\ Goto(MarkFailed(t), "startFailed").status # "absent"
      BY <2>0, GotoType DEF Stages, RequestStages
    <2>2. Coherent(Goto(MarkFailed(t), "startFailed"))
      BY <2>1 DEF Coherent
    <2>3. QED
      BY <1>2, <1>3, <1>6, <2>1, <2>2, TypeFrame DEF MarkRunning, TypeInv, TypeOK
  <1>7. QED
    BY <1>2, <1>4, <1>5, <1>6

LEMMA StartFailedType ==
  ASSUME TypeInv, NEW p \in Processes, NEW r \in Requests, StartFailed(p, r)
  PROVE  TypeInv'
  <1>1. answer' \in [Requests -> Answers]
    BY RespondType DEF StartFailed, Refuse, TypeInv, Replies, Statuses
  <1>2. db' \in [Requests -> Docs] /\ faults' \in 0..MaxFaults
    BY PersistType DEF StartFailed, TypeInv, TypeOK
  <1>3. QED
    BY <1>1, <1>2, IdleType, IdleCoherent, TypeFrame DEF StartFailed, End, TypeInv, TypeOK

\* The steps of a goroutine that leave the database alone.
LEMMA TraversalType ==
  ASSUME TypeInv, NEW p \in Processes, NEW e \in Requests,
         \/ TraversalEnds(p, e) \/ TraversalFails(p, e) \/ ExecuteActionNode(p, e)
         \/ EvaluateConditionalNode(p, e) \/ ExecuteExecutorNode(p, e)
         \/ Call(p, e) \/ Expire(p, e)
  PROVE  TypeInv'
  <1> DEFINE t == thread[p][e]
  <1>1. t \in Threads /\ Coherent(t)
    BY DEF TypeInv, TypeOK
  <1>2. ASSUME TraversalEnds(p, e) \/ TraversalFails(p, e) PROVE TypeInv'
    <2>1. PICK pc \in {"finishing", "failing"} : Set(p, e, Goto(t, pc))
      BY <1>2 DEF TraversalEnds, TraversalFails
    <2>2. t.pc = "visit"
      BY <1>2 DEF TraversalEnds, TraversalFails, Enters
    <2>3. Goto(t, pc) \in Threads /\ Coherent(Goto(t, pc))
      BY <1>1, <2>2, GotoType DEF Stages, WorkerStages, Coherent
    <2>4. QED
      BY <1>2, <2>1, <2>3, TypeFrame DEF TraversalEnds, TraversalFails, TypeInv, TypeOK
  <1>3. ASSUME ExecuteActionNode(p, e) PROVE TypeInv'
    <2>1. t.pc = "visit" /\ t.pos <= Len(t.plan)
      BY <1>3 DEF ExecuteActionNode, Enters
    <2>2. PICK u \in Threads : u = AddStep(t, TRUE) /\ u.pc = "visit" /\ u.status # "absent"
      <3>1. \A ok \in BOOLEAN :
              AddStep(t, ok) \in Threads /\ AddStep(t, ok).pc = t.pc
              /\ AddStep(t, ok).status = t.status
        BY <1>1, <2>1, AddStepType
      <3>2. t.status # "absent"
        BY <1>1, <2>1 DEF Coherent, WorkerStages
      <3>3. QED
        BY <2>1, <3>1, <3>2, Zenon
    <2>3. [u EXCEPT !.pos = @ + 1] \in Threads /\ Coherent([u EXCEPT !.pos = @ + 1])
      BY <2>2, AdvanceType DEF Coherent
    <2>4. Set(p, e, [u EXCEPT !.pos = @ + 1])
      BY <1>3, <2>2, Zenon DEF ExecuteActionNode
    <2>5. QED
      BY <1>3, <2>3, <2>4, TypeFrame DEF ExecuteActionNode, TypeInv, TypeOK
  <1>4. ASSUME NEW ok \in BOOLEAN, NEW pc \in {"persistStep", "stepFailed"},
               t.pos <= Len(t.plan), t.pc \in {"visit", "call"}
        PROVE  /\ Goto(AddStep(t, ok), pc) \in Threads
               /\ Coherent(Goto(AddStep(t, ok), pc))
    <2>1. AddStep(t, ok) \in Threads /\ AddStep(t, ok).status # "absent"
      BY <1>1, <1>4, AddStepType DEF Coherent, WorkerStages
    <2>2. QED
      BY <2>1, GotoType DEF Stages, WorkerStages, Coherent
  <1>5. ASSUME EvaluateConditionalNode(p, e) PROVE TypeInv'
    <2>1. PICK ok \in BOOLEAN :
            Set(p, e, Goto(AddStep(t, ok), IF ok THEN "persistStep" ELSE "stepFailed"))
      BY <1>5 DEF EvaluateConditionalNode
    <2>2. t.pos <= Len(t.plan) /\ t.pc = "visit"
      BY <1>5 DEF EvaluateConditionalNode, Enters
    <2>3. QED
      BY <1>4, <1>5, <2>1, <2>2, TypeFrame DEF EvaluateConditionalNode, TypeInv, TypeOK
  <1>6. ASSUME ExecuteExecutorNode(p, e) PROVE TypeInv'
    <2>1. t.pos <= Len(t.plan) /\ t.pc = "visit"
      BY <1>6 DEF ExecuteExecutorNode, Enters
    <2>2. Goto(t, "call") \in Threads /\ Coherent(Goto(t, "call"))
      BY <1>1, <2>1, GotoType DEF Stages, WorkerStages, Coherent
    <2>3. QED
      BY <1>4, <1>6, <2>1, <2>2, TypeFrame DEF ExecuteExecutorNode, TypeInv, TypeOK
  <1>7. ASSUME Call(p, e) PROVE TypeInv'
    <2>1. PICK ok \in BOOLEAN, reached \in BOOLEAN :
            /\ Set(p, e, Goto(AddStep(t, ok), IF ok THEN "persistStep" ELSE "stepFailed"))
            /\ calls' = IF reached THEN [calls EXCEPT ![e] = Append(@, t.pos)] ELSE calls
      BY <1>7 DEF Call
    <2>2. t.pos <= Len(t.plan) /\ t.pc = "call" /\ t.pos \in Nat
      BY <1>1, <1>7 DEF Call, Coherent, Threads
    <2>3. calls' \in [Requests -> Seq(Nat)]
      BY <2>1, <2>2 DEF TypeInv, TypeOK
    <2>4. QED
      BY <1>4, <1>7, <2>1, <2>2, <2>3, TypeFrame DEF Call, TypeInv, TypeOK
  <1>8. ASSUME Expire(p, e) PROVE TypeInv'
    <2>1. [t EXCEPT !.expired = TRUE] \in Threads /\ Coherent([t EXCEPT !.expired = TRUE])
      BY <1>1 DEF Threads, Coherent
    <2>2. QED
      BY <1>8, <2>1, TypeFrame DEF Expire, TypeInv, TypeOK
  <1>9. QED
    BY <1>2, <1>3, <1>5, <1>6, <1>7, <1>8

LEMMA PersistStepType ==
  ASSUME TypeInv, NEW p \in Processes, NEW e \in Requests, PersistStep(p, e)
  PROVE  TypeInv'
  <1> DEFINE t == thread[p][e]
             next == [Goto(t, "visit") EXCEPT !.pos = @ + 1]
  <1>1. t \in Threads /\ DocOf(t) \in Docs /\ t.pc = "persistStep" /\ t.status # "absent"
    BY DocOfType DEF TypeInv, TypeOK, PersistStep, Coherent, WorkerStages
  <1>2. PICK reply \in {"ok", "conflict", "error"} :
          /\ Update(e, DocOf(t), {"running"}, t.expired, reply)
          /\ Set(p, e, next) \/ Set(p, e, Idle) \/ Set(p, e, Goto(t, "failing"))
    BY DEF PersistStep, End
  <1>3. db' \in [Requests -> Docs] /\ faults' \in 0..MaxFaults
    BY <1>1, <1>2, UpdateType DEF TypeInv
  <1>4. next \in Threads /\ Coherent(next)
    <2>1. /\ Goto(t, "visit") \in Threads
          /\ Goto(t, "visit").pc = "visit"
          /\ Goto(t, "visit").status # "absent"
      BY <1>1, GotoType DEF Stages, WorkerStages
    <2>2. QED
      BY <2>1, AdvanceType DEF Coherent
  <1>5. Goto(t, "failing") \in Threads /\ Coherent(Goto(t, "failing"))
    BY <1>1, GotoType DEF Stages, WorkerStages, Coherent
  <1>6. PICK u \in {next, Idle, Goto(t, "failing")} : Set(p, e, u)
    BY <1>2
  <1>7. QED
    BY <1>3, <1>4, <1>5, <1>6, IdleType, IdleCoherent, TypeFrame
    DEF PersistStep, TypeInv, TypeOK

\* The steps of a goroutine that write without a check.
LEMMA BestEffortType ==
  ASSUME TypeInv, NEW p \in Processes, NEW e \in Requests,
         StepFailed(p, e) \/ Failing(p, e) \/ Finishing(p, e) \/ Abandon(p, e)
  PROVE  TypeInv'
  <1> DEFINE t == thread[p][e]
  <1>1. t \in Threads /\ MarkFailed(t) \in Threads /\ MarkCompleted(t) \in Threads
    BY MarkFailedType, MarkCompletedType DEF TypeInv, TypeOK
  <1>2. db' \in [Requests -> Docs] /\ faults' \in 0..MaxFaults
    BY <1>1, PersistType DEF StepFailed, Failing, Finishing, Abandon, TypeInv
  <1>3. audit' \subseteq Requests \X {"STARTED", "COMPLETED", "FAILED"}
    BY DEF StepFailed, Failing, Finishing, Abandon, TypeInv, TypeOK
  <1>4. CASE StepFailed(p, e)
    <2>1. t.status # "absent" /\ MarkFailed(t).status # "absent"
      BY <1>1, <1>4 DEF StepFailed, TypeInv, Coherent, WorkerStages, MarkFailed, Threads
    <2>2. Goto(MarkFailed(t), "failing") \in Threads /\ Coherent(Goto(MarkFailed(t), "failing"))
      BY <1>1, <2>1, GotoType DEF Stages, WorkerStages, Coherent
    <2>3. QED
      BY <1>2, <1>3, <1>4, <2>2, TypeFrame DEF StepFailed, TypeInv, TypeOK
  <1>5. CASE Failing(p, e) \/ Finishing(p, e) \/ Abandon(p, e)
    BY <1>2, <1>3, <1>5, IdleType, IdleCoherent, TypeFrame
    DEF Failing, Finishing, Abandon, End, TypeInv, TypeOK
  <1>6. QED
    BY <1>4, <1>5

LEMMA CrashType ==
  ASSUME TypeInv, NEW p \in Processes, Crash(p)
  PROVE  TypeInv'
  <1>1. thread' \in [Processes -> [Requests -> Threads]]
    BY IdleType DEF Crash, TypeInv, TypeOK
  <1>2. \A q \in Processes, e \in Requests :
          thread'[q][e] = Idle \/ thread'[q][e] = thread[q][e]
    BY DEF Crash, TypeInv, TypeOK
  <1>3. \A q \in Processes, e \in Requests : Coherent(thread[q][e])'
    BY <1>2, IdleCoherent DEF TypeInv, Coherent
  <1>4. answer' \in [Requests -> Answers]
    <2>1. \A r \in Requests : Reply("lost", r, "absent") \in Answers
      BY DEF Reply, Answers, Replies, Statuses
    <2>2. QED
      BY <2>1 DEF Crash, TypeInv, TypeOK
  <1>5. crashes' \in 0..MaxCrashes
    BY ConstantsAssumption DEF Crash, TypeInv, TypeOK
  <1>6. QED
    BY <1>1, <1>3, <1>4, <1>5 DEF Crash, TypeInv, TypeOK

\* What recovery launches: a thread that has the status that is stored.
LEMMA ResumedType ==
  ASSUME TypeInv, NEW e \in Incomplete, NEW plan \in Plans,
         NEW pc \in {"visit", "abandon"}
  PROVE  /\ Resumed(e, plan, pc) \in Threads
         /\ Coherent(Resumed(e, plan, pc))
  <1>1. db[e] \in Docs /\ db[e].status \in {"pending", "running"}
    BY DEF Incomplete, TypeInv, TypeOK
  <1>2. plan \in Seq(Kinds)
    BY ConstantsAssumption
  <1>3. pc \in {"none"} \cup RequestStages \cup WorkerStages /\ pc # "call"
    BY DEF WorkerStages
  <1>4. QED
    BY <1>1, <1>2, <1>3 DEF Resumed, Threads, Docs, Coherent

LEMMA StartType ==
  ASSUME TypeInv, NEW p \in Processes, Start(p)
  PROVE  TypeInv'
  <1>1. faults' \in 0..MaxFaults /\ up' \in [Processes -> BOOLEAN]
    BY FaultType DEF Start, TypeInv, TypeOK
  <1>2. CASE UNCHANGED thread
    BY <1>1, <1>2 DEF Start, TypeInv, TypeOK, Coherent
  <1>3. CASE RecoverIncompleteExecutions(p)
    <2>1. PICK plan \in [Incomplete -> Plans], pc \in [Incomplete -> {"visit", "abandon"}] :
            thread' = [thread EXCEPT ![p] =
                         [e \in Requests |-> IF e \in Incomplete
                                             THEN Resumed(e, plan[e], pc[e])
                                             ELSE Idle]]
      BY <1>3 DEF RecoverIncompleteExecutions
    <2> DEFINE started == [e \in Requests |-> IF e \in Incomplete
                                              THEN Resumed(e, plan[e], pc[e])
                                              ELSE Idle]
    <2>2. ASSUME NEW e \in Requests
          PROVE  started[e] \in Threads /\ Coherent(started[e])
      <3>1. CASE e \in Incomplete
        <4>1. plan[e] \in Plans /\ pc[e] \in {"visit", "abandon"}
          BY <3>1
        <4>2. started[e] = Resumed(e, plan[e], pc[e])
          BY <3>1
        <4>3. QED
          BY <3>1, <4>1, <4>2, ResumedType
      <3>2. CASE e \notin Incomplete
        BY <3>2, IdleType, IdleCoherent
      <3>3. QED
        BY <3>1, <3>2
    <2>3. started \in [Requests -> Threads]
      BY <2>2
    <2>4. thread' = [thread EXCEPT ![p] = started]
      BY <2>1
    <2> HIDE DEF started
    <2>5. thread' \in [Processes -> [Requests -> Threads]]
      BY <2>3, <2>4 DEF TypeInv, TypeOK
    <2>6. \A q \in Processes, e \in Requests : Coherent(thread'[q][e])
      BY <2>2, <2>4 DEF TypeInv, TypeOK
    <2>7. QED
      BY <1>1, <2>5, <2>6 DEF Start, TypeInv, TypeOK, Coherent
  <1>4. QED
    BY <1>2, <1>3 DEF Start

LEMMA TypeStep == TypeInv /\ [Next]_vars => TypeInv'
  <1> SUFFICES ASSUME TypeInv, [Next]_vars PROVE TypeInv'
    OBVIOUS
  <1>1. ASSUME NEW p \in Processes, NEW e \in Requests,
               Arrive(p, e) \/ RequestStep(p, e) \/ WorkerStep(p, e) \/ Expire(p, e)
        PROVE  TypeInv'
    <2>1. CASE Arrive(p, e)
      BY <2>1, ArriveType
    <2>2. CASE RequestStep(p, e)
      BY <2>2, FastPathType, LoadType, CreateType, ResolveDuplicateType,
         MarkRunningType, StartFailedType DEF RequestStep
    <2>3. CASE WorkerStep(p, e)
      BY <2>3, TraversalType, PersistStepType, BestEffortType DEF WorkerStep
    <2>4. CASE Expire(p, e)
      BY <2>4, TraversalType
    <2>5. QED
      BY <1>1, <2>1, <2>2, <2>3, <2>4
  <1>2. ASSUME NEW p \in Processes, Crash(p) \/ Start(p) PROVE TypeInv'
    BY <1>2, CrashType, StartType
  <1>3. CASE UNCHANGED vars
    BY <1>3 DEF vars, TypeInv, TypeOK, Coherent
  <1>4. QED
    BY <1>1, <1>2, <1>3 DEF Next

LEMMA TypeInit == Init => TypeInv
  <1> SUFFICES ASSUME Init PROVE TypeInv
    OBVIOUS
  <1>1. NoDoc \in Docs /\ \A r \in Requests : Reply("unsent", r, "absent") \in Answers
    BY DEF NoDoc, Docs, Statuses, Reply, Answers, Replies
  <1>2. TypeOK
    BY <1>1, IdleType, ConstantsAssumption DEF Init, TypeOK
  <1>3. QED
    BY <1>2, IdleCoherent DEF Init, TypeInv

\* The variables keep their types, and a thread that has an entity has its
\* status: whatever the crashes, faults and timeouts, and with or without
\* recovery (execute_workflow.go:60-196, 237-380).
THEOREM TypeCorrect == Spec => []TypeInv
  BY TypeInit, TypeStep, PTL DEF Spec
-----------------------------------------------------------------------------
(* One writer per execution, as the engine is wired: without recovery      *)

LegalMoves == {<<"absent", "pending">>, <<"pending", "running">>,
               <<"running", "completed">>, <<"pending", "failed">>,
               <<"running", "failed">>}

\* What a step of thread <<p, e>> that leaves the thread as t may do.
OwnStep(p, e, t) ==
  /\ t \in Threads
  /\ thread[p][e].pc # "none" \/ answer[e].kind = "unsent"
  /\ Set(p, e, t)
  /\ StageMatchesStore(t, db'[e].status)
  /\ db'[e].status = db[e].status \/ <<db[e].status, db'[e].status>> \in LegalMoves
  /\ \A f \in Requests : f # e => db'[f] = db[f] /\ answer'[f] = answer[f]
  /\ answer'[e].kind # "unsent"
  /\ answer'[e].kind = "created" =>
       answer[e].kind = "created" \/ db'[e].status = "running"
  /\ \/ audit' = audit
     \/ audit' = audit \cup {<<e, "STARTED">>}
     \/ /\ audit' = audit \cup {<<e, "COMPLETED">>} /\ t = Idle
        /\ db'[e].status \in {"running", "completed"}
     \/ /\ audit' = audit \cup {<<e, "FAILED">>} /\ t = Idle
        /\ db'[e].status \in {"running", "failed"}

\* What the theorems need of a step.
WriterStep ==
  /\ SingleWriter'
  /\ [Abstract!Next]_StoredStatus
  /\ CreatedIsDurable => CreatedIsDurable'
  /\ AuditAgrees => AuditAgrees'

LEMMA IdleStage == \A s : StageMatchesStore(Idle, s)
  BY DEF StageMatchesStore, Idle, WorkerStages

\* A change of one document along a legal move is a step of Lifecycle.
LEMMA LegalMoveImplements ==
  ASSUME TypeInv, TypeInv', NEW e \in Requests,
         db'[e].status = db[e].status \/ <<db[e].status, db'[e].status>> \in LegalMoves,
         \A f \in Requests : f # e => db'[f] = db[f]
  PROVE  [Abstract!Next]_StoredStatus
  <1>1. CASE db'[e].status = db[e].status
    BY <1>1 DEF StoredStatus
  <1>2. ASSUME <<db[e].status, db'[e].status>> \in LegalMoves
        PROVE  Abstract!Next
    <2>1. \A from, to : db[e].status = from /\ db'[e].status = to => Abstract!Move(e, from, to)
      BY DEF Abstract!Move, StoredStatus
    <2>2. \/ Abstract!Move(e, "absent", "pending")
          \/ Abstract!Move(e, "pending", "running")
          \/ Abstract!Move(e, "running", "completed")
          \/ Abstract!Move(e, "pending", "failed")
          \/ Abstract!Move(e, "running", "failed")
      BY <1>2, <2>1 DEF LegalMoves
    <2>3. QED
      BY <2>2 DEF Abstract!Next, Abstract!Create, Abstract!MarkRunning,
                  Abstract!MarkCompleted, Abstract!MarkFailed, Abstract!Absent
  <1>3. QED
    BY <1>1, <1>2

LEMMA WriterFrame ==
  ASSUME TypeInv, TypeInv', SingleWriter,
         NEW p \in Processes, NEW e \in Requests, NEW t, OwnStep(p, e, t)
  PROVE  WriterStep
  <1>1. /\ thread'[p][e] = t
        /\ \A q \in Processes, f \in Requests :
             <<q, f>> # <<p, e>> => thread'[q][f] = thread[q][f]
    BY SetType DEF OwnStep, TypeInv
  <1>2. \A q \in Processes : q # p => thread[q][e].pc = "none"
    BY DEF OwnStep, SingleWriter
  <1>3. <<e, "COMPLETED">> \notin audit /\ <<e, "FAILED">> \notin audit
    BY DEF OwnStep, SingleWriter
  <1>4. SingleWriter'
    <2>1. ASSUME NEW f \in Requests, f # e
          PROVE  /\ \A q, u \in Processes :
                      thread'[q][f].pc # "none" /\ thread'[u][f].pc # "none" => q = u
                 /\ \A q \in Processes : StageMatchesStore(thread'[q][f], db'[f].status)
                 /\ answer'[f].kind = "unsent" =>
                      db'[f].status = "absent" /\ \A q \in Processes : thread'[q][f].pc = "none"
                 /\ <<f, "COMPLETED">> \in audit' \/ <<f, "FAILED">> \in audit' =>
                      answer'[f].kind # "unsent" /\ \A q \in Processes : thread'[q][f].pc = "none"
      <3>1. \A q \in Processes : thread'[q][f] = thread[q][f]
        BY <1>1, <2>1
      <3>2. db'[f] = db[f] /\ answer'[f] = answer[f]
        BY <2>1 DEF OwnStep
      <3>3. \A o : <<f, o>> \in audit' => <<f, o>> \in audit
        BY <2>1 DEF OwnStep
      <3>4. QED
        BY <3>1, <3>2, <3>3 DEF SingleWriter
    <2>2. \A q, u \in Processes :
            thread'[q][e].pc # "none" /\ thread'[u][e].pc # "none" => q = u
      BY <1>1, <1>2
    <2>3. \A q \in Processes : StageMatchesStore(thread'[q][e], db'[e].status)
      <3>1. \A q \in Processes : q # p => thread'[q][e].pc = "none"
        BY <1>1, <1>2
      <3>2. \A u, s : u.pc = "none" => StageMatchesStore(u, s)
        BY DEF StageMatchesStore, WorkerStages
      <3>3. QED
        BY <1>1, <3>1, <3>2 DEF OwnStep
    <2>4. answer'[e].kind # "unsent"
      BY DEF OwnStep
    <2>5. <<e, "COMPLETED">> \in audit' \/ <<e, "FAILED">> \in audit' =>
            \A q \in Processes : thread'[q][e].pc = "none"
      <3>1. <<e, "COMPLETED">> \in audit' \/ <<e, "FAILED">> \in audit' => t = Idle
        BY <1>3 DEF OwnStep
      <3>2. QED
        BY <1>1, <1>2, <3>1 DEF Idle
    <2>6. QED
      <3>1. \A f \in Requests :
              /\ \A q, u \in Processes :
                   thread'[q][f].pc # "none" /\ thread'[u][f].pc # "none" => q = u
              /\ \A q \in Processes : StageMatchesStore(thread'[q][f], db'[f].status)
              /\ answer'[f].kind = "unsent" =>
                   db'[f].status = "absent" /\ \A q \in Processes : thread'[q][f].pc = "none"
              /\ <<f, "COMPLETED">> \in audit' \/ <<f, "FAILED">> \in audit' =>
                   answer'[f].kind # "unsent" /\ \A q \in Processes : thread'[q][f].pc = "none"
        BY <2>1, <2>2, <2>3, <2>4, <2>5
      <3>2. QED
        BY <3>1, Zenon DEF SingleWriter, StageMatchesStore
  <1>5. [Abstract!Next]_StoredStatus
    BY LegalMoveImplements DEF OwnStep
  <1>6. ASSUME CreatedIsDurable PROVE CreatedIsDurable'
    <2>1. ASSUME NEW r \in Requests, answer'[r].kind = "created"
          PROVE  db'[r].status \notin {"absent", "pending"}
      <3>1. CASE r = e
        <4>1. CASE db'[e].status = "running"
          BY <3>1, <4>1
        <4>2. CASE answer[e].kind = "created"
          <5>1. db[e].status \notin {"absent", "pending"}
            BY <1>6, <4>2 DEF CreatedIsDurable
          <5>2. QED
            BY <3>1, <5>1 DEF OwnStep, LegalMoves
        <4>3. QED
          BY <2>1, <3>1, <4>1, <4>2 DEF OwnStep
      <3>2. CASE r # e
        BY <1>6, <2>1, <3>2 DEF OwnStep, CreatedIsDurable
      <3>3. QED
        BY <3>1, <3>2
    <2>2. QED
      BY <2>1 DEF CreatedIsDurable
  <1>7. ASSUME AuditAgrees PROVE AuditAgrees'
    <2>1. ASSUME NEW f \in Requests
          PROVE  /\ <<f, "COMPLETED">> \in audit' =>
                      db'[f].status \in {"running", "completed"} /\ <<f, "FAILED">> \notin audit'
                 /\ <<f, "FAILED">> \in audit' => db'[f].status # "completed"
      <3>1. CASE f = e
        BY <1>3, <3>1 DEF OwnStep
      <3>2. CASE f # e
        <4>1. \A o : <<f, o>> \in audit' <=> <<f, o>> \in audit
          BY <3>2 DEF OwnStep
        <4>2. QED
          BY <1>7, <3>2, <4>1 DEF OwnStep, AuditAgrees
      <3>3. QED
        BY <3>1, <3>2
    <2>2. QED
      BY <2>1 DEF AuditAgrees
  <1>8. QED
    BY <1>4, <1>5, <1>6, <1>7 DEF WriterStep
LEMMA OwnThread ==
  ASSUME TypeInv, SingleWriter, NEW p \in Processes, NEW e \in Requests,
         thread[p][e].pc # "none"
  PROVE  /\ thread[p][e] \in Threads
         /\ StageMatchesStore(thread[p][e], db[e].status)
         /\ answer[e].kind # "unsent"
  BY DEF TypeInv, TypeOK, SingleWriter

\* Refuse and Respond answer request r only.
LEMMA RefuseType ==
  ASSUME TypeInv, NEW r \in Requests, Refuse(r)
  PROVE  /\ answer'[r].kind = "error"
         /\ \A f \in Requests : f # r => answer'[f] = answer[f]
  BY DEF Refuse, Respond, Reply, TypeInv, TypeOK

LEMMA ArriveWriter ==
  ASSUME TypeInv, TypeInv', SingleWriter, NEW p \in Processes, NEW e \in Requests,
         Arrive(p, e)
  PROVE  WriterStep
  <1> DEFINE t == Goto(Idle, IF KeyOf[e] = NoKey THEN "load" ELSE "fastPath")
  <1>1. t \in Threads /\ t.pc \in {"load", "fastPath"}
    BY IdleType, GotoType DEF Stages, RequestStages
  <1>2. answer[e].kind = "unsent" /\ db'[e].status = "absent"
    BY DEF Arrive, SingleWriter
  <1>3. StageMatchesStore(t, db'[e].status)
    BY <1>1, <1>2 DEF StageMatchesStore, WorkerStages
  <1>4. answer'[e].kind = "waiting" /\ \A f \in Requests : f # e => answer'[f] = answer[f]
    BY DEF Arrive, Respond, Reply, TypeInv, TypeOK
  <1>5. OwnStep(p, e, t)
    BY <1>1, <1>2, <1>3, <1>4 DEF Arrive, OwnStep
  <1>6. QED
    BY <1>5, WriterFrame

LEMMA FastPathWriter ==
  ASSUME TypeInv, TypeInv', SingleWriter, NEW p \in Processes, NEW r \in Requests,
         FastPath(p, r)
  PROVE  WriterStep
  <1> DEFINE t == thread[p][r]
  <1>1. t.pc = "fastPath" /\ t \in Threads /\ answer[r].kind # "unsent"
        /\ db[r].status = "absent" /\ db' = db /\ audit' = audit
    BY OwnThread DEF FastPath, StageMatchesStore
  <1>2. CASE Set(p, r, Goto(t, "load")) /\ UNCHANGED answer
    <2>1. Goto(t, "load") \in Threads /\ StageMatchesStore(Goto(t, "load"), "absent")
      BY <1>1, GotoType DEF Stages, RequestStages, WorkerStages, StageMatchesStore
    <2>2. OwnStep(p, r, Goto(t, "load"))
      BY <1>1, <1>2, <2>1 DEF OwnStep
    <2>3. QED
      BY <2>2, WriterFrame
  <1>3. CASE End(p, r) /\ Refuse(r)
    BY <1>1, <1>3, RefuseType, IdleType, IdleStage, WriterFrame DEF End, OwnStep
  <1>4. CASE End(p, r) /\ \E e \in WithKeyOf(r) : Respond(r, "existing", e, db[e].status)
    <2>1. answer'[r].kind = "existing" /\ \A f \in Requests : f # r => answer'[f] = answer[f]
      BY <1>4 DEF Respond, Reply, TypeInv, TypeOK
    <2>2. OwnStep(p, r, Idle)
      BY <1>1, <1>4, <2>1, IdleType, IdleStage DEF End, OwnStep
    <2>3. QED
      BY <2>2, WriterFrame
  <1>5. QED
    BY <1>2, <1>3, <1>4 DEF FastPath

LEMMA LoadWriter ==
  ASSUME TypeInv, TypeInv', SingleWriter, NEW p \in Processes, NEW r \in Requests,
         Load(p, r)
  PROVE  WriterStep
  <1> DEFINE t == thread[p][r]
  <1>1. t.pc = "load" /\ t \in Threads /\ answer[r].kind # "unsent"
        /\ db[r].status = "absent" /\ db' = db /\ audit' = audit
    BY OwnThread DEF Load, StageMatchesStore
  <1>2. ASSUME NEW plan \in Plans, Set(p, r, NewWorkflowExecution(t, plan)), UNCHANGED answer
        PROVE  WriterStep
    <2>1. plan \in Seq(Kinds)
      BY ConstantsAssumption
    <2>2. PICK u \in Threads : u = NewWorkflowExecution(t, plan)
                               /\ u.pc = "create" /\ u.status = "pending"
      BY <1>1, <2>1, NewWorkflowExecutionType
    <2>3. StageMatchesStore(u, "absent")
      BY <2>2 DEF StageMatchesStore, WorkerStages
    <2>4. OwnStep(p, r, u)
      BY <1>1, <1>2, <2>2, <2>3 DEF OwnStep
    <2>5. QED
      BY <2>4, WriterFrame
  <1>3. CASE End(p, r) /\ Refuse(r)
    BY <1>1, <1>3, RefuseType, IdleType, IdleStage, WriterFrame DEF End, OwnStep
  <1>4. QED
    BY <1>2, <1>3 DEF Load

LEMMA CreateWriter ==
  ASSUME TypeInv, TypeInv', SingleWriter, NEW p \in Processes, NEW r \in Requests,
         Create(p, r)
  PROVE  WriterStep
  <1> DEFINE t == thread[p][r]
  <1>1. /\ t.pc = "create" /\ t \in Threads /\ answer[r].kind # "unsent"
        /\ db[r].status = "absent" /\ audit' = audit
        /\ t.status = "pending" /\ DocOf(t) \in Docs /\ DocOf(t).status = "pending"
    BY OwnThread, DocOfType DEF Create, StageMatchesStore
  <1>2. Store(r, DocOf(t)) =>
          db'[r].status = "pending" /\ \A f \in Requests : f # r => db'[f] = db[f]
    BY <1>1, StoreType DEF TypeInv
  <1>3. <<"absent", "pending">> \in LegalMoves
    BY DEF LegalMoves
  <1>4. CASE /\ Store(r, DocOf(t)) /\ UNCHANGED answer
             /\ Set(p, r, [Goto(t, "markRunning") EXCEPT !.status = "running"])
    <2> DEFINE u == [Goto(t, "markRunning") EXCEPT !.status = "running"]
    <2>1. u \in Threads /\ u.pc = "markRunning" /\ u.status = "running"
      BY <1>1, GotoType, SMTT(30) DEF Stages, RequestStages, Threads, Statuses
    <2>4. Set(p, r, u)
      BY <1>4
    <2> HIDE DEF u
    <2>2. StageMatchesStore(u, "pending")
      BY <2>1 DEF StageMatchesStore, WorkerStages
    <2>3. OwnStep(p, r, u)
      BY <1>1, <1>2, <1>3, <1>4, <2>1, <2>2, <2>4 DEF OwnStep
    <2>5. QED
      BY <2>3, WriterFrame
  <1>5. CASE Set(p, r, Goto(t, "duplicate")) /\ UNCHANGED <<db, answer>>
    <2>1. Goto(t, "duplicate") \in Threads /\ StageMatchesStore(Goto(t, "duplicate"), "absent")
      BY <1>1, GotoType DEF Stages, RequestStages, WorkerStages, StageMatchesStore
    <2>2. OwnStep(p, r, Goto(t, "duplicate"))
      BY <1>1, <1>5, <2>1 DEF OwnStep
    <2>3. QED
      BY <2>2, WriterFrame
  <1>6. CASE (UNCHANGED db \/ Store(r, DocOf(t))) /\ Refuse(r) /\ End(p, r)
    BY <1>1, <1>2, <1>3, <1>6, RefuseType, IdleType, IdleStage, WriterFrame DEF End, OwnStep
  <1>7. QED
    BY <1>4, <1>5, <1>6 DEF Create

LEMMA ResolveDuplicateWriter ==
  ASSUME TypeInv, TypeInv', SingleWriter, NEW p \in Processes, NEW r \in Requests,
         ResolveDuplicate(p, r)
  PROVE  WriterStep
  <1>1. /\ answer[r].kind # "unsent" /\ db' = db /\ audit' = audit /\ End(p, r)
        /\ thread[p][r].pc # "none"
    BY OwnThread DEF ResolveDuplicate
  <1>2. CASE Refuse(r)
    BY <1>1, <1>2, RefuseType, IdleType, IdleStage, WriterFrame DEF End, OwnStep
  <1>3. CASE \E e \in WithKeyOf(r) : Respond(r, "existing", e, db[e].status)
    <2>1. answer'[r].kind = "existing" /\ \A f \in Requests : f # r => answer'[f] = answer[f]
      BY <1>3 DEF Respond, Reply, TypeInv, TypeOK
    <2>2. OwnStep(p, r, Idle)
      BY <1>1, <2>1, IdleType, IdleStage DEF End, OwnStep
    <2>3. QED
      BY <2>2, WriterFrame
  <1>4. QED
    BY <1>2, <1>3 DEF ResolveDuplicate

LEMMA MarkRunningWriter ==
  ASSUME TypeInv, TypeInv', SingleWriter, NEW p \in Processes, NEW r \in Requests,
         MarkRunning(p, r)
  PROVE  WriterStep
  <1> DEFINE t == thread[p][r]
  <1>1. /\ t.pc = "markRunning" /\ t \in Threads /\ answer[r].kind # "unsent"
        /\ db[r].status = "pending" /\ t.status = "running"
        /\ DocOf(t) \in Docs /\ DocOf(t).status = "running"
    BY OwnThread, DocOfType DEF MarkRunning, StageMatchesStore
  <1>2. <<"pending", "running">> \in LegalMoves
    BY DEF LegalMoves
  <1>3. PICK reply \in {"ok", "conflict", "error"} :
          /\ Update(r, DocOf(t), {"pending"}, FALSE, reply)
          /\ \/ /\ reply = "ok"
                /\ audit' = audit \cup {<<r, "STARTED">>}
                /\ Respond(r, "created", r, "running")
                /\ Set(p, r, Goto(t, "visit"))
             \/ reply = "conflict" /\ Refuse(r) /\ End(p, r) /\ UNCHANGED audit
             \/ /\ reply = "error"
                /\ Set(p, r, Goto(MarkFailed(t), "startFailed"))
                /\ UNCHANGED <<answer, audit>>
    BY DEF MarkRunning
  <1>4. /\ db'[r].status = "pending" \/ db'[r].status = "running"
        /\ reply = "ok" => db'[r].status = "running"
        /\ \A f \in Requests : f # r => db'[f] = db[f]
    <2>1. /\ db' = db \/ db'[r] = DocOf(t)
          /\ reply = "ok" => db'[r] = DocOf(t)
          /\ \A f \in Requests : f # r => db'[f] = db[f]
      <3>1. TypeOK /\ DocOf(t) \in Docs /\ Update(r, DocOf(t), {"pending"}, FALSE, reply)
        BY <1>1, <1>3 DEF TypeInv
      <3>2. QED
        BY <3>1, UpdateType, Zenon
    <2>2. QED
      BY <1>1, <2>1
  <1>5. CASE reply = "ok"
    <2>1. /\ answer'[r].kind = "created"
          /\ \A f \in Requests : f # r => answer'[f] = answer[f]
      BY <1>3, <1>5 DEF Respond, Reply, TypeInv, TypeOK
    <2>2. Goto(t, "visit") \in Threads /\ StageMatchesStore(Goto(t, "visit"), "running")
      BY <1>1, GotoType DEF Stages, WorkerStages, StageMatchesStore
    <2>3. OwnStep(p, r, Goto(t, "visit"))
      BY <1>1, <1>2, <1>3, <1>4, <1>5, <2>1, <2>2 DEF OwnStep
    <2>4. QED
      BY <2>3, WriterFrame
  <1>6. CASE reply = "conflict"
    BY <1>1, <1>2, <1>3, <1>4, <1>6, RefuseType, IdleType, IdleStage, WriterFrame
    DEF End, OwnStep
  <1>7. CASE reply = "error"
    <2>1. PICK u \in Threads : u = Goto(MarkFailed(t), "startFailed")
                               /\ u.pc = "startFailed" /\ u.status = "failed"
      BY <1>1, MarkFailedType, GotoType DEF Stages, RequestStages, Terminal
    <2>2. \A s \in {"pending", "running"} : StageMatchesStore(u, s)
      BY <2>1 DEF StageMatchesStore, WorkerStages
    <2>3. OwnStep(p, r, u)
      BY <1>1, <1>2, <1>3, <1>4, <1>7, <2>1, <2>2 DEF OwnStep
    <2>4. QED
      BY <2>3, WriterFrame
  <1>8. QED
    BY <1>3, <1>5, <1>6, <1>7

LEMMA StartFailedWriter ==
  ASSUME TypeInv, TypeInv', SingleWriter, NEW p \in Processes, NEW r \in Requests,
         StartFailed(p, r)
  PROVE  WriterStep
  <1> DEFINE t == thread[p][r]
  <1>1. /\ t.pc = "startFailed" /\ t \in Threads /\ answer[r].kind # "unsent"
        /\ db[r].status \in {"pending", "running"} /\ DocOf(t).status = "failed"
        /\ audit' = audit /\ End(p, r)
    BY OwnThread, DocOfType DEF StartFailed, StageMatchesStore
  <1>2. /\ db'[r].status = db[r].status \/ <<db[r].status, db'[r].status>> \in LegalMoves
        /\ \A f \in Requests : f # r => db'[f] = db[f]
    BY <1>1, PersistType DEF StartFailed, TypeInv, LegalMoves
  <1>3. Refuse(r)
    BY DEF StartFailed
  <1>4. QED
    BY <1>1, <1>2, <1>3, RefuseType, IdleType, IdleStage, WriterFrame DEF End, OwnStep
\* A step of the goroutine that writes nothing, or that writes an entity
\* whose status is legal, and then goes on or ends.
LEMMA WorkerFrame ==
  ASSUME TypeInv, TypeInv', SingleWriter, NEW p \in Processes, NEW e \in Requests,
         thread[p][e].pc \in WorkerStages, answer' = answer,
         NEW t \in Threads, Set(p, e, t),
         \/ t = Idle
         \/ /\ t.pc \in WorkerStages \ {"abandon"}
            /\ t.status \in {"running", "failed"}
            /\ t.pc # "failing" => t.status = "running"
            /\ db'[e].status = "running",
         \A f \in Requests : f # e => db'[f] = db[f],
         \/ audit' = audit /\ db'[e].status \in {"running", "failed"}
         \/ /\ audit' = audit \cup {<<e, "COMPLETED">>} /\ t = Idle
            /\ db'[e].status \in {"running", "completed"}
         \/ /\ audit' = audit \cup {<<e, "FAILED">>} /\ t = Idle
            /\ db'[e].status \in {"running", "failed"}
  PROVE  WriterStep
  <1>1. thread[p][e].pc # "none" /\ db[e].status = "running" /\ answer[e].kind # "unsent"
    BY OwnThread DEF WorkerStages, StageMatchesStore
  <1>2. StageMatchesStore(t, db'[e].status)
    <2>1. CASE t = Idle
      BY <2>1, IdleStage
    <2>2. CASE /\ t.pc \in WorkerStages \ {"abandon"}
               /\ t.status \in {"running", "failed"}
               /\ t.pc # "failing" => t.status = "running"
               /\ db'[e].status = "running"
      BY <2>2 DEF WorkerStages, StageMatchesStore
    <2>3. QED
      BY <2>1, <2>2
  <1>3. db'[e].status = db[e].status \/ <<db[e].status, db'[e].status>> \in LegalMoves
    BY <1>1 DEF LegalMoves
  <1>4. OwnStep(p, e, t)
    BY <1>1, <1>2, <1>3 DEF OwnStep
  <1>5. QED
    BY <1>4, WriterFrame

LEMMA WorkerThread ==
  ASSUME TypeInv, SingleWriter, NEW p \in Processes, NEW e \in Requests,
         thread[p][e].pc \in WorkerStages
  PROVE  /\ thread[p][e] \in Threads
         /\ db[e].status = "running"
         /\ thread[p][e].status \in {"running", "failed"}
         /\ thread[p][e].pc # "failing" => thread[p][e].status = "running"
         /\ thread[p][e].pc # "abandon"
         /\ Coherent(thread[p][e])
  BY OwnThread DEF WorkerStages, StageMatchesStore, TypeInv

LEMMA TraversalWriter ==
  ASSUME TypeInv, TypeInv', SingleWriter, NEW p \in Processes, NEW e \in Requests,
         \/ TraversalEnds(p, e) \/ TraversalFails(p, e) \/ ExecuteActionNode(p, e)
         \/ EvaluateConditionalNode(p, e) \/ ExecuteExecutorNode(p, e)
         \/ Call(p, e) \/ Expire(p, e)
  PROVE  WriterStep
  <1> DEFINE t == thread[p][e]
  <1>1. /\ t.pc \in WorkerStages /\ db' = db /\ answer' = answer /\ audit' = audit
    BY DEF TraversalEnds, TraversalFails, ExecuteActionNode, EvaluateConditionalNode,
           ExecuteExecutorNode, Call, Expire, Enters, WorkerStages
  <1>2. /\ t \in Threads /\ t.status \in {"running", "failed"}
        /\ t.pc # "failing" => t.status = "running"
        /\ t.pc # "abandon" /\ db[e].status = "running" /\ Coherent(t)
    BY <1>1, WorkerThread
  <1>3. ASSUME NEW u \in Threads, Set(p, e, u), u.pc \in WorkerStages \ {"abandon"},
               u.status \in {"running", "failed"}, u.pc # "failing" => u.status = "running"
        PROVE  WriterStep
    BY <1>1, <1>2, <1>3, WorkerFrame
  <1>4. ASSUME NEW pc \in {"finishing", "failing", "call"}, Set(p, e, Goto(t, pc)),
               t.pc = "visit"
        PROVE  WriterStep
    <2>1. t.status = "running" /\ t \in Threads
      BY <1>2, <1>4
    <2>2. pc \in Stages
      BY DEF Stages, WorkerStages
    <2>3. Goto(t, pc) \in Threads /\ Goto(t, pc).pc = pc /\ Goto(t, pc).status = t.status
      BY <2>1, <2>2, GotoType
    <2>4. PICK u \in Threads : u = Goto(t, pc) /\ u.pc = pc /\ u.status = "running"
      BY <2>1, <2>3, Zenon
    <2>5. QED
      BY <1>3, <1>4, <2>4 DEF WorkerStages
  <1>5. ASSUME NEW ok \in BOOLEAN, NEW pc \in {"persistStep", "stepFailed"},
               Set(p, e, Goto(AddStep(t, ok), pc)),
               t.pos <= Len(t.plan), t.pc \in {"visit", "call"}
        PROVE  WriterStep
    <2>1. AddStep(t, ok) \in Threads /\ AddStep(t, ok).status = "running"
      BY <1>2, <1>5, AddStepType
    <2>2. PICK u \in Threads : u = Goto(AddStep(t, ok), pc) /\ u.pc = pc /\ u.status = "running"
      BY <2>1, GotoType DEF Stages, WorkerStages
    <2>3. QED
      BY <1>3, <1>5, <2>2 DEF WorkerStages
  <1>6. CASE TraversalEnds(p, e) \/ TraversalFails(p, e)
    BY <1>4, <1>6 DEF TraversalEnds, TraversalFails, Enters
  <1>7. CASE ExecuteActionNode(p, e)
    <2>1. t.pc = "visit" /\ t.pos <= Len(t.plan)
      BY <1>7 DEF ExecuteActionNode, Enters
    <2>2. PICK u \in Threads : u = AddStep(t, TRUE) /\ u.pc = "visit" /\ u.status = "running"
      <3>1. \A ok \in BOOLEAN :
              AddStep(t, ok) \in Threads /\ AddStep(t, ok).pc = t.pc
              /\ AddStep(t, ok).status = t.status
        BY <1>2, <2>1, AddStepType
      <3>2. t.status = "running"
        BY <1>2, <2>1
      <3>3. QED
        BY <2>1, <3>1, <3>2, Zenon
    <2> DEFINE v == [u EXCEPT !.pos = @ + 1]
    <2>3. v \in Threads /\ v.pc = "visit" /\ v.status = "running"
      BY <2>2, AdvanceType
    <2>4. Set(p, e, v)
      BY <1>7, <2>2, Zenon DEF ExecuteActionNode
    <2> HIDE DEF v
    <2>5. QED
      BY <1>3, <2>3, <2>4 DEF WorkerStages
  <1>8. CASE EvaluateConditionalNode(p, e)
    BY <1>5, <1>8 DEF EvaluateConditionalNode, Enters
  <1>9. CASE ExecuteExecutorNode(p, e)
    BY <1>4, <1>5, <1>9 DEF ExecuteExecutorNode, Enters
  <1>10. CASE Call(p, e)
    <2>1. t.pos <= Len(t.plan) /\ t.pc = "call"
      BY <1>2, <1>10 DEF Call, Coherent
    <2>2. QED
      BY <1>5, <1>10, <2>1 DEF Call
  <1>11. CASE Expire(p, e)
    <2>1. [t EXCEPT !.expired = TRUE] \in Threads
          /\ [t EXCEPT !.expired = TRUE].pc = t.pc
          /\ [t EXCEPT !.expired = TRUE].status = t.status
      BY <1>2 DEF Threads
    <2>2. Set(p, e, [t EXCEPT !.expired = TRUE])
      BY <1>11 DEF Expire
    <2>3. QED
      BY <1>1, <1>2, <1>3, <2>1, <2>2
  <1>12. QED
    BY <1>6, <1>7, <1>8, <1>9, <1>10, <1>11

LEMMA PersistStepWriter ==
  ASSUME TypeInv, TypeInv', SingleWriter, NEW p \in Processes, NEW e \in Requests,
         PersistStep(p, e)
  PROVE  WriterStep
  <1> DEFINE t == thread[p][e]
             next == [Goto(t, "visit") EXCEPT !.pos = @ + 1]
  <1>1. t.pc = "persistStep" /\ t.pc \in WorkerStages /\ answer' = answer /\ audit' = audit
    BY DEF PersistStep, WorkerStages
  <1>2. /\ t \in Threads /\ t.status = "running" /\ db[e].status = "running"
        /\ DocOf(t) \in Docs /\ DocOf(t).status = "running"
    BY <1>1, WorkerThread, DocOfType
  <1>3. PICK reply \in {"ok", "conflict", "error"} :
          /\ Update(e, DocOf(t), {"running"}, t.expired, reply)
          /\ Set(p, e, next) \/ Set(p, e, Idle) \/ Set(p, e, Goto(t, "failing"))
    BY DEF PersistStep, End
  <1>4. /\ db' = db \/ db'[e] = DocOf(t)
        /\ \A f \in Requests : f # e => db'[f] = db[f]
    BY <1>2, <1>3, UpdateType DEF TypeInv
  <1>5. db'[e].status = "running"
    BY <1>2, <1>4
  <1>6. next \in Threads /\ next.pc = "visit" /\ next.status = "running"
    <2>1. /\ Goto(t, "visit") \in Threads
          /\ Goto(t, "visit").pc = "visit"
          /\ Goto(t, "visit").status = "running"
      BY <1>2, GotoType DEF Stages, WorkerStages
    <2>2. QED
      BY <2>1, AdvanceType
  <1>7. /\ Goto(t, "failing") \in Threads /\ Goto(t, "failing").pc = "failing"
        /\ Goto(t, "failing").status = "running"
    BY <1>2, GotoType DEF Stages, WorkerStages
  <1> HIDE DEF next
  <1>8. PICK u \in Threads : Set(p, e, u) /\ (u = Idle \/ (u.pc \in {"visit", "failing"}
                                                         /\ u.status = "running"))
    BY <1>3, <1>6, <1>7, IdleType
  <1>9. QED
    BY <1>1, <1>4, <1>5, <1>8, WorkerFrame DEF WorkerStages

LEMMA BestEffortWriter ==
  ASSUME TypeInv, TypeInv', SingleWriter, NEW p \in Processes, NEW e \in Requests,
         StepFailed(p, e) \/ Failing(p, e) \/ Finishing(p, e) \/ Abandon(p, e)
  PROVE  WriterStep
  <1> DEFINE t == thread[p][e]
  <1>1. t.pc \in WorkerStages /\ answer' = answer
    BY DEF StepFailed, Failing, Finishing, Abandon, WorkerStages
  <1>2. /\ t \in Threads /\ t.status \in {"running", "failed"} /\ db[e].status = "running"
        /\ t.pc # "failing" => t.status = "running"
        /\ t.pc # "abandon"
    BY <1>1, WorkerThread
  <1>3. /\ MarkFailed(t) \in Threads /\ MarkFailed(t).status = "failed"
        /\ MarkCompleted(t) \in Threads
        /\ t.status = "running" => MarkCompleted(t).status = "completed"
    BY <1>2, MarkFailedType, MarkCompletedType DEF MarkFailed, Terminal
  <1>4. CASE StepFailed(p, e)
    <2>1. t.pc = "stepFailed" /\ PersistBestEffort(e, t)
          /\ Set(p, e, Goto(MarkFailed(t), "failing")) /\ audit' = audit
      BY <1>4 DEF StepFailed
    <2>2. db'[e].status = "running" /\ \A f \in Requests : f # e => db'[f] = db[f]
      BY <1>2, <2>1, PersistType, DocOfType DEF TypeInv
    <2>3. PICK u \in Threads : u = Goto(MarkFailed(t), "failing") /\ u.pc = "failing"
                               /\ u.status = "failed"
      BY <1>3, GotoType DEF Stages, WorkerStages
    <2>4. QED
      BY <1>1, <2>1, <2>2, <2>3, WorkerFrame DEF WorkerStages
  <1>5. CASE Failing(p, e)
    <2>1. PersistBestEffort(e, MarkFailed(t)) /\ Set(p, e, Idle)
          /\ audit' = audit \cup {<<e, "FAILED">>}
      BY <1>5 DEF Failing, End
    <2>2. /\ db'[e].status \in {"running", "failed"}
          /\ \A f \in Requests : f # e => db'[f] = db[f]
      BY <1>2, <1>3, <2>1, PersistType, DocOfType DEF TypeInv
    <2>3. QED
      BY <1>1, <2>1, <2>2, IdleType, WorkerFrame
  <1>6. CASE Finishing(p, e)
    <2>1. t.pc = "finishing" /\ PersistBestEffort(e, MarkCompleted(t)) /\ Set(p, e, Idle)
          /\ audit' = audit \cup {<<e, "COMPLETED">>}
      BY <1>6 DEF Finishing, End
    <2>2. /\ db'[e].status \in {"running", "completed"}
          /\ \A f \in Requests : f # e => db'[f] = db[f]
      BY <1>2, <1>3, <2>1, PersistType, DocOfType DEF TypeInv
    <2>3. QED
      BY <1>1, <2>1, <2>2, IdleType, WorkerFrame
  <1>7. ~Abandon(p, e)
    BY <1>2 DEF Abandon
  <1>8. QED
    BY <1>4, <1>5, <1>6, <1>7

LEMMA CrashWriter ==
  ASSUME TypeInv, TypeInv', SingleWriter, NEW p \in Processes, Crash(p)
  PROVE  WriterStep
  <1>1. db' = db /\ audit' = audit
    BY DEF Crash
  <1>2. \A q \in Processes, e \in Requests :
          thread'[q][e] = Idle \/ thread'[q][e] = thread[q][e]
    BY DEF Crash, TypeInv, TypeOK
  <1>3. ASSUME NEW r \in Requests
        PROVE  \/ answer'[r] = answer[r]
               \/ answer'[r].kind = "lost" /\ thread[p][r].pc # "none"
    BY DEF Crash, Reply, RequestStages
  <1>4. \A r \in Requests : /\ answer'[r].kind = "unsent" => answer[r].kind = "unsent"
                            /\ answer[r].kind # "unsent" => answer'[r].kind # "unsent"
                            /\ answer'[r].kind = "created" => answer[r].kind = "created"
    BY <1>3
  <1>5. \A q \in Processes, e \in Requests :
          /\ thread'[q][e].pc # "none" => thread[q][e].pc # "none"
          /\ StageMatchesStore(thread[q][e], db[e].status) =>
               StageMatchesStore(thread'[q][e], db'[e].status)
    BY <1>1, <1>2, IdleStage DEF Idle
  <1>6. SingleWriter'
    <2>1. \A e \in Requests :
            /\ \A q, u \in Processes :
                 thread'[q][e].pc # "none" /\ thread'[u][e].pc # "none" => q = u
            /\ \A q \in Processes : StageMatchesStore(thread'[q][e], db'[e].status)
            /\ answer'[e].kind = "unsent" =>
                 db'[e].status = "absent" /\ \A q \in Processes : thread'[q][e].pc = "none"
            /\ <<e, "COMPLETED">> \in audit' \/ <<e, "FAILED">> \in audit' =>
                 answer'[e].kind # "unsent" /\ \A q \in Processes : thread'[q][e].pc = "none"
      BY <1>1, <1>4, <1>5 DEF SingleWriter
    <2>2. QED
      BY <2>1, Zenon DEF SingleWriter, StageMatchesStore
  <1>7. QED
    BY <1>1, <1>4, <1>6 DEF WriterStep, StoredStatus, CreatedIsDurable, AuditAgrees

LEMMA QuietWriter ==
  ASSUME SingleWriter, UNCHANGED <<db, thread, answer, audit>>
  PROVE  WriterStep
  BY DEF WriterStep, SingleWriter, StageMatchesStore, StoredStatus, CreatedIsDurable,
         AuditAgrees

\* Every step of the specification without recovery.
LEMMA WriterNext ==
  ASSUME ~RecoverOnStart, TypeInv, SingleWriter, [Next]_vars
  PROVE  WriterStep
  <1>1. TypeInv'
    BY TypeStep
  <1>2. ASSUME NEW p \in Processes, NEW e \in Requests,
               Arrive(p, e) \/ RequestStep(p, e) \/ WorkerStep(p, e) \/ Expire(p, e)
        PROVE  WriterStep
    <2>1. CASE Arrive(p, e)
      BY <1>1, <2>1, ArriveWriter
    <2>2. CASE RequestStep(p, e)
      BY <1>1, <2>2, FastPathWriter, LoadWriter, CreateWriter, ResolveDuplicateWriter,
         MarkRunningWriter, StartFailedWriter DEF RequestStep
    <2>3. CASE WorkerStep(p, e)
      BY <1>1, <2>3, TraversalWriter, PersistStepWriter, BestEffortWriter DEF WorkerStep
    <2>4. CASE Expire(p, e)
      BY <1>1, <2>4, TraversalWriter
    <2>5. QED
      BY <1>2, <2>1, <2>2, <2>3, <2>4
  <1>3. ASSUME NEW p \in Processes, Crash(p) PROVE WriterStep
    BY <1>1, <1>3, CrashWriter
  <1>4. ASSUME NEW p \in Processes, Start(p) PROVE WriterStep
    BY <1>4, QuietWriter DEF Start
  <1>5. CASE UNCHANGED vars
    BY <1>5, QuietWriter DEF vars
  <1>6. QED
    BY <1>2, <1>3, <1>4, <1>5 DEF Next

LEMMA WriterInit ==
  Init => SingleWriter /\ Abstract!Init /\ CreatedIsDurable /\ AuditAgrees
  <1> SUFFICES ASSUME Init
               PROVE  SingleWriter /\ Abstract!Init /\ CreatedIsDurable /\ AuditAgrees
    OBVIOUS
  <1>1. SingleWriter
    BY IdleStage DEF Init, SingleWriter, Idle, NoDoc, Reply, StageMatchesStore, WorkerStages
  <1>2. Abstract!Init
    BY DEF Init, NoDoc, Abstract!Init, Abstract!Absent, StoredStatus
  <1>3. CreatedIsDurable /\ AuditAgrees
    BY DEF Init, Reply, CreatedIsDurable, AuditAgrees
  <1>4. QED
    BY <1>1, <1>2, <1>3

\* Without recovery an execution has one writer at a time, whose belief
\* about the stored status is true, and none once it is audited as finished
\* (execute_workflow.go:1169-1179).
THEOREM OneWriter == ASSUME ~RecoverOnStart PROVE Spec => []SingleWriter
  <1>1. TypeInv /\ SingleWriter /\ [Next]_vars => SingleWriter'
    BY WriterNext DEF WriterStep
  <1>2. QED
    BY <1>1, WriterInit, TypeCorrect, PTL DEF Spec

\* Without recovery the executions collection implements Lifecycle: a stored
\* status moves forward only and a terminal status is final, although four
\* of the six writes do not check it (execution.go:368-417).
THEOREM Refinement == ASSUME ~RecoverOnStart PROVE Spec => ImplementsLifecycle
  <1>1. TypeInv /\ SingleWriter /\ [Next]_vars => [Abstract!Next]_StoredStatus
    BY WriterNext DEF WriterStep
  <1>2. Init => Abstract!Init
    BY WriterInit
  <1>3. QED
    BY <1>1, <1>2, OneWriter, TypeCorrect, PTL DEF Spec, ImplementsLifecycle, Abstract!Spec

\* Without recovery an execution that was reported as created is stored, and
\* is never absent or pending again (execute_workflow.go:182-196).
THEOREM CreatedStays == ASSUME ~RecoverOnStart PROVE Spec => []CreatedIsDurable
  <1>1. TypeInv /\ SingleWriter /\ CreatedIsDurable /\ [Next]_vars => CreatedIsDurable'
    BY WriterNext DEF WriterStep
  <1>2. QED
    BY <1>1, WriterInit, OneWriter, TypeCorrect, PTL DEF Spec

\* Without recovery the audit trail does not contradict the stored outcome
\* (execute_workflow.go:295-329).
THEOREM AuditIsConsistent == ASSUME ~RecoverOnStart PROVE Spec => []AuditAgrees
  <1>1. TypeInv /\ SingleWriter /\ AuditAgrees /\ [Next]_vars => AuditAgrees'
    BY WriterNext DEF WriterStep
  <1>2. QED
    BY <1>1, WriterInit, OneWriter, TypeCorrect, PTL DEF Spec
-----------------------------------------------------------------------------
(* The idempotency key, with or without recovery                           *)

\* One execution is stored per key, and an answer shows a stored execution
\* that has the key of the request.
KeyInv ==
  /\ \A e, f \in Present : KeyOf[e] = KeyOf[f] /\ KeyOf[e] # NoKey => e = f
  /\ \A r \in Requests : Answered(r) =>
       answer[r].execution \in Present /\ KeyOf[answer[r].execution] = KeyOf[r]

\* A step stores nothing new, or one new execution whose key is free; and
\* answers nothing, or refuses, or shows a stored execution with the key.
StoresOne ==
  \/ Present' = Present
  \/ \E r \in Requests : ~Duplicate(r) /\ Present' = Present \cup {r}

AnswersByKey ==
  \A r \in Requests :
    \/ answer'[r] = answer[r]
    \/ answer'[r].kind \notin {"created", "existing"}
    \/ answer'[r].execution \in Present' /\ KeyOf[answer'[r].execution] = KeyOf[r]

LEMMA KeyFrame == ASSUME Indexed, KeyInv, StoresOne, AnswersByKey PROVE KeyInv'
  <1>1. Present \subseteq Present'
    BY DEF StoresOne
  <1>2. ASSUME NEW e \in Present', NEW f \in Present', KeyOf[e] = KeyOf[f], KeyOf[e] # NoKey
        PROVE  e = f
    <2>1. CASE Present' = Present
      BY <1>2, <2>1 DEF KeyInv
    <2>2. ASSUME NEW r \in Requests, ~Duplicate(r), Present' = Present \cup {r}
          PROVE  e = f
      <3>1. KeyOf[r] = NoKey \/ \A g \in Present : KeyOf[g] # KeyOf[r]
        BY <2>2 DEF Duplicate, WithKeyOf, Present
      <3>2. QED
        BY <1>2, <2>2, <3>1 DEF KeyInv
    <2>3. QED
      BY <2>1, <2>2 DEF StoresOne
  <1>3. ASSUME NEW r \in Requests, answer'[r].kind \in {"created", "existing"}
        PROVE  answer'[r].execution \in Present' /\ KeyOf[answer'[r].execution] = KeyOf[r]
    BY <1>1, <1>3 DEF AnswersByKey, KeyInv, Answered
  <1>4. QED
    BY <1>2, <1>3 DEF KeyInv, Answered

\* A write over a stored document stores nothing new.
LEMMA OverwriteKeepsPresent ==
  ASSUME TypeInv, NEW e \in Requests, NEW t \in Threads, t.status # "absent",
         db' \in [Requests -> Docs],
         db' = db \/ (db[e].status # "absent" /\ db'[e] = DocOf(t)),
         \A f \in Requests : f # e => db'[f] = db[f]
  PROVE  Present' = Present
  <1>1. DocOf(t).status # "absent"
    BY DocOfType
  <1>2. \A f \in Requests : db'[f].status # "absent" <=> db[f].status # "absent"
    BY <1>1
  <1>3. QED
    BY <1>2 DEF Present

LEMMA PersistKeepsPresent ==
  ASSUME TypeInv, NEW e \in Requests, NEW t \in Threads, t.status # "absent",
         PersistBestEffort(e, t)
  PROVE  Present' = Present
  BY PersistType, OverwriteKeepsPresent DEF TypeInv

LEMMA RefuseAnswers ==
  ASSUME TypeInv, NEW r \in Requests, Refuse(r)
  PROVE  AnswersByKey
  BY RefuseType DEF AnswersByKey

LEMMA ExistingAnswers ==
  ASSUME TypeInv, NEW r \in Requests, NEW e \in WithKeyOf(r),
         Respond(r, "existing", e, db[e].status), db' = db
  PROVE  AnswersByKey
  <1>1. e \in Present' /\ KeyOf[e] = KeyOf[r]
    BY DEF WithKeyOf, Present
  <1>2. /\ answer'[r].execution = e
        /\ \A f \in Requests : f # r => answer'[f] = answer[f]
    BY DEF Respond, Reply, TypeInv, TypeOK
  <1>3. QED
    BY <1>1, <1>2 DEF AnswersByKey

LEMMA RequestKey ==
  ASSUME TypeInv, NEW p \in Processes, NEW r \in Requests,
         Arrive(p, r) \/ RequestStep(p, r)
  PROVE  StoresOne /\ AnswersByKey
  <1> DEFINE t == thread[p][r]
  <1>1. t \in Threads /\ Coherent(t) /\ TypeOK
    BY DEF TypeInv, TypeOK
  <1>2. CASE Arrive(p, r)
    <2>1. answer'[r].kind = "waiting" /\ \A f \in Requests : f # r => answer'[f] = answer[f]
      BY <1>2 DEF Arrive, Respond, Reply, TypeInv, TypeOK
    <2>2. db' = db
      BY <1>2 DEF Arrive
    <2>3. QED
      BY <2>1, <2>2 DEF StoresOne, AnswersByKey, Present
  <1>3. CASE FastPath(p, r)
    <2>1. StoresOne /\ db' = db
      BY <1>3 DEF FastPath, StoresOne, Present
    <2>2. AnswersByKey
      <3>1. UNCHANGED answer => AnswersByKey
        BY DEF AnswersByKey
      <3>2. QED
        BY <1>3, <2>1, <3>1, RefuseAnswers, ExistingAnswers DEF FastPath
    <2>3. QED
      BY <2>1, <2>2
  <1>4. CASE Load(p, r)
    <2>1. StoresOne
      BY <1>4 DEF Load, StoresOne, Present
    <2>2. UNCHANGED answer => AnswersByKey
      BY DEF AnswersByKey
    <2>3. QED
      BY <1>4, <2>1, <2>2, RefuseAnswers DEF Load
  <1>5. CASE Create(p, r)
    <2>1. t.status # "absent" /\ DocOf(t) \in Docs /\ DocOf(t).status # "absent"
      BY <1>1, <1>5, DocOfType DEF Create, Coherent
    <2>2. UNCHANGED db \/ (~Duplicate(r) /\ Store(r, DocOf(t)))
      BY <1>5 DEF Create
    <2>3. StoresOne
      <3>1. CASE UNCHANGED db
        BY <3>1 DEF StoresOne, Present
      <3>2. CASE ~Duplicate(r) /\ Store(r, DocOf(t))
        <4>1. /\ db'[r] = DocOf(t)
              /\ \A f \in Requests : f # r => db'[f] = db[f]
          BY <1>1, <2>1, <3>2, StoreType
        <4>2. \A f \in Requests :
                db'[f].status # "absent" <=> (db[f].status # "absent" \/ f = r)
          BY <2>1, <4>1
        <4>3. Present' = Present \cup {r}
          BY <4>2 DEF Present
        <4>4. QED
          BY <3>2, <4>3 DEF StoresOne
      <3>3. QED
        BY <2>2, <3>1, <3>2
    <2>4. UNCHANGED answer => AnswersByKey
      BY DEF AnswersByKey
    <2>5. QED
      BY <1>5, <2>3, <2>4, RefuseAnswers DEF Create
  <1>6. CASE ResolveDuplicate(p, r)
    <2>1. StoresOne /\ db' = db
      BY <1>6 DEF ResolveDuplicate, StoresOne, Present
    <2>2. QED
      BY <1>6, <2>1, RefuseAnswers, ExistingAnswers DEF ResolveDuplicate
  <1>7. CASE MarkRunning(p, r)
    <2>1. t.status # "absent" /\ DocOf(t) \in Docs /\ DocOf(t).status = t.status
      BY <1>1, <1>7, DocOfType DEF MarkRunning, Coherent
    <2>2. PICK reply \in {"ok", "conflict", "error"} :
            /\ Update(r, DocOf(t), {"pending"}, FALSE, reply)
            /\ \/ reply = "ok" /\ Respond(r, "created", r, "running")
               \/ Refuse(r) \/ UNCHANGED answer
      BY <1>7 DEF MarkRunning
    <2>3. /\ db' \in [Requests -> Docs]
          /\ db' = db \/ (db[r].status \in {"pending"} /\ db'[r] = DocOf(t))
          /\ reply = "ok" => db'[r] = DocOf(t)
          /\ \A f \in Requests : f # r => db'[f] = db[f]
      <3>1. TypeOK /\ DocOf(t) \in Docs /\ Update(r, DocOf(t), {"pending"}, FALSE, reply)
        BY <1>1, <2>1, <2>2
      <3>2. QED
        BY <3>1, UpdateType, Zenon
    <2>4. StoresOne
      BY <1>1, <2>1, <2>3, OverwriteKeepsPresent DEF StoresOne
    <2>5. ASSUME reply = "ok", Respond(r, "created", r, "running") PROVE AnswersByKey
      <3>1. r \in Present'
        BY <2>1, <2>3, <2>5 DEF Present
      <3>2. /\ answer'[r].execution = r
            /\ \A f \in Requests : f # r => answer'[f] = answer[f]
        BY <2>5 DEF Respond, Reply, TypeInv, TypeOK
      <3>3. QED
        BY <3>1, <3>2 DEF AnswersByKey
    <2>6. UNCHANGED answer => AnswersByKey
      BY DEF AnswersByKey
    <2>7. QED
      BY <2>2, <2>4, <2>5, <2>6, RefuseAnswers
  <1>8. CASE StartFailed(p, r)
    <2>1. t.status # "absent"
      BY <1>1, <1>8 DEF StartFailed, Coherent
    <2>2. QED
      BY <1>1, <1>8, <2>1, PersistKeepsPresent, RefuseAnswers DEF StartFailed, StoresOne
  <1>9. QED
    BY <1>2, <1>3, <1>4, <1>5, <1>6, <1>7, <1>8 DEF RequestStep

LEMMA WorkerKey ==
  ASSUME TypeInv, NEW p \in Processes, NEW e \in Requests,
         WorkerStep(p, e) \/ Expire(p, e)
  PROVE  StoresOne /\ AnswersByKey
  <1> DEFINE t == thread[p][e]
  <1>1. AnswersByKey
    BY DEF AnswersByKey, WorkerStep, Expire, TraversalEnds, TraversalFails, ExecuteActionNode,
           EvaluateConditionalNode, ExecuteExecutorNode, Call, PersistStep, StepFailed,
           Failing, Finishing, Abandon
  <1>2. t \in Threads /\ Coherent(t)
    BY DEF TypeInv, TypeOK
  <1>3. /\ MarkFailed(t) \in Threads /\ MarkCompleted(t) \in Threads
        /\ t.status # "absent" => MarkFailed(t).status # "absent"
                                  /\ MarkCompleted(t).status # "absent"
    BY <1>2, MarkFailedType, MarkCompletedType DEF MarkFailed, MarkCompleted, Threads
  <1>4. CASE UNCHANGED db
    BY <1>1, <1>4 DEF StoresOne, Present
  <1>5. CASE PersistStep(p, e)
    <2>1. t.status # "absent" /\ DocOf(t) \in Docs
      BY <1>2, <1>5, DocOfType DEF PersistStep, Coherent, WorkerStages
    <2>2. PICK reply : Update(e, DocOf(t), {"running"}, t.expired, reply)
      BY <1>5 DEF PersistStep
    <2>3. /\ db' \in [Requests -> Docs]
          /\ db' = db \/ (db[e].status \in {"running"} /\ db'[e] = DocOf(t))
          /\ \A f \in Requests : f # e => db'[f] = db[f]
      BY <2>1, <2>2, UpdateType DEF TypeInv
    <2>4. QED
      BY <1>1, <1>2, <2>1, <2>3, OverwriteKeepsPresent DEF StoresOne
  <1>6. CASE StepFailed(p, e) \/ Failing(p, e) \/ Finishing(p, e) \/ Abandon(p, e)
    <2>1. t.status # "absent"
      BY <1>2, <1>6 DEF StepFailed, Failing, Finishing, Abandon, Coherent, WorkerStages
    <2>2. \E u \in Threads : u.status # "absent" /\ PersistBestEffort(e, u)
      BY <1>2, <1>3, <1>6, <2>1 DEF StepFailed, Failing, Finishing, Abandon
    <2>3. QED
      BY <1>1, <2>2, PersistKeepsPresent DEF StoresOne
  <1>7. QED
    BY <1>4, <1>5, <1>6 DEF WorkerStep, Expire, TraversalEnds, TraversalFails,
       ExecuteActionNode, EvaluateConditionalNode, ExecuteExecutorNode, Call

LEMMA ProcessKey ==
  ASSUME TypeInv, NEW p \in Processes, Crash(p) \/ Start(p)
  PROVE  StoresOne /\ AnswersByKey
  <1>1. StoresOne
    BY DEF Crash, Start, StoresOne, Present
  <1>2. CASE Crash(p)
    BY <1>1, <1>2 DEF Crash, Reply, AnswersByKey
  <1>3. CASE Start(p)
    BY <1>1, <1>3 DEF Start, AnswersByKey
  <1>4. QED
    BY <1>2, <1>3

LEMMA KeyInit == Init => KeyInv
  BY DEF Init, KeyInv, Present, NoDoc, Answered, Reply

LEMMA KeyNext == ASSUME Indexed, TypeInv, KeyInv, [Next]_vars PROVE KeyInv'
  <1>1. CASE Next
    <2>1. StoresOne /\ AnswersByKey
      BY <1>1, RequestKey, WorkerKey, ProcessKey DEF Next
    <2>2. QED
      BY <2>1, KeyFrame
  <1>2. CASE UNCHANGED vars
    BY <1>2 DEF vars, KeyInv, Present, Answered
  <1>3. QED
    BY <1>1, <1>2

\* Requests with the same idempotency key are shown the same execution, on
\* both paths of Execute, over crashes, faults, timeouts and recovery
\* (execute_workflow.go:138-180, 1105-1167).
THEOREM SameKeyAnswers == ASSUME Indexed PROVE Spec => []SameKeySameExecution
  <1>1. TypeInv /\ KeyInv /\ [Next]_vars => KeyInv'
    BY KeyNext
  <1>2. KeyInv => SameKeySameExecution
    BY DEF KeyInv, SameKeySameExecution
  <1>3. QED
    BY <1>1, <1>2, KeyInit, TypeCorrect, PTL DEF Spec
-----------------------------------------------------------------------------
(* The steps and the calls of an execution, without recovery               *)

PositionsOf(c) == {c[i] : i \in DOMAIN c}

\* Every step is there once, in order and successful, and the executor steps
\* are the calls that were made.
LogAgrees(steps, c) ==
  /\ \A i \in DOMAIN steps : steps[i].number = i /\ steps[i].ok
  /\ ExecutorPositions(steps) = PositionsOf(c)

CallsBelow(c, n) == \A i \in DOMAIN c : c[i] < n

\* What a thread has behind it when c are the calls of its execution.
ThreadLog(t, c) ==
  /\ t.pc \in RequestStages => t.steps = << >> /\ t.pos = 1 /\ c = << >>
  /\ t.pc \in {"visit", "call"} =>
       LogAgrees(t.steps, c) /\ Len(t.steps) = t.pos - 1 /\ CallsBelow(c, t.pos)
  /\ t.pc = "call" => t.plan[t.pos] = "executor"
  /\ t.pc = "persistStep" =>
       LogAgrees(t.steps, c) /\ Len(t.steps) = t.pos /\ CallsBelow(c, t.pos + 1)
  /\ t.pc = "finishing" => LogAgrees(t.steps, c)

LogInv ==
  \A e \in Requests :
    /\ \A p \in Processes : ThreadLog(thread[p][e], calls[e])
    /\ answer[e].kind = "unsent" => calls[e] = << >>
    /\ Increasing(calls[e])
    /\ calls[e] # << >> => db[e].status # "absent"
    /\ db[e].status = "completed" => LogAgrees(db[e].steps, calls[e])

LEMMA IdleLog == \A c : ThreadLog(Idle, c)
  BY DEF ThreadLog, Idle, RequestStages

LEMMA EmptyLog == LogAgrees(<< >>, << >>) /\ \A n : CallsBelow(<< >>, n)
  BY DEF LogAgrees, PositionsOf, ExecutorPositions, CallsBelow

\* A successful step is added where the log ends.
LEMMA AddStepLog ==
  ASSUME NEW t \in Threads, t.pos <= Len(t.plan), Len(t.steps) = t.pos - 1,
         NEW c, LogAgrees(t.steps, c)
  PROVE  /\ Len(AddStep(t, TRUE).steps) = t.pos
         /\ t.plan[t.pos] # "executor" => LogAgrees(AddStep(t, TRUE).steps, c)
         /\ t.plan[t.pos] = "executor" =>
              \A d : PositionsOf(d) = PositionsOf(c) \cup {t.pos}
                       => LogAgrees(AddStep(t, TRUE).steps, d)
  <1> DEFINE s == [number |-> t.pos, kind |-> t.plan[t.pos], ok |-> TRUE]
             u == Append(t.steps, s)
  <1>1. AddStep(t, TRUE).steps = u
    BY DEF AddStep, Threads
  <1>2. t.steps \in Seq(Steps) /\ t.pos \in Nat \ {0}
    BY DEF Threads
  <1>3. t.plan[t.pos] \in Kinds
    BY DEF Threads
  <1>4. s \in Steps
    BY <1>2, <1>3 DEF Steps
  <1>5. /\ s.number = t.pos /\ s.kind = t.plan[t.pos] /\ s.ok
    OBVIOUS
  <1> HIDE DEF s
  <1>6. /\ Len(u) = t.pos
        /\ DOMAIN u = 1..t.pos
        /\ DOMAIN t.steps = 1..t.pos - 1
        /\ u[t.pos] = s
        /\ \A i \in 1..t.pos - 1 : u[i] = t.steps[i]
    BY <1>2, <1>4
  <1> HIDE DEF u
  <1>7. \A i \in 1..t.pos : i = t.pos \/ i \in 1..t.pos - 1
    BY <1>2
  <1>8. \A i \in DOMAIN u : u[i].number = i /\ u[i].ok
    BY <1>5, <1>6, <1>7 DEF LogAgrees
  <1>9. \A n : n \in ExecutorPositions(u) <=>
                 n \in ExecutorPositions(t.steps) \/ (n = t.pos /\ s.kind = "executor")
    <2>1. \A n : n \in ExecutorPositions(u) <=>
                   \E i \in DOMAIN u : u[i].kind = "executor" /\ n = u[i].number
      BY DEF ExecutorPositions
    <2>2. \A n : n \in ExecutorPositions(t.steps) <=>
                   \E i \in DOMAIN t.steps : t.steps[i].kind = "executor" /\ n = t.steps[i].number
      BY DEF ExecutorPositions
    <2>3. t.pos \in DOMAIN u /\ DOMAIN t.steps \subseteq DOMAIN u
      BY <1>2, <1>6
    <2>4. u[t.pos].kind = s.kind /\ u[t.pos].number = t.pos
      BY <1>5, <1>6
    <2>5. \A i \in DOMAIN t.steps : u[i] = t.steps[i]
      BY <1>6
    <2>6. \A i \in DOMAIN u : i = t.pos \/ i \in DOMAIN t.steps
      BY <1>6, <1>7
    <2>7. ASSUME NEW n, n \in ExecutorPositions(u)
          PROVE  n \in ExecutorPositions(t.steps) \/ (n = t.pos /\ s.kind = "executor")
      <3>1. PICK i \in DOMAIN u : u[i].kind = "executor" /\ n = u[i].number
        BY <2>1, <2>7
      <3>2. CASE i = t.pos
        BY <2>4, <3>1, <3>2
      <3>3. CASE i \in DOMAIN t.steps
        BY <2>2, <2>5, <3>1, <3>3
      <3>4. QED
        BY <2>6, <3>2, <3>3
    <2>8. ASSUME NEW n, n \in ExecutorPositions(t.steps)
          PROVE  n \in ExecutorPositions(u)
      <3>1. PICK i \in DOMAIN t.steps : t.steps[i].kind = "executor" /\ n = t.steps[i].number
        BY <2>2, <2>8
      <3>2. i \in DOMAIN u /\ u[i].kind = "executor" /\ n = u[i].number
        BY <2>3, <2>5, <3>1
      <3>3. QED
        BY <2>1, <3>2
    <2>9. s.kind = "executor" => t.pos \in ExecutorPositions(u)
      BY <2>1, <2>3, <2>4
    <2>10. QED
      BY <2>7, <2>8, <2>9
  <1>10. s.kind # "executor" => LogAgrees(u, c)
    <2>1. s.kind # "executor" => ExecutorPositions(u) = ExecutorPositions(t.steps)
      BY <1>9
    <2>2. QED
      BY <1>8, <2>1 DEF LogAgrees
  <1>11. ASSUME s.kind = "executor", NEW d, PositionsOf(d) = PositionsOf(c) \cup {t.pos}
         PROVE  LogAgrees(u, d)
    <2>1. ExecutorPositions(u) = ExecutorPositions(t.steps) \cup {t.pos}
      BY <1>9, <1>11
    <2>2. QED
      BY <1>8, <1>11, <2>1 DEF LogAgrees
  <1>12. QED
    BY <1>1, <1>5, <1>6, <1>10, <1>11

\* A call is added after those that were made.
LEMMA AppendCall ==
  ASSUME NEW c \in Seq(Nat), NEW n \in Nat, CallsBelow(c, n), Increasing(c)
  PROVE  /\ Increasing(Append(c, n))
         /\ CallsBelow(Append(c, n), n + 1)
         /\ PositionsOf(Append(c, n)) = PositionsOf(c) \cup {n}
  <1> DEFINE d == Append(c, n)
  <1>1. /\ Len(c) \in Nat
        /\ DOMAIN c = 1..Len(c)
        /\ DOMAIN d = 1..Len(c) + 1
        /\ d[Len(c) + 1] = n
        /\ \A i \in DOMAIN c : d[i] = c[i] /\ c[i] \in Nat /\ c[i] < n
    BY DEF CallsBelow
  <1> HIDE DEF d
  <1>2. \A i \in DOMAIN d : i \in DOMAIN c \/ i = Len(c) + 1
    BY <1>1
  <1>3. ASSUME NEW i \in DOMAIN d, NEW j \in DOMAIN d, i < j PROVE d[i] < d[j]
    <2>1. i \in DOMAIN c
      BY <1>1, <1>3
    <2>2. CASE j \in DOMAIN c
      BY <1>1, <1>3, <2>1, <2>2 DEF Increasing
    <2>3. CASE j = Len(c) + 1
      BY <1>1, <2>1, <2>3
    <2>4. QED
      BY <1>2, <2>2, <2>3
  <1>4. \A i \in DOMAIN d : d[i] < n + 1
    <2>1. \A x \in Nat : x < n => x < n + 1
      OBVIOUS
    <2>2. n < n + 1
      OBVIOUS
    <2>3. QED
      BY <1>1, <1>2, <2>1, <2>2
  <1>5. PositionsOf(d) = PositionsOf(c) \cup {n}
    <2>1. DOMAIN c \subseteq DOMAIN d /\ Len(c) + 1 \in DOMAIN d
      BY <1>1
    <2>2. QED
      BY <1>1, <1>2, <2>1 DEF PositionsOf
  <1>6. QED
    BY <1>3, <1>4, <1>5 DEF Increasing, CallsBelow, d
\* A step of thread <<p, e>>, which may make a call of its own execution.
LEMMA LogFrame ==
  ASSUME TypeInv, SingleWriter, LogInv,
         NEW p \in Processes, NEW e \in Requests, NEW t \in Threads, Set(p, e, t),
         thread[p][e].pc # "none" \/ answer[e].kind = "unsent",
         \A f \in Requests : f # e => db'[f] = db[f] /\ calls'[f] = calls[f],
         \A f \in Requests : answer'[f].kind = "unsent" => answer[f].kind = "unsent",
         answer'[e].kind # "unsent",
         ThreadLog(t, calls'[e]), Increasing(calls'[e]),
         calls'[e] # << >> => db'[e].status # "absent",
         db'[e].status = "completed" => LogAgrees(db'[e].steps, calls'[e])
  PROVE  LogInv'
  <1>1. /\ thread'[p][e] = t
        /\ \A q \in Processes, f \in Requests :
             <<q, f>> # <<p, e>> => thread'[q][f] = thread[q][f]
    BY SetType DEF TypeInv
  <1>2. \A q \in Processes : q # p => thread[q][e].pc = "none"
    BY DEF SingleWriter
  <1>3. \A q \in Processes : ThreadLog(thread'[q][e], calls'[e])
    <2>1. \A u, c : u.pc = "none" => ThreadLog(u, c)
      BY DEF ThreadLog, RequestStages
    <2>2. QED
      BY <1>1, <1>2, <2>1
  <1>4. ASSUME NEW f \in Requests
        PROVE  /\ \A q \in Processes : ThreadLog(thread'[q][f], calls'[f])
               /\ answer'[f].kind = "unsent" => calls'[f] = << >>
               /\ Increasing(calls'[f])
               /\ calls'[f] # << >> => db'[f].status # "absent"
               /\ db'[f].status = "completed" => LogAgrees(db'[f].steps, calls'[f])
    <2>1. CASE f = e
      BY <1>3, <2>1
    <2>2. CASE f # e
      <3>1. \A q \in Processes : thread'[q][f] = thread[q][f]
        BY <1>1, <2>2
      <3>2. QED
        BY <2>2, <3>1 DEF LogInv
    <2>3. QED
      BY <2>1, <2>2
  <1>5. QED
    BY <1>4, Zenon DEF LogInv, ThreadLog, LogAgrees, Increasing, CallsBelow, PositionsOf,
       ExecutorPositions

\* A step that makes no call and stores no completion.
LEMMA QuietLog ==
  ASSUME TypeInv, SingleWriter, LogInv,
         NEW p \in Processes, NEW e \in Requests, NEW t \in Threads, Set(p, e, t),
         thread[p][e].pc # "none" \/ answer[e].kind = "unsent",
         \A f \in Requests : f # e => db'[f] = db[f] /\ answer'[f] = answer[f],
         answer'[e].kind # "unsent", UNCHANGED calls,
         ThreadLog(t, calls[e]),
         calls[e] # << >> => db'[e].status # "absent",
         db'[e].status # "completed"
  PROVE  LogInv'
  <1>1. Increasing(calls[e])
    BY DEF LogInv
  <1>2. \A f \in Requests : answer'[f].kind = "unsent" => answer[f].kind = "unsent"
    OBVIOUS
  <1>3. ThreadLog(t, calls'[e]) /\ Increasing(calls'[e])
    BY <1>1
  <1>4. QED
    BY <1>2, <1>3, LogFrame

\* The log of a request that has not started its goroutine.
LEMMA RequestLog ==
  ASSUME NEW t, t.pc \in RequestStages, t.steps = << >>, t.pos = 1
  PROVE  ThreadLog(t, << >>)
  BY DEF ThreadLog, RequestStages

LEMMA FreshLog ==
  ASSUME LogInv, NEW p \in Processes, NEW r \in Requests,
         thread[p][r].pc \in RequestStages
  PROVE  thread[p][r].steps = << >> /\ thread[p][r].pos = 1 /\ calls[r] = << >>
  BY DEF LogInv, ThreadLog

LEMMA ArriveLog ==
  ASSUME TypeInv, SingleWriter, LogInv, NEW p \in Processes, NEW r \in Requests,
         Arrive(p, r)
  PROVE  LogInv'
  <1> DEFINE t == Goto(Idle, IF KeyOf[r] = NoKey THEN "load" ELSE "fastPath")
  <1>1. t \in Threads /\ t.pc \in {"load", "fastPath"} /\ t.steps = << >> /\ t.pos = 1
    <2>1. Idle.steps = << >> /\ Idle.pos = 1
      BY DEF Idle
    <2>2. QED
      BY <2>1, IdleType, GotoType DEF Stages, RequestStages
  <1>2. answer[r].kind = "unsent" /\ db' = db /\ calls' = calls /\ Set(p, r, t)
    BY DEF Arrive
  <1>3. db[r].status = "absent" /\ calls[r] = << >>
    BY <1>2 DEF SingleWriter, LogInv
  <1>4. answer'[r].kind = "waiting" /\ \A f \in Requests : f # r => answer'[f] = answer[f]
    BY DEF Arrive, Respond, Reply, TypeInv, TypeOK
  <1> HIDE DEF t
  <1>5. ThreadLog(t, calls[r])
    BY <1>1, <1>3, RequestLog DEF RequestStages
  <1>6. QED
    BY <1>1, <1>2, <1>3, <1>4, <1>5, QuietLog

\* The steps of Execute before the goroutine starts.
LEMMA BeforeStartLog ==
  ASSUME TypeInv, SingleWriter, LogInv, NEW p \in Processes, NEW r \in Requests,
         FastPath(p, r) \/ Load(p, r) \/ Create(p, r) \/ ResolveDuplicate(p, r)
           \/ StartFailed(p, r)
  PROVE  LogInv'
  <1> DEFINE t == thread[p][r]
  <1>1. t.pc \in {"fastPath", "load", "create", "duplicate", "startFailed"}
    BY DEF FastPath, Load, Create, ResolveDuplicate, StartFailed
  <1>2. /\ t \in Threads /\ t.steps = << >> /\ t.pos = 1 /\ calls[r] = << >>
        /\ t.pc # "none" /\ answer[r].kind # "unsent"
    BY <1>1, FreshLog, OwnThread DEF RequestStages
  <1>3. ASSUME NEW u \in Threads, Set(p, r, u),
               u = Idle \/ (u.pc \in RequestStages /\ u.steps = << >> /\ u.pos = 1),
               UNCHANGED calls, db'[r].status # "completed",
               \A f \in Requests : f # r => db'[f] = db[f] /\ answer'[f] = answer[f],
               answer'[r].kind # "unsent"
        PROVE  LogInv'
    <2>1. ThreadLog(u, calls[r])
      BY <1>2, <1>3, RequestLog, IdleLog
    <2>2. QED
      BY <1>2, <1>3, <2>1, QuietLog
  <1>4. UNCHANGED calls
    BY DEF FastPath, Load, Create, ResolveDuplicate, StartFailed
  <1>5. db[r].status # "completed"
    BY <1>1, <1>2, OwnThread DEF StageMatchesStore
  <1>6. ASSUME NEW kind \in {"existing", "error"}, NEW e, NEW s, Respond(r, kind, e, s)
        PROVE  /\ answer'[r].kind # "unsent"
               /\ \A f \in Requests : f # r => answer'[f] = answer[f]
    BY <1>6 DEF Respond, Reply, TypeInv, TypeOK
  <1>7. CASE FastPath(p, r)
    <2>1. /\ Goto(t, "load") \in Threads /\ Goto(t, "load").pc = "load"
          /\ Goto(t, "load").steps = << >> /\ Goto(t, "load").pos = 1
      BY <1>2, GotoType DEF Stages, RequestStages
    <2>2. CASE Set(p, r, Goto(t, "load")) /\ UNCHANGED answer
      BY <1>2, <1>3, <1>4, <1>5, <1>7, <2>1, <2>2 DEF FastPath, RequestStages
    <2>3. CASE /\ \E e \in WithKeyOf(r) : Respond(r, "existing", e, db[e].status)
               /\ End(p, r)
      BY <1>3, <1>4, <1>5, <1>6, <1>7, <2>3, IdleType DEF FastPath, End
    <2>4. CASE Refuse(r) /\ End(p, r)
      BY <1>3, <1>4, <1>5, <1>6, <1>7, <2>4, IdleType DEF FastPath, End, Refuse
    <2>5. QED
      BY <1>7, <2>2, <2>3, <2>4 DEF FastPath
  <1>8. CASE Load(p, r)
    <2>1. ASSUME NEW plan \in Plans, Set(p, r, NewWorkflowExecution(t, plan)),
                 UNCHANGED answer
          PROVE  LogInv'
      <3>1. plan \in Seq(Kinds)
        BY ConstantsAssumption
      <3> DEFINE u == NewWorkflowExecution(t, plan)
      <3>2. u \in Threads /\ u.pc = "create"
        BY <1>2, <3>1, NewWorkflowExecutionType
      <3>3. u.steps = t.steps /\ u.pos = t.pos
        BY <1>2, <3>1 DEF NewWorkflowExecution, Goto, Threads
      <3> HIDE DEF u
      <3>4. Set(p, r, u)
        BY <2>1 DEF u
      <3>5. QED
        BY <1>2, <1>3, <1>4, <1>5, <1>8, <2>1, <3>2, <3>3, <3>4 DEF Load, RequestStages
    <2>2. CASE Refuse(r) /\ End(p, r)
      BY <1>3, <1>4, <1>5, <1>6, <1>8, <2>2, IdleType DEF Load, End, Refuse
    <2>3. QED
      BY <1>8, <2>1, <2>2 DEF Load
  <1>9. CASE Create(p, r)
    <2>1. t.pc = "create" /\ DocOf(t) \in Docs /\ DocOf(t).status = "pending"
      BY <1>2, <1>9, OwnThread, DocOfType DEF Create, StageMatchesStore
    <2>2. /\ db'[r].status # "completed"
          /\ \A f \in Requests : f # r => db'[f] = db[f]
      <3>1. UNCHANGED db \/ Store(r, DocOf(t))
        BY <1>9 DEF Create
      <3>2. QED
        BY <1>5, <2>1, <3>1, StoreType DEF TypeInv
    <2>3. CASE Set(p, r, [Goto(t, "markRunning") EXCEPT !.status = "running"])
               /\ UNCHANGED answer
      <3> DEFINE u == [Goto(t, "markRunning") EXCEPT !.status = "running"]
      <3>1. u \in Threads /\ u.pc = "markRunning" /\ u.steps = << >> /\ u.pos = 1
        BY <1>2 DEF Goto, Threads, RequestStages, Statuses
      <3> HIDE DEF u
      <3>2. Set(p, r, u)
        BY <2>3 DEF u
      <3>3. QED
        BY <1>2, <1>3, <1>4, <2>2, <2>3, <3>1, <3>2 DEF RequestStages
    <2>4. CASE Set(p, r, Goto(t, "duplicate")) /\ UNCHANGED answer
      <3>1. /\ Goto(t, "duplicate") \in Threads /\ Goto(t, "duplicate").pc = "duplicate"
            /\ Goto(t, "duplicate").steps = << >> /\ Goto(t, "duplicate").pos = 1
        BY <1>2, GotoType DEF Stages, RequestStages
      <3>2. QED
        BY <1>2, <1>3, <1>4, <2>2, <2>4, <3>1 DEF RequestStages
    <2>5. CASE Refuse(r) /\ End(p, r)
      BY <1>3, <1>4, <1>6, <2>2, <2>5, IdleType DEF End, Refuse
    <2>6. QED
      BY <1>9, <2>3, <2>4, <2>5 DEF Create
  <1>10. CASE ResolveDuplicate(p, r)
    <2>1. CASE \E e \in WithKeyOf(r) : Respond(r, "existing", e, db[e].status)
      BY <1>3, <1>4, <1>5, <1>6, <1>10, <2>1, IdleType DEF ResolveDuplicate, End
    <2>2. CASE Refuse(r)
      BY <1>3, <1>4, <1>5, <1>6, <1>10, <2>2, IdleType DEF ResolveDuplicate, End, Refuse
    <2>3. QED
      BY <1>10, <2>1, <2>2 DEF ResolveDuplicate
  <1>11. CASE StartFailed(p, r)
    <2>1. /\ DocOf(t).status = "failed" /\ Refuse(r) /\ End(p, r)
      BY <1>2, <1>11, OwnThread, DocOfType DEF StartFailed, StageMatchesStore
    <2>2. /\ db'[r].status # "completed"
          /\ \A f \in Requests : f # r => db'[f] = db[f]
      BY <1>2, <1>5, <1>11, <2>1, PersistType DEF StartFailed, TypeInv
    <2>3. QED
      BY <1>3, <1>4, <1>6, <2>1, <2>2, IdleType DEF End, Refuse
  <1>12. QED
    BY <1>7, <1>8, <1>9, <1>10, <1>11
\* The goroutine starts with nothing behind it.
LEMMA MarkRunningLog ==
  ASSUME TypeInv, SingleWriter, LogInv, NEW p \in Processes, NEW r \in Requests,
         MarkRunning(p, r)
  PROVE  LogInv'
  <1> DEFINE t == thread[p][r]
  <1>1. /\ t.pc = "markRunning" /\ t \in Threads /\ answer[r].kind # "unsent"
        /\ db[r].status = "pending" /\ t.status = "running"
        /\ DocOf(t) \in Docs /\ DocOf(t).status = "running"
    BY OwnThread, DocOfType DEF MarkRunning, StageMatchesStore
  <1>2. t.steps = << >> /\ t.pos = 1 /\ calls[r] = << >>
    BY <1>1, FreshLog DEF RequestStages
  <1>3. PICK reply \in {"ok", "conflict", "error"} :
          /\ Update(r, DocOf(t), {"pending"}, FALSE, reply)
          /\ \/ Respond(r, "created", r, "running") /\ Set(p, r, Goto(t, "visit"))
             \/ Refuse(r) /\ End(p, r)
             \/ Set(p, r, Goto(MarkFailed(t), "startFailed")) /\ UNCHANGED answer
    BY DEF MarkRunning
  <1>4. /\ db'[r].status \in {"pending", "running"}
        /\ \A f \in Requests : f # r => db'[f] = db[f]
        /\ UNCHANGED calls
    <2>1. /\ db' = db \/ db'[r] = DocOf(t)
          /\ \A f \in Requests : f # r => db'[f] = db[f]
      <3>1. TypeOK /\ DocOf(t) \in Docs /\ Update(r, DocOf(t), {"pending"}, FALSE, reply)
        BY <1>1, <1>3 DEF TypeInv
      <3>2. QED
        BY <3>1, UpdateType, Zenon
    <2>2. QED
      BY <1>1, <2>1 DEF MarkRunning
  <1>5. ASSUME NEW u \in Threads, Set(p, r, u), ThreadLog(u, << >>),
               \A f \in Requests : f # r => answer'[f] = answer[f],
               answer'[r].kind # "unsent"
        PROVE  LogInv'
    BY <1>1, <1>2, <1>4, <1>5, QuietLog
  <1>6. CASE Respond(r, "created", r, "running") /\ Set(p, r, Goto(t, "visit"))
    <2>1. /\ answer'[r].kind = "created"
          /\ \A f \in Requests : f # r => answer'[f] = answer[f]
      BY <1>6 DEF Respond, Reply, TypeInv, TypeOK
    <2>2. PICK u \in Threads : /\ u = Goto(t, "visit") /\ u.pc = "visit"
                               /\ u.steps = << >> /\ u.pos = 1
      BY <1>1, <1>2, GotoType DEF Stages, WorkerStages
    <2>3. ThreadLog(u, << >>)
      BY <2>2, EmptyLog DEF ThreadLog, RequestStages
    <2>4. QED
      BY <1>5, <1>6, <2>1, <2>2, <2>3
  <1>7. CASE Refuse(r) /\ End(p, r)
    BY <1>5, <1>7, RefuseType, IdleType, IdleLog DEF End
  <1>8. CASE Set(p, r, Goto(MarkFailed(t), "startFailed")) /\ UNCHANGED answer
    <2>1. MarkFailed(t) \in Threads /\ MarkFailed(t).pos = t.pos
          /\ MarkFailed(t).steps = t.steps
      BY <1>1, MarkFailedType DEF MarkFailed, Threads
    <2>2. PICK u \in Threads : /\ u = Goto(MarkFailed(t), "startFailed")
                               /\ u.pc = "startFailed"
                               /\ u.steps = << >> /\ u.pos = 1
      BY <1>2, <2>1, GotoType DEF Stages, RequestStages
    <2>3. ThreadLog(u, << >>)
      BY <2>2, RequestLog DEF RequestStages
    <2>4. QED
      BY <1>1, <1>5, <1>8, <2>2, <2>3
  <1>9. QED
    BY <1>3, <1>6, <1>7, <1>8

\* The goroutine goes on without a call, and the document stays running or
\* is stored as failed.
LEMMA WorkerLog ==
  ASSUME TypeInv, SingleWriter, LogInv, NEW p \in Processes, NEW e \in Requests,
         thread[p][e].pc \in WorkerStages, answer' = answer, UNCHANGED calls,
         NEW t \in Threads, Set(p, e, t), ThreadLog(t, calls[e]),
         \A f \in Requests : f # e => db'[f] = db[f],
         db'[e].status \in {"running", "failed"}
  PROVE  LogInv'
  <1>1. thread[p][e].pc # "none" /\ answer[e].kind # "unsent"
    BY OwnThread DEF WorkerStages
  <1>2. QED
    BY <1>1, QuietLog

LEMMA WalkLog ==
  ASSUME TypeInv, SingleWriter, LogInv, NEW p \in Processes, NEW e \in Requests,
         \/ TraversalEnds(p, e) \/ TraversalFails(p, e) \/ ExecuteActionNode(p, e)
         \/ EvaluateConditionalNode(p, e) \/ ExecuteExecutorNode(p, e)
         \/ Expire(p, e)
  PROVE  LogInv'
  <1> DEFINE t == thread[p][e]
             c == calls[e]
  <1>1. /\ t.pc \in WorkerStages /\ UNCHANGED <<db, answer, calls>>
    BY DEF TraversalEnds, TraversalFails, ExecuteActionNode, EvaluateConditionalNode,
           ExecuteExecutorNode, Expire, Enters, WorkerStages
  <1>2. t \in Threads /\ db[e].status = "running" /\ ThreadLog(t, c)
    BY <1>1, WorkerThread DEF LogInv
  <1>3. ASSUME NEW u \in Threads, Set(p, e, u), ThreadLog(u, c) PROVE LogInv'
    BY <1>1, <1>2, <1>3, WorkerLog
  <1>4. ASSUME NEW pc \in Stages
        PROVE  /\ Goto(t, pc) \in Threads
               /\ Goto(t, pc).pc = pc /\ Goto(t, pc).steps = t.steps
               /\ Goto(t, pc).pos = t.pos /\ Goto(t, pc).plan = t.plan
    BY <1>2, GotoType
  <1>5. CASE Set(p, e, Goto(t, "finishing")) /\ t.pc = "visit"
    <2>1. PICK u \in Threads : u = Goto(t, "finishing") /\ u.pc = "finishing"
                               /\ u.steps = t.steps
      BY <1>4 DEF Stages, WorkerStages
    <2>2. ThreadLog(u, c)
      BY <1>2, <1>5, <2>1 DEF ThreadLog, RequestStages
    <2>3. QED
      BY <1>3, <1>5, <2>1, <2>2
  <1>6. ASSUME NEW u \in Threads, u.pc \in {"failing", "stepFailed"}
        PROVE  ThreadLog(u, c)
    BY <1>6 DEF ThreadLog, RequestStages
  <1>7. CASE Set(p, e, Goto(t, "failing"))
    <2>1. Goto(t, "failing") \in Threads /\ Goto(t, "failing").pc = "failing"
      BY <1>4 DEF Stages, WorkerStages
    <2>2. QED
      BY <1>3, <1>6, <1>7, <2>1
  <1>8. CASE Set(p, e, Goto(t, "call")) /\ Enters(t, "executor")
    <2>1. PICK u \in Threads : /\ u = Goto(t, "call") /\ u.pc = "call"
                               /\ u.steps = t.steps /\ u.pos = t.pos /\ u.plan = t.plan
      BY <1>4 DEF Stages, WorkerStages
    <2>2. ThreadLog(u, c)
      BY <1>2, <1>8, <2>1 DEF ThreadLog, RequestStages, Enters
    <2>3. QED
      BY <1>3, <1>8, <2>1, <2>2
  <1>9. ASSUME NEW kind \in {"action", "conditional", "executor"}, Enters(t, kind)
        PROVE  /\ t.pos <= Len(t.plan) /\ t.plan[t.pos] = kind
               /\ LogAgrees(t.steps, c) /\ Len(t.steps) = t.pos - 1 /\ CallsBelow(c, t.pos)
               /\ \A ok \in BOOLEAN : AddStep(t, ok) \in Threads
                                      /\ AddStep(t, ok).pc = "visit"
                                      /\ AddStep(t, ok).pos = t.pos
    BY <1>2, <1>9, AddStepType DEF Enters, ThreadLog
  <1>10. ASSUME NEW kind \in {"action", "conditional"}, Enters(t, kind)
         PROVE  /\ LogAgrees(AddStep(t, TRUE).steps, c)
                /\ Len(AddStep(t, TRUE).steps) = t.pos
                /\ CallsBelow(c, t.pos + 1)
    <2>1. /\ t.pos <= Len(t.plan) /\ t.plan[t.pos] = kind
          /\ LogAgrees(t.steps, c) /\ Len(t.steps) = t.pos - 1 /\ CallsBelow(c, t.pos)
      BY <1>9, <1>10
    <2>2. /\ Len(AddStep(t, TRUE).steps) = t.pos
          /\ LogAgrees(AddStep(t, TRUE).steps, c)
      BY <1>2, <1>10, <2>1, AddStepLog
    <2>3. CallsBelow(c, t.pos + 1)
      <3>1. c \in Seq(Nat) /\ t.pos \in Nat
        BY <1>2 DEF TypeInv, TypeOK, Threads
      <3>2. \A i \in DOMAIN c : c[i] \in Nat /\ c[i] < t.pos
        BY <2>1, <3>1 DEF CallsBelow
      <3>3. \A x \in Nat : x < t.pos => x < t.pos + 1
        BY <3>1
      <3>4. QED
        BY <3>2, <3>3 DEF CallsBelow
    <2>4. QED
      BY <2>2, <2>3
  <1>11. CASE ExecuteActionNode(p, e)
    <2>1. Enters(t, "action")
      BY <1>11 DEF ExecuteActionNode
    <2>2. PICK u \in Threads : /\ u = AddStep(t, TRUE) /\ u.pc = "visit" /\ u.pos = t.pos
      BY <1>9, <2>1, Zenon
    <2> DEFINE v == [u EXCEPT !.pos = @ + 1]
    <2>3. /\ v \in Threads /\ v.pc = "visit" /\ v.steps = u.steps
          /\ v.pos = t.pos + 1
      BY <2>2, AdvanceType DEF Threads
    <2>4. Set(p, e, v)
      BY <1>11, <2>2, Zenon DEF ExecuteActionNode
    <2> HIDE DEF v
    <2>5. /\ LogAgrees(v.steps, c) /\ Len(v.steps) = t.pos /\ CallsBelow(c, v.pos)
      BY <1>10, <2>1, <2>2, <2>3
    <2>6. t.pos = v.pos - 1
      BY <1>2, <2>3 DEF Threads
    <2>7. ThreadLog(v, c)
      BY <2>3, <2>5, <2>6 DEF ThreadLog, RequestStages
    <2>8. QED
      BY <1>3, <2>3, <2>4, <2>7
  <1>12. ASSUME NEW u \in Threads, Set(p, e, Goto(u, "stepFailed")) PROVE LogInv'
    <2>1. Goto(u, "stepFailed") \in Threads /\ Goto(u, "stepFailed").pc = "stepFailed"
      BY GotoType DEF Stages, WorkerStages
    <2>2. QED
      BY <1>3, <1>6, <1>12, <2>1
  <1>13. CASE EvaluateConditionalNode(p, e)
    <2>1. Enters(t, "conditional")
      BY <1>13 DEF EvaluateConditionalNode
    <2>2. PICK ok \in BOOLEAN :
            Set(p, e, Goto(AddStep(t, ok), IF ok THEN "persistStep" ELSE "stepFailed"))
      BY <1>13 DEF EvaluateConditionalNode
    <2>3. CASE ok = TRUE
      <3>1. PICK u \in Threads : u = AddStep(t, TRUE) /\ u.pos = t.pos
        BY <1>9, <2>1, Zenon
      <3> DEFINE v == Goto(u, "persistStep")
      <3>2. /\ v \in Threads /\ v.pc = "persistStep"
            /\ v.steps = u.steps /\ v.pos = u.pos
        BY GotoType DEF Stages, WorkerStages
      <3>3. Set(p, e, v)
        BY <2>2, <2>3, <3>1
      <3> HIDE DEF v
      <3>4. ThreadLog(v, c)
        BY <1>10, <2>1, <3>1, <3>2 DEF ThreadLog, RequestStages
      <3>5. QED
        BY <1>3, <3>2, <3>3, <3>4
    <2>4. CASE ok = FALSE
      BY <1>9, <1>12, <2>1, <2>2, <2>4
    <2>5. QED
      BY <2>3, <2>4
  <1>14. CASE ExecuteExecutorNode(p, e)
    <2>1. Enters(t, "executor")
      BY <1>14 DEF ExecuteExecutorNode
    <2>2. CASE Set(p, e, Goto(t, "call"))
      BY <1>8, <2>1, <2>2
    <2>3. CASE Set(p, e, Goto(AddStep(t, FALSE), "stepFailed"))
      BY <1>9, <1>12, <2>1, <2>3
    <2>4. QED
      BY <1>14, <2>2, <2>3 DEF ExecuteExecutorNode
  <1>15. CASE Expire(p, e)
    <2> DEFINE u == [t EXCEPT !.expired = TRUE]
    <2>1. /\ u \in Threads /\ u.pc = t.pc /\ u.steps = t.steps /\ u.pos = t.pos
          /\ u.plan = t.plan
      BY <1>2 DEF Threads
    <2>2. Set(p, e, u)
      BY <1>15 DEF Expire
    <2> HIDE DEF u
    <2>3. ThreadLog(u, c)
      BY <1>2, <2>1 DEF ThreadLog
    <2>4. QED
      BY <1>3, <2>1, <2>2, <2>3
  <1>16. QED
    BY <1>5, <1>7, <1>11, <1>13, <1>14, <1>15 DEF TraversalEnds, TraversalFails
\* A call that reached the provider is behind the thread, whatever it
\* returned; it is in the log when it succeeded.
LEMMA CallLog ==
  ASSUME TypeInv, SingleWriter, LogInv, NEW p \in Processes, NEW e \in Requests,
         Call(p, e)
  PROVE  LogInv'
  <1> DEFINE t == thread[p][e]
             c == calls[e]
  <1>1. PICK ok \in BOOLEAN, reached \in BOOLEAN :
          /\ ok => reached
          /\ Set(p, e, Goto(AddStep(t, ok), IF ok THEN "persistStep" ELSE "stepFailed"))
          /\ calls' = IF reached THEN [calls EXCEPT ![e] = Append(@, t.pos)] ELSE calls
    BY DEF Call
  <1>2. t.pc = "call" /\ UNCHANGED <<db, answer>>
    BY DEF Call
  <1>3. /\ t \in Threads /\ db[e].status = "running" /\ t.pos <= Len(t.plan)
        /\ answer[e].kind # "unsent"
    BY <1>2, WorkerThread, OwnThread DEF WorkerStages, Coherent
  <1>4. /\ LogAgrees(t.steps, c) /\ Len(t.steps) = t.pos - 1 /\ CallsBelow(c, t.pos)
        /\ t.plan[t.pos] = "executor" /\ Increasing(c)
    BY <1>2 DEF LogInv, ThreadLog
  <1>5. c \in Seq(Nat) /\ t.pos \in Nat
    BY <1>3 DEF TypeInv, TypeOK, Threads
  <1>6. /\ Increasing(Append(c, t.pos))
        /\ CallsBelow(Append(c, t.pos), t.pos + 1)
        /\ PositionsOf(Append(c, t.pos)) = PositionsOf(c) \cup {t.pos}
    BY <1>4, <1>5, AppendCall
  <1>7. /\ reached => calls'[e] = Append(c, t.pos)
        /\ ~reached => calls'[e] = c
        /\ \A f \in Requests : f # e => calls'[f] = calls[f]
    BY <1>1 DEF TypeInv, TypeOK
  <1>8. Increasing(calls'[e])
    BY <1>4, <1>6, <1>7
  <1>9. ASSUME NEW u \in Threads, Set(p, e, u), ThreadLog(u, calls'[e]) PROVE LogInv'
    BY <1>2, <1>3, <1>7, <1>8, <1>9, LogFrame
  <1>10. CASE ok = TRUE
    <2> DEFINE a == AddStep(t, TRUE)
               v == Goto(a, "persistStep")
    <2>1. a \in Threads /\ a.pos = t.pos
      BY <1>3, AddStepType
    <2>2. /\ Len(a.steps) = t.pos
          /\ \A d : PositionsOf(d) = PositionsOf(c) \cup {t.pos} => LogAgrees(a.steps, d)
      BY <1>3, <1>4, AddStepLog
    <2>3. Set(p, e, v) /\ calls'[e] = Append(c, t.pos)
      BY <1>1, <1>7, <1>10
    <2> HIDE DEF a
    <2>4. /\ v \in Threads /\ v.pc = "persistStep"
          /\ v.steps = a.steps /\ v.pos = a.pos
      BY <2>1, GotoType DEF Stages, WorkerStages
    <2> HIDE DEF v
    <2>5. LogAgrees(v.steps, calls'[e])
      BY <1>6, <2>2, <2>3, <2>4
    <2>6. ThreadLog(v, calls'[e])
      BY <1>6, <2>1, <2>2, <2>3, <2>4, <2>5 DEF ThreadLog, RequestStages
    <2>7. QED
      BY <1>9, <2>3, <2>4, <2>6
  <1>11. CASE ok = FALSE
    <2> DEFINE a == AddStep(t, FALSE)
               v == Goto(a, "stepFailed")
    <2>1. a \in Threads
      BY <1>3, AddStepType
    <2>2. Set(p, e, v)
      BY <1>1, <1>11
    <2> HIDE DEF a
    <2>3. v \in Threads /\ v.pc = "stepFailed"
      BY <2>1, GotoType DEF Stages, WorkerStages
    <2> HIDE DEF v
    <2>4. ThreadLog(v, calls'[e])
      BY <2>3 DEF ThreadLog, RequestStages
    <2>5. QED
      BY <1>9, <2>2, <2>3, <2>4
  <1>12. QED
    BY <1>10, <1>11

LEMMA PersistStepLog ==
  ASSUME TypeInv, SingleWriter, LogInv, NEW p \in Processes, NEW e \in Requests,
         PersistStep(p, e)
  PROVE  LogInv'
  <1> DEFINE t == thread[p][e]
             next == [Goto(t, "visit") EXCEPT !.pos = @ + 1]
  <1>1. t.pc = "persistStep" /\ UNCHANGED <<answer, calls>>
    BY DEF PersistStep
  <1>2. /\ t \in Threads /\ t.status = "running" /\ db[e].status = "running"
        /\ DocOf(t) \in Docs /\ DocOf(t).status = "running"
        /\ ThreadLog(t, calls[e])
    BY <1>1, WorkerThread, DocOfType DEF WorkerStages, LogInv
  <1>3. PICK reply \in {"ok", "conflict", "error"} :
          /\ Update(e, DocOf(t), {"running"}, t.expired, reply)
          /\ Set(p, e, next) \/ Set(p, e, Idle) \/ Set(p, e, Goto(t, "failing"))
    BY DEF PersistStep, End
  <1>4. /\ db' = db \/ db'[e] = DocOf(t)
        /\ \A f \in Requests : f # e => db'[f] = db[f]
    BY <1>2, <1>3, UpdateType DEF TypeInv
  <1>5. db'[e].status = "running"
    BY <1>2, <1>4
  <1>6. /\ next \in Threads /\ next.pc = "visit" /\ next.steps = t.steps
        /\ next.pos = t.pos + 1 /\ t.pos \in Nat
    <2> DEFINE g == Goto(t, "visit")
    <2>1. g \in Threads /\ g.pc = "visit" /\ g.steps = t.steps /\ g.pos = t.pos
      BY <1>2, GotoType DEF Stages, WorkerStages
    <2>2. t.pos \in Nat
      BY <1>2 DEF Threads
    <2> HIDE DEF g
    <2>3. [g EXCEPT !.pos = @ + 1].pos = g.pos + 1
      BY <2>1 DEF Threads
    <2>4. QED
      BY <2>1, <2>2, <2>3, AdvanceType DEF g
  <1>7. Goto(t, "failing") \in Threads /\ Goto(t, "failing").pc = "failing"
    BY <1>2, GotoType DEF Stages, WorkerStages
  <1> HIDE DEF next
  <1>8. ThreadLog(next, calls[e])
    <2>1. t.pos = next.pos - 1
      BY <1>6
    <2>2. QED
      BY <1>1, <1>2, <1>6, <2>1 DEF ThreadLog, RequestStages
  <1>9. ThreadLog(Goto(t, "failing"), calls[e])
    BY <1>7 DEF ThreadLog, RequestStages
  <1>10. PICK u \in Threads : Set(p, e, u) /\ ThreadLog(u, calls[e])
    BY <1>3, <1>6, <1>7, <1>8, <1>9, IdleType, IdleLog
  <1>11. QED
    BY <1>1, <1>4, <1>5, <1>10, WorkerLog DEF WorkerStages

LEMMA BestEffortLog ==
  ASSUME TypeInv, SingleWriter, LogInv, NEW p \in Processes, NEW e \in Requests,
         StepFailed(p, e) \/ Failing(p, e) \/ Finishing(p, e) \/ Abandon(p, e)
  PROVE  LogInv'
  <1> DEFINE t == thread[p][e]
  <1>1. t.pc \in WorkerStages /\ UNCHANGED <<answer, calls>>
    BY DEF StepFailed, Failing, Finishing, Abandon, WorkerStages
  <1>2. /\ t \in Threads /\ t.status \in {"running", "failed"} /\ db[e].status = "running"
        /\ t.pc # "failing" => t.status = "running"
        /\ t.pc # "abandon" /\ ThreadLog(t, calls[e])
    BY <1>1, WorkerThread DEF LogInv
  <1>3. /\ MarkFailed(t) \in Threads /\ MarkFailed(t).status = "failed"
        /\ MarkCompleted(t) \in Threads /\ MarkCompleted(t).steps = t.steps
    BY <1>2, MarkFailedType, MarkCompletedType DEF MarkFailed, MarkCompleted, Terminal, Threads
  <1>4. CASE StepFailed(p, e)
    <2>1. t.pc = "stepFailed" /\ PersistBestEffort(e, t)
          /\ Set(p, e, Goto(MarkFailed(t), "failing"))
      BY <1>4 DEF StepFailed
    <2>2. db'[e].status = "running" /\ \A f \in Requests : f # e => db'[f] = db[f]
      BY <1>2, <2>1, PersistType, DocOfType DEF TypeInv
    <2>3. PICK u \in Threads : u = Goto(MarkFailed(t), "failing") /\ u.pc = "failing"
      BY <1>3, GotoType DEF Stages, WorkerStages
    <2>4. ThreadLog(u, calls[e])
      BY <2>3 DEF ThreadLog, RequestStages
    <2>5. QED
      BY <1>1, <2>1, <2>2, <2>3, <2>4, WorkerLog
  <1>5. CASE Failing(p, e)
    <2>1. PersistBestEffort(e, MarkFailed(t)) /\ Set(p, e, Idle)
      BY <1>5 DEF Failing, End
    <2>2. /\ db'[e].status \in {"running", "failed"}
          /\ \A f \in Requests : f # e => db'[f] = db[f]
      BY <1>2, <1>3, <2>1, PersistType, DocOfType DEF TypeInv
    <2>3. QED
      BY <1>1, <2>1, <2>2, IdleType, IdleLog, WorkerLog
  <1>6. CASE Finishing(p, e)
    <2>1. t.pc = "finishing" /\ PersistBestEffort(e, MarkCompleted(t)) /\ Set(p, e, Idle)
      BY <1>6 DEF Finishing, End
    <2>2. /\ db' = db \/ db'[e] = DocOf(MarkCompleted(t))
          /\ \A f \in Requests : f # e => db'[f] = db[f]
          /\ db'[e].status # "absent"
      <3>1. MarkCompleted(t).status = "completed"
        BY <1>2, <2>1, MarkCompletedType
      <3>2. QED
        BY <1>2, <1>3, <2>1, <3>1, PersistType, DocOfType DEF TypeInv
    <2>3. DocOf(MarkCompleted(t)).steps = t.steps
      BY <1>3 DEF DocOf
    <2>4. LogAgrees(t.steps, calls[e]) /\ Increasing(calls[e])
      BY <1>2, <2>1 DEF ThreadLog, LogInv
    <2>5. db'[e].status = "completed" => LogAgrees(db'[e].steps, calls'[e])
      BY <1>1, <1>2, <2>2, <2>3, <2>4
    <2>6. t.pc # "none" /\ answer[e].kind # "unsent"
      BY <2>1, OwnThread
    <2>7. ThreadLog(Idle, calls'[e])
      BY IdleLog
    <2>8. QED
      BY <1>1, <2>1, <2>2, <2>4, <2>5, <2>6, <2>7, IdleType, LogFrame
  <1>7. ~Abandon(p, e)
    BY <1>2 DEF Abandon
  <1>8. QED
    BY <1>4, <1>5, <1>6, <1>7
\* Threads that end, or nothing that changes.
LEMMA SilentLog ==
  ASSUME LogInv, UNCHANGED <<db, calls>>,
         \A q \in Processes, e \in Requests :
           thread'[q][e] = Idle \/ thread'[q][e] = thread[q][e],
         \A e \in Requests : answer'[e].kind = "unsent" => answer[e].kind = "unsent"
  PROVE  LogInv'
  <1>1. ASSUME NEW e \in Requests
        PROVE  /\ \A q \in Processes : ThreadLog(thread'[q][e], calls'[e])
               /\ answer'[e].kind = "unsent" => calls'[e] = << >>
               /\ Increasing(calls'[e])
               /\ calls'[e] # << >> => db'[e].status # "absent"
               /\ db'[e].status = "completed" => LogAgrees(db'[e].steps, calls'[e])
    BY IdleLog DEF LogInv
  <1>2. QED
    BY <1>1, Zenon DEF LogInv, ThreadLog, LogAgrees, Increasing, CallsBelow, PositionsOf,
       ExecutorPositions

LEMMA ProcessLog ==
  ASSUME TypeInv, LogInv, ~RecoverOnStart, NEW p \in Processes, Crash(p) \/ Start(p)
  PROVE  LogInv'
  <1>1. UNCHANGED <<db, calls>>
    BY DEF Crash, Start
  <1>2. CASE Crash(p)
    <2>1. \A q \in Processes, e \in Requests :
            thread'[q][e] = Idle \/ thread'[q][e] = thread[q][e]
      BY <1>2 DEF Crash, TypeInv, TypeOK
    <2>2. \A e \in Requests : answer'[e].kind = "unsent" => answer[e].kind = "unsent"
      BY <1>2 DEF Crash, Reply
    <2>3. QED
      BY <1>1, <2>1, <2>2, SilentLog
  <1>3. CASE Start(p)
    <2>1. UNCHANGED <<thread, answer>>
      BY <1>3 DEF Start
    <2>2. QED
      BY <1>1, <2>1, SilentLog
  <1>4. QED
    BY <1>2, <1>3

LEMMA LogNext ==
  ASSUME ~RecoverOnStart, TypeInv, SingleWriter, LogInv, [Next]_vars
  PROVE  LogInv'
  <1>1. ASSUME NEW p \in Processes, NEW e \in Requests,
               Arrive(p, e) \/ RequestStep(p, e) \/ WorkerStep(p, e) \/ Expire(p, e)
        PROVE  LogInv'
    <2>1. CASE Arrive(p, e)
      BY <2>1, ArriveLog
    <2>2. CASE RequestStep(p, e)
      BY <2>2, BeforeStartLog, MarkRunningLog DEF RequestStep
    <2>3. CASE WorkerStep(p, e)
      BY <2>3, WalkLog, CallLog, PersistStepLog, BestEffortLog DEF WorkerStep
    <2>4. CASE Expire(p, e)
      BY <2>4, WalkLog
    <2>5. QED
      BY <1>1, <2>1, <2>2, <2>3, <2>4
  <1>2. ASSUME NEW p \in Processes, Crash(p) \/ Start(p) PROVE LogInv'
    BY <1>2, ProcessLog
  <1>3. CASE UNCHANGED vars
    BY <1>3, SilentLog DEF vars
  <1>4. QED
    BY <1>1, <1>2, <1>3 DEF Next

LEMMA LogInit == Init => LogInv
  <1>1. Increasing(<< >>)
    BY DEF Increasing
  <1>2. QED
    BY <1>1, IdleLog DEF Init, NoDoc, LogInv

\* What a client relies on holds without recovery and with the unique index:
\* what it was told is created stays stored; a keyed operation, however often
\* it is sent, calls the providers from one execution, in the order of the
\* plan and each node at most once; a completed execution stores every step
\* once, in order and successful, and its executor steps are the calls that
\* were made (execute_workflow.go:182-196, 387, 584-594, 955-976).
THEOREM ClientsCanRely ==
  ASSUME ~RecoverOnStart, Indexed PROVE Spec => []ExecutionInv
  <1>1. Init => LogInv /\ KeyInv
    BY LogInit, KeyInit
  <1>2. TypeInv /\ SingleWriter /\ LogInv /\ KeyInv /\ [Next]_vars => LogInv' /\ KeyInv'
    BY LogNext, KeyNext
  <1>3. TypeInv /\ CreatedIsDurable /\ LogInv /\ KeyInv => ExecutionInv
    <2> SUFFICES ASSUME TypeInv, CreatedIsDurable, LogInv, KeyInv PROVE ExecutionInv
      OBVIOUS
    <2>1. CompletedIsClean
      BY DEF LogInv, LogAgrees, PositionsOf, CompletedIsClean
    <2>2. KeyedCallsOnce
      <3>1. \A e \in Requests : Increasing(calls[e])
        BY DEF LogInv
      <3>2. \A e \in Requests : calls[e] # << >> => e \in Present
        BY DEF LogInv, Present
      <3>3. QED
        BY <3>1, <3>2 DEF KeyInv, KeyedCallsOnce
    <2>3. QED
      BY <2>1, <2>2 DEF ExecutionInv
  <1>4. QED
    BY <1>1, <1>2, <1>3, OneWriter, CreatedStays, TypeCorrect, PTL DEF Spec
-----------------------------------------------------------------------------
(* The steps that are stored, without recovery                             *)

AllOk(s) == \A i \in DOMAIN s : s[i].ok

\* What a write keeps of the steps that were stored.
KeepsLog(s, new) == Extends(s, new) /\ \A i \in DOMAIN s : ~s[i].ok => new = s

\* Nothing is stored before the goroutine starts.  What its entity holds then
\* continues what is stored, and a failed step is stored only by a goroutine
\* that adds no other step.
StoredLog(t, s) ==
  /\ t.pc \in RequestStages => s = << >>
  /\ t.pc \in WorkerStages => Extends(s, t.steps)
  /\ t.pc \in WorkerStages \ {"failing"} => AllOk(s)
  /\ t.pc = "failing" => AllOk(s) \/ s = t.steps

StoredInv ==
  \A e \in Requests :
    /\ \A p \in Processes : StoredLog(thread[p][e], db[e].steps)
    /\ answer[e].kind = "unsent" => db[e].steps = << >>

LogStep == \A e \in Requests : KeepsLog(db[e].steps, db'[e].steps)

LEMMA IdleStored == \A t, s : t.pc = "none" => StoredLog(t, s)
  BY DEF StoredLog, RequestStages, WorkerStages

LEMMA ExtendsItself == ASSUME NEW s \in Seq(Steps) PROVE Extends(s, s) /\ KeepsLog(s, s)
  <1>1. Len(s) \in Nat
    OBVIOUS
  <1>2. QED
    BY <1>1 DEF Extends, KeepsLog

LEMMA EmptyStored == AllOk(<< >>) /\ \A s \in Seq(Steps) : Extends(<< >>, s)
  <1>1. \A s \in Seq(Steps) : Len(s) \in Nat
    OBVIOUS
  <1>2. QED
    BY <1>1 DEF AllOk, Extends

\* What a sequence continues, it continues when a step is added.
LEMMA AddStepExtends ==
  ASSUME NEW t \in Threads, t.pos <= Len(t.plan), NEW ok \in BOOLEAN,
         NEW s \in Seq(Steps), Extends(s, t.steps)
  PROVE  Extends(s, AddStep(t, ok).steps)
  <1> DEFINE x == [number |-> t.pos, kind |-> t.plan[t.pos], ok |-> ok]
             u == Append(t.steps, x)
  <1>1. t.pos \in 1..Len(t.plan) /\ t.plan \in Seq(Kinds) /\ t.steps \in Seq(Steps)
    BY DEF Threads
  <1>2. t.plan[t.pos] \in Kinds
    BY <1>1
  <1>3. x \in Steps
    BY <1>1, <1>2 DEF Steps
  <1>4. AddStep(t, ok).steps = u
    BY DEF AddStep, Threads
  <1> HIDE DEF x
  <1>5. /\ Len(u) = Len(t.steps) + 1 /\ Len(t.steps) \in Nat /\ Len(s) \in Nat
        /\ DOMAIN s = 1..Len(s)
        /\ \A i \in 1..Len(t.steps) : u[i] = t.steps[i]
    BY <1>1, <1>3
  <1> HIDE DEF u
  <1>6. Len(s) <= Len(t.steps) /\ \A i \in DOMAIN s : t.steps[i] = s[i]
    BY DEF Extends
  <1>7. \A i \in DOMAIN s : i \in 1..Len(t.steps)
    BY <1>5, <1>6
  <1>8. QED
    BY <1>4, <1>5, <1>6, <1>7 DEF Extends

\* A step of thread <<p, e>>, which writes nothing or the steps of its entity.
LEMMA StoredFrame ==
  ASSUME TypeInv, SingleWriter, LogInv, StoredInv,
         NEW p \in Processes, NEW e \in Requests, NEW t \in Threads, Set(p, e, t),
         thread[p][e].pc # "none" \/ answer[e].kind = "unsent",
         \A f \in Requests : f # e => db'[f] = db[f],
         \A f \in Requests : answer'[f].kind = "unsent" => answer[f].kind = "unsent",
         answer'[e].kind # "unsent",
         \/ db'[e].steps = db[e].steps
         \/ thread[p][e].pc # "none" /\ db'[e].steps = thread[p][e].steps,
         StoredLog(t, db'[e].steps)
  PROVE  StoredInv' /\ LogStep
  <1>1. /\ thread'[p][e] = t
        /\ \A q \in Processes, f \in Requests :
             <<q, f>> # <<p, e>> => thread'[q][f] = thread[q][f]
    BY SetType DEF TypeInv
  <1>2. \A q \in Processes : q # p => thread[q][e].pc = "none"
    BY DEF SingleWriter
  <1>3. \A q \in Processes : StoredLog(thread'[q][e], db'[e].steps)
    BY <1>1, <1>2, IdleStored
  <1>4. ASSUME NEW f \in Requests
        PROVE  /\ \A q \in Processes : StoredLog(thread'[q][f], db'[f].steps)
               /\ answer'[f].kind = "unsent" => db'[f].steps = << >>
    <2>1. CASE f = e
      BY <1>3, <2>1
    <2>2. CASE f # e
      <3>1. \A q \in Processes : thread'[q][f] = thread[q][f]
        BY <1>1, <2>2
      <3>2. QED
        BY <2>2, <3>1 DEF StoredInv
    <2>3. QED
      BY <2>1, <2>2
  <1>5. StoredInv'
    BY <1>4, Zenon DEF StoredInv, StoredLog, AllOk, Extends
  <1>6. \A f \in Requests : db[f].steps \in Seq(Steps)
    BY DEF TypeInv, TypeOK, Docs
  <1>7. KeepsLog(db[e].steps, db'[e].steps)
    <2> DEFINE old == thread[p][e]
               s == db[e].steps
    <2>1. CASE db'[e].steps = s
      BY <1>6, <2>1, ExtendsItself
    <2>2. CASE old.pc # "none" /\ db'[e].steps = old.steps
      <3>1. old \in Threads /\ StoredLog(old, s) /\ ThreadLog(old, calls[e])
        BY <2>2, OwnThread DEF StoredInv, LogInv
      <3>2. old.pc \in RequestStages \/ old.pc \in WorkerStages
        BY <2>2, <3>1 DEF Threads
      <3>3. CASE old.pc \in RequestStages
        <4>1. s = << >> /\ old.steps = << >>
          BY <3>1, <3>3 DEF StoredLog, ThreadLog
        <4>2. QED
          BY <1>6, <2>2, <4>1, ExtendsItself
      <3>4. CASE old.pc \in WorkerStages
        <4>1. Extends(s, old.steps) /\ (AllOk(s) \/ s = old.steps)
          BY <3>1, <3>4 DEF StoredLog
        <4>2. QED
          BY <2>2, <4>1 DEF KeepsLog, AllOk
      <3>5. QED
        BY <3>2, <3>3, <3>4
    <2>3. QED
      BY <2>1, <2>2
  <1>8. LogStep
    BY <1>6, <1>7, ExtendsItself DEF LogStep
  <1>9. QED
    BY <1>5, <1>8

\* A step of the handler: nothing is stored but steps that there are none of.
LEMMA HandlerStored ==
  ASSUME TypeInv, SingleWriter, LogInv, StoredInv,
         NEW p \in Processes, NEW r \in Requests, thread[p][r].pc \in RequestStages,
         NEW t \in Threads, Set(p, r, t),
         t.pc \in RequestStages \/ t = Idle \/ (t.pc = "visit" /\ t.steps = << >>),
         \A f \in Requests : f # r => db'[f] = db[f] /\ answer'[f] = answer[f],
         answer'[r].kind # "unsent",
         db' = db \/ db'[r].steps = thread[p][r].steps
  PROVE  StoredInv' /\ LogStep
  <1>1. thread[p][r].pc # "none"
    BY DEF RequestStages
  <1>2. db[r].steps = << >> /\ thread[p][r].steps = << >>
    BY FreshLog DEF StoredInv, StoredLog
  <1>3. db'[r].steps = << >>
    BY <1>2
  <1>4. StoredLog(t, << >>)
    <2>1. CASE t.pc \in RequestStages
      BY <2>1 DEF StoredLog, RequestStages, WorkerStages
    <2>2. CASE t = Idle
      BY <2>2, IdleStored DEF Idle
    <2>3. CASE t.pc = "visit" /\ t.steps = << >>
      <3>1. Extends(<< >>, t.steps) /\ AllOk(<< >>)
        BY EmptyStored DEF Threads
      <3>2. QED
        BY <2>3, <3>1 DEF StoredLog, RequestStages
    <2>4. QED
      BY <2>1, <2>2, <2>3
  <1>5. QED
    BY <1>1, <1>2, <1>3, <1>4, StoredFrame

LEMMA ArriveStored ==
  ASSUME TypeInv, SingleWriter, LogInv, StoredInv, NEW p \in Processes,
         NEW r \in Requests, Arrive(p, r)
  PROVE  StoredInv' /\ LogStep
  <1> DEFINE t == Goto(Idle, IF KeyOf[r] = NoKey THEN "load" ELSE "fastPath")
  <1>1. t \in Threads /\ t.pc \in {"load", "fastPath"}
    BY IdleType, GotoType DEF Stages, RequestStages
  <1>2. answer[r].kind = "unsent" /\ db' = db /\ Set(p, r, t)
    BY DEF Arrive
  <1>3. answer'[r].kind = "waiting" /\ \A f \in Requests : f # r => answer'[f] = answer[f]
    BY DEF Arrive, Respond, Reply, TypeInv, TypeOK
  <1> HIDE DEF t
  <1>4. StoredLog(t, db'[r].steps)
    BY <1>1, <1>2 DEF StoredInv, StoredLog, RequestStages, WorkerStages
  <1>5. QED
    BY <1>1, <1>2, <1>3, <1>4, StoredFrame

LEMMA HandlerSteps ==
  ASSUME TypeInv, SingleWriter, LogInv, StoredInv, NEW p \in Processes,
         NEW r \in Requests, RequestStep(p, r)
  PROVE  StoredInv' /\ LogStep
  <1> DEFINE t == thread[p][r]
  <1>1. t.pc \in RequestStages
    BY DEF RequestStep, FastPath, Load, Create, ResolveDuplicate, MarkRunning,
           StartFailed, RequestStages
  <1>2. /\ t \in Threads /\ t.steps = << >> /\ answer[r].kind # "unsent"
        /\ DocOf(t) \in Docs /\ DocOf(t).steps = t.steps
    BY <1>1, FreshLog, OwnThread, DocOfType DEF RequestStages, DocOf
  <1>3. ASSUME NEW u \in Threads, Set(p, r, u),
               u.pc \in RequestStages \/ u = Idle \/ (u.pc = "visit" /\ u.steps = << >>),
               \/ UNCHANGED answer
               \/ \E kind \in {"existing", "error", "created"} :
                    \E e, s : Respond(r, kind, e, s),
               \A f \in Requests : f # r => db'[f] = db[f],
               db' = db \/ db'[r] = DocOf(t)
        PROVE  StoredInv' /\ LogStep
    <2>1. \A f \in Requests : f # r => answer'[f] = answer[f]
      BY <1>3 DEF Respond, TypeInv, TypeOK
    <2>2. answer'[r].kind # "unsent"
      BY <1>2, <1>3 DEF Respond, Reply, TypeInv, TypeOK
    <2>3. QED
      BY <1>1, <1>2, <1>3, <2>1, <2>2, HandlerStored
  <1>4. ASSUME NEW pc \in RequestStages
        PROVE  Goto(t, pc) \in Threads /\ Goto(t, pc).pc \in RequestStages
    BY <1>2, GotoType DEF Stages
  <1>5. CASE FastPath(p, r)
    <2>1. UNCHANGED db
      BY <1>5 DEF FastPath
    <2>2. CASE Set(p, r, Goto(t, "load")) /\ UNCHANGED answer
      BY <1>3, <1>4, <2>1, <2>2 DEF RequestStages
    <2>3. CASE /\ \E e \in WithKeyOf(r) : Respond(r, "existing", e, db[e].status)
               /\ Set(p, r, Idle)
      BY <1>3, <2>1, <2>3, IdleType
    <2>4. CASE Refuse(r) /\ Set(p, r, Idle)
      BY <1>3, <2>1, <2>4, IdleType DEF Refuse
    <2>5. QED
      BY <1>5, <2>2, <2>3, <2>4 DEF FastPath, End
  <1>6. CASE Load(p, r)
    <2>1. UNCHANGED db
      BY <1>6 DEF Load
    <2>2. ASSUME NEW plan \in Plans, Set(p, r, NewWorkflowExecution(t, plan)),
                 UNCHANGED answer
          PROVE  StoredInv' /\ LogStep
      <3>1. /\ NewWorkflowExecution(t, plan) \in Threads
            /\ NewWorkflowExecution(t, plan).pc \in RequestStages
        BY <1>2, ConstantsAssumption, NewWorkflowExecutionType DEF RequestStages
      <3>2. QED
        BY <1>3, <2>1, <2>2, <3>1
    <2>3. CASE Refuse(r) /\ Set(p, r, Idle)
      BY <1>3, <2>1, <2>3, IdleType DEF Refuse
    <2>4. QED
      BY <1>6, <2>2, <2>3 DEF Load, End
  <1>7. CASE Create(p, r)
    <2>1. /\ db' = db \/ db'[r] = DocOf(t)
          /\ \A f \in Requests : f # r => db'[f] = db[f]
      <3>1. UNCHANGED db \/ Store(r, DocOf(t))
        BY <1>7 DEF Create
      <3>2. QED
        BY <1>2, <3>1, StoreType DEF TypeInv
    <2>2. CASE /\ Set(p, r, [Goto(t, "markRunning") EXCEPT !.status = "running"])
               /\ UNCHANGED answer
      <3> DEFINE u == [Goto(t, "markRunning") EXCEPT !.status = "running"]
      <3>1. u \in Threads /\ u.pc \in RequestStages
        BY <1>2 DEF Goto, Threads, RequestStages, Statuses
      <3> HIDE DEF u
      <3>2. Set(p, r, u)
        BY <2>2 DEF u
      <3>3. QED
        BY <1>3, <2>1, <2>2, <3>1, <3>2
    <2>3. CASE Set(p, r, Goto(t, "duplicate")) /\ UNCHANGED answer
      BY <1>3, <1>4, <2>1, <2>3 DEF RequestStages
    <2>4. CASE Refuse(r) /\ Set(p, r, Idle)
      BY <1>3, <2>1, <2>4, IdleType DEF Refuse
    <2>5. QED
      BY <1>7, <2>2, <2>3, <2>4 DEF Create, End
  <1>8. CASE ResolveDuplicate(p, r)
    <2>1. UNCHANGED db /\ Set(p, r, Idle)
      BY <1>8 DEF ResolveDuplicate, End
    <2>2. \E kind \in {"existing", "error", "created"} : \E e, s : Respond(r, kind, e, s)
      BY <1>8 DEF ResolveDuplicate, Refuse
    <2>3. QED
      BY <1>3, <2>1, <2>2, IdleType
  <1>9. CASE MarkRunning(p, r)
    <2>1. PICK reply \in {"ok", "conflict", "error"} :
            /\ Update(r, DocOf(t), {"pending"}, FALSE, reply)
            /\ \/ Respond(r, "created", r, "running") /\ Set(p, r, Goto(t, "visit"))
               \/ Refuse(r) /\ End(p, r)
               \/ Set(p, r, Goto(MarkFailed(t), "startFailed")) /\ UNCHANGED answer
      BY <1>9 DEF MarkRunning
    <2>2. /\ db' = db \/ db'[r] = DocOf(t)
          /\ \A f \in Requests : f # r => db'[f] = db[f]
      <3>1. TypeOK /\ Update(r, DocOf(t), {"pending"}, FALSE, reply)
        BY <2>1 DEF TypeInv
      <3>2. QED
        BY <1>2, <3>1, UpdateType, Zenon
    <2>3. CASE Respond(r, "created", r, "running") /\ Set(p, r, Goto(t, "visit"))
      <3>1. /\ Goto(t, "visit") \in Threads /\ Goto(t, "visit").pc = "visit"
            /\ Goto(t, "visit").steps = << >>
        BY <1>2, GotoType DEF Stages, WorkerStages
      <3>2. QED
        BY <1>3, <2>2, <2>3, <3>1
    <2>4. CASE Refuse(r) /\ End(p, r)
      BY <1>3, <2>2, <2>4, IdleType DEF Refuse, End
    <2>5. CASE Set(p, r, Goto(MarkFailed(t), "startFailed")) /\ UNCHANGED answer
      <3>1. MarkFailed(t) \in Threads
        BY <1>2, MarkFailedType
      <3>2. /\ Goto(MarkFailed(t), "startFailed") \in Threads
            /\ Goto(MarkFailed(t), "startFailed").pc \in RequestStages
        BY <3>1, GotoType, ZenonT(60) DEF Stages, RequestStages
      <3>3. QED
        BY <1>3, <2>2, <2>5, <3>2
    <2>6. QED
      BY <2>1, <2>3, <2>4, <2>5
  <1>10. CASE StartFailed(p, r)
    <2>1. PersistBestEffort(r, t) /\ Refuse(r) /\ Set(p, r, Idle)
      BY <1>10 DEF StartFailed, End
    <2>2. /\ db' = db \/ db'[r] = DocOf(t)
          /\ \A f \in Requests : f # r => db'[f] = db[f]
      BY <1>2, <2>1, PersistType DEF TypeInv
    <2>3. QED
      BY <1>3, <2>1, <2>2, IdleType DEF Refuse
  <1>11. QED
    BY <1>5, <1>6, <1>7, <1>8, <1>9, <1>10 DEF RequestStep

\* A step of the goroutine that writes nothing and is not its last one.
LEMMA WalkStored ==
  ASSUME TypeInv, SingleWriter, LogInv, StoredInv, NEW p \in Processes,
         NEW e \in Requests,
         \/ TraversalEnds(p, e) \/ TraversalFails(p, e) \/ ExecuteActionNode(p, e)
         \/ EvaluateConditionalNode(p, e) \/ ExecuteExecutorNode(p, e)
         \/ Call(p, e) \/ Expire(p, e)
  PROVE  StoredInv' /\ LogStep
  <1> DEFINE t == thread[p][e]
             s == db[e].steps
  <1>1. t.pc \in WorkerStages /\ UNCHANGED <<db, answer>>
    BY DEF TraversalEnds, TraversalFails, ExecuteActionNode, EvaluateConditionalNode,
           ExecuteExecutorNode, Call, Expire, Enters, WorkerStages
  <1>2. /\ t \in Threads /\ t.pc # "none" /\ answer[e].kind # "unsent"
        /\ s \in Seq(Steps) /\ StoredLog(t, s) /\ Extends(s, t.steps)
        /\ t.pc = "call" => t.pos <= Len(t.plan)
    BY <1>1, OwnThread, WorkerThread
       DEF WorkerStages, StoredInv, StoredLog, TypeInv, TypeOK, Docs, Coherent
  <1>3. ASSUME NEW u \in Threads, Set(p, e, u), StoredLog(u, s)
        PROVE  StoredInv' /\ LogStep
    BY <1>1, <1>2, <1>3, StoredFrame
  \* the goroutine is at another stage, with the same steps or one more
  <1>4. ASSUME t.pc # "failing", NEW u \in Threads, Set(p, e, u),
               u.pc \in WorkerStages, Extends(s, u.steps)
        PROVE  StoredInv' /\ LogStep
    <2>1. AllOk(s)
      BY <1>1, <1>2, <1>4 DEF StoredLog
    <2>2. StoredLog(u, s)
      BY <1>4, <2>1 DEF StoredLog, RequestStages, WorkerStages
    <2>3. QED
      BY <1>3, <1>4, <2>2
  <1>5. ASSUME NEW u \in Threads, NEW pc \in WorkerStages
        PROVE  /\ Goto(u, pc) \in Threads /\ Goto(u, pc).pc = pc
               /\ Goto(u, pc).steps = u.steps
    BY GotoType DEF Stages
  <1>6. ASSUME NEW pc \in WorkerStages, t.pc # "failing", Set(p, e, Goto(t, pc))
        PROVE  StoredInv' /\ LogStep
    BY <1>2, <1>4, <1>5, <1>6
  <1>7. ASSUME NEW ok \in BOOLEAN, t.pos <= Len(t.plan)
        PROVE  /\ AddStep(t, ok) \in Threads /\ AddStep(t, ok).pc = t.pc
               /\ Extends(s, AddStep(t, ok).steps)
    BY <1>2, <1>7, AddStepType, AddStepExtends
  <1>8. ASSUME NEW ok \in BOOLEAN, t.pos <= Len(t.plan), NEW pc \in WorkerStages,
               t.pc # "failing", Set(p, e, Goto(AddStep(t, ok), pc))
        PROVE  StoredInv' /\ LogStep
    <2>1. PICK a \in Threads : a = AddStep(t, ok) /\ Extends(s, a.steps)
      BY <1>7, <1>8
    <2>2. Set(p, e, Goto(a, pc))
      BY <1>8, <2>1
    <2>3. QED
      BY <1>4, <1>5, <1>8, <2>1, <2>2
  <1>9. CASE TraversalEnds(p, e)
    <2>1. t.pc = "visit" /\ Set(p, e, Goto(t, "finishing"))
      BY <1>9 DEF TraversalEnds
    <2>2. QED
      BY <1>6, <2>1 DEF WorkerStages
  <1>10. CASE TraversalFails(p, e)
    <2>1. t.pc = "visit" /\ Set(p, e, Goto(t, "failing"))
      BY <1>10 DEF TraversalFails, Enters
    <2>2. QED
      BY <1>6, <2>1 DEF WorkerStages
  <1>11. CASE ExecuteActionNode(p, e)
    <2>1. /\ t.pc = "visit" /\ t.pos <= Len(t.plan)
          /\ Set(p, e, [AddStep(t, TRUE) EXCEPT !.pos = @ + 1])
      BY <1>11 DEF ExecuteActionNode, Enters
    <2>2. PICK a \in Threads : /\ a = AddStep(t, TRUE) /\ a.pc = "visit"
                               /\ Extends(s, a.steps)
      BY <1>7, <2>1
    <2> DEFINE u == [a EXCEPT !.pos = @ + 1]
    <2>3. u \in Threads /\ u.pc = "visit" /\ u.steps = a.steps
      BY <2>2, AdvanceType
    <2>4. Set(p, e, u)
      BY <2>1, <2>2
    <2> HIDE DEF u
    <2>5. QED
      BY <1>4, <2>1, <2>2, <2>3, <2>4 DEF WorkerStages
  <1>12. CASE EvaluateConditionalNode(p, e)
    <2>1. t.pc = "visit" /\ t.pos <= Len(t.plan)
      BY <1>12 DEF EvaluateConditionalNode, Enters
    <2>2. PICK ok \in BOOLEAN :
            Set(p, e, Goto(AddStep(t, ok), IF ok THEN "persistStep" ELSE "stepFailed"))
      BY <1>12 DEF EvaluateConditionalNode
    <2>3. (IF ok THEN "persistStep" ELSE "stepFailed") \in WorkerStages
      BY DEF WorkerStages
    <2>4. QED
      BY <1>8, <2>1, <2>2, <2>3
  <1>13. CASE ExecuteExecutorNode(p, e)
    <2>1. /\ t.pc = "visit" /\ t.pos <= Len(t.plan)
          /\ \/ Set(p, e, Goto(t, "call"))
             \/ Set(p, e, Goto(AddStep(t, FALSE), "stepFailed"))
      BY <1>13 DEF ExecuteExecutorNode, Enters
    <2>2. QED
      BY <1>6, <1>8, <2>1 DEF WorkerStages
  <1>14. CASE Call(p, e)
    <2>1. t.pc = "call" /\ t.pos <= Len(t.plan)
      BY <1>2, <1>14 DEF Call
    <2>2. PICK ok \in BOOLEAN :
            Set(p, e, Goto(AddStep(t, ok), IF ok THEN "persistStep" ELSE "stepFailed"))
      BY <1>14 DEF Call
    <2>3. (IF ok THEN "persistStep" ELSE "stepFailed") \in WorkerStages
      BY DEF WorkerStages
    <2>4. QED
      BY <1>8, <2>1, <2>2, <2>3
  <1>15. CASE Expire(p, e)
    <2> DEFINE u == [t EXCEPT !.expired = TRUE]
    <2>1. u \in Threads /\ u.pc = t.pc /\ u.steps = t.steps
      BY <1>2 DEF Threads
    <2>2. Set(p, e, u)
      BY <1>15 DEF Expire
    <2> HIDE DEF u
    <2>3. StoredLog(u, s)
      BY <1>2, <2>1 DEF StoredLog
    <2>4. QED
      BY <1>3, <2>1, <2>2, <2>3
  <1>16. QED
    BY <1>9, <1>10, <1>11, <1>12, <1>13, <1>14, <1>15

\* A step of the goroutine that writes: the steps of its entity are stored, or
\* the document stays as it is.
LEMMA WriteStored ==
  ASSUME TypeInv, SingleWriter, LogInv, StoredInv, NEW p \in Processes,
         NEW e \in Requests,
         \/ PersistStep(p, e) \/ StepFailed(p, e) \/ Failing(p, e)
         \/ Finishing(p, e) \/ Abandon(p, e)
  PROVE  StoredInv' /\ LogStep
  <1> DEFINE t == thread[p][e]
             s == db[e].steps
  <1>1. t.pc \in WorkerStages /\ UNCHANGED answer
    BY DEF PersistStep, StepFailed, Failing, Finishing, Abandon, WorkerStages
  <1>2. /\ t \in Threads /\ t.pc # "none" /\ answer[e].kind # "unsent"
        /\ t.pc # "abandon" /\ t.steps \in Seq(Steps)
        /\ s \in Seq(Steps) /\ StoredLog(t, s) /\ Extends(s, t.steps)
        /\ t.pc # "failing" => AllOk(s)
        /\ Extends(t.steps, t.steps)
    <2>1. t \in Threads /\ s \in Seq(Steps) /\ t.pc # "abandon" /\ StoredLog(t, s)
      BY <1>1, WorkerThread DEF StoredInv, TypeInv, TypeOK, Docs
    <2>2. t.pc # "none" /\ answer[e].kind # "unsent"
      BY <1>1, OwnThread DEF WorkerStages
    <2>3. Extends(s, t.steps) /\ (t.pc # "failing" => AllOk(s))
      BY <1>1, <2>1 DEF StoredLog
    <2>4. t.steps \in Seq(Steps)
      BY <2>1 DEF Threads
    <2>5. QED
      BY <2>1, <2>2, <2>3, <2>4, ExtendsItself
  <1>3. ASSUME NEW u \in Threads, Set(p, e, u), StoredLog(u, db'[e].steps),
               db'[e].steps = s \/ db'[e].steps = t.steps,
               \A f \in Requests : f # e => db'[f] = db[f]
        PROVE  StoredInv' /\ LogStep
    BY <1>1, <1>2, <1>3, StoredFrame
  <1>4. ASSUME NEW u \in Threads, PersistBestEffort(e, u), u.steps = t.steps
        PROVE  /\ db'[e].steps = s \/ db'[e].steps = t.steps
               /\ \A f \in Requests : f # e => db'[f] = db[f]
    <2>1. DocOf(u).steps = t.steps
      BY <1>4 DEF DocOf
    <2>2. QED
      BY <1>4, <2>1, PersistType DEF TypeInv
  <1>5. /\ MarkFailed(t) \in Threads /\ MarkFailed(t).steps = t.steps
        /\ MarkCompleted(t) \in Threads /\ MarkCompleted(t).steps = t.steps
    BY <1>2, MarkFailedType, MarkCompletedType DEF MarkFailed, MarkCompleted, Threads
  <1>6. StoredLog(Idle, db'[e].steps)
    BY IdleStored DEF Idle
  <1>7. ASSUME NEW u \in Threads, u.pc = "failing", u.steps = t.steps, t.pc # "failing",
               db'[e].steps = s \/ db'[e].steps = t.steps
        PROVE  StoredLog(u, db'[e].steps)
    BY <1>2, <1>7 DEF StoredLog, RequestStages
  <1>8. CASE PersistStep(p, e)
    <2> DEFINE next == [Goto(t, "visit") EXCEPT !.pos = @ + 1]
    <2>1. PICK reply \in {"ok", "conflict", "error"} :
            /\ Update(e, DocOf(t), {"running"}, t.expired, reply)
            /\ \/ reply = "ok" /\ Set(p, e, next)
               \/ Set(p, e, Idle)
               \/ Set(p, e, Goto(t, "failing"))
      BY <1>8 DEF PersistStep, End
    <2>2. DocOf(t) \in Docs /\ DocOf(t).steps = t.steps
      BY <1>2, DocOfType DEF DocOf
    <2>3. /\ db' = db \/ db'[e] = DocOf(t)
          /\ \A f \in Requests : f # e => db'[f] = db[f]
          /\ reply = "ok" => db'[e] = DocOf(t)
      BY <2>1, <2>2, UpdateType DEF TypeInv
    <2>4. db'[e].steps = s \/ db'[e].steps = t.steps
      BY <2>2, <2>3
    <2>5. t.pc = "persistStep"
      BY <1>8 DEF PersistStep
    <2>6. AllOk(t.steps)
      BY <2>5 DEF LogInv, ThreadLog, LogAgrees, AllOk
    <2>7. next \in Threads /\ next.pc = "visit" /\ next.steps = t.steps
      <3>1. /\ Goto(t, "visit") \in Threads /\ Goto(t, "visit").pc = "visit"
            /\ Goto(t, "visit").steps = t.steps
        BY <1>2, GotoType DEF Stages, WorkerStages
      <3>2. QED
        BY <3>1, AdvanceType
    <2>8. /\ Goto(t, "failing") \in Threads /\ Goto(t, "failing").pc = "failing"
          /\ Goto(t, "failing").steps = t.steps
      BY <1>2, GotoType DEF Stages, WorkerStages
    <2> HIDE DEF next
    <2>9. CASE reply = "ok" /\ Set(p, e, next)
      <3>1. db'[e].steps = t.steps
        BY <2>2, <2>3, <2>9
      <3>2. StoredLog(next, t.steps)
        BY <1>2, <2>6, <2>7 DEF StoredLog, RequestStages
      <3>3. QED
        BY <1>3, <2>3, <2>7, <2>9, <3>1, <3>2
    <2>10. CASE Set(p, e, Idle)
      BY <1>3, <1>6, <2>3, <2>4, <2>10, IdleType
    <2>11. CASE Set(p, e, Goto(t, "failing"))
      BY <1>3, <1>7, <2>3, <2>4, <2>5, <2>8, <2>11
    <2>12. QED
      BY <2>1, <2>9, <2>10, <2>11
  <1>9. CASE StepFailed(p, e)
    <2>1. /\ t.pc = "stepFailed" /\ PersistBestEffort(e, t)
          /\ Set(p, e, Goto(MarkFailed(t), "failing"))
      BY <1>9 DEF StepFailed
    <2>2. PICK u \in Threads : /\ u = Goto(MarkFailed(t), "failing")
                               /\ u.pc = "failing" /\ u.steps = t.steps
      BY <1>5, GotoType DEF Stages, WorkerStages
    <2>3. /\ db'[e].steps = s \/ db'[e].steps = t.steps
          /\ \A f \in Requests : f # e => db'[f] = db[f]
      BY <1>2, <1>4, <2>1
    <2>4. QED
      BY <1>3, <1>7, <2>1, <2>2, <2>3
  <1>10. CASE Failing(p, e)
    <2>1. PersistBestEffort(e, MarkFailed(t)) /\ Set(p, e, Idle)
      BY <1>10 DEF Failing, End
    <2>2. QED
      BY <1>3, <1>4, <1>5, <1>6, <2>1, IdleType
  <1>11. CASE Finishing(p, e)
    <2>1. PersistBestEffort(e, MarkCompleted(t)) /\ Set(p, e, Idle)
      BY <1>11 DEF Finishing, End
    <2>2. QED
      BY <1>3, <1>4, <1>5, <1>6, <2>1, IdleType
  <1>12. ~Abandon(p, e)
    BY <1>2 DEF Abandon
  <1>13. QED
    BY <1>8, <1>9, <1>10, <1>11, <1>12

\* Threads that end, or nothing that changes.
LEMMA SilentStored ==
  ASSUME TypeInv, StoredInv, UNCHANGED db,
         \A q \in Processes, e \in Requests :
           thread'[q][e] = Idle \/ thread'[q][e] = thread[q][e],
         \A e \in Requests : answer'[e].kind = "unsent" => answer[e].kind = "unsent"
  PROVE  StoredInv' /\ LogStep
  <1>1. ASSUME NEW e \in Requests
        PROVE  /\ \A q \in Processes : StoredLog(thread'[q][e], db'[e].steps)
               /\ answer'[e].kind = "unsent" => db'[e].steps = << >>
               /\ KeepsLog(db[e].steps, db'[e].steps)
    <2>1. \A s : StoredLog(Idle, s)
      BY IdleStored DEF Idle
    <2>2. db[e].steps \in Seq(Steps)
      BY DEF TypeInv, TypeOK, Docs
    <2>3. QED
      BY <2>1, <2>2, ExtendsItself DEF StoredInv
  <1>2. StoredInv'
    BY <1>1, Zenon DEF StoredInv, StoredLog, AllOk, Extends
  <1>3. QED
    BY <1>1, <1>2 DEF LogStep

LEMMA ProcessStored ==
  ASSUME TypeInv, StoredInv, ~RecoverOnStart, NEW p \in Processes, Crash(p) \/ Start(p)
  PROVE  StoredInv' /\ LogStep
  <1>1. UNCHANGED db
    BY DEF Crash, Start
  <1>2. CASE Crash(p)
    <2>1. \A q \in Processes, e \in Requests :
            thread'[q][e] = Idle \/ thread'[q][e] = thread[q][e]
      BY <1>2 DEF Crash, TypeInv, TypeOK
    <2>2. \A e \in Requests : answer'[e].kind = "unsent" => answer[e].kind = "unsent"
      BY <1>2 DEF Crash, Reply
    <2>3. QED
      BY <1>1, <2>1, <2>2, SilentStored
  <1>3. CASE Start(p)
    <2>1. UNCHANGED <<thread, answer>>
      BY <1>3 DEF Start
    <2>2. QED
      BY <1>1, <2>1, SilentStored
  <1>4. QED
    BY <1>2, <1>3

LEMMA StoredNext ==
  ASSUME ~RecoverOnStart, TypeInv, SingleWriter, LogInv, StoredInv, [Next]_vars
  PROVE  StoredInv' /\ LogStep
  <1>1. ASSUME NEW p \in Processes, NEW e \in Requests,
               Arrive(p, e) \/ RequestStep(p, e) \/ WorkerStep(p, e) \/ Expire(p, e)
        PROVE  StoredInv' /\ LogStep
    <2>1. CASE WorkerStep(p, e)
      BY <2>1, WalkStored, WriteStored DEF WorkerStep
    <2>2. QED
      BY <1>1, <2>1, ArriveStored, HandlerSteps, WalkStored
  <1>2. CASE UNCHANGED vars
    BY <1>2, SilentStored DEF vars
  <1>3. QED
    BY <1>1, <1>2, ProcessStored DEF Next

LEMMA StoredInit == Init => StoredInv
  BY IdleStored DEF Init, NoDoc, Idle, StoredInv

\* Without recovery the stored steps of an execution are a log, although every
\* write replaces the whole array: a write keeps the steps stored before it,
\* and after a failed step nothing is added (execute_workflow.go:524-594,
\* repository.go:117-126).
THEOREM StepsAreLogged == ASSUME ~RecoverOnStart PROVE Spec => StepsAreALog
  <1>1. Init => LogInv /\ StoredInv
    BY LogInit, StoredInit
  <1>2. TypeInv /\ SingleWriter /\ LogInv /\ StoredInv /\ [Next]_vars
          => LogInv' /\ StoredInv'
    BY LogNext, StoredNext
  <1>3. TypeInv /\ SingleWriter /\ LogInv /\ StoredInv /\ [Next]_vars => LogStep
    BY StoredNext
  <1>4. LogStep =>
          [\A e \in Requests :
             /\ Extends(db[e].steps, db'[e].steps)
             /\ \A i \in DOMAIN db[e].steps :
                  ~db[e].steps[i].ok => db'[e].steps = db[e].steps]_db
    BY DEF LogStep, KeepsLog
  <1>5. QED
    BY <1>1, <1>2, <1>3, <1>4, OneWriter, TypeCorrect, PTL DEF Spec, StepsAreALog
-----------------------------------------------------------------------------
(* One process, with or without recovery                                   *)

\* The status that is stored while the thread is at a stage: a goroutine that
\* recovery launched may walk with a pending entity, and may give it up.
StageAllows(t, stored) ==
  /\ t.pc \in {"fastPath", "load", "create", "duplicate"} => stored = "absent"
  /\ t.pc \in {"create", "duplicate"} => t.status = "pending"
  /\ t.pc = "markRunning" => stored = "pending" /\ t.status = "running"
  /\ t.pc = "startFailed" => stored \in {"pending", "running"} /\ t.status = "failed"
  /\ t.pc \in WorkerStages =>
       stored \in {"pending", "running"} /\ t.status \in {stored, "failed"}
  /\ t.pc \in WorkerStages \ {"failing"} => t.status = stored

StageInv ==
  \A e \in Requests :
    /\ \A p \in Processes : StageAllows(thread[p][e], db[e].status)
    /\ answer[e].kind = "unsent" =>
         db[e].status = "absent" /\ \A p \in Processes : thread[p][e].pc = "none"

OneProcess == \A p, q \in Processes : p = q

MoveStep == StageInv' /\ [Abstract!Next]_StoredStatus

LEMMA IdleAllowed == \A t, s : t.pc = "none" => StageAllows(t, s)
  BY DEF StageAllows, WorkerStages

\* A step of thread <<p, e>>, which moves the status along a legal move.
LEMMA MoveFrame ==
  ASSUME OneProcess, TypeInv, TypeInv', StageInv,
         NEW p \in Processes, NEW e \in Requests, NEW t \in Threads, Set(p, e, t),
         StageAllows(t, db'[e].status),
         db'[e].status = db[e].status \/ <<db[e].status, db'[e].status>> \in LegalMoves,
         \A f \in Requests : f # e => db'[f] = db[f],
         \A f \in Requests : answer'[f].kind = "unsent" => answer[f].kind = "unsent",
         answer'[e].kind # "unsent"
  PROVE  MoveStep
  <1>1. /\ thread'[p][e] = t
        /\ \A q \in Processes, f \in Requests :
             <<q, f>> # <<p, e>> => thread'[q][f] = thread[q][f]
    BY SetType DEF TypeInv
  <1>2. ASSUME NEW f \in Requests
        PROVE  /\ \A q \in Processes : StageAllows(thread'[q][f], db'[f].status)
               /\ answer'[f].kind = "unsent" =>
                    db'[f].status = "absent" /\ \A q \in Processes : thread'[q][f].pc = "none"
    <2>1. CASE f = e
      BY <1>1, <2>1 DEF OneProcess
    <2>2. CASE f # e
      <3>1. \A q \in Processes : thread'[q][f] = thread[q][f]
        BY <1>1, <2>2
      <3>2. QED
        BY <2>2, <3>1 DEF StageInv
    <2>3. QED
      BY <2>1, <2>2
  <1>3. StageInv'
    BY <1>2, Zenon DEF StageInv, StageAllows
  <1>4. QED
    BY <1>3, LegalMoveImplements DEF MoveStep

LEMMA ArriveMoves ==
  ASSUME OneProcess, TypeInv, TypeInv', StageInv, NEW p \in Processes,
         NEW r \in Requests, Arrive(p, r)
  PROVE  MoveStep
  <1> DEFINE t == Goto(Idle, IF KeyOf[r] = NoKey THEN "load" ELSE "fastPath")
  <1>1. t \in Threads /\ t.pc \in {"load", "fastPath"}
    BY IdleType, GotoType DEF Stages, RequestStages
  <1>2. answer[r].kind = "unsent" /\ db' = db /\ Set(p, r, t)
    BY DEF Arrive
  <1>3. answer'[r].kind = "waiting" /\ \A f \in Requests : f # r => answer'[f] = answer[f]
    BY DEF Arrive, Respond, Reply, TypeInv, TypeOK
  <1> HIDE DEF t
  <1>4. StageAllows(t, db'[r].status)
    BY <1>1, <1>2 DEF StageInv, StageAllows, WorkerStages
  <1>5. QED
    BY <1>1, <1>2, <1>3, <1>4, MoveFrame

\* A thread that is somewhere belongs to a request that arrived.
LEMMA LiveThread ==
  ASSUME TypeInv, StageInv, NEW p \in Processes, NEW e \in Requests,
         thread[p][e].pc # "none"
  PROVE  /\ thread[p][e] \in Threads
         /\ StageAllows(thread[p][e], db[e].status)
         /\ answer[e].kind # "unsent"
         /\ DocOf(thread[p][e]) \in Docs
         /\ DocOf(thread[p][e]).status = thread[p][e].status
  BY DocOfType DEF TypeInv, TypeOK, StageInv

LEMMA HandlerMoves ==
  ASSUME OneProcess, TypeInv, TypeInv', StageInv, NEW p \in Processes,
         NEW r \in Requests, RequestStep(p, r)
  PROVE  MoveStep
  <1> DEFINE t == thread[p][r]
             s == db[r].status
  <1>1. t.pc \in RequestStages /\ t.pc # "none"
    BY DEF RequestStep, FastPath, Load, Create, ResolveDuplicate, MarkRunning,
           StartFailed, RequestStages
  <1>2. /\ t \in Threads /\ answer[r].kind # "unsent" /\ StageAllows(t, s)
        /\ DocOf(t) \in Docs /\ DocOf(t).status = t.status
    BY <1>1, LiveThread
  <1>3. ASSUME NEW u \in Threads, Set(p, r, u), StageAllows(u, db'[r].status),
               \/ UNCHANGED answer
               \/ \E kind \in {"existing", "error", "created"} :
                    \E e, v : Respond(r, kind, e, v),
               db'[r].status = s \/ <<s, db'[r].status>> \in LegalMoves,
               \A f \in Requests : f # r => db'[f] = db[f]
        PROVE  MoveStep
    <2>1. \A f \in Requests : f # r => answer'[f] = answer[f]
      BY <1>3 DEF Respond, TypeInv, TypeOK
    <2>2. answer'[r].kind # "unsent"
      BY <1>2, <1>3 DEF Respond, Reply, TypeInv, TypeOK
    <2>3. QED
      BY <1>2, <1>3, <2>1, <2>2, MoveFrame
  <1>4. ASSUME NEW pc \in RequestStages
        PROVE  /\ Goto(t, pc) \in Threads /\ Goto(t, pc).pc = pc
               /\ Goto(t, pc).status = t.status
    BY <1>2, GotoType DEF Stages
  <1>5. \A v : StageAllows(Idle, v)
    BY IdleAllowed DEF Idle
  <1>6. CASE FastPath(p, r)
    <2>1. UNCHANGED db /\ t.pc = "fastPath" /\ s = "absent"
      BY <1>2, <1>6 DEF FastPath, StageAllows
    <2>2. CASE Set(p, r, Goto(t, "load")) /\ UNCHANGED answer
      <3>1. Goto(t, "load") \in Threads /\ Goto(t, "load").pc = "load"
        BY <1>4 DEF RequestStages
      <3>2. StageAllows(Goto(t, "load"), s)
        BY <2>1, <3>1 DEF StageAllows, WorkerStages
      <3>3. QED
        BY <1>3, <2>1, <2>2, <3>1, <3>2
    <2>3. CASE /\ \E e \in WithKeyOf(r) : Respond(r, "existing", e, db[e].status)
               /\ Set(p, r, Idle)
      BY <1>3, <1>5, <2>1, <2>3, IdleType
    <2>4. CASE Refuse(r) /\ Set(p, r, Idle)
      BY <1>3, <1>5, <2>1, <2>4, IdleType DEF Refuse
    <2>5. QED
      BY <1>6, <2>2, <2>3, <2>4 DEF FastPath, End
  <1>7. CASE Load(p, r)
    <2>1. UNCHANGED db /\ t.pc = "load" /\ s = "absent"
      BY <1>2, <1>7 DEF Load, StageAllows
    <2>2. ASSUME NEW plan \in Plans, Set(p, r, NewWorkflowExecution(t, plan)),
                 UNCHANGED answer
          PROVE  MoveStep
      <3> DEFINE u == NewWorkflowExecution(t, plan)
      <3>1. u \in Threads /\ u.pc = "create" /\ u.status = "pending"
        BY <1>2, ConstantsAssumption, NewWorkflowExecutionType
      <3> HIDE DEF u
      <3>2. StageAllows(u, s) /\ Set(p, r, u)
        <4>1. StageAllows(u, s)
          BY <2>1, <3>1 DEF StageAllows, WorkerStages
        <4>2. QED
          BY <2>2, <4>1 DEF u
      <3>3. QED
        BY <1>3, <2>1, <2>2, <3>1, <3>2
    <2>3. CASE Refuse(r) /\ Set(p, r, Idle)
      BY <1>3, <1>5, <2>1, <2>3, IdleType DEF Refuse
    <2>4. QED
      BY <1>7, <2>2, <2>3 DEF Load, End
  <1>8. CASE Create(p, r)
    <2>1. t.pc = "create" /\ s = "absent" /\ t.status = "pending"
      BY <1>2, <1>8 DEF Create, StageAllows
    <2>2. /\ db' = db \/ db'[r] = DocOf(t)
          /\ \A f \in Requests : f # r => db'[f] = db[f]
      <3>1. UNCHANGED db \/ Store(r, DocOf(t))
        BY <1>8 DEF Create
      <3>2. QED
        BY <1>2, <3>1, StoreType DEF TypeInv
    <2>3. db'[r].status = s \/ <<s, db'[r].status>> \in LegalMoves
      BY <1>2, <2>1, <2>2 DEF LegalMoves
    <2>4. CASE /\ Set(p, r, [Goto(t, "markRunning") EXCEPT !.status = "running"])
               /\ Store(r, DocOf(t)) /\ UNCHANGED answer
      <3> DEFINE u == [Goto(t, "markRunning") EXCEPT !.status = "running"]
      <3>1. u \in Threads /\ u.pc = "markRunning" /\ u.status = "running"
        BY <1>2 DEF Goto, Threads, RequestStages, Statuses
      <3> HIDE DEF u
      <3>2. db'[r].status = "pending"
        BY <1>2, <2>1, <2>4, StoreType DEF TypeInv
      <3>3. StageAllows(u, db'[r].status)
        BY <3>1, <3>2 DEF StageAllows, WorkerStages
      <3>4. Set(p, r, u)
        BY <2>4 DEF u
      <3>5. QED
        BY <1>3, <2>2, <2>3, <2>4, <3>1, <3>3, <3>4
    <2>5. CASE Set(p, r, Goto(t, "duplicate")) /\ UNCHANGED <<answer, db>>
      <3>1. /\ Goto(t, "duplicate") \in Threads /\ Goto(t, "duplicate").pc = "duplicate"
            /\ Goto(t, "duplicate").status = "pending"
        BY <1>4, <2>1 DEF RequestStages
      <3>2. StageAllows(Goto(t, "duplicate"), s)
        BY <2>1, <3>1 DEF StageAllows, WorkerStages
      <3>3. QED
        BY <1>3, <2>5, <3>1, <3>2
    <2>6. CASE Refuse(r) /\ Set(p, r, Idle)
      BY <1>3, <1>5, <2>2, <2>3, <2>6, IdleType DEF Refuse
    <2>7. QED
      BY <1>8, <2>4, <2>5, <2>6 DEF Create, End
  <1>9. CASE ResolveDuplicate(p, r)
    <2>1. UNCHANGED db /\ Set(p, r, Idle)
      BY <1>9 DEF ResolveDuplicate, End
    <2>2. \E kind \in {"existing", "error", "created"} : \E e, v : Respond(r, kind, e, v)
      BY <1>9 DEF ResolveDuplicate, Refuse
    <2>3. QED
      BY <1>3, <1>5, <2>1, <2>2, IdleType
  <1>10. CASE MarkRunning(p, r)
    <2>1. t.pc = "markRunning" /\ s = "pending" /\ t.status = "running"
      BY <1>2, <1>10 DEF MarkRunning, StageAllows
    <2>2. PICK reply \in {"ok", "conflict", "error"} :
            /\ Update(r, DocOf(t), {"pending"}, FALSE, reply)
            /\ \/ /\ reply = "ok"
                  /\ Respond(r, "created", r, "running") /\ Set(p, r, Goto(t, "visit"))
               \/ Refuse(r) /\ End(p, r)
               \/ Set(p, r, Goto(MarkFailed(t), "startFailed")) /\ UNCHANGED answer
      BY <1>10 DEF MarkRunning
    <2>3. /\ db' = db \/ db'[r] = DocOf(t)
          /\ \A f \in Requests : f # r => db'[f] = db[f]
          /\ reply = "ok" => db'[r] = DocOf(t)
      <3>1. TypeOK /\ Update(r, DocOf(t), {"pending"}, FALSE, reply)
        BY <2>2 DEF TypeInv
      <3>2. DocOf(t) \in Docs
        BY <1>2
      <3>3. /\ db' = db \/ (db[r].status \in {"pending"} /\ db'[r] = DocOf(t))
            /\ \A f \in Requests : f # r => db'[f] = db[f]
            /\ reply = "ok" => db[r].status \in {"pending"} /\ db'[r] = DocOf(t)
        BY <3>1, <3>2, UpdateType, Zenon
      <3>4. QED
        BY <3>3
    <2>4. /\ db'[r].status = s \/ <<s, db'[r].status>> \in LegalMoves
          /\ db'[r].status \in {"pending", "running"}
      BY <1>2, <2>1, <2>3 DEF LegalMoves
    <2>5. CASE /\ reply = "ok"
               /\ Respond(r, "created", r, "running") /\ Set(p, r, Goto(t, "visit"))
      <3>1. /\ Goto(t, "visit") \in Threads /\ Goto(t, "visit").pc = "visit"
            /\ Goto(t, "visit").status = "running"
        BY <1>2, <2>1, GotoType DEF Stages, WorkerStages
      <3>2. db'[r].status = "running"
        BY <1>2, <2>1, <2>3, <2>5
      <3>3. StageAllows(Goto(t, "visit"), db'[r].status)
        BY <3>1, <3>2 DEF StageAllows, WorkerStages
      <3>4. QED
        BY <1>3, <2>3, <2>4, <2>5, <3>1, <3>3
    <2>6. CASE Refuse(r) /\ End(p, r)
      BY <1>3, <1>5, <2>3, <2>4, <2>6, IdleType DEF Refuse, End
    <2>7. CASE Set(p, r, Goto(MarkFailed(t), "startFailed")) /\ UNCHANGED answer
      <3>1. PICK u \in Threads : /\ u = Goto(MarkFailed(t), "startFailed")
                                 /\ u.pc = "startFailed" /\ u.status = "failed"
        BY <1>2, <2>1, MarkFailedType, GotoType DEF Stages, RequestStages, Terminal
      <3>2. StageAllows(u, db'[r].status)
        BY <2>4, <3>1 DEF StageAllows, WorkerStages
      <3>3. QED
        BY <1>3, <2>3, <2>4, <2>7, <3>1, <3>2
    <2>8. QED
      BY <2>2, <2>5, <2>6, <2>7
  <1>11. CASE StartFailed(p, r)
    <2>1. PersistBestEffort(r, t) /\ Refuse(r) /\ Set(p, r, Idle)
      BY <1>11 DEF StartFailed, End
    <2>2. s \in {"pending", "running"} /\ t.status = "failed"
      BY <1>2, <1>11 DEF StartFailed, StageAllows
    <2>3. /\ db' = db \/ db'[r] = DocOf(t)
          /\ \A f \in Requests : f # r => db'[f] = db[f]
      BY <1>2, <2>1, PersistType DEF TypeInv
    <2>4. db'[r].status = s \/ <<s, db'[r].status>> \in LegalMoves
      BY <1>2, <2>2, <2>3 DEF LegalMoves
    <2>5. QED
      BY <1>3, <1>5, <2>1, <2>3, <2>4, IdleType DEF Refuse
  <1>12. QED
    BY <1>6, <1>7, <1>8, <1>9, <1>10, <1>11 DEF RequestStep

\* A step of the goroutine that writes nothing and is not its last one.
LEMMA WalkMoves ==
  ASSUME OneProcess, TypeInv, TypeInv', StageInv, NEW p \in Processes,
         NEW e \in Requests,
         \/ TraversalEnds(p, e) \/ TraversalFails(p, e) \/ ExecuteActionNode(p, e)
         \/ EvaluateConditionalNode(p, e) \/ ExecuteExecutorNode(p, e)
         \/ Call(p, e) \/ Expire(p, e)
  PROVE  MoveStep
  <1> DEFINE t == thread[p][e]
             s == db[e].status
  <1>1. t.pc \in WorkerStages /\ UNCHANGED <<db, answer>>
    BY DEF TraversalEnds, TraversalFails, ExecuteActionNode, EvaluateConditionalNode,
           ExecuteExecutorNode, Call, Expire, Enters, WorkerStages
  <1>2. /\ t \in Threads /\ answer[e].kind # "unsent" /\ StageAllows(t, s)
        /\ s \in {"pending", "running"}
        /\ t.pc = "call" => t.pos <= Len(t.plan)
    <2>1. t.pc # "none"
      BY <1>1 DEF WorkerStages
    <2>2. t \in Threads /\ answer[e].kind # "unsent" /\ StageAllows(t, s)
      BY <2>1, LiveThread
    <2>3. QED
      BY <1>1, <2>2 DEF StageAllows, TypeInv, Coherent
  <1>3. ASSUME NEW u \in Threads, Set(p, e, u), StageAllows(u, s) PROVE MoveStep
    BY <1>1, <1>2, <1>3, MoveFrame
  <1>4. ASSUME NEW u \in Threads, u.pc \in WorkerStages, u.status = t.status,
               t.pc # "failing", Set(p, e, u)
        PROVE  MoveStep
    <2>1. u.status = s
      BY <1>1, <1>2, <1>4 DEF StageAllows
    <2>2. StageAllows(u, s)
      BY <1>2, <1>4, <2>1 DEF StageAllows, WorkerStages
    <2>3. QED
      BY <1>3, <1>4, <2>2
  <1>5. ASSUME NEW u \in Threads, u.status = t.status, NEW pc \in WorkerStages,
               t.pc # "failing", Set(p, e, Goto(u, pc))
        PROVE  MoveStep
    <2>1. /\ Goto(u, pc) \in Threads /\ Goto(u, pc).pc = pc
          /\ Goto(u, pc).status = t.status
      BY <1>5, GotoType DEF Stages
    <2>2. QED
      BY <1>4, <1>5, <2>1
  <1>6. ASSUME NEW ok \in BOOLEAN, t.pos <= Len(t.plan)
        PROVE  /\ AddStep(t, ok) \in Threads /\ AddStep(t, ok).pc = t.pc
               /\ AddStep(t, ok).status = t.status
    BY <1>2, <1>6, AddStepType
  <1>7. ASSUME NEW ok \in BOOLEAN, t.pos <= Len(t.plan), NEW pc \in WorkerStages,
               t.pc # "failing", Set(p, e, Goto(AddStep(t, ok), pc))
        PROVE  MoveStep
    <2>1. PICK a \in Threads : a = AddStep(t, ok) /\ a.status = t.status
      BY <1>6, <1>7
    <2>2. Set(p, e, Goto(a, pc))
      BY <1>7, <2>1
    <2>3. QED
      BY <1>5, <1>7, <2>1, <2>2
  <1>8. CASE TraversalEnds(p, e)
    <2>1. t.pc = "visit" /\ Set(p, e, Goto(t, "finishing"))
      BY <1>8 DEF TraversalEnds
    <2>2. QED
      BY <1>2, <1>5, <2>1 DEF WorkerStages
  <1>9. CASE TraversalFails(p, e)
    <2>1. t.pc = "visit" /\ Set(p, e, Goto(t, "failing"))
      BY <1>9 DEF TraversalFails, Enters
    <2>2. QED
      BY <1>2, <1>5, <2>1 DEF WorkerStages
  <1>10. CASE ExecuteActionNode(p, e)
    <2>1. /\ t.pc = "visit" /\ t.pos <= Len(t.plan)
          /\ Set(p, e, [AddStep(t, TRUE) EXCEPT !.pos = @ + 1])
      BY <1>10 DEF ExecuteActionNode, Enters
    <2>2. PICK a \in Threads : /\ a = AddStep(t, TRUE) /\ a.pc = "visit"
                               /\ a.status = t.status
      BY <1>6, <2>1
    <2> DEFINE u == [a EXCEPT !.pos = @ + 1]
    <2>3. u \in Threads /\ u.pc = "visit" /\ u.status = t.status
      BY <2>2, AdvanceType
    <2>4. Set(p, e, u)
      BY <2>1, <2>2
    <2> HIDE DEF u
    <2>5. QED
      BY <1>4, <2>1, <2>3, <2>4 DEF WorkerStages
  <1>11. CASE EvaluateConditionalNode(p, e) \/ Call(p, e)
    <2>1. t.pc \in {"visit", "call"} /\ t.pos <= Len(t.plan)
      BY <1>2, <1>11 DEF EvaluateConditionalNode, Call, Enters
    <2>2. PICK ok \in BOOLEAN :
            Set(p, e, Goto(AddStep(t, ok), IF ok THEN "persistStep" ELSE "stepFailed"))
      BY <1>11 DEF EvaluateConditionalNode, Call
    <2>3. (IF ok THEN "persistStep" ELSE "stepFailed") \in WorkerStages
      BY DEF WorkerStages
    <2>4. QED
      BY <1>7, <2>1, <2>2, <2>3
  <1>12. CASE ExecuteExecutorNode(p, e)
    <2>1. /\ t.pc = "visit" /\ t.pos <= Len(t.plan)
          /\ \/ Set(p, e, Goto(t, "call"))
             \/ Set(p, e, Goto(AddStep(t, FALSE), "stepFailed"))
      BY <1>12 DEF ExecuteExecutorNode, Enters
    <2>2. QED
      BY <1>2, <1>5, <1>7, <2>1 DEF WorkerStages
  <1>13. CASE Expire(p, e)
    <2> DEFINE u == [t EXCEPT !.expired = TRUE]
    <2>1. u \in Threads /\ u.pc = t.pc /\ u.status = t.status
      BY <1>2 DEF Threads
    <2>2. Set(p, e, u)
      BY <1>13 DEF Expire
    <2> HIDE DEF u
    <2>3. StageAllows(u, s)
      BY <1>2, <2>1 DEF StageAllows
    <2>4. QED
      BY <1>3, <2>1, <2>2, <2>3
  <1>14. QED
    BY <1>8, <1>9, <1>10, <1>11, <1>12, <1>13

\* A write of the goroutine leaves the stored status as it is, or moves it to
\* the end that its entity has reached.
LEMMA WriteMoves ==
  ASSUME OneProcess, TypeInv, TypeInv', StageInv, NEW p \in Processes,
         NEW e \in Requests,
         \/ PersistStep(p, e) \/ StepFailed(p, e) \/ Failing(p, e)
         \/ Finishing(p, e) \/ Abandon(p, e)
  PROVE  MoveStep
  <1> DEFINE t == thread[p][e]
             s == db[e].status
  <1>1. t.pc \in WorkerStages /\ UNCHANGED answer
    BY DEF PersistStep, StepFailed, Failing, Finishing, Abandon, WorkerStages
  <1>2. /\ t \in Threads /\ answer[e].kind # "unsent"
        /\ DocOf(t) \in Docs /\ DocOf(t).status = t.status
        /\ s \in {"pending", "running"} /\ t.status \in {s, "failed"}
        /\ t.pc # "failing" => t.status = s
    <2>1. t.pc # "none"
      BY <1>1 DEF WorkerStages
    <2>2. QED
      BY <1>1, <2>1, LiveThread DEF StageAllows
  <1>3. ASSUME NEW u \in Threads, Set(p, e, u), StageAllows(u, db'[e].status),
               db'[e].status = s \/ <<s, db'[e].status>> \in LegalMoves,
               \A f \in Requests : f # e => db'[f] = db[f]
        PROVE  MoveStep
    BY <1>1, <1>2, <1>3, MoveFrame
  <1>4. ASSUME NEW u \in Threads, PersistBestEffort(e, u)
        PROVE  /\ db'[e].status \in {s, u.status}
               /\ \A f \in Requests : f # e => db'[f] = db[f]
    BY <1>4, PersistType, DocOfType DEF TypeInv
  <1>5. /\ MarkFailed(t) \in Threads /\ MarkFailed(t).status = "failed"
        /\ MarkCompleted(t) \in Threads
        /\ t.status = "running" => MarkCompleted(t).status = "completed"
        /\ t.status # "running" => MarkCompleted(t).status = t.status
    BY <1>2, MarkFailedType, MarkCompletedType DEF MarkFailed, MarkCompleted, Terminal
  <1>6. \A v : StageAllows(Idle, v)
    BY IdleAllowed DEF Idle
  <1>7. <<s, "failed">> \in LegalMoves
    BY <1>2 DEF LegalMoves
  <1>8. CASE PersistStep(p, e)
    <2> DEFINE next == [Goto(t, "visit") EXCEPT !.pos = @ + 1]
    <2>1. PICK reply \in {"ok", "conflict", "error"} :
            /\ Update(e, DocOf(t), {"running"}, t.expired, reply)
            /\ Set(p, e, next) \/ Set(p, e, Idle) \/ Set(p, e, Goto(t, "failing"))
      BY <1>8 DEF PersistStep, End
    <2>2. t.pc = "persistStep" /\ t.status = s
      BY <1>2, <1>8 DEF PersistStep
    <2>3. /\ db' = db \/ db'[e] = DocOf(t)
          /\ \A f \in Requests : f # e => db'[f] = db[f]
      BY <1>2, <2>1, UpdateType DEF TypeInv
    <2>4. db'[e].status = s
      BY <1>2, <2>2, <2>3
    <2>5. next \in Threads /\ next.pc = "visit" /\ next.status = s
      <3>1. /\ Goto(t, "visit") \in Threads /\ Goto(t, "visit").pc = "visit"
            /\ Goto(t, "visit").status = s
        BY <1>2, <2>2, GotoType DEF Stages, WorkerStages
      <3>2. QED
        BY <3>1, AdvanceType
    <2>6. /\ Goto(t, "failing") \in Threads /\ Goto(t, "failing").pc = "failing"
          /\ Goto(t, "failing").status = s
      BY <1>2, <2>2, GotoType DEF Stages, WorkerStages
    <2> HIDE DEF next
    <2>7. StageAllows(next, s) /\ StageAllows(Goto(t, "failing"), s)
      BY <1>2, <2>5, <2>6 DEF StageAllows, WorkerStages
    <2>8. PICK u \in Threads : Set(p, e, u) /\ StageAllows(u, s)
      BY <1>6, <2>1, <2>5, <2>6, <2>7, IdleType
    <2>9. QED
      BY <1>3, <2>3, <2>4, <2>8
  <1>9. CASE StepFailed(p, e)
    <2>1. /\ t.pc = "stepFailed" /\ PersistBestEffort(e, t)
          /\ Set(p, e, Goto(MarkFailed(t), "failing"))
      BY <1>9 DEF StepFailed
    <2>2. db'[e].status = s /\ \A f \in Requests : f # e => db'[f] = db[f]
      BY <1>2, <1>4, <2>1
    <2>3. PICK u \in Threads : /\ u = Goto(MarkFailed(t), "failing")
                               /\ u.pc = "failing" /\ u.status = "failed"
      BY <1>5, GotoType DEF Stages, WorkerStages
    <2>4. StageAllows(u, s)
      BY <1>2, <2>3 DEF StageAllows, WorkerStages
    <2>5. QED
      BY <1>3, <2>1, <2>2, <2>3, <2>4
  <1>10. CASE Failing(p, e) \/ Abandon(p, e)
    <2>1. PersistBestEffort(e, MarkFailed(t)) /\ Set(p, e, Idle)
      BY <1>10 DEF Failing, Abandon, End
    <2>2. /\ db'[e].status \in {s, "failed"}
          /\ \A f \in Requests : f # e => db'[f] = db[f]
      BY <1>4, <1>5, <2>1
    <2>3. QED
      BY <1>3, <1>6, <1>7, <2>1, <2>2, IdleType
  <1>11. CASE Finishing(p, e)
    <2>1. /\ t.pc = "finishing" /\ PersistBestEffort(e, MarkCompleted(t))
          /\ Set(p, e, Idle)
      BY <1>11 DEF Finishing, End
    <2>2. /\ db'[e].status \in {s, MarkCompleted(t).status}
          /\ \A f \in Requests : f # e => db'[f] = db[f]
      BY <1>4, <1>5, <2>1
    <2>3. t.status = s
      BY <1>2, <2>1
    <2>4. db'[e].status = s \/ <<s, db'[e].status>> \in LegalMoves
      BY <1>5, <2>2, <2>3 DEF LegalMoves
    <2>5. QED
      BY <1>3, <1>6, <2>1, <2>2, <2>4, IdleType
  <1>12. QED
    BY <1>8, <1>9, <1>10, <1>11

\* A step that leaves the documents, after which every thread has ended, is
\* as it was, or resumes an incomplete execution as it is stored.
LEMMA ProcessMoves ==
  ASSUME TypeInv, StageInv, UNCHANGED db,
         \A q \in Processes, e \in Requests :
           \/ thread'[q][e].pc = "none"
           \/ thread'[q][e] = thread[q][e]
           \/ /\ e \in Incomplete
              /\ thread'[q][e].pc \in {"visit", "abandon"}
              /\ thread'[q][e].status = db[e].status,
         \A e \in Requests : answer'[e].kind = "unsent" => answer[e].kind = "unsent"
  PROVE  MoveStep
  <1>1. ASSUME NEW e \in Requests
        PROVE  /\ \A q \in Processes : StageAllows(thread'[q][e], db'[e].status)
               /\ answer'[e].kind = "unsent" =>
                    db'[e].status = "absent" /\ \A q \in Processes : thread'[q][e].pc = "none"
    <2>1. ASSUME NEW q \in Processes
          PROVE  StageAllows(thread'[q][e], db'[e].status)
      <3>1. CASE thread'[q][e].pc = "none"
        BY <3>1, IdleAllowed
      <3>2. CASE thread'[q][e] = thread[q][e]
        BY <3>2 DEF StageInv
      <3>3. CASE /\ e \in Incomplete
                 /\ thread'[q][e].pc \in {"visit", "abandon"}
                 /\ thread'[q][e].status = db[e].status
        BY <3>3 DEF Incomplete, StageAllows, WorkerStages
      <3>4. QED
        BY <3>1, <3>2, <3>3
    <2>2. ASSUME answer'[e].kind = "unsent"
          PROVE  db'[e].status = "absent" /\ \A q \in Processes : thread'[q][e].pc = "none"
      <3>1. db[e].status = "absent" /\ \A q \in Processes : thread[q][e].pc = "none"
        BY <2>2 DEF StageInv
      <3>2. e \notin Incomplete
        BY <3>1 DEF Incomplete
      <3>3. QED
        BY <3>1, <3>2
    <2>3. QED
      BY <2>1, <2>2
  <1>2. StageInv'
    BY <1>1, Zenon DEF StageInv, StageAllows
  <1>3. QED
    BY <1>2 DEF MoveStep, StoredStatus

LEMMA CrashMoves ==
  ASSUME TypeInv, StageInv, NEW p \in Processes, Crash(p) PROVE MoveStep
  <1>1. \A q \in Processes, e \in Requests :
          thread'[q][e].pc = "none" \/ thread'[q][e] = thread[q][e]
    BY DEF Crash, TypeInv, TypeOK, Idle
  <1>2. \A e \in Requests : answer'[e].kind = "unsent" => answer[e].kind = "unsent"
    BY DEF Crash, Reply
  <1>3. UNCHANGED db
    BY DEF Crash
  <1>4. QED
    BY <1>1, <1>2, <1>3, ProcessMoves

LEMMA StartMoves ==
  ASSUME TypeInv, StageInv, NEW p \in Processes, Start(p) PROVE MoveStep
  <1>1. UNCHANGED <<db, answer>>
    BY DEF Start
  <1>2. CASE UNCHANGED thread
    BY <1>1, <1>2, ProcessMoves
  <1>3. CASE RecoverIncompleteExecutions(p)
    <2>1. PICK plan \in [Incomplete -> Plans], pc \in [Incomplete -> {"visit", "abandon"}] :
            thread' = [thread EXCEPT ![p] =
                         [e \in Requests |-> IF e \in Incomplete
                                             THEN Resumed(e, plan[e], pc[e])
                                             ELSE Idle]]
      BY <1>3 DEF RecoverIncompleteExecutions
    <2>2. ASSUME NEW q \in Processes, NEW e \in Requests
          PROVE  \/ thread'[q][e].pc = "none"
                 \/ thread'[q][e] = thread[q][e]
                 \/ /\ e \in Incomplete
                    /\ thread'[q][e].pc \in {"visit", "abandon"}
                    /\ thread'[q][e].status = db[e].status
      <3>1. CASE q # p
        BY <2>1, <3>1 DEF TypeInv, TypeOK
      <3>2. CASE q = p /\ e \notin Incomplete
        BY <2>1, <3>2 DEF TypeInv, TypeOK, Idle
      <3>3. CASE q = p /\ e \in Incomplete
        <4>1. thread'[q][e] = Resumed(e, plan[e], pc[e])
          BY <2>1, <3>3 DEF TypeInv, TypeOK
        <4>2. pc[e] \in {"visit", "abandon"}
          BY <3>3
        <4>3. QED
          BY <3>3, <4>1, <4>2 DEF Resumed
      <3>4. QED
        BY <3>1, <3>2, <3>3
    <2>3. QED
      BY <1>1, <2>2, ProcessMoves
  <1>4. QED
    BY <1>2, <1>3 DEF Start

LEMMA MoveNext ==
  ASSUME OneProcess, TypeInv, TypeInv', StageInv, [Next]_vars PROVE MoveStep
  <1>1. ASSUME NEW p \in Processes, NEW e \in Requests,
               Arrive(p, e) \/ RequestStep(p, e) \/ WorkerStep(p, e) \/ Expire(p, e)
        PROVE  MoveStep
    <2>1. CASE WorkerStep(p, e)
      BY <2>1, WalkMoves, WriteMoves DEF WorkerStep
    <2>2. QED
      BY <1>1, <2>1, ArriveMoves, HandlerMoves, WalkMoves
  <1>2. CASE UNCHANGED vars
    BY <1>2, ProcessMoves DEF vars
  <1>3. QED
    BY <1>1, <1>2, CrashMoves, StartMoves DEF Next

LEMMA MoveInit == Init => StageInv
  BY IdleAllowed DEF Init, NoDoc, Idle, StageInv

\* One process that recovers incomplete executions when it starts implements
\* Lifecycle as well: what recovery resumes has the stored status, and a
\* pending execution is walked without being marked, or given up
\* (execute_workflow.go:1053-1101, execution.go:368-417).
THEOREM OneProcessRefinement == ASSUME OneProcess PROVE Spec => ImplementsLifecycle
  <1>1. TypeInv /\ TypeInv' /\ StageInv /\ [Next]_vars
          => StageInv' /\ [Abstract!Next]_StoredStatus
    BY MoveNext DEF MoveStep
  <1>2. Init => Abstract!Init
    BY WriterInit
  <1>3. QED
    BY <1>1, <1>2, MoveInit, TypeCorrect, PTL DEF Spec, ImplementsLifecycle, Abstract!Spec
=============================================================================
