------------------------------ MODULE Traversal ------------------------------
(***************************************************************************)
(* How the state machine of one execution walks the graph of its workflow: *)
(* runStateMachine and traverseNode                                        *)
(* (internal/services/command/execute_workflow.go), over a definition that *)
(* ValidateWorkflowStructure accepted (pkg/model/workflow.go).             *)
(*                                                                         *)
(* Module Execution takes the order of the visits as given and models what *)
(* is stored, and when; here is where that order comes from.  One          *)
(* goroutine walks, so a call of traverseNode up to its first nested call  *)
(* is one step.                                                            *)
(***************************************************************************)
EXTENDS Naturals, Sequences, FiniteSets

CONSTANTS
  Ids,          \* ids of nodes
  Definitions   \* the definitions that clients write

Types == {"trigger", "executor", "conditional", "action"}

Nodes == [id : Ids, type : Types]

\* condition: what the condition of the edge says, if anyone evaluates it.
Edges == [source : Ids, target : Ids, handle : {"none", "true", "false"},
          condition : BOOLEAN]

ASSUME ConstantsAssumption ==
  Definitions \subseteq [nodes : Seq(Nodes), edges : Seq(Edges)]

VARIABLES
  def,      \* the nodes and edges of the workflow
  called,   \* the trigger node whose webhook was called (not in the code)
  stack,    \* the calls of traverseNode that have not returned, outermost first
  done,     \* nodes of which a call returned no error (not in the code)
  steps,    \* the steps of the execution
  context,  \* the nodes whose output the workflow context holds
  status,   \* the state of the walk
  error     \* why it failed

vars == <<def, called, stack, done, steps, context, status, error>>

-----------------------------------------------------------------------------
(* Definitions of workflows *)

NodeIds(d) == {d.nodes[i].id : i \in DOMAIN d.nodes}

Triggers(d) == {i \in DOMAIN d.nodes : d.nodes[i].type = "trigger"}

\* Mutant: the references of the edges are not validated.
NoReferences(d) == Triggers(d) # {}

\* ValidateWorkflowStructure, without the limits of sizes.
ValidateWorkflowStructure(d) ==
  /\ Triggers(d) # {}
  /\ \A i \in DOMAIN d.edges :
       d.edges[i].source \in NodeIds(d) /\ d.edges[i].target \in NodeIds(d)

\* findTriggerNode: n is the id of the first trigger.
IsRoot(d, n) ==
  \E i \in Triggers(d) : n = d.nodes[i].id /\ \A j \in Triggers(d) : i <= j

\* buildNodeMap: ids may repeat, and the last node with an id is the one found.
TypeOf(d, n) ==
  LET i == CHOOSE i \in DOMAIN d.nodes :
             d.nodes[i].id = n /\ \A j \in DOMAIN d.nodes : d.nodes[j].id = n => j <= i
  IN d.nodes[i].type

\* countExecutableNodes
TotalSteps(d) == Cardinality({i \in DOMAIN d.nodes : d.nodes[i].type # "trigger"})

-----------------------------------------------------------------------------
(* Data *)

\* A call of traverseNode: the edges it has yet to follow, by their place in
\* the definition, and the one whose target it is visiting (0: none yet).
Frames == [node : Ids, todo : SUBSET (Nat \ {0}), edge : Nat]

Steps == [node : Ids, ok : BOOLEAN]

TypeOK ==
  /\ def \in [nodes : Seq(Nodes), edges : Seq(Edges)]
  /\ called \in Ids
  /\ stack \in Seq(Frames)
  /\ done \subseteq Ids
  /\ steps \in Seq(Steps)
  /\ context \subseteq Ids
  /\ status \in {"running", "completed", "failed", "aborted"}
  /\ error \in {"none", "cycle", "missing", "timeout", "node"}

\* Mutant: only a node's own caller is looked at.
InPathParent == IF stack = << >> THEN {} ELSE {stack[Len(stack)].node}

\* inPath
InPath == {stack[i].node : i \in DOMAIN stack}

\* Mutant: the first edge only.
FirstEdge(n) == {i \in DOMAIN def.edges : def.edges[i].source = n
                   /\ \A j \in DOMAIN def.edges : def.edges[j].source = n => i <= j}

\* buildGraph: the edges that leave node n.
OutEdges(n) == {i \in DOMAIN def.edges : def.edges[i].source = n}

\* The first edge with the handle of the result, if there is one.
Branch(n, result) ==
  LET handle == IF result THEN "true" ELSE "false"
      matching == {i \in OutEdges(n) : def.edges[i].handle = handle} IN
  {i \in matching : \A j \in matching : i <= j}

-----------------------------------------------------------------------------
(* Arriving at a node *)

\* traverseNode is called for node n: the root, or the target of edge i, the
\* next one of the innermost call.
Arrives(n, i) ==
  /\ status = "running"
  /\ \/ stack = << >> /\ i = 0 /\ IsRoot(def, n)
     \/ /\ stack # << >>
        /\ i \in stack[Len(stack)].todo
        /\ \A j \in stack[Len(stack)].todo : i <= j
        /\ n = def.edges[i].target

Callers(i) == IF stack = << >> THEN stack ELSE [stack EXCEPT ![Len(stack)].edge = i]

\* The call made for edge i goes on with the edges todo of node n.
Follow(n, i, todo) ==
  stack' = Append(Callers(i), [node |-> n, todo |-> todo, edge |-> 0])

AddStep(n, ok) == steps' = Append(steps, [node |-> n, ok |-> ok])

\* An error goes up through all calls to runStateMachine.
Stop(s, e) ==
  /\ status' = s
  /\ error' = e
  /\ UNCHANGED <<def, called, stack, done>>

\* The node is on the path already, or there is none with this id.
Refuse(n, i) ==
  /\ Arrives(n, i)
  /\ n \in InPath \/ n \notin NodeIds(def)
  /\ Stop("failed", IF n \in InPath THEN "cycle" ELSE "missing")
  /\ UNCHANGED <<steps, context>>

\* The five minutes are over.
Expire(n, i) ==
  /\ Arrives(n, i)
  /\ Stop("failed", "timeout")
  /\ UNCHANGED <<steps, context>>

Enters(n, i) == Arrives(n, i) /\ n \notin InPath /\ n \in NodeIds(def)

EnterTrigger(n, i) ==
  /\ Enters(n, i)
  /\ TypeOf(def, n) = "trigger"
  /\ Follow(n, i, OutEdges(n))
  /\ UNCHANGED <<def, called, done, steps, context, status, error>>

\* executeActionNode
EnterAction(n, i) ==
  /\ Enters(n, i)
  /\ TypeOf(def, n) = "action"
  /\ AddStep(n, TRUE)
  /\ Follow(n, i, OutEdges(n))
  /\ UNCHANGED <<def, called, done, context, status, error>>

\* Mutant: an output is kept only if it is the first.
KeepFirst(n) == IF context = {} THEN {n} ELSE context

\* wfCtx[node.ID()] = outputData
Keep(n) == context \cup {n}

\* executeExecutorNode: the call succeeded and the step is stored.
EnterExecutor(n, i) ==
  /\ Enters(n, i)
  /\ TypeOf(def, n) = "executor"
  /\ AddStep(n, TRUE)
  /\ context' = Keep(n)
  /\ Follow(n, i, OutEdges(n))
  /\ UNCHANGED <<def, called, done, status, error>>

\* evaluateConditionalNode: the condition has a result and the step is stored.
EnterConditional(n, i, result) ==
  /\ Enters(n, i)
  /\ TypeOf(def, n) = "conditional"
  /\ AddStep(n, TRUE)
  /\ Follow(n, i, Branch(n, result))
  /\ UNCHANGED <<def, called, done, context, status, error>>

\* The call, a transformation or the condition fails, and so does the step; or
\* the step cannot be stored: the database fails, or another worker owns the
\* execution.
NodeFails(n, i, ok, s) ==
  /\ Enters(n, i)
  /\ TypeOf(def, n) \in {"executor", "conditional"}
  /\ s = "aborted" => ok
  /\ AddStep(n, ok)
  /\ context' = IF ok /\ TypeOf(def, n) = "executor" THEN Keep(n) ELSE context
  /\ Stop(s, "node")

-----------------------------------------------------------------------------
(* Returning from a node *)

\* Mutant: the loop over the edges does not advance.
SameAgain(f) == f.todo

\* The edges after the one that was followed.
Rest(f) == f.todo \ {f.edge}

\* All edges were followed.  The caller goes on with its next edge; without a
\* caller the execution is completed.
Return ==
  LET depth == Len(stack)
      top == stack[depth] IN
  /\ status = "running"
  /\ stack # << >>
  /\ top.todo = {}
  /\ done' = done \cup {top.node}
  /\ \/ /\ depth = 1
        /\ stack' = << >>
        /\ status' = "completed"
     \/ /\ depth > 1
        /\ stack' = [i \in 1..(depth - 1) |->
                       IF i < depth - 1 THEN stack[i]
                       ELSE [stack[i] EXCEPT !.todo = Rest(stack[i])]]
        /\ UNCHANGED status
  /\ UNCHANGED <<def, called, steps, context, error>>

-----------------------------------------------------------------------------

\* A client writes a definition and activates it; its webhook, or the
\* endpoint, starts an execution.
Init ==
  /\ def \in {d \in Definitions : ValidateWorkflowStructure(d)}
  /\ called \in {def.nodes[i].id : i \in Triggers(def)}
  /\ stack = << >>
  /\ done = {}
  /\ steps = << >>
  /\ context = {}
  /\ status = "running"
  /\ error = "none"

Walk ==
  \/ \E n \in Ids, i \in {0} \cup DOMAIN def.edges :
       \/ Refuse(n, i)
       \/ EnterTrigger(n, i) \/ EnterAction(n, i) \/ EnterExecutor(n, i)
       \/ \E result \in BOOLEAN : EnterConditional(n, i, result)
       \/ \E ok \in BOOLEAN, s \in {"failed", "aborted"} : NodeFails(n, i, ok, s)
  \/ Return

Next ==
  \/ Walk
  \/ \E n \in Ids, i \in {0} \cup DOMAIN def.edges : Expire(n, i)

Spec == Init /\ [][Next]_vars

\* A goroutine that can run is run, and the calls it makes have timeouts of
\* their own.
FairSpec == Spec /\ WF_vars(Walk)

-----------------------------------------------------------------------------
(* Properties *)

\* The edges that leave n lead to nodes of S; of a conditional node, those of
\* one result.
LeadsTo(n, S) ==
  IF TypeOf(def, n) = "conditional"
  THEN \E result \in BOOLEAN : \A i \in Branch(n, result) : def.edges[i].target \in S
  ELSE \A i \in DOMAIN def.edges :
         def.edges[i].source = n => def.edges[i].target \in S

\* A completed execution has left out nothing: the root was visited, and with
\* every visited node all that its edges lead to, those that several paths
\* share too (execute_workflow.go:391-400).
CompletedIsClosed ==
  status = "completed" => \A n \in Ids :
    /\ IsRoot(def, n) => n \in done
    /\ n \in done => LeadsTo(n, done)

\* When a node runs, the context holds the output of every executor on the
\* path to it: conditions and mappings can rely on what comes before them
\* (execute_workflow.go:583).
ContextCoversPath ==
  \A i \in DOMAIN stack :
    TypeOf(def, stack[i].node) = "executor" => stack[i].node \in context

\* What activation validates keeps the walk from leaving the graph
\* (workflow.go:160-164, execute_workflow.go:358-361).
NeverMissing == error # "missing"

\* The walk ends, on a graph with cycles too and without the help of the five
\* minutes (execute_workflow.go:350-353).
WalkEnds == <>(status # "running")

\* execution.go:348: "TotalSteps returns the total number of steps."
StepsWithinTotal == Len(steps) <= TotalSteps(def)

\* workflow_node.go:26: "NodeTypeTrigger indicates an entry point of the
\* workflow."
EntryIsEntered == status = "completed" => called \in done

\* workflow_edge.go:97: "Condition returns the optional condition for edge
\* traversal."
ConditionsAreMet ==
  \A i \in DOMAIN stack : stack[i].edge # 0 => def.edges[stack[i].edge].condition

\* What the calls keep: each is on the path once, was made for the edge that its
\* caller is following, and has followed its other edges.
Entered(f) ==
  /\ f.node \in NodeIds(def)
  /\ f.todo \subseteq OutEdges(f.node)
  /\ \/ /\ TypeOf(def, f.node) # "conditional"
        /\ \A i \in OutEdges(f.node) \ f.todo : def.edges[i].target \in done
     \/ /\ TypeOf(def, f.node) = "conditional"
        /\ \E result \in BOOLEAN :
             \A i \in Branch(f.node, result) \ f.todo : def.edges[i].target \in done

StackOK ==
  /\ \A i, j \in DOMAIN stack : stack[i].node = stack[j].node => i = j
  /\ \A i \in DOMAIN stack : Entered(stack[i])
  /\ \A i \in 1..(Len(stack) - 1) :
       /\ stack[i].edge \in stack[i].todo
       /\ def.edges[stack[i].edge].target = stack[i + 1].node
  /\ stack # << >> => IsRoot(def, stack[1].node)

IInv ==
  /\ TypeOK
  /\ ValidateWorkflowStructure(def)
  /\ StackOK
  /\ \A n \in done : LeadsTo(n, done)
  /\ status = "completed" => \A n \in Ids : IsRoot(def, n) => n \in done
  /\ ContextCoversPath
  /\ NeverMissing
=============================================================================
