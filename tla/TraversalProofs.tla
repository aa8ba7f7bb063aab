--------------------------- MODULE TraversalProofs ---------------------------
(***************************************************************************)
(* Proofs about Traversal, for every definition of a workflow: whatever    *)
(* its graph, a completed execution has left out nothing, no node is on    *)
(* its own path, and the walk never leaves the graph.                      *)
(***************************************************************************)
EXTENDS Traversal, TLAPS

LEMMA DefinitionType == ASSUME NEW d \in Definitions
                        PROVE  d \in [nodes : Seq(Nodes), edges : Seq(Edges)]
  BY ConstantsAssumption

LEMMA EdgeType ==
  ASSUME TypeOK, NEW i \in DOMAIN def.edges
  PROVE  i \in Nat \ {0} /\ def.edges[i].source \in Ids /\ def.edges[i].target \in Ids
  <1>1. def.edges \in Seq(Edges)
    BY DEF TypeOK
  <1>2. i \in Nat \ {0} /\ def.edges[i] \in Edges
    BY <1>1
  <1>3. QED
    BY <1>2 DEF Edges

\* There is one root.
LEMMA OneRoot ==
  ASSUME TypeOK, NEW m, NEW n, IsRoot(def, m), IsRoot(def, n)
  PROVE  m = n
  <1>1. \A i \in Triggers(def) : i \in Nat
    BY DEF TypeOK, Triggers
  <1>2. PICK i \in Triggers(def) : m = def.nodes[i].id /\ \A j \in Triggers(def) : i <= j
    BY DEF IsRoot
  <1>3. PICK j \in Triggers(def) : n = def.nodes[j].id /\ \A k \in Triggers(def) : j <= k
    BY DEF IsRoot
  <1>4. i = j
    BY <1>1, <1>2, <1>3
  <1>5. QED
    BY <1>2, <1>3, <1>4

\* The callers of a node that is entered: the innermost follows edge i, and
\* nothing else changed.
LEMMA CallersType ==
  ASSUME IInv, NEW n \in Ids, NEW i \in {0} \cup DOMAIN def.edges, Arrives(n, i)
  PROVE  /\ Callers(i) \in Seq(Frames)
         /\ Len(Callers(i)) = Len(stack)
         /\ \A k \in DOMAIN stack :
              /\ Callers(i)[k].node = stack[k].node
              /\ Callers(i)[k].todo = stack[k].todo
              /\ Callers(i)[k].edge = IF k = Len(stack) THEN i ELSE stack[k].edge
  <1>1. stack \in Seq(Frames)
    BY DEF IInv, TypeOK
  <1>2. CASE stack = << >>
    BY <1>1, <1>2 DEF Callers
  <1>3. CASE stack # << >>
    <2>1. PICK f \in Frames : f = stack[Len(stack)]
      BY <1>1, <1>3
    <2>2. i \in Nat
      BY <1>3, EdgeType DEF Arrives, IInv
    <2>3. PICK g : g = [f EXCEPT !.edge = i]
      OBVIOUS
    <2>4. g \in Frames /\ g.node = f.node /\ g.todo = f.todo /\ g.edge = i
      BY <2>2, <2>3 DEF Frames
    <2>5. Callers(i) = [stack EXCEPT ![Len(stack)] = g]
      BY <1>3, <2>1, <2>3 DEF Callers
    <2>6. QED
      BY <1>1, <1>3, <2>1, <2>4, <2>5
  <1>4. QED
    BY <1>2, <1>3

-----------------------------------------------------------------------------
(* Entering a node *)

\* A node that is entered, with the edges todo still to follow, keeps the calls
\* in order.
LEMMA EnterStack ==
  ASSUME IInv, NEW n \in Ids, NEW i \in {0} \cup DOMAIN def.edges, Enters(n, i),
         NEW todo \in SUBSET (Nat \ {0}), Follow(n, i, todo),
         Entered([node |-> n, todo |-> todo, edge |-> 0]),
         UNCHANGED <<def, done>>
  PROVE  stack' \in Seq(Frames) /\ StackOK'
  <1> DEFINE c == Callers(i)
             f == [node |-> n, todo |-> todo, edge |-> 0]
  <1>1. /\ c \in Seq(Frames) /\ Len(c) = Len(stack)
        /\ \A k \in DOMAIN stack :
             /\ c[k].node = stack[k].node
             /\ c[k].todo = stack[k].todo
             /\ c[k].edge = IF k = Len(stack) THEN i ELSE stack[k].edge
    BY CallersType DEF Enters
  <1>2. f \in Frames
    BY DEF Frames
  <1>3. stack' = Append(c, f)
    BY DEF Follow
  <1>4. stack \in Seq(Frames)
    BY DEF IInv, TypeOK
  <1> HIDE DEF c
  <1>5. stack' \in Seq(Frames)
    BY <1>1, <1>2, <1>3
  <1>6. /\ Len(stack') = Len(stack) + 1
        /\ DOMAIN stack' = DOMAIN stack \cup {Len(stack) + 1}
        /\ stack'[Len(stack) + 1] = f
        /\ \A k \in DOMAIN stack : stack'[k] = c[k] /\ k \in 1..Len(stack)
        /\ Len(stack) \in Nat
    BY <1>1, <1>2, <1>3, <1>4
  <1> HIDE DEF f
  <1>7. f.node = n
    BY DEF f
  <1>8. \A k, m \in DOMAIN stack' : stack'[k].node = stack'[m].node => k = m
    <2>1. \A k \in DOMAIN stack : stack[k].node # n
      BY DEF Enters, InPath
    <2>2. \A k, m \in DOMAIN stack : stack[k].node = stack[m].node => k = m
      BY DEF IInv, StackOK
    <2>3. QED
      BY <1>1, <1>6, <1>7, <2>1, <2>2, SMTT(30)
  <1>9. \A k \in DOMAIN stack' : Entered(stack[k])'
    <2>1. SUFFICES ASSUME NEW k \in DOMAIN stack' PROVE Entered(stack'[k])
      BY DEF Entered, OutEdges, Branch
    <2>2. CASE k = Len(stack) + 1
      BY <1>6, <2>2 DEF f
    <2>3. CASE k \in DOMAIN stack
      <3>1. Entered(stack[k])
        BY <2>3 DEF IInv, StackOK
      <3>2. stack'[k].node = stack[k].node /\ stack'[k].todo = stack[k].todo
        BY <1>1, <1>6, <2>3
      <3>3. QED
        BY <3>1, <3>2 DEF Entered
    <2>4. QED
      BY <1>6, <2>2, <2>3
  <1>10. \A k \in 1..(Len(stack') - 1) :
           /\ stack'[k].edge \in stack'[k].todo
           /\ def'.edges[stack'[k].edge].target = stack'[k + 1].node
    <2>1. SUFFICES ASSUME NEW k \in 1..Len(stack)
                   PROVE  /\ stack'[k].edge \in stack'[k].todo
                          /\ def.edges[stack'[k].edge].target = stack'[k + 1].node
      BY <1>6
    <2>2. k \in DOMAIN stack
      BY <1>4
    <2>3. CASE k = Len(stack)
      <3>1. stack # << >>
        BY <1>4, <2>3
      <3>2. i \in stack[Len(stack)].todo /\ n = def.edges[i].target
        BY <3>1 DEF Enters, Arrives
      <3>3. QED
        BY <1>1, <1>6, <1>7, <2>2, <2>3, <3>2
    <2>4. CASE k # Len(stack)
      <3>1. k \in 1..(Len(stack) - 1) /\ k + 1 \in DOMAIN stack
        BY <1>4, <2>4
      <3>2. stack[k].edge \in stack[k].todo /\ def.edges[stack[k].edge].target = stack[k + 1].node
        BY <3>1 DEF IInv, StackOK
      <3>3. QED
        BY <1>1, <1>6, <2>2, <2>4, <3>1, <3>2
    <2>5. QED
      BY <2>3, <2>4
  <1>11. IsRoot(def', stack'[1].node)
    <2>1. CASE stack = << >>
      BY <1>6, <1>7, <2>1 DEF Enters, Arrives
    <2>2. CASE stack # << >>
      BY <1>1, <1>4, <1>6, <2>2 DEF IInv, StackOK
    <2>3. QED
      BY <2>1, <2>2
  <1>12. QED
    BY <1>5, <1>8, <1>9, <1>10, <1>11 DEF StackOK

\* A node that is entered keeps the invariant, if its edges and its output are
\* noted.
LEMMA EnterInv ==
  ASSUME IInv, NEW n \in Ids, NEW i \in {0} \cup DOMAIN def.edges, Enters(n, i),
         NEW todo \in SUBSET (Nat \ {0}), Follow(n, i, todo),
         Entered([node |-> n, todo |-> todo, edge |-> 0]),
         UNCHANGED <<def, called, done, status, error>>,
         steps' \in Seq(Steps), context' \subseteq Ids, context \subseteq context',
         TypeOf(def, n) = "executor" => n \in context'
  PROVE  IInv'
  <1>1. stack' \in Seq(Frames) /\ StackOK'
    BY EnterStack
  <1>2. TypeOK'
    BY <1>1 DEF IInv, TypeOK
  <1>3. status' = "running"
    BY DEF Enters, Arrives
  <1>4. ContextCoversPath'
    <2>1. stack \in Seq(Frames)
      BY DEF IInv, TypeOK
    <2>2. /\ Callers(i) \in Seq(Frames) /\ Len(Callers(i)) = Len(stack)
          /\ \A k \in DOMAIN stack : Callers(i)[k].node = stack[k].node
      BY CallersType DEF Enters
    <2>3. /\ DOMAIN stack' = DOMAIN stack \cup {Len(stack) + 1}
          /\ stack'[Len(stack) + 1].node = n
          /\ \A k \in DOMAIN stack : stack'[k].node = stack[k].node
      BY <2>1, <2>2 DEF Follow
    <2>4. QED
      BY <2>3 DEF IInv, ContextCoversPath
  <1>5. \A m \in done' : LeadsTo(m, done)'
    BY DEF IInv, LeadsTo, Branch, OutEdges
  <1>6. QED
    BY <1>1, <1>2, <1>3, <1>4, <1>5 DEF IInv, NeverMissing

LEMMA OutEdgesType ==
  ASSUME TypeOK, NEW n
  PROVE  /\ OutEdges(n) \in SUBSET (Nat \ {0})
         /\ \A result \in BOOLEAN : Branch(n, result) \subseteq OutEdges(n)
  BY EdgeType DEF OutEdges, Branch

LEMMA StepType ==
  ASSUME TypeOK, NEW n \in Ids, NEW ok \in BOOLEAN, AddStep(n, ok)
  PROVE  steps' \in Seq(Steps)
  <1>1. [node |-> n, ok |-> ok] \in Steps
    BY DEF Steps
  <1>2. QED
    BY <1>1 DEF TypeOK, AddStep

\* All edges of a node that is not conditional are still to be followed.
LEMMA EnteredAll ==
  ASSUME TypeOK, NEW n \in NodeIds(def), TypeOf(def, n) # "conditional"
  PROVE  Entered([node |-> n, todo |-> OutEdges(n), edge |-> 0])
  BY DEF Entered

LEMMA EnteredBranch ==
  ASSUME TypeOK, NEW n \in NodeIds(def), TypeOf(def, n) = "conditional",
         NEW result \in BOOLEAN
  PROVE  Entered([node |-> n, todo |-> Branch(n, result), edge |-> 0])
  BY OutEdgesType DEF Entered

LEMMA EnterTriggerInv ==
  ASSUME IInv, NEW n \in Ids, NEW i \in {0} \cup DOMAIN def.edges, EnterTrigger(n, i)
  PROVE  IInv'
  <1>1. TypeOK /\ Enters(n, i) /\ n \in NodeIds(def) /\ TypeOf(def, n) = "trigger"
        /\ Follow(n, i, OutEdges(n)) /\ UNCHANGED <<def, called, done, status, error>>
        /\ steps' = steps /\ context' = context
    BY DEF IInv, EnterTrigger, Enters
  <1>2. Entered([node |-> n, todo |-> OutEdges(n), edge |-> 0])
    BY <1>1, EnteredAll
  <1>3. QED
    BY <1>1, <1>2, EnterInv, OutEdgesType DEF TypeOK

LEMMA EnterActionInv ==
  ASSUME IInv, NEW n \in Ids, NEW i \in {0} \cup DOMAIN def.edges, EnterAction(n, i)
  PROVE  IInv'
  <1>1. TypeOK /\ Enters(n, i) /\ n \in NodeIds(def) /\ TypeOf(def, n) = "action"
        /\ Follow(n, i, OutEdges(n)) /\ UNCHANGED <<def, called, done, status, error>>
        /\ AddStep(n, TRUE) /\ context' = context
    BY DEF IInv, EnterAction, Enters
  <1>2. Entered([node |-> n, todo |-> OutEdges(n), edge |-> 0])
    BY <1>1, EnteredAll
  <1>3. QED
    BY <1>1, <1>2, EnterInv, OutEdgesType, StepType DEF TypeOK

LEMMA EnterExecutorInv ==
  ASSUME IInv, NEW n \in Ids, NEW i \in {0} \cup DOMAIN def.edges, EnterExecutor(n, i)
  PROVE  IInv'
  <1>1. TypeOK /\ Enters(n, i) /\ n \in NodeIds(def) /\ TypeOf(def, n) = "executor"
        /\ Follow(n, i, OutEdges(n)) /\ UNCHANGED <<def, called, done, status, error>>
        /\ AddStep(n, TRUE) /\ context' = context \cup {n}
    BY DEF IInv, EnterExecutor, Enters, Keep
  <1>2. Entered([node |-> n, todo |-> OutEdges(n), edge |-> 0])
    BY <1>1, EnteredAll
  <1>3. QED
    BY <1>1, <1>2, EnterInv, OutEdgesType, StepType DEF TypeOK

LEMMA EnterConditionalInv ==
  ASSUME IInv, NEW n \in Ids, NEW i \in {0} \cup DOMAIN def.edges, NEW result \in BOOLEAN,
         EnterConditional(n, i, result)
  PROVE  IInv'
  <1>1. TypeOK /\ Enters(n, i) /\ n \in NodeIds(def) /\ TypeOf(def, n) = "conditional"
        /\ Follow(n, i, Branch(n, result)) /\ UNCHANGED <<def, called, done, status, error>>
        /\ AddStep(n, TRUE) /\ context' = context
    BY DEF IInv, EnterConditional, Enters
  <1>2. Entered([node |-> n, todo |-> Branch(n, result), edge |-> 0])
    BY <1>1, EnteredBranch
  <1>3. Branch(n, result) \in SUBSET (Nat \ {0})
    BY <1>1, OutEdgesType
  <1>4. QED
    BY <1>1, <1>2, <1>3, EnterInv, StepType DEF TypeOK

-----------------------------------------------------------------------------
(* Errors *)

LEMMA StopInv ==
  ASSUME IInv, NEW s \in {"failed", "aborted"}, NEW e \in {"cycle", "timeout", "node"},
         Stop(s, e), steps' \in Seq(Steps), context' \subseteq Ids, context \subseteq context'
  PROVE  IInv'
  <1>1. UNCHANGED <<def, called, stack, done>> /\ status' = s /\ error' = e
    BY DEF Stop
  <1>2. TypeOK'
    BY <1>1 DEF IInv, TypeOK
  <1>3. StackOK'
    BY <1>1 DEF IInv, StackOK, Entered, OutEdges, Branch
  <1>4. \A m \in done' : LeadsTo(m, done)'
    BY <1>1 DEF IInv, LeadsTo, Branch, OutEdges
  <1>5. QED
    BY <1>1, <1>2, <1>3, <1>4 DEF IInv, ContextCoversPath, NeverMissing

\* What is arrived at is a node of the definition.
LEMMA ArrivesInside ==
  ASSUME IInv, NEW n \in Ids, NEW i \in {0} \cup DOMAIN def.edges, Arrives(n, i)
  PROVE  n \in NodeIds(def)
  <1>1. CASE stack = << >>
    BY <1>1 DEF Arrives, IsRoot, Triggers, NodeIds
  <1>2. CASE stack # << >>
    <2>1. Len(stack) \in DOMAIN stack
      BY <1>2 DEF IInv, TypeOK
    <2>2. i \in OutEdges(stack[Len(stack)].node) /\ n = def.edges[i].target
      BY <1>2, <2>1 DEF Arrives, IInv, StackOK, Entered
    <2>3. QED
      BY <2>2 DEF OutEdges, IInv, ValidateWorkflowStructure
  <1>3. QED
    BY <1>1, <1>2

LEMMA RefuseInv ==
  ASSUME IInv, NEW n \in Ids, NEW i \in {0} \cup DOMAIN def.edges, Refuse(n, i)
  PROVE  IInv'
  <1>1. n \in InPath
    BY ArrivesInside DEF Refuse
  <1>2. Stop("failed", "cycle") /\ UNCHANGED <<steps, context>>
    BY <1>1 DEF Refuse
  <1>3. QED
    BY <1>2, StopInv DEF IInv, TypeOK

LEMMA ExpireInv ==
  ASSUME IInv, NEW n \in Ids, NEW i \in {0} \cup DOMAIN def.edges, Expire(n, i)
  PROVE  IInv'
  BY StopInv DEF Expire, IInv, TypeOK

LEMMA NodeFailsInv ==
  ASSUME IInv, NEW n \in Ids, NEW i \in {0} \cup DOMAIN def.edges, NEW ok \in BOOLEAN,
         NEW s \in {"failed", "aborted"}, NodeFails(n, i, ok, s)
  PROVE  IInv'
  <1>1. steps' \in Seq(Steps)
    BY StepType DEF NodeFails, IInv
  <1>2. context \subseteq context' /\ context' \subseteq Ids
    BY DEF NodeFails, Keep, IInv, TypeOK
  <1>3. QED
    BY <1>1, <1>2, StopInv DEF NodeFails

-----------------------------------------------------------------------------
(* Returning *)

LEMMA LeadsToMore ==
  ASSUME NEW n, NEW S, NEW T, S \subseteq T, LeadsTo(n, S)
  PROVE  LeadsTo(n, T)
  BY DEF LeadsTo

\* A call with no edges left leads only to what is done.
LEMMA ReturnLeads ==
  ASSUME NEW f, Entered(f), f.todo = {}
  PROVE  LeadsTo(f.node, done)
  BY DEF Entered, LeadsTo, OutEdges

LEMMA ReturnInv == ASSUME IInv, Return PROVE IInv'
  <1> DEFINE depth == Len(stack)
  <1>1. stack \in Seq(Frames) /\ depth \in Nat \ {0} /\ DOMAIN stack = 1..depth
    BY DEF IInv, TypeOK, Return
  <1>2. PICK top \in Frames : top = stack[depth]
    BY <1>1
  <1>3. /\ top.todo = {} /\ done' = done \cup {top.node} /\ Entered(top)
        /\ UNCHANGED <<def, called, steps, context, error>> /\ status = "running"
    BY <1>1, <1>2 DEF Return, IInv, StackOK
  <1>4. \A m \in done' : LeadsTo(m, done)'
    <2>1. \A m \in done' : LeadsTo(m, done')
      BY <1>3, LeadsToMore, ReturnLeads DEF IInv
    <2>2. QED
      BY <1>3, <2>1 DEF LeadsTo, Branch, OutEdges
  <1>5. top.node \in Ids
    BY DEF Frames
  <1>6. CASE depth = 1
    <2>1. stack' = << >> /\ status' = "completed"
      BY <1>6 DEF Return
    <2>2. IsRoot(def, top.node)
      BY <1>2, <1>6 DEF IInv, StackOK, Return
    <2>3. \A n \in Ids : IsRoot(def, n) => n \in done'
      BY <1>3, <2>2, OneRoot DEF IInv
    <2>4. TypeOK' /\ StackOK' /\ ContextCoversPath'
      BY <1>3, <1>5, <2>1 DEF IInv, TypeOK, StackOK, ContextCoversPath
    <2>5. QED
      BY <1>3, <1>4, <2>3, <2>4 DEF IInv, NeverMissing
  <1>7. CASE depth > 1
    <2>1. /\ stack' = [i \in 1..(depth - 1) |->
                         IF i < depth - 1 THEN stack[i]
                         ELSE [stack[i] EXCEPT !.todo = Rest(stack[i])]]
          /\ status' = status
      BY <1>7 DEF Return
    <2>2. PICK f \in Frames : f = stack[depth - 1]
      BY <1>1, <1>7
    <2>3. PICK g : g = [f EXCEPT !.todo = Rest(f)]
      OBVIOUS
    <2>4. g \in Frames /\ g.node = f.node /\ g.todo = f.todo \ {f.edge} /\ g.edge = f.edge
      BY <2>3 DEF Frames, Rest
    <2>5. stack' = [i \in 1..(depth - 1) |-> IF i < depth - 1 THEN stack[i] ELSE g]
      BY <1>1, <1>7, <2>1, <2>2, <2>3
    <2>6. /\ stack' \in Seq(Frames) /\ DOMAIN stack' = 1..(depth - 1)
          /\ Len(stack') = depth - 1
          /\ stack'[depth - 1] = g
          /\ \A k \in 1..(depth - 2) : stack'[k] = stack[k]
      <3>1. \A i \in 1..(depth - 1) : (IF i < depth - 1 THEN stack[i] ELSE g) \in Frames
        BY <1>1, <2>4
      <3>2. depth - 1 \in Nat /\ depth - 1 \in 1..(depth - 1)
        BY <1>1, <1>7
      <3>3. stack' \in [1..(depth - 1) -> Frames]
        BY <2>5, <3>1
      <3>4. stack' \in Seq(Frames) /\ DOMAIN stack' = 1..(depth - 1) /\ Len(stack') = depth - 1
        BY <3>2, <3>3
      <3>5. stack'[depth - 1] = g /\ \A k \in 1..(depth - 2) : stack'[k] = stack[k]
        BY <1>1, <2>5, <3>2
      <3>6. QED
        BY <3>4, <3>5
    <2> HIDE DEF depth
    <2>7. \A k \in DOMAIN stack' : stack'[k].node = stack[k].node /\ k \in DOMAIN stack
      BY <1>1, <2>2, <2>4, <2>6
    <2>8. \A k, m \in DOMAIN stack' : stack'[k].node = stack'[m].node => k = m
      BY <2>7 DEF IInv, StackOK
    <2>9. \A k \in DOMAIN stack' : Entered(stack[k])'
      <3>1. f.edge \in f.todo /\ def.edges[f.edge].target = top.node
        BY <1>1, <1>2, <1>7, <2>2 DEF IInv, StackOK, depth
      <3>2. Entered(f)
        BY <1>1, <1>7, <2>2 DEF IInv, StackOK
      <3>3. Entered(g)'
        BY <1>3, <2>4, <3>1, <3>2 DEF Entered, OutEdges, Branch
      <3>4. \A k \in 1..(depth - 2) : Entered(stack[k])
        BY <1>1 DEF IInv, StackOK
      <3>5. ASSUME NEW k \in 1..(depth - 2) PROVE Entered(stack[k])'
        <4>1. PICK h : h = stack[k]
          OBVIOUS
        <4>2. Entered(h)
          BY <3>4, <4>1
        <4>3. stack'[k] = h
          BY <2>6, <4>1
        <4>4. QED
          BY <1>3, <4>2, <4>3 DEF Entered, OutEdges, Branch
      <3>6. QED
        BY <1>1, <2>6, <3>3, <3>5
    <2>10. \A k \in 1..(Len(stack') - 1) :
            /\ stack'[k].edge \in stack'[k].todo
            /\ def'.edges[stack'[k].edge].target = stack'[k + 1].node
      <3>1. SUFFICES ASSUME NEW k \in 1..(depth - 2)
                     PROVE  /\ stack[k].edge \in stack[k].todo
                            /\ def.edges[stack[k].edge].target = stack'[k + 1].node
        BY <1>1, <1>3, <2>6
      <3>2. k \in 1..(Len(stack) - 1) /\ k + 1 \in DOMAIN stack'
        BY <1>1, <2>6 DEF depth
      <3>3. QED
        BY <2>7, <3>2 DEF IInv, StackOK
    <2>11. IsRoot(def', stack'[1].node)
      BY <1>1, <1>3, <1>7, <2>6, <2>7 DEF IInv, StackOK
    <2>12. ContextCoversPath'
      BY <1>3, <2>7 DEF IInv, ContextCoversPath
    <2>13. TypeOK'
      BY <1>3, <1>5, <2>1, <2>6 DEF IInv, TypeOK
    <2>14. QED
      BY <1>3, <1>4, <2>1, <2>8, <2>9, <2>10, <2>11, <2>12, <2>13
      DEF IInv, StackOK, NeverMissing
  <1>8. QED
    BY <1>1, <1>6, <1>7

-----------------------------------------------------------------------------

LEMMA InitInv == ASSUME Init PROVE IInv
  <1>1. def \in [nodes : Seq(Nodes), edges : Seq(Edges)] /\ ValidateWorkflowStructure(def)
    BY DefinitionType DEF Init
  <1>2. \A i \in Triggers(def) : def.nodes[i].id \in Ids
    <2>1. \A i \in DOMAIN def.nodes : def.nodes[i] \in Nodes
      BY <1>1
    <2>2. QED
      BY <2>1 DEF Triggers, Nodes
  <1>3. called \in Ids
    BY <1>2 DEF Init
  <1>4. TypeOK
    BY <1>1, <1>3 DEF Init, TypeOK
  <1>5. StackOK /\ ContextCoversPath
    BY DEF Init, StackOK, ContextCoversPath
  <1>6. QED
    BY <1>1, <1>4, <1>5 DEF Init, IInv, NeverMissing

LEMMA WalkInv == ASSUME IInv, Walk PROVE IInv'
  BY EnterTriggerInv, EnterActionInv, EnterExecutorInv, EnterConditionalInv, RefuseInv,
     NodeFailsInv, ReturnInv DEF Walk

LEMMA NextInv == ASSUME IInv, [Next]_vars PROVE IInv'
  <1>1. CASE UNCHANGED vars
    <2>1. UNCHANGED <<def, called, stack, done, steps, context, status, error>>
      BY <1>1 DEF vars
    <2>2. TypeOK' /\ ContextCoversPath' /\ NeverMissing'
      BY <2>1 DEF IInv, TypeOK, ContextCoversPath, NeverMissing
    <2>3. StackOK' /\ \A n \in done' : LeadsTo(n, done)'
      BY <2>1 DEF IInv, StackOK, Entered, LeadsTo, Branch, OutEdges
    <2>4. QED
      BY <2>1, <2>2, <2>3 DEF IInv
  <1>2. QED
    BY <1>1, WalkInv, ExpireInv DEF Next

\* The inductive invariant holds of every walk over every definition.
THEOREM Invariance == Spec => []IInv
  BY InitInv, NextInv, PTL DEF Spec

\* A completed execution has visited the root and, with every visited node, all
\* that its edges lead to.
THEOREM CompletedLeavesNothingOut == Spec => []CompletedIsClosed
  <1>1. IInv => CompletedIsClosed
    BY DEF IInv, CompletedIsClosed
  <1>2. QED
    BY <1>1, Invariance, PTL

\* The outputs of the executors on the path to a node are in the context when it
\* runs.
THEOREM PathIsInContext == Spec => []ContextCoversPath
  <1>1. IInv => ContextCoversPath
    BY DEF IInv
  <1>2. QED
    BY <1>1, Invariance, PTL

\* The walk over a validated definition never looks for a node that is not there.
THEOREM NeverLeavesTheGraph == Spec => []NeverMissing
  <1>1. IInv => NeverMissing
    BY DEF IInv
  <1>2. QED
    BY <1>1, Invariance, PTL

\* No node is entered while a call for it has not returned, so the depth of the
\* recursion is at most the number of nodes, on graphs with cycles too.
THEOREM NoNodeTwiceOnItsPath ==
  Spec => [](\A i, j \in DOMAIN stack : stack[i].node = stack[j].node => i = j)
  <1>1. IInv => \A i, j \in DOMAIN stack : stack[i].node = stack[j].node => i = j
    BY DEF IInv, StackOK
  <1>2. QED
    BY <1>1, Invariance, PTL
=============================================================================
