----------------------------- MODULE MCTraversal -----------------------------
(* Small graphs for Traversal.                                             *)
EXTENDS Traversal

CONSTANTS a, b, c, d, z

Lists(S, n) == UNION {[1..k -> S] : k \in 0..n}

\* All lists of nodes with these ids, the first a trigger.
FirstIsTrigger(ids, types) ==
  {[i \in DOMAIN ids |-> [id |-> ids[i], type |-> t[i]]] :
     t \in {u \in [DOMAIN ids -> {"trigger"} \cup types] :
             u[1] = "trigger" /\ \A i \in DOMAIN ids \ {1} : u[i] \in types}}

Edge(s, t, h) == [source |-> s, target |-> t, handle |-> h, condition |-> TRUE]

\* The edges between two nodes: one for each result if they leave a conditional
\* node.
EdgesOf(nodes, pairs) ==
  LET conditional == {p \in pairs : \E i \in DOMAIN nodes :
                        nodes[i].id = p[1] /\ nodes[i].type = "conditional"} IN
  {Edge(p[1], p[2], "none") : p \in pairs \ conditional}
  \cup {Edge(p[1], p[2], h) : p \in conditional, h \in {"true", "false"}}

Graphs(nodeLists, pairs, n) ==
  UNION {[nodes : {nodes}, edges : Lists(EdgesOf(nodes, pairs), n)] : nodes \in nodeLists}

\* Every graph of up to three nodes and three edges, cycles included, ids that
\* repeat, and edges to a node that is not there.
SmallGraphs ==
  Graphs(FirstIsTrigger(<<a, b>>, Types) \cup FirstIsTrigger(<<a, b, c>>, Types),
         {a, b, c} \X {a, b, c}, 2)
  \cup Graphs(FirstIsTrigger(<<a, b, c>>, {"trigger", "executor"}), {a, b, c} \X {a, b, c}, 3)
  \cup Graphs(FirstIsTrigger(<<a, b, a>>, Types), {a, b} \X {a, b}, 2)
  \cup Graphs(FirstIsTrigger(<<a, b>>, Types), {<<a, b>>, <<b, z>>}, 2)

\* Four nodes without a cycle, in every way that paths can part and join.
Forward == <<<<a, b>>, <<a, c>>, <<a, d>>, <<b, c>>, <<b, d>>, <<c, d>>>>

Chosen(pairs, handles) ==
  LET edges == [i \in DOMAIN pairs |-> Edge(pairs[i][1], pairs[i][2], handles[i])]
      IsThere(e) == e.handle # "off" IN
  SelectSeq(edges, IsThere)

Joins ==
  UNION {[nodes : {nodes},
          edges : {Chosen(Forward, h) : h \in [1..6 -> {"off", "true", "false"}]}] :
         nodes \in FirstIsTrigger(<<a, b, c, d>>, {"executor", "conditional"})}

AllGraphs == SmallGraphs \cup Joins
=============================================================================
