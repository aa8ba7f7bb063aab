------------------------------- MODULE Mapping -------------------------------
(***************************************************************************)
(* The data that goes through an executor node: the mapping of the         *)
(* workflow's context into the request of the executor, and of its answer  *)
(* into the context (pkg/transformation, and its calls in                  *)
(* execute_workflow.go).                                                   *)
(*                                                                         *)
(* A list of field mappings becomes one specification for Kazaam: a shift  *)
(* of all the fields, then the transformation of each.  Specifications are *)
(* compiled once and the compiled ones shared by every execution, through  *)
(* a cache behind a read-write lock; a workflow is saved only with nodes   *)
(* whose specifications compile.                                           *)
(*                                                                         *)
(* A document is the set of its leaves, pairs of a path and a value, so    *)
(* that no path is a prefix of another; empty objects and arrays are left  *)
(* out.  A value is the text it came from and the transformations done     *)
(* to it.                                                                  *)
(***************************************************************************)
EXTENDS Naturals, FiniteSets, Sequences, SequencesExt

CONSTANTS
    Executions,  \* executions that run nodes at the same time
    Nodes,       \* the nodes that users write: see IsNode
    Documents,   \* contexts of workflows and answers of executors: see IsDocument
    MaxClears,   \* bound on the times the cache is cleared
    MaxInstances \* bound on the specifications compiled

VARIABLES
    cache,     \* entries of Service.cache: key, compiled specification, its identity
    instances, \* specifications compiled so far, which numbers them
    clears,    \* times the cache was cleared
    node,      \* the node that each execution runs
    stage,     \* "idle", "input" or "output"
    phase,     \* where the stage is: see Phases
    doc,       \* the document that the stage reads
    held,      \* the compiled specification that the stage uses
    out        \* the document the stage made, and why it failed

vars == <<cache, instances, clears, node, stage, phase, doc, held, out>>
progress == <<node, stage, doc>>

Stages == {"idle", "input", "output"}
Phases == {"start", "missed", "compiled", "ended"}

Plain      == {"to_uppercase", "to_lowercase"}
Configured == {"remove_characters", "add_prefix", "add_suffix"}
Operations == {"shift"} \cup Plain \cup Configured

Paths == Seq(STRING)
Null == [of |-> "null", by |-> <<>>]
LeafValues == {Null} \cup [of : STRING, by : Seq(STRING)]
IsText(v) == v.of \notin {"null", "number"}

(***************************************************************************)
(* Documents                                                               *)
(***************************************************************************)
Comparable(p, q) == IsPrefix(p, q) \/ IsPrefix(q, p)

\* The value at a path, as the document below it; empty where there is none.
At(d, p) == {<<SubSeq(l[1], Len(p) + 1, Len(l[1])), l[2]>> : l \in {x \in d : IsPrefix(p, x[1])}}

\* Setting a path replaces what was there, and a scalar on the way to it.
Under(p, l) == <<p \o l[1], l[2]>>
Put(d, p, sub) == {l \in d : ~Comparable(l[1], p)} \cup {Under(p, l) : l \in sub}

IsDocument(d) ==
    /\ d \subseteq Paths \X LeafValues
    /\ \A k \in d, l \in d : Comparable(k[1], l[1]) => k = l

Ok(d)     == [result |-> "ok", doc |-> d]
Fail(why) == [result |-> why, doc |-> {}]

(***************************************************************************)
(* From mappings to a specification                                        *)
(***************************************************************************)
FieldMappings ==
    [source : Paths, target : Paths, required : BOOLEAN, type : STRING, given : BOOLEAN, path : Paths]
IsNode(n) ==
    /\ n.input \in Seq(FieldMappings) /\ n.output \in Seq(FieldMappings)
    /\ Len(n.transforms) \in Nat /\ DOMAIN n.transforms = 1 .. Len(n.transforms)

IsMoved(m) == m.source # <<>> /\ m.target # <<>>
IsTransformed(m) == m.type # ""

\* The shift is a map from target to source: of two mappings with one target
\* the later stays.
ShiftSpec(ms) ==
    [t \in {ms[i].target : i \in {j \in DOMAIN ms : IsMoved(ms[j])}} |->
        LET Stays(i) == /\ IsMoved(ms[i]) /\ ms[i].target = t
                        /\ \A j \in i + 1 .. Len(ms) : ~(IsMoved(ms[j]) /\ ms[j].target = t)
        IN  ms[CHOOSE i \in DOMAIN ms : Stays(i)].source]

LastRequired(ms) == ms # <<>> /\ ms[Len(ms)].required
HasRequired(ms) == \E i \in DOMAIN ms : ms[i].required

NoShift == [t \in {} |-> <<>>]

\* Mutant: the transformation is done to the field that the mapping reads.
AtSource(m) ==
    [operation |-> m.type, spec |-> "map", shift |-> NoShift, require |-> FALSE,
     path |-> m.source, given |-> m.given]

\* One operation per transformation, at the target of its mapping unless the
\* configuration has a path, which is merged over it.  A mapping may also ask
\* for a shift: it moves to a field named "path".
Transformation(m) ==
    LET path == IF m.path = <<>> THEN m.target ELSE m.path
    IN  [operation |-> m.type, spec |-> "map", require |-> FALSE, path |-> path, given |-> m.given,
         shift |-> IF m.type = "shift" THEN [t \in {<<"path">>} |-> path] ELSE NoShift]

\* The transformations of the first i mappings.
TransformationsUpTo(ms) ==
    LET upTo[i \in 0 .. Len(ms)] ==
            IF i = 0 THEN <<>>
            ELSE IF IsTransformed(ms[i]) THEN Append(upTo[i - 1], Transformation(ms[i]))
            ELSE upTo[i - 1]
    IN  upTo

ShiftOperations(ms) ==
    IF DOMAIN ShiftSpec(ms) = {} THEN <<>>
    ELSE <<[operation |-> "shift", spec |-> "map", shift |-> ShiftSpec(ms),
            require |-> HasRequired(ms), path |-> <<>>, given |-> FALSE]>>

BuildKazaamSpec(ms) == ShiftOperations(ms) \o TransformationsUpTo(ms)[Len(ms)]

(***************************************************************************)
(* Kazaam                                                                  *)
(***************************************************************************)
\* New knows the operations and wants something in each specification; an
\* operation with none at all gets through.
Compiles(ops) ==
    \A i \in DOMAIN ops : ops[i].operation \in Operations /\ ops[i].spec # "empty"

Moved(op, d, t) == IF At(d, op.shift[t]) = {} THEN {<<(<<>>), Null>>} ELSE At(d, op.shift[t])

\* What a shift has put together after i of its fields.
Filled(op, d, order) ==
    LET filled[i \in 0 .. Len(order)] ==
            IF i = 0 THEN {} ELSE Put(filled[i - 1], order[i], Moved(op, d, order[i]))
    IN  filled

\* The fields of a shift are visited in the order of a Go map, which is any.
Shift(op, d) ==
    IF op.require /\ \E t \in DOMAIN op.shift : At(d, op.shift[t]) = {}
    THEN {Fail("required")}
    ELSE {Ok(Filled(op, d, order)[Len(order)]) : order \in SetToSeqs(DOMAIN op.shift)}

\* The transformations of custom_transforms.go change a text in its place and
\* leave anything else alone.
GetStringAtPath(d, p) == {l \in d : l[1] = p /\ IsText(l[2])}

SetStringAtPath(d, p, v) == Put(d, p, {<<(<<>>), v>>})

Custom(op, d) ==
    IF op.path = <<>> \/ (op.operation \in Configured /\ ~op.given)
    THEN {Fail("configuration")}
    ELSE LET texts == GetStringAtPath(d, op.path)
         IN  IF texts = {} THEN {Ok(d)}
             ELSE {Ok(SetStringAtPath(d, op.path, [l[2] EXCEPT !.by = Append(@, op.operation)])) :
                      l \in texts}

Step(op, d) ==
    IF op.spec = "nil" THEN {Fail("panic")}
    ELSE IF op.operation = "shift" THEN Shift(op, d) ELSE Custom(op, d)

\* An operation runs on what those before it made, unless one of them failed.
Then(outs, op) == UNION {IF o.result = "ok" THEN Step(op, o.doc) ELSE {o} : o \in outs}

\* Every outcome of the first i operations on a document.
OutcomesUpTo(ops, d) ==
    LET upTo[i \in 0 .. Len(ops)] == IF i = 0 THEN {Ok(d)} ELSE Then(upTo[i - 1], ops[i])
    IN  upTo

Transform(ops, d) == OutcomesUpTo(ops, d)[Len(ops)]

(***************************************************************************)
(* The specification of a stage                                            *)
(***************************************************************************)
\* Mappings come before raw operations on the way in, and are all there is on
\* the way out; without either the document goes through as it is.
HasSpec(n, s) ==
    IF s = "input" THEN n.input # <<>> \/ n.transforms # <<>> ELSE n.output # <<>>

SpecOf(n, s) ==
    IF s = "output" THEN BuildKazaamSpec(n.output)
    ELSE IF n.input # <<>> THEN BuildKazaamSpec(n.input) ELSE n.transforms

WithoutOutput(n) == Compiles(BuildKazaamSpec(n.input)) /\ Compiles(n.transforms)

\* What create, update and activate of a workflow ask of its nodes.
ValidateNodeTransformations(n) ==
    /\ Compiles(BuildKazaamSpec(n.input))
    /\ Compiles(BuildKazaamSpec(n.output))
    /\ Compiles(n.transforms)

(***************************************************************************)
(* Steps                                                                   *)
(***************************************************************************)
Nothing == [id |-> 0, ops |-> <<>>]

Init ==
    /\ cache = {} /\ instances = 0 /\ clears = 0
    /\ node \in [Executions -> Nodes]
    /\ stage = [e \in Executions |-> "idle"]
    /\ phase = [e \in Executions |-> "start"]
    /\ doc = [e \in Executions |-> {}]
    /\ held = [e \in Executions |-> Nothing]
    /\ out = [e \in Executions |-> Fail("none")]

Enter(e, s, d) ==
    /\ stage' = [stage EXCEPT ![e] = s]
    /\ doc' = [doc EXCEPT ![e] = d]
    /\ phase' = [phase EXCEPT ![e] = IF HasSpec(node[e], s) THEN "start" ELSE "ended"]
    /\ out' = [out EXCEPT ![e] = IF HasSpec(node[e], s) THEN Fail("none") ELSE Ok(d)]
    /\ held' = [held EXCEPT ![e] = Nothing]
    /\ UNCHANGED <<cache, instances, clears, node>>

\* An execution reaches a node of a saved workflow.
Begin(e) ==
    /\ stage[e] = "idle" /\ ValidateNodeTransformations(node[e])
    /\ \E d \in Documents : Enter(e, "input", d)

\* The executor answered what the request asked.
Answer(e) ==
    /\ stage[e] = "input" /\ phase[e] = "ended" /\ out[e].result = "ok"
    /\ \E d \in Documents : Enter(e, "output", d)

InStage(e, p) == stage[e] # "idle" /\ phase[e] = p
MySpec(e) == SpecOf(node[e], stage[e])

OperationsOnly(ops) == [i \in DOMAIN ops |-> ops[i].operation]

\* The key of the cache is the text of the specification.
KeyOf(ops) == ops

Cached(e) == {c \in cache : c.key = KeyOf(MySpec(e))}

Take(e, c) == held' = [held EXCEPT ![e] = [id |-> c.id, ops |-> c.ops]]

\* Under the read lock: a hit is taken, a miss goes for the write lock.
LookUp(e) ==
    /\ InStage(e, "start")
    /\ IF Cached(e) = {}
       THEN /\ phase' = [phase EXCEPT ![e] = "missed"]
            /\ UNCHANGED held
       ELSE /\ phase' = [phase EXCEPT ![e] = "compiled"]
            /\ \E c \in Cached(e) : Take(e, c)
    /\ UNCHANGED <<progress, cache, instances, clears, out>>

End(e, o) ==
    /\ phase' = [phase EXCEPT ![e] = "ended"]
    /\ out' = [out EXCEPT ![e] = o]

Compile(e) ==
    /\ instances < MaxInstances
    /\ LET entry == [key |-> KeyOf(MySpec(e)), ops |-> MySpec(e), id |-> instances + 1]
       IN  /\ cache' = {c \in cache : c.key # entry.key} \cup {entry}
           /\ Take(e, entry)
    /\ instances' = instances + 1
    /\ phase' = [phase EXCEPT ![e] = "compiled"]
    /\ UNCHANGED <<progress, clears, out>>

CreateAtOnce(e) == InStage(e, "missed") /\ Compiles(MySpec(e)) /\ Compile(e)

\* Under the write lock: the cache is asked again, and a specification that
\* does not compile fails the stage.
Create(e) ==
    /\ InStage(e, "missed")
    /\ \/ /\ Cached(e) # {}
          /\ \E c \in Cached(e) : Take(e, c)
          /\ phase' = [phase EXCEPT ![e] = "compiled"]
          /\ UNCHANGED <<progress, cache, instances, clears, out>>
       \/ /\ Cached(e) = {}
          /\ IF Compiles(MySpec(e))
             THEN Compile(e)
             ELSE /\ End(e, Fail("invalid"))
                  /\ UNCHANGED <<progress, cache, instances, clears, held>>

\* The compiled specification runs outside the lock.
Apply(e) ==
    /\ InStage(e, "compiled")
    /\ \E o \in Transform(held[e].ops, doc[e]) : End(e, o)
    /\ UNCHANGED <<progress, cache, instances, clears, held>>

ClearCache ==
    /\ clears < MaxClears
    /\ cache' = {} /\ clears' = clears + 1
    /\ UNCHANGED <<progress, instances, phase, held, out>>

Next ==
    \/ ClearCache
    \/ \E e \in Executions : Begin(e) \/ Answer(e) \/ LookUp(e) \/ Create(e) \/ Apply(e)

Spec == Init /\ [][Next]_vars

(***************************************************************************)
(* What mappings mean                                                      *)
(***************************************************************************)
Mappings(e) == IF stage[e] = "input" THEN node[e].input ELSE node[e].output

\* Mappings that say where everything goes: each moves a field, no two of them
\* to the same place or into each other's, and each transformation is of its
\* own target and has what it needs; a shift is of the whole document.
Clean(ms) ==
    /\ ms # <<>>
    /\ \A i \in DOMAIN ms :
        /\ IsMoved(ms[i]) /\ ms[i].path = <<>> /\ ms[i].type # "shift"
        /\ ms[i].type \in Configured => ms[i].given
        /\ \A j \in DOMAIN ms : i # j => ~Comparable(ms[i].target, ms[j].target)

Present(m, d) == At(d, m.source) # {}

\* What one mapping puts at its target: the field, transformed where it is a
\* text, or null.
Field(m, d) ==
    IF ~Present(m, d) THEN {<<(<<>>), Null>>}
    ELSE {<<l[1], IF IsTransformed(m) /\ l[1] = <<>> /\ IsText(l[2])
                  THEN [l[2] EXCEPT !.by = Append(@, m.type)] ELSE l[2]>> : l \in At(d, m.source)}

Meaning(ms, d) ==
    UNION {{Under(ms[i].target, l) : l \in Field(ms[i], d)} : i \in DOMAIN ms}

Ended(e) == InStage(e, "ended")

(***************************************************************************)
(* Properties                                                              *)
(***************************************************************************)
TypeInv ==
    /\ \A c \in cache : c.id \in 1 .. instances /\ Compiles(c.ops)
    /\ instances \in 0 .. MaxInstances /\ clears \in 0 .. MaxClears
    /\ node \in [Executions -> Nodes]
    /\ stage \in [Executions -> Stages] /\ phase \in [Executions -> Phases]
    /\ \A e \in Executions :
        /\ doc[e] \in Documents \cup {{}}
        /\ held[e].id \in 0 .. instances
        /\ phase[e] = "compiled" => held[e].id > 0

\* The mappings of a node, put into one shift and a list of operations and run
\* by a compiled specification that other executions share, give each target
\* what its own mapping says, in whatever order the shift visits them
\* (mapper.go, BuildKazaamSpec; service.go, getOrCreateKazaam).
MappedAsMeant ==
    \A e \in Executions :
        (Ended(e) /\ out[e].result = "ok" /\ Clean(Mappings(e)))
            => out[e].doc = Meaning(Mappings(e), doc[e])

\* No stage completes without a field that one of its mappings requires: the
\* executor is never called with null for it (mapper.go, hasRequired).
RequiredIsThere ==
    \A e \in Executions :
        (Ended(e) /\ out[e].result = "ok")
            => \A i \in DOMAIN Mappings(e) :
                   LET m == Mappings(e)[i]
                       Overwritten == \E j \in i + 1 .. Len(Mappings(e)) : Mappings(e)[j].target = m.target
                   IN  (m.required /\ IsMoved(m) /\ ~Overwritten) => Present(m, doc[e])

\* A specification that was accepted with its workflow is not refused when the
\* workflow runs (workflow_validation.go, ValidateNodeTransformations, and
\* service.go, getOrCreateKazaam, ask the same thing of the same nodes).
AcceptedCompiles == \A e \in Executions : Ended(e) => out[e].result # "invalid"

\* One compiled specification for one text: while an entry stays in the cache
\* nobody puts another in its place, however many executions miss it at once
\* (service.go, the second look under the write lock).
CompiledOnce ==
    [][\A c \in cache, d \in cache' : c.key = d.key => c = d]_vars

\* Only a required field may be missing to the harm of the stage
\* (workflow_node.go, Required: "If true, source must exist").
OptionalMayBeMissing ==
    \A e \in Executions :
        (Ended(e) /\ Clean(Mappings(e))
            /\ \A i \in DOMAIN Mappings(e) :
                   Mappings(e)[i].required => Present(Mappings(e)[i], doc[e]))
            => out[e].result = "ok"

\* What was accepted with its workflow has the shape it needs to run: no stage
\* fails for the way its operations are written (mapper.go,
\* ValidateOperations: "form a valid transformation spec").
AcceptedIsComplete ==
    \A e \in Executions : Ended(e) => out[e].result \notin {"configuration", "panic"}
=============================================================================
