--------------------------- MODULE WorkflowsProofs ---------------------------
(***************************************************************************)
(* Theorems about module Workflows, for every set of workflows, requests,  *)
(* definitions and routes, and for all bounds.                             *)
(***************************************************************************)
EXTENDS MCWorkflows, FiniteSetTheorems, TLAPS

-----------------------------------------------------------------------------
(* The helpers *)

Stages == {"idle", "register", "save", "unregister"}

LEMMA NoDocType == NoDoc \in Docs
  BY ConstantsAssumption DEF NoDoc, AnyDefinition, Docs, Statuses

LEMMA IdleType == Idle \in CallRecords /\ Idle.pc = "idle"
  BY ConstantsAssumption, NoDocType DEF Idle, CallRecords, Operations, Statuses

LEMMA FaultType == ASSUME TypeOK, Fault PROVE faults' \in 0..MaxFaults /\ faults' # 0
  BY ConstantsAssumption DEF Fault, TypeOK

\* Moving a request on changes its stage only.
LEMMA MoveType ==
  ASSUME NEW r \in CallRecords, NEW pc \in Stages
  PROVE  /\ [r EXCEPT !.pc = pc] \in CallRecords
         /\ [r EXCEPT !.pc = pc].pc = pc
         /\ [r EXCEPT !.pc = pc].op = r.op
         /\ [r EXCEPT !.pc = pc].w = r.w
         /\ [r EXCEPT !.pc = pc].expected = r.expected
         /\ [r EXCEPT !.pc = pc].doc = r.doc
         /\ [r EXCEPT !.pc = pc].pos = r.pos
  BY DEF CallRecords, Stages

LEMMA AdvanceType ==
  ASSUME NEW r \in CallRecords
  PROVE  /\ [r EXCEPT !.pos = @ + 1] \in CallRecords
         /\ [r EXCEPT !.pos = @ + 1].pc = r.pc
         /\ [r EXCEPT !.pos = @ + 1].op = r.op
         /\ [r EXCEPT !.pos = @ + 1].w = r.w
         /\ [r EXCEPT !.pos = @ + 1].expected = r.expected
         /\ [r EXCEPT !.pos = @ + 1].doc = r.doc
         /\ [r EXCEPT !.pos = @ + 1].pos = r.pos + 1
  <1>1. r.pos + 1 \in Nat \ {0}
    <2>1. r.pos \in Nat
      BY DEF CallRecords
    <2>2. QED
      BY <2>1
  <1>2. QED
    BY <1>1 DEF CallRecords

LEMMA BecomeType ==
  ASSUME TypeOK, NEW c \in Calls, NEW pc \in Stages, Become(c, pc)
  PROVE  /\ call' \in [Calls -> CallRecords]
         /\ call'[c].pc = pc
         /\ \A b \in Calls : b # c => call'[b] = call[b]
         /\ pc # "idle" => /\ call'[c].op = call[c].op
                           /\ call'[c].w = call[c].w
                           /\ call'[c].expected = call[c].expected
                           /\ call'[c].doc = call[c].doc
                           /\ call'[c].pos = call[c].pos
  <1>1. call \in [Calls -> CallRecords] /\ call[c] \in CallRecords
    BY DEF TypeOK
  <1>2. CASE pc = "idle"
    <2>1. call' = [call EXCEPT ![c] = Idle]
      BY <1>2 DEF Become
    <2>2. QED
      BY <1>1, <1>2, <2>1, IdleType
  <1>3. CASE pc # "idle"
    <2> DEFINE u == [call[c] EXCEPT !.pc = pc]
    <2>1. call' = [call EXCEPT ![c] = u]
      BY <1>3 DEF Become
    <2>2. /\ u \in CallRecords
          /\ u.pc = pc
          /\ u.op = call[c].op
          /\ u.w = call[c].w
          /\ u.expected = call[c].expected
          /\ u.doc = call[c].doc
          /\ u.pos = call[c].pos
      BY <1>1, MoveType
    <2> HIDE DEF u
    <2>3. call' \in [Calls -> CallRecords] /\ call'[c] = u
          /\ \A b \in Calls : b # c => call'[b] = call[b]
      BY <1>1, <2>1, <2>2
    <2>4. QED
      BY <2>2, <2>3, Zenon
  <1>4. QED
    BY <1>2, <1>3

LEMMA AfterSaveType ==
  ASSUME NEW op, NEW saved
  PROVE  AfterSave(op, saved) \in {"unregister", "idle"}
  BY DEF AfterSave

\* The write replaces one document by the copy of the request.
LEMMA WriteType ==
  ASSUME TypeOK, NEW c \in Calls, Write(c)
  PROVE  /\ db' \in [Workflows -> Docs]
         /\ db'[call[c].w] = call[c].doc
         /\ \A v \in Workflows : v # call[c].w => db'[v] = db[v]
  <1>1. call[c].w \in Workflows /\ call[c].doc \in Docs /\ db \in [Workflows -> Docs]
    BY DEF TypeOK, CallRecords
  <1>2. QED
    BY <1>1 DEF Write

\* Save: the document is the copy, or it stays; it is the copy only if the
\* stored status was the expected one.
LEMMA SaveEffect ==
  ASSUME TypeOK, NEW c \in Calls, Save(c)
  PROVE  /\ db' \in [Workflows -> Docs]
         /\ faults' \in 0..MaxFaults
         /\ call' \in [Calls -> CallRecords]
         /\ \A b \in Calls : b # c => call'[b] = call[b]
         /\ \A v \in Workflows : v # call[c].w => db'[v] = db[v]
         /\ call'[c].pc \in {"unregister", "idle"}
         /\ call'[c].pc = "unregister" => call'[c].w = call[c].w
         /\ db' = db \/ (/\ db[call[c].w].status = call[c].expected
                         /\ db'[call[c].w] = call[c].doc)
         /\ \/ faults' # 0
            \/ /\ faults' = faults
               /\ \/ /\ db[call[c].w].status = call[c].expected
                     /\ db'[call[c].w] = call[c].doc
                     /\ call'[c].pc = AfterSave(call[c].op, TRUE)
                  \/ /\ db' = db
                     /\ call'[c].pc = AfterSave(call[c].op, FALSE)
  <1>1. CASE /\ Matches(call[c].w, call[c].expected)
             /\ Write(c)
             /\ Become(c, AfterSave(call[c].op, TRUE))
             /\ UNCHANGED faults
    <2>1. AfterSave(call[c].op, TRUE) \in Stages \ {"register", "save"}
      BY DEF AfterSave, Stages
    <2> DEFINE s == AfterSave(call[c].op, TRUE)
    <2>2. s \in Stages /\ s \in {"unregister", "idle"} /\ Become(c, s)
      BY <1>1, <2>1 DEF Stages
    <2> HIDE DEF s
    <2>3. /\ call' \in [Calls -> CallRecords]
          /\ call'[c].pc = s
          /\ \A b \in Calls : b # c => call'[b] = call[b]
          /\ s # "idle" => call'[c].w = call[c].w
      BY <2>2, BecomeType
    <2>4. QED
      BY <1>1, <2>2, <2>3, WriteType DEF Matches, TypeOK, s
  <1>2. CASE /\ ~Matches(call[c].w, call[c].expected)
             /\ Become(c, AfterSave(call[c].op, FALSE))
             /\ UNCHANGED <<db, faults>>
    <2> DEFINE s == AfterSave(call[c].op, FALSE)
    <2>2. s \in Stages /\ s \in {"unregister", "idle"} /\ Become(c, s)
      BY <1>2 DEF Stages, AfterSave
    <2> HIDE DEF s
    <2>3. /\ call' \in [Calls -> CallRecords]
          /\ call'[c].pc = s
          /\ \A b \in Calls : b # c => call'[b] = call[b]
          /\ s # "idle" => call'[c].w = call[c].w
      BY <2>2, BecomeType
    <2>4. QED
      BY <1>2, <2>2, <2>3 DEF TypeOK, s
  <1>3. CASE /\ Fault
             /\ UNCHANGED db \/ (Matches(call[c].w, call[c].expected) /\ Write(c))
             /\ Become(c, AfterSave(call[c].op, FALSE))
    <2> DEFINE s == AfterSave(call[c].op, FALSE)
    <2>2. s \in Stages /\ s \in {"unregister", "idle"} /\ Become(c, s)
      BY <1>3 DEF Stages, AfterSave
    <2> HIDE DEF s
    <2>3. /\ call' \in [Calls -> CallRecords]
          /\ call'[c].pc = s
          /\ \A b \in Calls : b # c => call'[b] = call[b]
          /\ s # "idle" => call'[c].w = call[c].w
      BY <2>2, BecomeType
    <2>4. faults' \in 0..MaxFaults /\ faults' # 0
      BY <1>3, FaultType
    <2>5. CASE UNCHANGED db
      BY <2>2, <2>3, <2>4, <2>5 DEF TypeOK
    <2>6. CASE Matches(call[c].w, call[c].expected) /\ Write(c)
      BY <2>2, <2>3, <2>4, <2>6, WriteType DEF Matches
    <2>7. QED
      BY <1>3, <2>5, <2>6
  <1>4. QED
    BY <1>1, <1>2, <1>3 DEF Save

LEMMA PopulateEffect ==
  ASSUME NEW S \in SUBSET ActiveWorkflows, NEW order \in Listings(S),
         PopulateFrom(order)
  PROVE  /\ registry' \in [Keys -> Workflows \cup {Free}]
         /\ \A k \in Keys : registry'[k] # Free =>
              db[registry'[k]].status = "active" /\ k \in KeysOf(db[registry'[k]].def)
  <1>1. registry' \in [Keys -> Workflows \cup {Free}]
    BY DEF PopulateFrom
  <1>2. ASSUME NEW k \in Keys, registry'[k] # Free
        PROVE  db[registry'[k]].status = "active" /\ k \in KeysOf(db[registry'[k]].def)
    <2>1. FirstWith(order, k, registry'[k])
      BY DEF PopulateFrom
    <2>2. PICK i \in DOMAIN order : registry'[k] = order[i] /\ k \in KeysOf(db[registry'[k]].def)
      BY <1>2, <2>1 DEF FirstWith
    <2>3. order[i] \in ActiveWorkflows
      BY DEF Listings
    <2>4. QED
      BY <2>2, <2>3 DEF ActiveWorkflows
  <1>3. QED
    BY <1>1, <1>2

-----------------------------------------------------------------------------
(* Types *)

LEMMA LoadEffect ==
  ASSUME TypeOK, NEW c \in Calls, NEW op \in Operations, NEW w \in Workflows,
         NEW d \in Definitions, Load(c, op, w, d)
  PROVE  /\ call' \in [Calls -> CallRecords]
         /\ \A b \in Calls : b # c => call'[b] = call[b]
         /\ <<call'[c].op, call'[c].expected, call'[c].doc.status>> \in Transitions
         /\ call'[c].pc \in {"register", "save"}
         /\ call'[c].pc = "register" => call'[c].op = "activate"
         /\ call'[c].op = "activate" => call'[c].doc.def \in Valid
  <1>1. PICK to \in Statuses :
          /\ <<op, db[w].status, to>> \in Transitions
          /\ call' = [call EXCEPT ![c] =
               [pc |-> IF op = "activate" THEN "register" ELSE "save",
                op |-> op, w |-> w, expected |-> db[w].status,
                doc |-> [status |-> to, def |-> DefinitionAfter(op, w, d)],
                pos |-> 1]]
    BY DEF Load
  <1> DEFINE u == [pc |-> IF op = "activate" THEN "register" ELSE "save",
                   op |-> op, w |-> w, expected |-> db[w].status,
                   doc |-> [status |-> to, def |-> DefinitionAfter(op, w, d)],
                   pos |-> 1]
  <1>2. DefinitionAfter(op, w, d) \in Definitions /\ db[w].status \in Statuses
    BY DEF DefinitionAfter, TypeOK, Docs
  <1>3. u \in CallRecords
    BY <1>2 DEF CallRecords, Docs
  <1>4. /\ <<u.op, u.expected, u.doc.status>> \in Transitions
        /\ u.pc \in {"register", "save"}
        /\ u.pc = "register" => u.op = "activate"
    BY <1>1
  <1>5. u.op = "activate" => u.doc.def \in Valid
    BY DEF Load, Accepts, DefinitionAfter
  <1>6. call' = [call EXCEPT ![c] = u] /\ call \in [Calls -> CallRecords]
    BY <1>1 DEF TypeOK
  <1> HIDE DEF u
  <1>7. call'[c] = u /\ call' \in [Calls -> CallRecords]
        /\ \A b \in Calls : b # c => call'[b] = call[b]
    BY <1>3, <1>6
  <1>8. QED
    BY <1>4, <1>5, <1>7, Zenon

\* Register moves the request on, or adds the next route of its copy.
LEMMA RegisterEffect ==
  ASSUME TypeOK, NEW c \in Calls, Register(c)
  PROVE  /\ call' \in [Calls -> CallRecords]
         /\ registry' \in [Keys -> Workflows \cup {Free}]
         /\ \A b \in Calls : b # c => call'[b] = call[b]
         /\ call'[c].pc \in {"register", "save", "unregister"}
         /\ call'[c].op = call[c].op
         /\ call'[c].w = call[c].w
         /\ call'[c].expected = call[c].expected
         /\ call'[c].doc = call[c].doc
         /\ \/ registry' = registry /\ call'[c].pos = call[c].pos
            \/ /\ call[c].pos \in DOMAIN Routes[call[c].doc.def]
               /\ call'[c].pc = "register"
               /\ call'[c].pos = call[c].pos + 1
               /\ \A k \in Keys : registry'[k] = registry[k]
                    \/ (/\ k = RouteKey[Routes[call[c].doc.def][call[c].pos]]
                        /\ registry'[k] = call[c].w)
  <1> DEFINE routes == Routes[call[c].doc.def]
             k0 == RouteKey[routes[call[c].pos]]
  <1>1. call \in [Calls -> CallRecords] /\ call[c] \in CallRecords
        /\ registry \in [Keys -> Workflows \cup {Free}]
    BY DEF TypeOK
  <1>2. /\ call[c].w \in Workflows /\ call[c].pos \in Nat \ {0}
        /\ routes \in Seq(DOMAIN RouteKey)
    BY <1>1, ConstantsAssumption DEF CallRecords, Docs
  <1>3. CASE call[c].pos > Len(routes) /\ Become(c, "save") /\ UNCHANGED registry
    BY <1>1, <1>3, BecomeType DEF Stages
  <1>4. CASE /\ call[c].pos <= Len(routes)
             /\ registry' = [registry EXCEPT ![k0] = call[c].w]
             /\ call' = [call EXCEPT ![c].pos = @ + 1]
    <2>1. call[c].pos \in DOMAIN routes /\ routes[call[c].pos] \in DOMAIN RouteKey
      <3> HIDE DEF routes
      <3>1. call[c].pos \in 1..Len(routes)
        BY <1>2, <1>4
      <3>2. QED
        BY <1>2, <3>1
    <2>2. k0 \in Keys
      BY <2>1, ConstantsAssumption
    <2> DEFINE u == [call[c] EXCEPT !.pos = @ + 1]
    <2>3. call' = [call EXCEPT ![c] = u]
      BY <1>4
    <2>4. /\ u \in CallRecords
          /\ u.pc = call[c].pc
          /\ u.op = call[c].op
          /\ u.w = call[c].w
          /\ u.expected = call[c].expected
          /\ u.doc = call[c].doc
          /\ u.pos = call[c].pos + 1
      BY <1>1, AdvanceType
    <2> HIDE DEF u
    <2>5. call' \in [Calls -> CallRecords] /\ call'[c] = u
          /\ \A b \in Calls : b # c => call'[b] = call[b]
      BY <1>1, <2>3, <2>4
    <2>6. call[c].pc = "register"
      BY DEF Register
    <2>7. registry' \in [Keys -> Workflows \cup {Free}]
          /\ \A k \in Keys : registry'[k] = registry[k] \/ (k = k0 /\ registry'[k] = call[c].w)
      BY <1>1, <1>2, <1>4, <2>2
    <2>8. /\ call[c].pos \in DOMAIN Routes[call[c].doc.def]
          /\ \A k \in Keys : registry'[k] = registry[k]
               \/ (/\ k = RouteKey[Routes[call[c].doc.def][call[c].pos]]
                   /\ registry'[k] = call[c].w)
      BY <2>1, <2>7
    <2>9. /\ call'[c].pc = "register" /\ call'[c].op = call[c].op
          /\ call'[c].w = call[c].w /\ call'[c].expected = call[c].expected
          /\ call'[c].doc = call[c].doc /\ call'[c].pos = call[c].pos + 1
      BY <2>4, <2>5, <2>6, Zenon
    <2> HIDE DEF routes, k0
    <2>10. QED
      BY <2>5, <2>7, <2>8, <2>9
  <1>5. CASE Become(c, "unregister") /\ UNCHANGED registry
    BY <1>1, <1>5, BecomeType DEF Stages
  <1>6. QED
    BY <1>3, <1>4, <1>5 DEF Register
LEMMA CreateEffect ==
  ASSUME TypeOK, NEW w \in Workflows, NEW d \in Definitions, Create(w, d)
  PROVE  /\ db' \in [Workflows -> Docs]
         /\ db[w].status = "absent"
         /\ db'[w].status = "draft"
         /\ \A v \in Workflows : v # w => db'[v] = db[v]
         /\ UNCHANGED <<registry, call, up, faults, crashes>>
  BY DEF Create, TypeOK, Docs, Statuses

LEMMA UnregisterEffect ==
  ASSUME TypeOK, NEW c \in Calls, UnregisterRoutes(c)
  PROVE  /\ call' \in [Calls -> CallRecords]
         /\ call'[c].pc = "idle"
         /\ \A b \in Calls : b # c => call'[b] = call[b]
         /\ registry' \in [Keys -> Workflows \cup {Free}]
         /\ \A k \in Keys : \/ registry'[k] = Free
                            \/ registry'[k] = registry[k] /\ registry[k] # call[c].w
         /\ UNCHANGED <<db, up, faults, crashes>>
  <1>1. /\ call' \in [Calls -> CallRecords]
        /\ call'[c].pc = "idle"
        /\ \A b \in Calls : b # c => call'[b] = call[b]
    BY BecomeType DEF UnregisterRoutes, Stages
  <1>2. QED
    BY <1>1 DEF UnregisterRoutes, Unregister, TypeOK

LEMMA StartEffect ==
  ASSUME TypeOK, Start
  PROVE  /\ registry' \in [Keys -> Workflows \cup {Free}]
         /\ \A k \in Keys : registry'[k] # Free =>
              db[registry'[k]].status = "active" /\ k \in KeysOf(db[registry'[k]].def)
         /\ faults' \in 0..MaxFaults
         /\ up' \in BOOLEAN
         /\ UNCHANGED <<db, call, crashes>>
  <1>1. PICK S \in FirstPages \cup {{}} :
          /\ \E order \in Listings(S) : PopulateFrom(order)
          /\ \/ S \in FirstPages /\ UNCHANGED faults
             \/ S = {} /\ Fault
    BY DEF Start
  <1>2. S \in SUBSET ActiveWorkflows
    BY <1>1 DEF FirstPages
  <1>3. faults' \in 0..MaxFaults
    BY <1>1, FaultType DEF TypeOK
  <1>4. QED
    BY <1>1, <1>2, <1>3, PopulateEffect DEF Start

LEMMA CrashEffect ==
  ASSUME TypeOK, Crash
  PROVE  /\ call' \in [Calls -> CallRecords]
         /\ \A c \in Calls : call'[c].pc = "idle"
         /\ \A k \in Keys : registry'[k] = Free
         /\ registry' \in [Keys -> Workflows \cup {Free}]
         /\ crashes' \in 0..MaxCrashes
         /\ up' \in BOOLEAN
         /\ UNCHANGED <<db, faults>>
  <1>1. call' \in [Calls -> CallRecords] /\ \A c \in Calls : call'[c].pc = "idle"
    BY IdleType, Zenon DEF Crash
  <1>2. crashes' \in 0..MaxCrashes
    BY ConstantsAssumption DEF Crash, TypeOK
  <1>3. registry' \in [Keys -> Workflows \cup {Free}] /\ \A k \in Keys : registry'[k] = Free
    BY DEF Crash
  <1>4. QED
    BY <1>1, <1>2, <1>3 DEF Crash

\* Create and Clone are the only actions without a slot of a request, apart
\* from crash and start.
LEMMA Steps ==
  ASSUME Next
  PROVE  \/ \E w \in Workflows, d \in Definitions : Create(w, d)
         \/ \E w, v \in Workflows : Clone(w, v)
         \/ \E c \in Calls, op \in Operations, w \in Workflows, d \in Definitions :
              Load(c, op, w, d)
         \/ \E c \in Calls : Register(c)
         \/ \E c \in Calls : Save(c)
         \/ \E c \in Calls : UnregisterRoutes(c)
         \/ Crash
         \/ Start
  BY DEF Next, Command

\* A clone is a creation.
LEMMA CloneCreates ==
  ASSUME TypeOK, NEW w \in Workflows, NEW v \in Workflows, Clone(w, v)
  PROVE  db[v].def \in Definitions /\ Create(w, db[v].def)
  BY DEF Clone, TypeOK, Docs

LEMMA TypeStep == TypeOK /\ [Next]_vars => TypeOK'
  <1> SUFFICES ASSUME TypeOK, [Next]_vars PROVE TypeOK'
    OBVIOUS
  <1>1. CASE UNCHANGED vars
    BY <1>1 DEF vars, TypeOK
  <1>2. ASSUME NEW w \in Workflows, NEW d \in Definitions, Create(w, d) PROVE TypeOK'
    BY <1>2, CreateEffect DEF TypeOK
  <1>3. ASSUME NEW w \in Workflows, NEW v \in Workflows, Clone(w, v) PROVE TypeOK'
    BY <1>2, <1>3, CloneCreates
  <1>4. ASSUME NEW c \in Calls, NEW op \in Operations, NEW w \in Workflows,
               NEW d \in Definitions, Load(c, op, w, d)
        PROVE  TypeOK'
    BY <1>4, LoadEffect DEF TypeOK, Load
  <1>5. ASSUME NEW c \in Calls, Register(c) PROVE TypeOK'
    BY <1>5, RegisterEffect DEF TypeOK, Register
  <1>6. ASSUME NEW c \in Calls, Save(c) PROVE TypeOK'
    BY <1>6, SaveEffect DEF TypeOK, Save
  <1>7. ASSUME NEW c \in Calls, UnregisterRoutes(c) PROVE TypeOK'
    BY <1>7, UnregisterEffect DEF TypeOK
  <1>8. CASE Crash
    BY <1>8, CrashEffect DEF TypeOK
  <1>9. CASE Start
    BY <1>9, StartEffect DEF TypeOK
  <1>10. QED
    BY <1>1, <1>2, <1>3, <1>4, <1>5, <1>6, <1>7, <1>8, <1>9, Steps

-----------------------------------------------------------------------------
(* The copies in flight are coherent and active definitions are valid *)

AllCoherent == \A c \in Calls : Coherent(call[c])

LEMMA CoherentStep == TypeOK /\ AllCoherent /\ [Next]_vars => AllCoherent'
  <1> SUFFICES ASSUME TypeOK, AllCoherent, [Next]_vars PROVE AllCoherent'
    OBVIOUS
  <1>1. CASE UNCHANGED call
    BY <1>1 DEF AllCoherent
  <1>2. ASSUME NEW c \in Calls, NEW op \in Operations, NEW w \in Workflows,
               NEW d \in Definitions, Load(c, op, w, d)
        PROVE  AllCoherent'
    BY <1>2, LoadEffect DEF AllCoherent, Coherent
  <1>3. ASSUME NEW c \in Calls, Register(c) PROVE AllCoherent'
    <2>1. call[c].pc = "register" /\ Coherent(call[c])
      BY <1>3 DEF Register, AllCoherent
    <2>2. QED
      BY <1>3, <2>1, RegisterEffect DEF AllCoherent, Coherent
  <1>4. ASSUME NEW c \in Calls, Save(c) PROVE AllCoherent'
    BY <1>4, SaveEffect DEF AllCoherent, Coherent
  <1>5. ASSUME NEW c \in Calls, UnregisterRoutes(c) PROVE AllCoherent'
    BY <1>5, UnregisterEffect DEF AllCoherent, Coherent
  <1>6. CASE Crash
    BY <1>6, CrashEffect DEF AllCoherent, Coherent
  <1>7. QED
    BY <1>1, <1>2, <1>3, <1>4, <1>5, <1>6, Steps DEF Create, Clone, Start, vars

LEMMA ValidStep ==
  TypeOK /\ AllCoherent /\ ActiveIsValid /\ [Next]_vars => ActiveIsValid'
  <1> SUFFICES ASSUME TypeOK, AllCoherent, ActiveIsValid, [Next]_vars
               PROVE  ActiveIsValid'
    OBVIOUS
  <1>1. CASE UNCHANGED db
    BY <1>1 DEF ActiveIsValid, ActiveWorkflows
  <1>2. ASSUME NEW w \in Workflows, NEW d \in Definitions, Create(w, d)
        PROVE  ActiveIsValid'
    BY <1>2, CreateEffect DEF ActiveIsValid, ActiveWorkflows
  <1>3. ASSUME NEW w \in Workflows, NEW v \in Workflows, Clone(w, v)
        PROVE  ActiveIsValid'
    BY <1>2, <1>3, CloneCreates
  <1>4. ASSUME NEW c \in Calls, Save(c) PROVE ActiveIsValid'
    <2>1. /\ <<call[c].op, call[c].expected, call[c].doc.status>> \in Transitions
          /\ call[c].op = "activate" => call[c].doc.def \in Valid
      BY <1>4 DEF AllCoherent, Coherent, Save
    <2>2. call[c].doc.status = "active" => call[c].doc.def \in Valid
      BY <2>1 DEF Transitions
    <2>3. QED
      BY <1>4, <2>2, SaveEffect DEF ActiveIsValid, ActiveWorkflows
  <1>5. QED
    BY <1>1, <1>2, <1>3, <1>4, Steps
       DEF Load, Register, UnregisterRoutes, Crash, Start, vars
-----------------------------------------------------------------------------
(* Where the routes of the registry come from *)

Explained == \A k \in Keys, w \in Workflows :
  registry[k] = w => Declared(w, k) \/ Pending(w, k)

\* A request that stays as it is keeps what it explains.
Explains(c, w, k) ==
  /\ call[c].w = w
  /\ \/ call[c].pc = "unregister"
     \/ /\ call[c].pc \in {"register", "save"}
        /\ call[c].op = "activate"
        /\ \E i \in 1..call[c].pos - 1 :
             /\ i \in DOMAIN Routes[call[c].doc.def]
             /\ k = RouteKey[Routes[call[c].doc.def][i]]

LEMMA PendingIsExplained ==
  /\ \A w, k : Pending(w, k) <=> \E c \in Calls : Explains(c, w, k)
  /\ \A w, k : Pending(w, k)' <=> \E c \in Calls : Explains(c, w, k)'
  BY DEF Pending, Explains

LEMMA SameExplains ==
  ASSUME NEW c \in Calls, call'[c] = call[c], NEW w, NEW k, Explains(c, w, k)
  PROVE  Explains(c, w, k)'
  BY DEF Explains

\* A request explains only routes of the copy it carries.
LEMMA ExplainedKey ==
  ASSUME TypeOK, NEW c \in Calls, NEW w, NEW k, Explains(c, w, k),
         call[c].pc # "unregister"
  PROVE  /\ call[c].op = "activate"
         /\ call[c].pc \in {"register", "save"}
         /\ k \in KeysOf(call[c].doc.def)
  BY DEF Explains, KeysOf

LEMMA RegisterExplains ==
  ASSUME TypeOK, AllCoherent, Explained, NEW c \in Calls, Register(c)
  PROVE  Explained'
  <1> SUFFICES ASSUME NEW k \in Keys, NEW w \in Workflows, registry'[k] = w
               PROVE  Declared(w, k)' \/ Pending(w, k)'
    BY DEF Explained
  <1>1. UNCHANGED db /\ call[c].pc = "register" /\ call[c].op = "activate"
    BY DEF Register, AllCoherent, Coherent
  <1>2. call[c].pos \in Nat /\ call'[c].pos \in Nat /\ call[c].pos # 0
        /\ call'[c].pos >= call[c].pos
    BY RegisterEffect DEF TypeOK, CallRecords
  <1>3. ASSUME Explains(c, w, k) PROVE Explains(c, w, k)'
    <2>1. PICK i \in 1..call[c].pos - 1 :
             /\ i \in DOMAIN Routes[call[c].doc.def]
             /\ k = RouteKey[Routes[call[c].doc.def][i]]
      BY <1>1, <1>3 DEF Explains
    <2>2. i \in 1..call'[c].pos - 1
      BY <1>2
    <2>3. call'[c].w = w
      BY <1>3, RegisterEffect DEF Explains
    <2>4. QED
      BY <1>1, <2>1, <2>2, <2>3, RegisterEffect DEF Explains
  <1>4. CASE registry'[k] = registry[k]
    <2>1. CASE Declared(w, k)
      BY <1>1, <1>4, <2>1 DEF Declared
    <2>2. CASE Pending(w, k)
      <3>1. PICK b \in Calls : Explains(b, w, k)
        BY <2>2, PendingIsExplained
      <3>2. Explains(b, w, k)'
        BY <1>3, <3>1, SameExplains, RegisterEffect
      <3>3. QED
        BY <3>2, PendingIsExplained
    <2>3. QED
      BY <1>4, <2>1, <2>2 DEF Explained
  <1>5. CASE registry'[k] # registry[k]
    <2>1. /\ call[c].pos \in DOMAIN Routes[call[c].doc.def]
          /\ call'[c].pc = "register"
          /\ call'[c].pos = call[c].pos + 1
          /\ k = RouteKey[Routes[call[c].doc.def][call[c].pos]]
          /\ registry'[k] = call[c].w
      BY <1>5, RegisterEffect
    <2>2. call[c].pos \in 1..call'[c].pos - 1
      <3>1. \A n \in Nat : n # 0 => n \in 1..(n + 1) - 1
        OBVIOUS
      <3>2. QED
        BY <1>2, <2>1, <3>1, Zenon
    <2>3. Explains(c, w, k)'
      BY <1>1, <2>1, <2>2, RegisterEffect DEF Explains
    <2>4. QED
      BY <2>3, PendingIsExplained
  <1>6. QED
    BY <1>4, <1>5

\* A write that stores the copy of an activation makes its routes declared;
\* any other end of a command that matters removes the routes.
LEMMA SaveExplains ==
  ASSUME TypeOK, AllCoherent, Explained, NEW c \in Calls, Save(c), faults' = 0
  PROVE  Explained'
  <1> SUFFICES ASSUME NEW k \in Keys, NEW w \in Workflows, registry'[k] = w
               PROVE  Declared(w, k)' \/ Pending(w, k)'
    BY DEF Explained
  <1>1. registry' = registry /\ call[c].pc = "save"
        /\ <<call[c].op, call[c].expected, call[c].doc.status>> \in Transitions
    BY DEF Save, AllCoherent, Coherent
  <1>2. registry[k] = w
    BY <1>1
  <1>3. ASSUME call'[c].pc = "unregister", w = call[c].w PROVE Pending(w, k)'
    <2>1. call'[c].w = w
      BY <1>3, SaveEffect
    <2>2. Explains(c, w, k)'
      BY <1>3, <2>1 DEF Explains
    <2>3. QED
      BY <2>2, PendingIsExplained
  <1>4. ASSUME NEW b \in Calls, Explains(b, w, k), b # c PROVE Pending(w, k)'
    BY <1>4, SameExplains, SaveEffect, PendingIsExplained
  <1>5. CASE Declared(w, k)
    <2>1. CASE db' = db
      BY <1>2, <1>5, <2>1 DEF Declared
    <2>2. CASE w # call[c].w
      BY <1>2, <1>5, <2>2, SaveEffect DEF Declared
    <2>3. CASE db' # db /\ w = call[c].w
      <3>1. call[c].expected = "active" /\ call'[c].pc = AfterSave(call[c].op, TRUE)
        BY <1>5, <2>3, SaveEffect DEF Declared
      <3>2. call[c].op = "deactivate"
        BY <1>1, <3>1 DEF Transitions
      <3>3. call'[c].pc = "unregister"
        BY <3>1, <3>2 DEF AfterSave
      <3>4. QED
        BY <1>2, <1>3, <2>3, <3>3
    <2>4. QED
      BY <2>1, <2>2, <2>3
  <1>6. CASE Explains(c, w, k)
    <2>1. call[c].op = "activate" /\ k \in KeysOf(call[c].doc.def) /\ w = call[c].w
      BY <1>1, <1>6, ExplainedKey DEF Explains
    <2>2. call[c].doc.status = "active"
      BY <1>1, <2>1 DEF Transitions
    <2>3. CASE db'[w] = call[c].doc
      BY <1>2, <2>1, <2>2, <2>3 DEF Declared
    <2>4. CASE call'[c].pc = AfterSave(call[c].op, FALSE)
      BY <1>2, <1>3, <2>1, <2>4 DEF AfterSave
    <2>5. QED
      BY <2>1, <2>3, <2>4, SaveEffect
  <1>7. QED
    BY <1>2, <1>4, <1>5, <1>6, PendingIsExplained DEF Explained

LEMMA ExplainedStep ==
  ASSUME TypeOK, AllCoherent, Explained, [Next]_vars, faults' = 0
  PROVE  Explained'
  <1>1. ASSUME UNCHANGED registry, UNCHANGED db,
               \A b \in Calls : call'[b] = call[b] \/ call[b].pc = "idle"
        PROVE  Explained'
    <2> SUFFICES ASSUME NEW k \in Keys, NEW w \in Workflows, registry'[k] = w
                 PROVE  Declared(w, k)' \/ Pending(w, k)'
      BY <1>1 DEF Explained
    <2>1. CASE Declared(w, k)
      BY <1>1, <2>1 DEF Declared
    <2>2. CASE Pending(w, k)
      <3>1. PICK b \in Calls : Explains(b, w, k)
        BY <2>2, PendingIsExplained
      <3>2. call'[b] = call[b]
        BY <1>1, <3>1 DEF Explains
      <3>3. Explains(b, w, k)'
        BY <1>1, <3>1, <3>2 DEF Explains
      <3>4. QED
        BY <1>1, <3>3, PendingIsExplained
    <2>3. QED
      BY <1>1, <2>1, <2>2 DEF Explained
  <1>2. ASSUME NEW w \in Workflows, NEW d \in Definitions, Create(w, d)
        PROVE  Explained'
    BY <1>2, CreateEffect DEF Explained, Declared, Pending, TypeOK
  <1>3. ASSUME NEW w \in Workflows, NEW v \in Workflows, Clone(w, v)
        PROVE  Explained'
    BY <1>2, <1>3, CloneCreates
  <1>4. ASSUME NEW c \in Calls, NEW op \in Operations, NEW w \in Workflows,
               NEW d \in Definitions, Load(c, op, w, d)
        PROVE  Explained'
    BY <1>1, <1>4, LoadEffect DEF Load
  <1>5. ASSUME NEW c \in Calls, Register(c) PROVE Explained'
    BY <1>5, RegisterExplains
  <1>6. ASSUME NEW c \in Calls, Save(c) PROVE Explained'
    BY <1>6, SaveExplains
  <1>7. ASSUME NEW c \in Calls, UnregisterRoutes(c) PROVE Explained'
    <2> SUFFICES ASSUME NEW k \in Keys, NEW w \in Workflows, registry'[k] = w
                 PROVE  Declared(w, k)' \/ Pending(w, k)'
      BY DEF Explained
    <2>1. registry'[k] = registry[k] /\ registry[k] # call[c].w /\ UNCHANGED db
      BY <1>7, UnregisterEffect, ConstantsAssumption
    <2>2. CASE Declared(w, k)
      BY <2>1, <2>2 DEF Declared
    <2>3. CASE Pending(w, k)
      <3>1. PICK b \in Calls : Explains(b, w, k)
        BY <2>3, PendingIsExplained
      <3>2. b # c
        BY <2>1, <3>1 DEF Explains
      <3>3. call'[b] = call[b]
        BY <1>7, <3>2, UnregisterEffect
      <3>4. Explains(b, w, k)'
        BY <2>1, <3>1, <3>3 DEF Explains
      <3>5. QED
        BY <3>4, PendingIsExplained
    <2>4. QED
      BY <2>1, <2>2, <2>3 DEF Explained
  <1>8. CASE Crash
    BY <1>8, CrashEffect, ConstantsAssumption DEF Explained
  <1>9. CASE Start
    <2>1. ASSUME NEW k \in Keys, NEW w \in Workflows, registry'[k] = w
          PROVE  Declared(w, k)'
      <3>1. w # Free
        BY ConstantsAssumption
      <3>2. QED
        BY <1>9, <2>1, <3>1, StartEffect DEF Declared
    <2>2. QED
      BY <2>1 DEF Explained
  <1>10. CASE UNCHANGED vars
    BY <1>1, <1>10 DEF vars
  <1>11. QED
    BY <1>2, <1>3, <1>4, <1>5, <1>6, <1>7, <1>8, <1>9, <1>10, Steps
-----------------------------------------------------------------------------
(* The invariant and what follows from it *)

LEMMA InitIInv == Init => IInv
  <1> SUFFICES ASSUME Init PROVE IInv
    OBVIOUS
  <1>1. TypeOK
    BY NoDocType, IdleType, ConstantsAssumption DEF Init, TypeOK
  <1>2. \A c \in Calls : Coherent(call[c])
    BY IdleType DEF Init, Coherent
  <1>3. ActiveIsValid
    BY DEF Init, ActiveIsValid, ActiveWorkflows, NoDoc
  <1>4. \A k \in Keys, w \in Workflows : registry[k] # w
    BY ConstantsAssumption DEF Init
  <1>5. QED
    BY <1>1, <1>2, <1>3, <1>4 DEF IInv

LEMMA NextIInv == IInv /\ [Next]_vars => IInv'
  <1> SUFFICES ASSUME IInv, [Next]_vars PROVE IInv'
    OBVIOUS
  <1>1. TypeOK /\ AllCoherent /\ ActiveIsValid /\ (faults = 0 => Explained)
    BY DEF IInv, AllCoherent, Explained
  <1>2. faults' = 0 => faults = 0
    <2>1. faults \in Nat
      BY <1>1, ConstantsAssumption DEF TypeOK
    <2>2. UNCHANGED faults \/ faults' = faults + 1
      BY Steps DEF Create, Clone, Load, Register, Save, UnregisterRoutes, Crash,
                   Start, Fault, vars
    <2>3. QED
      BY <2>1, <2>2
  <1>3. TypeOK' /\ AllCoherent' /\ ActiveIsValid'
    BY <1>1, TypeStep, CoherentStep, ValidStep
  <1>4. faults' = 0 => Explained'
    BY <1>1, <1>2, ExplainedStep
  <1>5. QED
    BY <1>3, <1>4 DEF IInv, AllCoherent, Explained

\* The strengthening of the properties below is an invariant.
THEOREM Invariance == Spec => []IInv
  BY InitIInv, NextIInv, PTL DEF Spec

\* The definition of an active workflow was accepted by the validation of
\* activation, however requests, failed writes and crashes interleave
\* (activate_workflow.go:103-107).
THEOREM ActivesAreValid == Spec => []ActiveIsValid
  <1>1. IInv => ActiveIsValid
    BY DEF IInv
  <1>2. QED
    BY <1>1, Invariance, PTL

\* A route that resolves to a workflow on which no request works is a route
\* that this active workflow declares, unless a write reported an error
\* (activate_workflow.go:139-157, deactivate_workflow.go:108-114).
THEOREM NoStrayRoute == Spec => []RoutesAreDeclared
  <1>1. IInv => RoutesAreDeclared
    <2> SUFFICES ASSUME IInv, NEW k \in Keys, registry[k] # Free,
                        Quiet(registry[k]), faults = 0
                 PROVE  Declared(registry[k], k)
      BY DEF RoutesAreDeclared, Declared
    <2>1. registry[k] \in Workflows
      BY DEF IInv, TypeOK
    <2>2. Declared(registry[k], k) \/ Pending(registry[k], k)
      BY <2>1 DEF IInv
    <2>3. ~Pending(registry[k], k)
      BY DEF Pending, Quiet
    <2>4. QED
      BY <2>2, <2>3
  <1>2. QED
    BY <1>1, Invariance, PTL

-----------------------------------------------------------------------------
(* Refinement *)

\* A write that takes effect is a transition of the entity.
LEMMA SaveRefines ==
  ASSUME TypeOK, AllCoherent, NEW c \in Calls, Save(c)
  PROVE  [Abstract!Next]_StoredStatus
  <1> DEFINE w == call[c].w
             from == call[c].expected
             to == call[c].doc.status
  <1>1. w \in Workflows /\ <<call[c].op, from, to>> \in Transitions
    BY DEF TypeOK, CallRecords, AllCoherent, Coherent, Save
  <1>2. CASE db' = db
    BY <1>2 DEF StoredStatus
  <1>3. CASE db[w].status = from /\ db'[w] = call[c].doc
    <2>1. StoredStatus[w] = from /\ StoredStatus' = [StoredStatus EXCEPT ![w] = to]
      BY <1>1, <1>3, SaveEffect DEF StoredStatus
    <2>2. from = to \/ Abstract!Activate(w) \/ Abstract!Deactivate(w)
            \/ Abstract!MoveToDraft(w) \/ Abstract!Delete(w)
      BY <1>1, <2>1
         DEF Transitions, Abstract!Activate, Abstract!Deactivate,
             Abstract!MoveToDraft, Abstract!Delete, Abstract!Move
    <2>3. CASE from = to
      BY <1>1, <2>1, <2>3 DEF StoredStatus
    <2>4. QED
      BY <1>1, <2>2, <2>3 DEF Abstract!Next
  <1>4. QED
    BY <1>2, <1>3, SaveEffect

LEMMA StatusStep ==
  ASSUME TypeOK, AllCoherent, [Next]_vars
  PROVE  [Abstract!Next]_StoredStatus
  <1>1. CASE UNCHANGED db
    BY <1>1 DEF StoredStatus
  <1>2. ASSUME NEW w \in Workflows, NEW d \in Definitions, Create(w, d)
        PROVE  [Abstract!Next]_StoredStatus
    <2>1. /\ StoredStatus[w] = "absent"
          /\ StoredStatus' = [StoredStatus EXCEPT ![w] = "draft"]
      BY <1>2, CreateEffect DEF StoredStatus
    <2>2. QED
      BY <2>1 DEF Abstract!Next, Abstract!Create, Abstract!Move
  <1>3. ASSUME NEW w \in Workflows, NEW v \in Workflows, Clone(w, v)
        PROVE  [Abstract!Next]_StoredStatus
    BY <1>2, <1>3, CloneCreates
  <1>4. ASSUME NEW c \in Calls, Save(c) PROVE [Abstract!Next]_StoredStatus
    BY <1>4, SaveRefines
  <1>5. QED
    BY <1>1, <1>2, <1>3, <1>4, Steps
       DEF Load, Register, UnregisterRoutes, Crash, Start, vars

\* The stored status of every workflow follows the state machine of the
\* entity (workflow.go:313-370), although each command checks it on a copy
\* that it read earlier.
THEOREM StatusRefinement == Spec => ImplementsStatus
  <1>1. Init => Abstract!Init
    BY DEF Init, NoDoc, StoredStatus, Abstract!Init
  <1>2. IInv /\ [Next]_vars => [Abstract!Next]_StoredStatus
    BY StatusStep DEF IInv, AllCoherent
  <1>3. QED
    BY <1>1, <1>2, Invariance, PTL DEF Spec, ImplementsStatus, Abstract!Spec
-----------------------------------------------------------------------------
(* Requests that come one after the other *)

\* The listing at start has one page (PageSize in populateWebhookRegistry).
FitsOnPage ==
  /\ IsFiniteSet(Calls)
  /\ IsFiniteSet(Workflows)
  /\ Cardinality(Workflows) <= PageSize

OneAtATime == \A b, c \in Calls :
  call[b].pc # "idle" /\ call[c].pc # "idle" => b = c

\* A request that is alone knows the stored status, and its activation has
\* the routes it has passed.
Alone(r) ==
  /\ r.pc \in {"register", "save"} =>
       /\ db[r.w].status = r.expected
       /\ r.op # "update" => r.doc.def = db[r.w].def
  /\ r.pc = "unregister" => db[r.w].status # "active"
  /\ r.pc = "register" => \A i \in DOMAIN Routes[r.doc.def] :
       i < r.pos => registry[RouteKey[Routes[r.doc.def][i]]] = r.w
  /\ r.pc = "save" /\ r.op = "activate" =>
       \A k \in KeysOf(r.doc.def) : registry[k] = r.w

AllAlone == \A c \in Calls : Alone(call[c])

Routed == up => \A w \in ActiveWorkflows : \A k \in KeysOf(db[w].def) : registry[k] = w

DownIsQuiet == ~up => \A c \in Calls : call[c].pc = "idle"

SerialInv ==
  ~overlapped => /\ OneAtATime
                 /\ AllAlone
                 /\ Routed
                 /\ RoutesAreExclusive
                 /\ DownIsQuiet
                 /\ faults = 0

\* A step after which requests have still come one after the other.
LEMMA SerialStep ==
  ASSUME FitsOnPage, TypeOK', MCNext \/ UNCHANGED mcvars, ~overlapped', SerialInv
  PROVE  ~overlapped /\ OneAtATime' /\ faults' = 0
  <1>1. CASE UNCHANGED mcvars
    BY <1>1 DEF mcvars, vars, SerialInv, OneAtATime
  <1>2. CASE MCNext
    <2>1. ~overlapped /\ ~(Cardinality(Busy') > 1) /\ ~(faults' > 0)
      BY <1>2 DEF MCNext
    <2>2. faults' = 0
      BY <2>1, ConstantsAssumption DEF TypeOK
    <2>3. ASSUME NEW b \in Calls, NEW c \in Calls, call'[b].pc # "idle",
                 call'[c].pc # "idle", b # c
          PROVE  FALSE
      <3>1. Busy' \in SUBSET Calls /\ {b, c} \in SUBSET Busy'
        BY <2>3 DEF Busy
      <3>2. IsFiniteSet(Busy') /\ Cardinality(Busy') \in Nat
        BY <3>1, FS_Subset, FS_CardinalityType DEF FitsOnPage
      <3>3. Cardinality({b, c}) <= Cardinality(Busy')
        BY <3>1, <3>2, FS_Subset
      <3>4. IsFiniteSet({b}) /\ Cardinality({b}) = 1 /\ {b} \cup {c} = {b, c}
        BY FS_Singleton
      <3>5. Cardinality({b, c}) = 2
        BY <2>3, <3>4, FS_AddElement
      <3>6. QED
        BY <2>1, <3>2, <3>3, <3>5
    <2>4. QED
      BY <2>1, <2>2, <2>3 DEF OneAtATime
  <1>3. QED
    BY <1>1, <1>2

\* The request that moves is alone, before and after its step.
LEMMA OthersIdle ==
  ASSUME OneAtATime, NEW c \in Calls, call[c].pc # "idle",
         NEW b \in Calls, b # c
  PROVE  call[b].pc = "idle"
  BY DEF OneAtATime

\* An idle request promises nothing.
LEMMA IdleAlone == ASSUME NEW r, r.pc = "idle" PROVE Alone(r) /\ Alone(r)'
  BY DEF Alone

LEMMA KeysAreKeys ==
  ASSUME NEW d \in Definitions
  PROVE  /\ KeysOf(d) \subseteq Keys
         /\ Routes[d] \in Seq(DOMAIN RouteKey)
         /\ \A i \in DOMAIN Routes[d] : RouteKey[Routes[d][i]] \in Keys
  <1>1. Routes[d] \in Seq(DOMAIN RouteKey)
    BY ConstantsAssumption
  <1>2. \A i \in DOMAIN Routes[d] : Routes[d][i] \in DOMAIN RouteKey
    BY <1>1
  <1>3. QED
    BY <1>1, <1>2, ConstantsAssumption DEF KeysOf

\* What follows when the documents and the registry stay as they are.
LEMMA KeepsRoutes ==
  ASSUME Routed, RoutesAreExclusive, UNCHANGED <<db, registry, up>>
  PROVE  Routed' /\ RoutesAreExclusive'
  BY DEF Routed, RoutesAreExclusive, ActiveWorkflows

\* A listing of all active workflows gives each of them its routes.
LEMMA PopulateRoutes ==
  ASSUME FitsOnPage, TypeOK, RoutesAreExclusive,
         NEW order \in Listings(ActiveWorkflows), PopulateFrom(order),
         NEW w \in ActiveWorkflows, NEW k \in KeysOf(db[w].def)
  PROVE  registry'[k] = w
  <1> DEFINE n == Cardinality(ActiveWorkflows)
  <1>1. IsFiniteSet(ActiveWorkflows) /\ n \in Nat
    BY FS_Subset, FS_CardinalityType DEF FitsOnPage, ActiveWorkflows
  <1>2. IsFiniteSet(1..n) /\ Cardinality(1..n) = n
    <2> HIDE DEF n
    <2>1. QED
      BY <1>1, FS_Interval
  <1>3. order \in Injection(1..n, ActiveWorkflows)
    BY DEF Listings, Injection, IsInjective
  <1>4. order \in Surjection(1..n, ActiveWorkflows)
    BY <1>1, <1>2, <1>3, FS_Injection
  <1>5. PICK i \in 1..n : order[i] = w
    BY <1>4 DEF Surjection
  <1>6. DOMAIN order = 1..n /\ \A j \in 1..n : order[j] \in ActiveWorkflows
    BY DEF Listings
  <1>7. k \in Keys
    BY KeysAreKeys DEF TypeOK, Docs, ActiveWorkflows
  <1>8. FirstWith(order, k, registry'[k])
    BY <1>7 DEF PopulateFrom
  <1>9. PICK j \in 1..n : registry'[k] = order[j] /\ k \in KeysOf(db[registry'[k]].def)
    BY <1>5, <1>6, <1>8 DEF FirstWith
  <1>10. order[j] \in ActiveWorkflows /\ k \in KeysOf(db[order[j]].def)
    BY <1>6, <1>9
  <1>11. order[j] = w
    BY <1>10 DEF RoutesAreExclusive
  <1>12. QED
    BY <1>9, <1>11

LEMMA StartRoutes ==
  ASSUME FitsOnPage, TypeOK, RoutesAreExclusive, Start, faults = 0, faults' = 0
  PROVE  \A w \in ActiveWorkflows : \A k \in KeysOf(db[w].def) : registry'[k] = w
  <1>1. PICK S \in FirstPages \cup {{}} :
          /\ \E order \in Listings(S) : PopulateFrom(order)
          /\ \/ S \in FirstPages /\ UNCHANGED faults
             \/ S = {} /\ Fault
    BY DEF Start
  <1>2. S \in FirstPages
    BY <1>1 DEF Fault
  <1>3. /\ IsFiniteSet(ActiveWorkflows)
        /\ Cardinality(ActiveWorkflows) <= Cardinality(Workflows)
        /\ Cardinality(ActiveWorkflows) \in Nat
        /\ Cardinality(Workflows) \in Nat
    BY FS_Subset, FS_CardinalityType DEF FitsOnPage, ActiveWorkflows
  <1>4. ~(Cardinality(ActiveWorkflows) > PageSize)
    BY <1>3, ConstantsAssumption DEF FitsOnPage
  <1>5. S \in SUBSET ActiveWorkflows /\ Cardinality(S) = Cardinality(ActiveWorkflows)
    BY <1>2, <1>4 DEF FirstPages
  <1>6. S = ActiveWorkflows
    BY <1>3, <1>5, FS_Subset
  <1>7. PICK order \in Listings(ActiveWorkflows) : PopulateFrom(order)
    BY <1>1, <1>6
  <1>8. QED
    BY <1>7, PopulateRoutes

\* The definition of a request's copy.
LEMMA CopyType ==
  ASSUME TypeOK, NEW c \in Calls
  PROVE  /\ call[c].w \in Workflows
         /\ call[c].doc.def \in Definitions
         /\ call[c].pos \in Nat
         /\ call[c].pc \in Stages
         /\ db[call[c].w].def \in Definitions
  BY DEF TypeOK, CallRecords, Docs, Stages

LEMMA LoadAlone ==
  ASSUME TypeOK, NEW c \in Calls, NEW op \in Operations, NEW w \in Workflows,
         NEW d \in Definitions, Load(c, op, w, d)
  PROVE  Alone(call[c])'
  <1>1. PICK to \in Statuses :
          call' = [call EXCEPT ![c] =
               [pc |-> IF op = "activate" THEN "register" ELSE "save",
                op |-> op, w |-> w, expected |-> db[w].status,
                doc |-> [status |-> to, def |-> DefinitionAfter(op, w, d)],
                pos |-> 1]]
    BY DEF Load
  <1>2. call'[c] =
               [pc |-> IF op = "activate" THEN "register" ELSE "save",
                op |-> op, w |-> w, expected |-> db[w].status,
                doc |-> [status |-> to, def |-> DefinitionAfter(op, w, d)],
                pos |-> 1]
    BY <1>1 DEF TypeOK
  <1>3. UNCHANGED <<db, registry>>
    BY DEF Load
  <1>4. op # "update" => DefinitionAfter(op, w, d) = db[w].def
    BY DEF DefinitionAfter
  <1>5. /\ call'[c].pc \in {"register", "save"}
        /\ call'[c].w = w
        /\ call'[c].op = op
        /\ call'[c].expected = db[w].status
        /\ call'[c].doc.def = DefinitionAfter(op, w, d)
        /\ call'[c].pos = 1
        /\ call'[c].pc = "save" => op # "activate"
    BY <1>2
  <1>6. DefinitionAfter(op, w, d) \in Definitions
    BY DEF DefinitionAfter, TypeOK, Docs
  <1>7. \A i \in DOMAIN Routes[DefinitionAfter(op, w, d)] : ~(i < 1)
    <2>1. Routes[DefinitionAfter(op, w, d)] \in Seq(DOMAIN RouteKey)
      BY <1>6, KeysAreKeys
    <2>2. QED
      BY <2>1
  <1>8. QED
    BY <1>3, <1>4, <1>5, <1>7 DEF Alone
\* Register takes no key from another workflow, and the routes it has passed
\* are its own.
LEMMA RegisterAlone ==
  ASSUME TypeOK, AllCoherent, NEW c \in Calls, Alone(call[c]), Register(c)
  PROVE  /\ Alone(call[c])'
         /\ \A k \in Keys : registry[k] # Free => registry'[k] = registry[k]
  <1> DEFINE routes == Routes[call[c].doc.def]
             k0 == RouteKey[routes[call[c].pos]]
             w == call[c].w
  <1>1. /\ call[c].pc = "register"
        /\ call[c].op = "activate"
        /\ db[w].status = call[c].expected
        /\ call[c].doc.def = db[w].def
        /\ call[c].expected = "draft"
        /\ \A i \in DOMAIN routes : i < call[c].pos => registry[RouteKey[routes[i]]] = w
    BY DEF Register, AllCoherent, Coherent, Alone, Transitions
  <1>2. /\ call \in [Calls -> CallRecords]
        /\ registry \in [Keys -> Workflows \cup {Free}]
        /\ w \in Workflows
        /\ call[c].pos \in Nat
        /\ routes \in Seq(DOMAIN RouteKey)
        /\ \A i \in DOMAIN routes : RouteKey[routes[i]] \in Keys
    BY CopyType, KeysAreKeys DEF TypeOK
  <1>3. UNCHANGED db
    BY DEF Register
  <1>4. /\ call'[c].op = "activate"
        /\ call'[c].w = w
        /\ call'[c].expected = call[c].expected
        /\ call'[c].doc = call[c].doc
    BY <1>1, RegisterEffect
  <1>5. CASE call[c].pos > Len(routes) /\ Become(c, "save") /\ UNCHANGED registry
    <2>1. call'[c].pc = "save"
      BY <1>5, BecomeType DEF Stages
    <2>2. ASSUME NEW k \in KeysOf(call[c].doc.def) PROVE registry[k] = w
      <3>1. PICK i \in DOMAIN routes : k = RouteKey[routes[i]]
        BY DEF KeysOf
      <3>2. i < call[c].pos
        <4> HIDE DEF routes
        <4>1. Len(routes) \in Nat /\ i \in 1..Len(routes)
          BY <1>2
        <4>2. QED
          BY <1>2, <1>5, <4>1
      <3>3. QED
        BY <1>1, <3>1, <3>2
    <2>3. QED
      BY <1>1, <1>3, <1>4, <1>5, <2>1, <2>2 DEF Alone
  <1>6. CASE /\ call[c].pos <= Len(routes)
             /\ ~Taken(k0)
             /\ registry' = [registry EXCEPT ![k0] = w]
             /\ call' = [call EXCEPT ![c].pos = @ + 1]
    <2>1. call'[c].pc = "register" /\ call'[c].pos = call[c].pos + 1
      BY <1>1, <1>2, <1>6, AdvanceType, Zenon
    <2>2. registry[k0] = Free
      BY <1>6 DEF Taken
    <2>3. ASSUME NEW i \in DOMAIN routes, i < call[c].pos + 1
          PROVE  registry'[RouteKey[routes[i]]] = w
      <3>1. RouteKey[routes[i]] \in Keys
        BY <1>2
      <3>2. i \in Nat
        <4> HIDE DEF routes
        <4>1. QED
          BY <1>2
      <3>3. i < call[c].pos \/ i = call[c].pos
        BY <1>2, <2>3, <3>2
      <3>4. CASE i = call[c].pos
        BY <1>2, <1>6, <3>1, <3>4
      <3>5. CASE i < call[c].pos
        BY <1>1, <1>2, <1>6, <3>1, <3>5, Zenon
      <3>6. QED
        BY <3>3, <3>4, <3>5
    <2>4. ASSUME NEW k \in Keys, registry[k] # Free PROVE registry'[k] = registry[k]
      BY <1>2, <1>6, <2>2, <2>4
    <2>5. Alone(call[c])'
      BY <1>1, <1>3, <1>4, <2>1, <2>3 DEF Alone
    <2>6. QED
      BY <2>4, <2>5
  <1>7. CASE Become(c, "unregister") /\ UNCHANGED registry
    <2>1. call'[c].pc = "unregister"
      BY <1>7, BecomeType DEF Stages
    <2>2. QED
      BY <1>1, <1>3, <1>4, <1>7, <2>1 DEF Alone
  <1>8. QED
    BY <1>5, <1>6, <1>7 DEF Register

\* Save: the write of a request that is alone matches, and what it stores as
\* active has its routes.
LEMMA SaveAlone ==
  ASSUME TypeOK, AllCoherent, NEW c \in Calls, Alone(call[c]), Save(c), faults' = 0
  PROVE  /\ Alone(call[c])'
         /\ UNCHANGED <<registry, up>>
         /\ \A v \in Workflows : v # call[c].w => db'[v] = db[v]
         /\ db'[call[c].w].status = "active" =>
              \A k \in KeysOf(db'[call[c].w].def) : registry[k] = call[c].w
  <1> DEFINE w == call[c].w
  <1>1. /\ call[c].pc = "save"
        /\ db[w].status = call[c].expected
        /\ call[c].op # "update" => call[c].doc.def = db[w].def
        /\ <<call[c].op, call[c].expected, call[c].doc.status>> \in Transitions
        /\ call[c].op = "activate" => \A k \in KeysOf(call[c].doc.def) : registry[k] = w
        /\ UNCHANGED <<registry, up>>
    BY DEF Save, AllCoherent, Coherent, Alone
  <1>2. ~Fault
    BY ConstantsAssumption DEF Fault, TypeOK
  <1>3. Write(c) /\ Become(c, AfterSave(call[c].op, TRUE))
    BY <1>1, <1>2 DEF Save, Matches
  <1>4. /\ db'[w] = call[c].doc
        /\ \A v \in Workflows : v # w => db'[v] = db[v]
    BY <1>3, WriteType
  <1>5. /\ call'[c].pc = AfterSave(call[c].op, TRUE)
        /\ call'[c].pc \in {"unregister", "idle"}
        /\ call'[c].pc = "unregister" => call'[c].w = w
    <2> DEFINE s == AfterSave(call[c].op, TRUE)
    <2>1. s \in Stages /\ s \in {"unregister", "idle"} /\ Become(c, s)
      BY <1>3 DEF Stages, AfterSave
    <2> HIDE DEF s
    <2>2. call'[c].pc = s /\ (s # "idle" => call'[c].w = w)
      BY <2>1, BecomeType
    <2>3. QED
      BY <2>1, <2>2 DEF s
  <1>6. call'[c].pc = "unregister" => call[c].doc.status # "active"
    BY <1>1, <1>5 DEF AfterSave, Transitions
  <1>7. call[c].doc.status = "active" => call[c].op = "activate"
    BY <1>1 DEF Transitions
  <1>8. Alone(call[c])'
    BY <1>4, <1>5, <1>6 DEF Alone
  <1>9. QED
    BY <1>1, <1>4, <1>7, <1>8
LEMMA SerialNext ==
  ASSUME FitsOnPage, TypeOK, TypeOK', AllCoherent, SerialInv,
         MCNext \/ UNCHANGED mcvars
  PROVE  SerialInv'
  <1> SUFFICES ASSUME ~overlapped'
               PROVE  (/\ AllAlone /\ Routed /\ RoutesAreExclusive /\ DownIsQuiet)'
    BY SerialStep DEF SerialInv
  <1>1. /\ OneAtATime /\ OneAtATime'
        /\ faults = 0 /\ faults' = 0
        /\ AllAlone /\ Routed /\ RoutesAreExclusive /\ DownIsQuiet
        /\ [Next]_vars
    BY SerialStep DEF SerialInv, MCNext, mcvars
  \* one request moves and the others are idle
  <1>2. ASSUME NEW c \in Calls, call[c].pc # "idle",
               \A b \in Calls : b # c => call'[b] = call[b], Alone(call[c])'
        PROVE  AllAlone'
    <2>1. ASSUME NEW b \in Calls, b # c PROVE Alone(call[b])'
      <3>1. call[b].pc = "idle"
        BY <1>1, <1>2, <2>1, OthersIdle
      <3>2. call'[b].pc = "idle"
        BY <1>2, <2>1, <3>1
      <3>3. QED
        BY <3>2 DEF Alone
    <2>2. QED
      BY <1>2, <2>1 DEF AllAlone
  <1>3. CASE UNCHANGED vars
    BY <1>1, <1>3 DEF vars, AllAlone, Alone, Routed, RoutesAreExclusive, DownIsQuiet,
       ActiveWorkflows
  <1>4. ASSUME NEW w \in Workflows, NEW d \in Definitions, Create(w, d)
        PROVE  (AllAlone /\ Routed /\ RoutesAreExclusive /\ DownIsQuiet)'
    <2>1. ActiveWorkflows' = ActiveWorkflows
          /\ \A v \in ActiveWorkflows : db'[v] = db[v]
      BY <1>4, CreateEffect DEF ActiveWorkflows
    <2>2. ASSUME NEW c \in Calls PROVE Alone(call[c])'
      <3>1. /\ call[c].pc \in {"register", "save"} => db[call[c].w].status # "absent"
            /\ call[c].w \in Workflows
        BY <1>1, CopyType DEF AllCoherent, Coherent, AllAlone, Alone, Transitions
      <3>2. /\ db[call[c].w].status # "absent" => db'[call[c].w] = db[call[c].w]
            /\ db[call[c].w].status # "active" => db'[call[c].w].status # "active"
            /\ UNCHANGED <<registry, call>>
        BY <1>4, <3>1, CreateEffect
      <3>3. QED
        BY <1>1, <3>1, <3>2 DEF AllAlone, Alone
    <2>3. QED
      BY <1>1, <1>4, <2>1, <2>2, CreateEffect
         DEF AllAlone, Routed, RoutesAreExclusive, DownIsQuiet
  <1>5. ASSUME NEW w \in Workflows, NEW v \in Workflows, Clone(w, v)
        PROVE  (AllAlone /\ Routed /\ RoutesAreExclusive /\ DownIsQuiet)'
    BY <1>4, <1>5, CloneCreates
  <1>6. ASSUME NEW c \in Calls, NEW op \in Operations, NEW w \in Workflows,
               NEW d \in Definitions, Load(c, op, w, d)
        PROVE  (AllAlone /\ Routed /\ RoutesAreExclusive /\ DownIsQuiet)'
    <2>1. up /\ UNCHANGED <<db, registry, up>>
      BY <1>6 DEF Load
    <2>2. call'[c].pc # "idle" /\ Alone(call[c])'
      BY <1>6, LoadEffect, LoadAlone
    <2>3. ASSUME NEW b \in Calls, b # c PROVE Alone(call[b])'
      <3>1. call'[b].pc = "idle"
        BY <1>1, <2>2, <2>3 DEF OneAtATime
      <3>2. QED
        BY <3>1 DEF Alone
    <2>4. QED
      BY <1>1, <2>1, <2>2, <2>3, KeepsRoutes DEF AllAlone, DownIsQuiet
  <1>7. ASSUME NEW c \in Calls, Register(c)
        PROVE  (AllAlone /\ Routed /\ RoutesAreExclusive /\ DownIsQuiet)'
    <2>1. call[c].pc = "register" /\ UNCHANGED <<db, up>>
      BY <1>7 DEF Register
    <2>2. Alone(call[c])
      BY <1>1 DEF AllAlone
    <2>3. /\ Alone(call[c])'
          /\ \A k \in Keys : registry[k] # Free => registry'[k] = registry[k]
      BY <1>7, <2>2, RegisterAlone
    <2>4. AllAlone'
      BY <1>2, <1>7, <2>1, <2>3, RegisterEffect
    <2>5. up
      BY <1>1, <2>1 DEF DownIsQuiet
    <2>6. ASSUME NEW w \in ActiveWorkflows, NEW k \in KeysOf(db[w].def)
          PROVE  registry'[k] = w
      <3>1. k \in Keys /\ w # Free
        BY KeysAreKeys, ConstantsAssumption DEF ActiveWorkflows, TypeOK, Docs
      <3>2. registry[k] = w
        BY <1>1, <2>5 DEF Routed
      <3>3. QED
        BY <2>3, <3>1, <3>2
    <2>7. QED
      BY <1>1, <2>1, <2>4, <2>5, <2>6
         DEF Routed, RoutesAreExclusive, DownIsQuiet, ActiveWorkflows
  <1>8. ASSUME NEW c \in Calls, Save(c)
        PROVE  (AllAlone /\ Routed /\ RoutesAreExclusive /\ DownIsQuiet)'
    <2>1. call[c].pc = "save" /\ up /\ call[c].w \in Workflows
      BY <1>1, <1>8, CopyType DEF Save, DownIsQuiet
    <2>2. Alone(call[c])
      BY <1>1 DEF AllAlone
    <2>3. /\ Alone(call[c])'
          /\ UNCHANGED <<registry, up>>
          /\ \A v \in Workflows : v # call[c].w => db'[v] = db[v]
          /\ db'[call[c].w].status = "active" =>
               \A k \in KeysOf(db'[call[c].w].def) : registry[k] = call[c].w
      BY <1>1, <1>8, <2>2, SaveAlone
    <2>4. AllAlone'
      BY <1>2, <1>8, <2>1, <2>3, SaveEffect
    <2>5. ASSUME NEW w \in Workflows, db'[w].status = "active",
                 NEW k \in KeysOf(db'[w].def)
          PROVE  registry[k] = w
      <3>1. CASE w = call[c].w
        BY <2>3, <2>5, <3>1
      <3>2. CASE w # call[c].w
        <4>1. db'[w] = db[w]
          BY <2>3, <3>2
        <4>2. QED
          BY <1>1, <2>1, <2>5, <4>1 DEF Routed, ActiveWorkflows
      <3>3. QED
        BY <3>1, <3>2
    <2>6. Routed'
      BY <2>3, <2>5 DEF Routed, ActiveWorkflows
    <2>7. RoutesAreExclusive'
      BY <2>5 DEF RoutesAreExclusive, ActiveWorkflows
    <2>8. DownIsQuiet'
      BY <2>1, <2>3 DEF DownIsQuiet
    <2>9. QED
      BY <2>4, <2>6, <2>7, <2>8
  <1>9. ASSUME NEW c \in Calls, UnregisterRoutes(c)
        PROVE  (AllAlone /\ Routed /\ RoutesAreExclusive /\ DownIsQuiet)'
    <2>1. call[c].pc = "unregister" /\ UNCHANGED <<db, up>> /\ call[c].w \in Workflows
      BY <1>9, CopyType DEF UnregisterRoutes
    <2>2. up /\ db[call[c].w].status # "active"
      BY <1>1, <2>1 DEF DownIsQuiet, AllAlone, Alone
    <2>3. call'[c].pc = "idle"
      BY <1>9, UnregisterEffect
    <2>4. AllAlone'
      <3>1. Alone(call[c])'
        BY <2>3 DEF Alone
      <3>2. QED
        BY <1>2, <1>9, <2>1, <3>1, UnregisterEffect
    <2>5. ASSUME NEW w \in ActiveWorkflows, NEW k \in KeysOf(db[w].def)
          PROVE  registry'[k] = w
      <3>1. k \in Keys /\ w # call[c].w
        BY <2>2, KeysAreKeys DEF ActiveWorkflows, TypeOK, Docs
      <3>2. registry[k] = w
        BY <1>1, <2>2 DEF Routed
      <3>3. QED
        BY <1>9, <3>1, <3>2 DEF UnregisterRoutes, Unregister
    <2>6. QED
      BY <1>1, <2>1, <2>2, <2>4, <2>5
         DEF Routed, RoutesAreExclusive, DownIsQuiet, ActiveWorkflows
  <1>10. CASE Crash
    <2>1. ~up' /\ UNCHANGED db
      BY <1>10 DEF Crash
    <2>2. \A c \in Calls : call'[c].pc = "idle"
      BY <1>10, CrashEffect
    <2>3. QED
      BY <1>1, <2>1, <2>2
         DEF AllAlone, Alone, Routed, RoutesAreExclusive, DownIsQuiet, ActiveWorkflows
  <1>11. CASE Start
    <2>1. ~up /\ up' = TRUE /\ UNCHANGED <<db, call>>
      BY <1>11 DEF Start
    <2>2. \A c \in Calls : call'[c].pc = "idle"
      BY <1>1, <2>1 DEF DownIsQuiet
    <2>3. \A w \in ActiveWorkflows : \A k \in KeysOf(db[w].def) : registry'[k] = w
      BY <1>1, <1>11, StartRoutes
    <2>4. QED
      BY <1>1, <2>1, <2>2, <2>3
         DEF AllAlone, Alone, Routed, RoutesAreExclusive, DownIsQuiet, ActiveWorkflows
  <1>12. QED
    BY <1>1, <1>3, <1>4, <1>5, <1>6, <1>7, <1>8, <1>9, <1>10, <1>11, Steps

LEMMA SerialInit == ASSUME MCInit PROVE SerialInv
  <1>1. \A c \in Calls : call[c].pc = "idle"
    BY IdleType DEF MCInit, Init
  <1>2. ActiveWorkflows = {} /\ faults = 0
    BY DEF MCInit, Init, NoDoc, ActiveWorkflows
  <1>3. QED
    BY <1>1, <1>2
       DEF SerialInv, OneAtATime, AllAlone, Alone, Routed, RoutesAreExclusive, DownIsQuiet

\* As long as requests come one after the other and no write reports an
\* error, also after crashes and restarts, every route of an active workflow
\* resolves to it and no two active workflows declare one route, for all
\* workflows that fit on the page which is read at start (registry.go:27-30,
\* webhook_registry.go:12-57, activate_workflow.go:139-140).
THEOREM SerialRegistryHolds ==
  ASSUME FitsOnPage PROVE MCSpec => []SerialRegistry
  <1>1. MCInit => IInv /\ SerialInv
    BY InitIInv, SerialInit DEF MCInit
  <1>2. IInv /\ SerialInv /\ [MCNext]_mcvars => IInv' /\ SerialInv'
    <2> SUFFICES ASSUME IInv, SerialInv, [MCNext]_mcvars PROVE IInv' /\ SerialInv'
      OBVIOUS
    <2>1. IInv'
      BY NextIInv DEF MCNext, mcvars
    <2>2. SerialInv'
      BY <2>1, SerialNext DEF IInv, AllCoherent
    <2>3. QED
      BY <2>1, <2>2
  <1>3. SerialInv => SerialRegistry
    BY DEF SerialInv, SerialRegistry, Routed, ActiveIsRouted
  <1>4. QED
    BY <1>1, <1>2, <1>3, PTL DEF MCSpec

\* A request that is alone and changes a stored status, or writes to an active
\* workflow, writes back the definition that is stored.
LEMMA SaveKeepsDefinition ==
  ASSUME TypeOK, AllCoherent, NEW c \in Calls, Alone(call[c]), Save(c), faults' = 0,
         NEW w \in Workflows,
         db[w].status = "active" \/ db'[w].status # db[w].status
  PROVE  db'[w].def = db[w].def
  <1>1. /\ call[c].pc = "save"
        /\ db[call[c].w].status = call[c].expected
        /\ call[c].op # "update" => call[c].doc.def = db[call[c].w].def
        /\ <<call[c].op, call[c].expected, call[c].doc.status>> \in Transitions
    BY DEF Save, AllCoherent, Coherent, Alone
  <1>2. ~Fault
    BY ConstantsAssumption DEF Fault, TypeOK
  <1>3. Write(c)
    BY <1>1, <1>2 DEF Save, Matches
  <1>4. /\ db'[call[c].w] = call[c].doc
        /\ \A v \in Workflows : v # call[c].w => db'[v] = db[v]
    BY <1>3, WriteType
  <1>5. CASE w # call[c].w
    BY <1>4, <1>5
  <1>6. CASE w = call[c].w /\ call[c].op = "update"
    <2>1. call[c].expected = "draft" /\ call[c].doc.status = "draft"
      BY <1>1, <1>6 DEF Transitions
    <2>2. db[w].status = "draft" /\ db'[w].status = "draft"
      BY <1>1, <1>4, <1>6, <2>1
    <2>3. QED
      BY <2>2
  <1>7. CASE w = call[c].w /\ call[c].op # "update"
    BY <1>1, <1>4, <1>7
  <1>8. QED
    BY <1>5, <1>6, <1>7

\* As long as requests come one after the other and no write reports an
\* error, the definition of an active workflow does not change, "executable
\* but not editable" (workflow.go:22), and a change of status leaves the
\* definition alone (workflow.go:313-350, repository.go:219-238).
THEOREM SerialDefinitionsHold ==
  ASSUME FitsOnPage PROVE MCSpec => SerialDefinitions
  <1> DEFINE Kept == ~overlapped' => \A w \in Workflows :
               Stored(w) /\ (db[w].status = "active" \/ db'[w].status # db[w].status)
                 => db'[w].def = db[w].def
  <1>1. MCInit => IInv /\ SerialInv
    BY InitIInv, SerialInit DEF MCInit
  <1>2. IInv /\ SerialInv /\ [MCNext]_mcvars => IInv' /\ SerialInv'
    <2> SUFFICES ASSUME IInv, SerialInv, [MCNext]_mcvars PROVE IInv' /\ SerialInv'
      OBVIOUS
    <2>1. IInv'
      BY NextIInv DEF MCNext, mcvars
    <2>2. SerialInv'
      BY <2>1, SerialNext DEF IInv, AllCoherent
    <2>3. QED
      BY <2>1, <2>2
  <1>3. IInv /\ SerialInv /\ [MCNext]_mcvars => [Kept]_mcvars
    <2> SUFFICES ASSUME IInv, SerialInv, [MCNext]_mcvars, ~overlapped',
                        NEW w \in Workflows, Stored(w),
                        db[w].status = "active" \/ db'[w].status # db[w].status
                 PROVE  db'[w].def = db[w].def
      BY DEF Kept
    <2>1. TypeOK /\ AllCoherent /\ TypeOK'
      BY NextIInv DEF MCNext, mcvars, IInv, AllCoherent
    <2>2. ~overlapped /\ faults' = 0
      BY <2>1, SerialStep
    <2>3. AllAlone /\ [Next]_vars
      BY <2>2 DEF SerialInv, MCNext, mcvars
    <2>4. CASE UNCHANGED db
      BY <2>4
    <2>5. ASSUME NEW v \in Workflows, NEW d \in Definitions, Create(v, d)
          PROVE  db'[w].def = db[w].def
      <3>1. db[w].status # "absent"
        BY DEF Stored
      <3>2. db'[w] = db[w]
        BY <2>1, <2>5, <3>1, CreateEffect
      <3>3. QED
        BY <3>2
    <2>6. ASSUME NEW v \in Workflows, NEW o \in Workflows, Clone(v, o)
          PROVE  db'[w].def = db[w].def
      BY <2>1, <2>5, <2>6, CloneCreates
    <2>7. ASSUME NEW c \in Calls, Save(c) PROVE db'[w].def = db[w].def
      BY <2>1, <2>2, <2>3, <2>7, SaveKeepsDefinition DEF AllAlone
    <2>8. QED
      BY <2>3, <2>4, <2>5, <2>6, <2>7, Steps
         DEF Load, Register, UnregisterRoutes, Crash, Start, vars
  <1>4. QED
    BY <1>1, <1>2, <1>3, PTL DEF MCSpec, SerialDefinitions
=============================================================================
