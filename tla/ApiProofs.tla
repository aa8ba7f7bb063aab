------------------------------ MODULE ApiProofs ------------------------------
(***************************************************************************)
(* Theorems about module ExecutorConfigs, for every set of requests,       *)
(* configurations, settings and operations; about module Answers, for      *)
(* every set of callers, documents and names; and about the parts of MCApi  *)
(* that mark by hand, set up the database, call webhooks and consult the   *)
(* catalog, for every set of requests, workflows, keys and configurations. *)
(***************************************************************************)
EXTENDS MCApi, TLAPS

-----------------------------------------------------------------------------
(* Documents and slots *)

LEMMA NoDocType == NoDoc \in Docs
  BY ConstantsAssumption DEF NoDoc, AnySettings, Docs

LEMMA IdleType == Idle \in Slots /\ Idle.pc = "idle"
  BY ConstantsAssumption, NoDocType DEF Idle, AnySettings, Slots

LEMMA TestedType ==
  ASSUME NEW d \in Docs
  PROVE  /\ Tested(d) \in Docs
         /\ Tested(d).status = "tested"
         /\ Tested(d).settings = d.settings
  BY DEF Tested, Docs

\* What an operation other than a test makes of a document.
LEMMA ChangedDoc ==
  ASSUME NEW op, NEW d \in Docs, NEW input, NEW new \in Docs, Changed(op, d, input, new)
  PROVE  \/ /\ <<d.status, new.status>> \in
                  {<<"unconfigured", "configured">>, <<"tested", "active">>,
                   <<"active", "disabled">>, <<"disabled", "active">>}
            /\ new.settings = d.settings
         \/ /\ op = "mark_tested"
            /\ d.status = "configured" /\ new.status = "tested"
            /\ new.settings = d.settings
         \/ /\ d.status \in {"unconfigured", "configured"}
            /\ new.status = d.status
         \/ /\ d.status \notin {"active", "tested"}
            /\ new.status = "deleted"
            /\ new.settings = d.settings
  <1>1. CASE op = "mark_tested" /\ MarkTested(d, new)
    BY <1>1, TestedType DEF MarkTested
  <1>2. CASE \/ MarkConfigured(d, new) \/ Activate(d, new)
             \/ Disable(d, new) \/ Enable(d, new)
    BY <1>2 DEF MarkConfigured, Activate, Disable, Enable, Become, Docs
  <1>3. CASE Update(d, input, new)
    BY <1>3 DEF Update, Docs
  <1>4. CASE Delete(d, new)
    BY <1>4 DEF Delete, Docs
  <1>5. QED
    BY <1>1, <1>2, <1>3, <1>4 DEF Changed

\* The copy that slot s writes over a stored document with the status that s
\* read: how the status moves, and what becomes of the settings.
LEMMA SavedDoc ==
  ASSUME NEW s \in Slots, Legal(s)
  PROVE  \/ /\ <<s.read.status, s.doc.status>> \in
                  {<<"unconfigured", "configured">>, <<"tested", "active">>,
                   <<"active", "disabled">>, <<"disabled", "active">>}
            /\ s.doc.settings = s.read.settings
         \/ /\ s.read.status = "configured" /\ s.doc.status = "tested"
            /\ s.op = "mark_tested" \/ s.doc.settings \in verified[s.config]
         \/ /\ s.read.status \in {"unconfigured", "configured"}
            /\ s.doc.status = s.read.status
         \/ /\ s.read.status \notin {"active", "tested"}
            /\ s.doc.status = "deleted"
            /\ s.doc.settings = s.read.settings
  <1>1. s.read \in Docs /\ s.doc \in Docs
    BY DEF Slots
  <1>2. CASE Changed(s.op, s.read, s.input, s.doc)
    BY <1>1, <1>2, ChangedDoc
  <1>3. CASE s.read.status = "configured" /\ s.doc = Tested(s.read)
             /\ s.read.settings \in verified[s.config]
    BY <1>1, <1>3, TestedType
  <1>4. QED
    BY <1>2, <1>3 DEF Legal

-----------------------------------------------------------------------------
(* The inductive invariant *)

\* A step that moves one slot and leaves the collection alone.
LEMMA SlotStep ==
  ASSUME IInv, NEW r \in Requests, NEW w \in Slots,
         request' = [request EXCEPT ![r] = w],
         UNCHANGED db,
         verified' \in [Configs -> SUBSET Settings],
         \A c \in Configs : verified[c] \subseteq verified'[c],
         w.pc # "idle" => w.op \in Operations,
         w.pc \notin {"idle", "asked"} => Current(w),
         w.pc = "save" => Legal(w)'
  PROVE  IInv'
  <1> USE DEF IInv
  <1>1. TypeOK'
    BY DEF TypeOK
  <1>2. /\ request'[r] = w
        /\ \A q \in Requests : q # r => request'[q] = request[q]
    BY DEF TypeOK
  <1>3. CopiesAreCurrent'
    BY <1>2 DEF CopiesAreCurrent, Current
  <1>4. CopiesAreLegal'
    <2>1. SUFFICES ASSUME NEW q \in Requests, request'[q].pc = "save"
                   PROVE  Legal(request[q])'
      BY DEF CopiesAreLegal
    <2>2. CASE q = r
      BY <1>2, <2>1, <2>2 DEF Legal
    <2>3. CASE q # r
      <3>1. request'[q] = request[q] /\ request[q].config \in Configs
        BY <1>2, <2>3 DEF TypeOK, Slots
      <3>2. Legal(request[q])
        BY <2>1, <3>1 DEF CopiesAreLegal
      <3>3. QED
        BY <3>1, <3>2 DEF Legal
    <2>4. QED
      BY <2>2, <2>3
  <1>5. OnlyOperations'
    BY <1>2 DEF OnlyOperations
  <1>6. ("mark_tested" \notin Operations => TestedIsVerified)'
    BY DEF TestedIsVerified
  <1>7. QED
    BY <1>1, <1>3, <1>4, <1>5, <1>6

\* A step that frees a slot and writes one document: a new one, or the copy of
\* a slot that read the stored status.
LEMMA WriteStep ==
  ASSUME IInv, NEW r \in Requests, Free(r), UNCHANGED verified,
         NEW c \in Configs, NEW d \in Docs, db' = [db EXCEPT ![c] = d],
         d.status # "absent",
         db[c].status # "deleted",
         db[c].status \in Late =>
           d.status \in Late \cup {"deleted"} /\ d.settings = db[c].settings,
         "mark_tested" \notin Operations /\ d.status \in Late =>
           d.settings \in verified[c]
  PROVE  IInv'
  <1> USE DEF IInv
  <1>1. TypeOK'
    BY IdleType DEF TypeOK, Free
  <1>2. /\ request'[r].pc = "idle"
        /\ \A q \in Requests : q # r => request'[q] = request[q]
    BY IdleType DEF TypeOK, Free
  <1>3. db'[c] = d /\ \A b \in Configs : b # c => db'[b] = db[b]
    BY DEF TypeOK
  <1>4. CopiesAreCurrent'
    <2>1. SUFFICES ASSUME NEW q \in Requests, request'[q].pc \notin {"idle", "asked"}
                   PROVE  Current(request[q])'
      BY DEF CopiesAreCurrent
    <2>2. request'[q] = request[q] /\ request[q].config \in Configs
      BY <1>2, <2>1 DEF TypeOK, Slots
    <2>3. Current(request[q])
      BY <2>1, <2>2 DEF CopiesAreCurrent
    <2>4. d.status \in {"unconfigured", "configured", "tested", "active", "disabled",
                        "deleted"}
      BY DEF Docs
    <2>5. CASE request[q].config = c
      <3>1. \/ /\ db[c].status \in Late \cup {"deleted"}
               /\ db[c].settings = request[q].read.settings
            \/ request[q].read.status \notin Late
        BY <2>3, <2>5 DEF Current
      <3>2. QED
        BY <1>3, <2>2, <2>3, <2>5 DEF Current
    <2>6. CASE request[q].config # c
      BY <1>3, <2>2, <2>3, <2>6 DEF Current
    <2>7. QED
      BY <2>5, <2>6
  <1>5. CopiesAreLegal'
    BY <1>2 DEF CopiesAreLegal, Legal
  <1>6. OnlyOperations'
    BY <1>2 DEF OnlyOperations
  <1>7. ("mark_tested" \notin Operations => TestedIsVerified)'
    BY <1>3 DEF TestedIsVerified
  <1>8. QED
    BY <1>1, <1>4, <1>5, <1>6, <1>7

\* The statuses of documents.
LEMMA StatusType ==
  ASSUME NEW d \in Docs
  PROVE  d.status \in {"absent", "unconfigured", "configured", "tested", "active",
                       "disabled", "deleted"}
  BY DEF Docs

LEMMA CurrentOfStored ==
  ASSUME NEW s \in Slots, db \in [Configs -> Docs], Stored(s.config),
         s.read = db[s.config]
  PROVE  Current(s)
  BY DEF Current, Stored

LEMMA AskInv ==
  ASSUME IInv, NEW r \in Requests, Ask(r)
  PROVE  IInv'
  <1>1. PICK op \in Operations, c \in Configs, s \in Settings :
          request' = [request EXCEPT ![r] =
            [Idle EXCEPT !.pc = "asked", !.op = op, !.config = c, !.input = s]]
    BY DEF Ask
  <1> DEFINE w == [Idle EXCEPT !.pc = "asked", !.op = op, !.config = c, !.input = s]
  <1>2. w \in Slots /\ w.pc = "asked" /\ w.op = op
    BY IdleType, ConstantsAssumption DEF Slots
  <1>3. request' = [request EXCEPT ![r] = w] /\ UNCHANGED <<db, verified>>
    BY <1>1 DEF Ask
  <1> HIDE DEF w
  <1>4. QED
    BY <1>2, <1>3, SlotStep DEF IInv, TypeOK

LEMMA CreateInv ==
  ASSUME IInv, NEW r \in Requests, Create(r)
  PROVE  IInv'
  <1>1. request[r].input \in Settings
    BY DEF IInv, TypeOK, Slots
  <1> DEFINE d == [status |-> "unconfigured", settings |-> request[r].input,
                   lastTested |-> FALSE]
  <1>2. d \in Docs /\ d.status = "unconfigured"
    BY <1>1 DEF Docs
  <1>3. PICK c \in Configs : db[c].status = "absent" /\ db' = [db EXCEPT ![c] = d]
    BY DEF Create
  <1> HIDE DEF d
  <1>4. QED
    BY <1>2, <1>3, WriteStep DEF Create, Late

LEMMA LoadInv ==
  ASSUME IInv, NEW r \in Requests, Load(r)
  PROVE  IInv'
  <1> DEFINE d == db[request[r].config]
  <1>1. request[r] \in Slots /\ d \in Docs
    BY DEF IInv, TypeOK, Slots
  <1>2. PICK new \in Docs :
          /\ Changed(request[r].op, d, request[r].input, new)
          /\ request' = [request EXCEPT ![r].pc = "save", ![r].read = d, ![r].doc = new]
    BY DEF Load
  <1>0. PICK w : w = [request[r] EXCEPT !.pc = "save", !.read = d, !.doc = new]
    OBVIOUS
  <1>3. /\ w \in Slots /\ w.pc = "save" /\ w.op = request[r].op
        /\ w.config = request[r].config /\ w.input = request[r].input
        /\ w.read = d /\ w.doc = new
    BY <1>1, <1>0 DEF Slots
  <1>4. request' = [request EXCEPT ![r] = w] /\ UNCHANGED <<db, verified>>
    BY <1>2, <1>0 DEF Load
  <1>5. Current(w)
    BY <1>3, CurrentOfStored DEF Load, IInv, TypeOK
  <1>6. Legal(w)'
    BY <1>2, <1>3 DEF Legal
  <1>7. w.op \in Operations
    BY <1>3 DEF Load, IInv, OnlyOperations
  <1>8. QED
    BY <1>3, <1>4, <1>5, <1>6, <1>7, SlotStep DEF IInv, TypeOK

LEMMA BeginTestInv ==
  ASSUME IInv, NEW r \in Requests, BeginTest(r)
  PROVE  IInv'
  <1> DEFINE d == db[request[r].config]
  <1>1. request[r] \in Slots /\ d \in Docs
    BY DEF IInv, TypeOK, Slots
  <1>0. PICK w : w = [request[r] EXCEPT !.pc = "connectivity", !.read = d, !.doc = d]
    OBVIOUS
  <1>2. /\ w \in Slots /\ w.pc = "connectivity" /\ w.op = request[r].op
        /\ w.config = request[r].config /\ w.read = d
    BY <1>1, <1>0 DEF Slots
  <1>3. request' = [request EXCEPT ![r] = w] /\ UNCHANGED <<db, verified>>
    BY <1>0 DEF BeginTest
  <1>4. Current(w)
    BY <1>2, CurrentOfStored DEF BeginTest, IInv, TypeOK
  <1>5. w.op \in Operations
    BY <1>2 DEF BeginTest, IInv, OnlyOperations
  <1>6. QED
    BY <1>2, <1>3, <1>4, <1>5, SlotStep DEF IInv, TypeOK

LEMMA FailInv ==
  ASSUME IInv, NEW r \in Requests, Fail(r)
  PROVE  IInv'
  BY IdleType, SlotStep DEF Fail, Free, IInv, TypeOK

\* One of the first two stages.
LEMMA StageInv ==
  ASSUME IInv, NEW r \in Requests, NEW from \in {"connectivity", "authentication"},
         NEW to \in {"authentication", "end_to_end"}, NEW passed \in BOOLEAN,
         Stage(r, from, to, passed), UNCHANGED <<db, verified>>
  PROVE  IInv'
  <1>1. request[r] \in Slots /\ request[r].failed \in BOOLEAN
    BY DEF IInv, TypeOK, Slots
  <1>2. PICK failed \in BOOLEAN : failed = (request[r].failed \/ ~passed)
    BY <1>1
  <1>0. PICK w : w = [request[r] EXCEPT !.pc = to, !.failed = failed]
    OBVIOUS
  <1>3. /\ w \in Slots /\ w.pc = to /\ w.op = request[r].op
        /\ w.config = request[r].config /\ w.read = request[r].read
    BY <1>1, <1>2, <1>0 DEF Slots
  <1>4. request' = [request EXCEPT ![r] = w]
    BY <1>2, <1>0 DEF Stage
  <1>5. Current(w) /\ w.op \in Operations
    BY <1>3 DEF Stage, IInv, CopiesAreCurrent, Current, OnlyOperations
  <1>6. QED
    BY <1>3, <1>4, <1>5, SlotStep DEF IInv, TypeOK

LEMMA StagesInv ==
  ASSUME IInv, NEW r \in Requests, TestConnectivity(r) \/ TestAuthentication(r)
  PROVE  IInv'
  <1>1. CASE TestConnectivity(r)
    <2>1. PICK a \in Responses :
            Stage(r, "connectivity", "authentication", a \in Reached)
      BY <1>1 DEF TestConnectivity
    <2> DEFINE passed == a \in Reached
    <2>2. passed \in BOOLEAN /\ Stage(r, "connectivity", "authentication", passed)
      BY <2>1
    <2> HIDE DEF passed
    <2>3. QED
      BY <1>1, <2>2, StageInv DEF TestConnectivity
  <1>2. CASE TestAuthentication(r)
    <2>1. CASE Stage(r, "authentication", "end_to_end", TRUE)
      <3> DEFINE passed == TRUE
      <3>1. passed \in BOOLEAN /\ Stage(r, "authentication", "end_to_end", passed)
        BY <2>1
      <3> HIDE DEF passed
      <3>2. QED
        BY <1>2, <3>1, StageInv DEF TestAuthentication
    <2>2. CASE \E a \in Responses :
                 Stage(r, "authentication", "end_to_end", a \in Accepted)
      <3>1. PICK a \in Responses :
              Stage(r, "authentication", "end_to_end", a \in Accepted)
        BY <2>2
      <3> DEFINE passed == a \in Accepted
      <3>2. passed \in BOOLEAN /\ Stage(r, "authentication", "end_to_end", passed)
        BY <3>1
      <3> HIDE DEF passed
      <3>3. QED
        BY <1>2, <3>2, StageInv DEF TestAuthentication
    <2>3. QED
      BY <1>2, <2>1, <2>2 DEF TestAuthentication
  <1>3. QED
    BY <1>1, <1>2

LEMMA EndToEndInv ==
  ASSUME IInv, NEW r \in Requests, TestEndToEnd(r)
  PROVE  IInv'
  <1> DEFINE s == request[r]
             d == s.read
             c == s.config
  <1>1. s \in Slots /\ d \in Docs /\ c \in Configs /\ d.settings \in Settings
    BY DEF IInv, TypeOK, Slots, Docs
  <1>2. s.pc = "end_to_end" /\ UNCHANGED db
    BY DEF TestEndToEnd
  <1>3. PICK a \in Responses :
          LET failed == s.failed \/ ~Succeeds(a) IN
          /\ verified' = IF a = "ok" THEN [verified EXCEPT ![c] = @ \cup {d.settings}]
                         ELSE verified
          /\ request' = [request EXCEPT ![r] =
               IF Passed(failed) /\ d.status = "configured"
               THEN [@ EXCEPT !.pc = "save", !.doc = Tested(d)]
               ELSE Idle]
    BY DEF TestEndToEnd
  <1>4. /\ verified' \in [Configs -> SUBSET Settings]
        /\ \A b \in Configs : verified[b] \subseteq verified'[b]
        /\ a = "ok" => d.settings \in verified'[c]
    BY <1>1, <1>3 DEF IInv, TypeOK
  <1>5. CASE request' = [request EXCEPT ![r] = Idle]
    BY <1>2, <1>4, <1>5, IdleType, SlotStep
  <1>6. CASE /\ Passed(s.failed \/ ~Succeeds(a)) /\ d.status = "configured"
             /\ request' = [request EXCEPT ![r] =
                              [@ EXCEPT !.pc = "save", !.doc = Tested(d)]]
    <2>0. PICK w : w = [s EXCEPT !.pc = "save", !.doc = Tested(d)]
      OBVIOUS
    <2>1. /\ w \in Slots /\ w.pc = "save" /\ w.op = s.op /\ w.config = c
          /\ w.read = d /\ w.doc = Tested(d)
      BY <1>1, <2>0, TestedType DEF Slots
    <2>2. request' = [request EXCEPT ![r] = w]
      BY <1>6, <2>0
    <2>4. a = "ok"
      BY <1>6 DEF Passed, Succeeds
    <2>5. Current(w) /\ w.op \in Operations
      BY <1>2, <2>1 DEF IInv, CopiesAreCurrent, Current, OnlyOperations
    <2>6. Legal(w)'
      BY <1>4, <1>6, <2>1, <2>4 DEF Legal
    <2>7. QED
      BY <1>2, <1>4, <2>1, <2>2, <2>5, <2>6, SlotStep
  <1>7. QED
    BY <1>3, <1>5, <1>6

LEMMA SaveInv ==
  ASSUME IInv, NEW r \in Requests, Save(r)
  PROVE  IInv'
  <1> DEFINE s == request[r]
             c == s.config
  <1>1. s \in Slots /\ s.doc \in Docs /\ c \in Configs /\ db[c] \in Docs
    BY DEF IInv, TypeOK, Slots
  <1>2. Current(s) /\ Legal(s) /\ s.op \in Operations
    BY DEF Save, IInv, CopiesAreCurrent, CopiesAreLegal, OnlyOperations
  <1>3. db[c].status = s.read.status
    BY DEF Save, SameStatus
  <1>4. db' = [db EXCEPT ![c] = s.doc] /\ Free(r) /\ UNCHANGED verified
    BY <1>1 DEF Save, Written, IInv, TypeOK
  <1>5. s.doc.status # "absent"
    BY <1>1, <1>2, SavedDoc DEF Current
  <1>6. db[c].status # "deleted"
    BY <1>2, <1>3 DEF Current
  <1>7. db[c].status \in Late =>
          s.doc.status \in Late \cup {"deleted"} /\ s.doc.settings = db[c].settings
    BY <1>1, <1>2, <1>3, SavedDoc DEF Current, Late
  <1>8. "mark_tested" \notin Operations /\ s.doc.status \in Late =>
          s.doc.settings \in verified[c]
    <2>1. SUFFICES ASSUME "mark_tested" \notin Operations, s.doc.status \in Late
                   PROVE  s.doc.settings \in verified[c]
      OBVIOUS
    <2>2. CASE db[c].status \in Late
      BY <1>1, <1>7, <2>1, <2>2 DEF IInv, TestedIsVerified
    <2>3. CASE db[c].status \notin Late
      BY <1>1, <1>2, <1>3, <2>1, <2>3, SavedDoc DEF Late
    <2>4. QED
      BY <2>2, <2>3
  <1> HIDE DEF s, c
  <1>9. QED
    BY <1>1, <1>4, <1>5, <1>6, <1>7, <1>8, WriteStep

LEMMA InitInv == ASSUME Init PROVE IInv
  <1>1. TypeOK
    BY NoDocType, IdleType DEF Init, TypeOK
  <1>2. \A r \in Requests : request[r].pc = "idle"
    BY IdleType DEF Init
  <1>3. \A c \in Configs : db[c].status = "absent"
    BY DEF Init, NoDoc
  <1>4. QED
    BY <1>1, <1>2, <1>3
    DEF IInv, CopiesAreCurrent, CopiesAreLegal, OnlyOperations, TestedIsVerified, Late

LEMMA NextInv == ASSUME IInv, [Next]_vars PROVE IInv'
  <1>1. ASSUME UNCHANGED vars PROVE IInv'
    BY <1>1 DEF vars, IInv, TypeOK, CopiesAreCurrent, Current, CopiesAreLegal, Legal,
              OnlyOperations, TestedIsVerified
  <1>2. ASSUME NEW r \in Requests, Ask(r) \/ Proceed(r) PROVE IInv'
    BY <1>2, AskInv, CreateInv, LoadInv, BeginTestInv, SaveInv, FailInv, StagesInv,
       EndToEndInv DEF Proceed
  <1>3. QED
    BY <1>1, <1>2 DEF Next

\* The inductive invariant holds of every run of the service.
THEOREM Invariance == Spec => []IInv
  BY InitInv, NextInv, PTL DEF Spec

-----------------------------------------------------------------------------
(* What follows from it *)

\* When configurations are marked as tested by the connectivity test alone, a
\* tested, active or disabled configuration has answered a full request with
\* the settings that are stored.
THEOREM TestedWereVerified ==
  ASSUME "mark_tested" \notin Operations
  PROVE  Spec => []TestedIsVerified
  <1>1. IInv => TestedIsVerified
    BY DEF IInv
  <1>2. QED
    BY <1>1, Invariance, PTL

\* How a step changes the collection.
LEMMA Writes ==
  ASSUME IInv, [Next]_vars
  PROVE  \/ UNCHANGED db
         \/ \E c \in Configs, d \in Docs :
              /\ db' = [db EXCEPT ![c] = d]
              /\ \/ db[c].status = "absent" /\ d.status = "unconfigured"
                 \/ \E r \in Requests : /\ request[r].config = c /\ Legal(request[r])
                                        /\ db[c].status = request[r].read.status
                                        /\ d = request[r].doc
                                        /\ Current(request[r])
  <1>1. ASSUME NEW r \in Requests, Create(r)
        PROVE  \E c \in Configs, d \in Docs :
                 /\ db' = [db EXCEPT ![c] = d]
                 /\ db[c].status = "absent" /\ d.status = "unconfigured"
    <2> DEFINE d == [status |-> "unconfigured", settings |-> request[r].input,
                     lastTested |-> FALSE]
    <2>1. d \in Docs /\ d.status = "unconfigured"
      BY DEF IInv, TypeOK, Slots, Docs
    <2>2. PICK c \in Configs : db[c].status = "absent" /\ db' = [db EXCEPT ![c] = d]
      BY <1>1 DEF Create
    <2> HIDE DEF d
    <2>3. QED
      BY <2>1, <2>2
  <1>2. ASSUME NEW r \in Requests, Save(r)
        PROVE  \E c \in Configs, d \in Docs :
                 /\ db' = [db EXCEPT ![c] = d]
                 /\ \E q \in Requests : /\ request[q].config = c /\ Legal(request[q])
                                        /\ db[c].status = request[q].read.status
                                        /\ d = request[q].doc
                                        /\ Current(request[q])
    <2>1. request[r].config \in Configs /\ request[r].doc \in Docs
      BY DEF IInv, TypeOK, Slots
    <2>2. db' = [db EXCEPT ![request[r].config] = request[r].doc]
      BY <1>2 DEF Save, Written
    <2>3. /\ Legal(request[r]) /\ Current(request[r])
          /\ db[request[r].config].status = request[r].read.status
      BY <1>2 DEF Save, SameStatus, IInv, CopiesAreCurrent, CopiesAreLegal
    <2>4. QED
      BY <2>1, <2>2, <2>3
  <1>3. ASSUME NEW r \in Requests,
               \/ Ask(r) \/ Load(r) \/ BeginTest(r) \/ Fail(r)
               \/ TestConnectivity(r) \/ TestAuthentication(r) \/ TestEndToEnd(r)
        PROVE  UNCHANGED db
    BY <1>3 DEF Ask, Load, BeginTest, Fail, TestConnectivity, TestAuthentication,
              TestEndToEnd
  <1>4. CASE UNCHANGED vars
    BY <1>4 DEF vars
  <1>5. CASE \E r \in Requests : Create(r)
    BY <1>1, <1>5
  <1>6. CASE \E r \in Requests : Save(r)
    BY <1>2, <1>6
  <1>7. QED
    BY <1>3, <1>4, <1>5, <1>6 DEF Next, Proceed

\* Settings are frozen once a configuration was tested, whatever requests
\* overlap, updates and tests among them.
THEOREM TestedSettingsStay == Spec => SettingsFrozen
  <1>1. ASSUME IInv, [Next]_vars, NEW b \in Configs,
               db[b].status \in Late, db'[b].status \in Late
        PROVE  db'[b].settings = db[b].settings
    <2>1. CASE UNCHANGED db
      BY <2>1
    <2>2. ASSUME NEW c \in Configs, NEW d \in Docs, db' = [db EXCEPT ![c] = d],
                 NEW r \in Requests, request[r].config = c, Legal(request[r]),
                 db[c].status = request[r].read.status, d = request[r].doc,
                 Current(request[r])
          PROVE  db'[b].settings = db[b].settings
      <3>1. request[r] \in Slots
        BY <1>1 DEF IInv, TypeOK
      <3>2. CASE b = c
        <4>1. db'[c] = d
          BY <1>1, <2>2 DEF IInv, TypeOK
        <4>2. d.settings = request[r].read.settings
          BY <1>1, <2>2, <3>1, <3>2, <4>1, SavedDoc DEF Late
        <4>3. QED
          BY <1>1, <2>2, <3>2, <4>1, <4>2 DEF Current
      <3>3. CASE b # c
        BY <1>1, <2>2, <3>3 DEF IInv, TypeOK
      <3>4. QED
        BY <3>2, <3>3
    <2>3. ASSUME NEW c \in Configs, NEW d \in Docs, db' = [db EXCEPT ![c] = d],
                 db[c].status = "absent"
          PROVE  db'[b].settings = db[b].settings
      BY <1>1, <2>3 DEF Late, IInv, TypeOK
    <2>4. QED
      BY <1>1, <2>1, <2>2, <2>3, Writes
  <1>2. IInv /\ [Next]_vars =>
          [\A c \in Configs : db[c].status \in Late /\ db'[c].status \in Late =>
             db'[c].settings = db[c].settings]_vars
    BY <1>1
  <1>3. QED
    BY <1>2, Invariance, PTL DEF Spec, SettingsFrozen

-----------------------------------------------------------------------------
(* The promise of the status *)

\* A saved copy moves the status as ExecutorStatus says, or not at all.
LEMMA LegalMoves ==
  ASSUME IInv, NEW c \in Configs, NEW d \in Docs, db' = [db EXCEPT ![c] = d],
         \/ <<db[c].status, d.status>> \in
              {<<"absent", "unconfigured">>, <<"unconfigured", "configured">>,
               <<"configured", "tested">>, <<"tested", "active">>,
               <<"active", "disabled">>, <<"disabled", "active">>,
               <<"unconfigured", "deleted">>, <<"configured", "deleted">>,
               <<"disabled", "deleted">>}
         \/ d.status = db[c].status
  PROVE  [Lifecycle!Next]_StoredStatus
  <1>1. StoredStatus' = [StoredStatus EXCEPT ![c] = d.status]
    BY DEF IInv, TypeOK, StoredStatus
  <1>2. StoredStatus[c] = db[c].status
    BY DEF StoredStatus
  <1>3. CASE d.status = db[c].status
    <2>1. StoredStatus' = StoredStatus
      BY <1>1, <1>2, <1>3 DEF StoredStatus
    <2>2. QED
      BY <2>1
  <1>4. CASE <<db[c].status, d.status>> \in
              {<<"absent", "unconfigured">>, <<"unconfigured", "configured">>,
               <<"configured", "tested">>, <<"tested", "active">>,
               <<"active", "disabled">>, <<"disabled", "active">>,
               <<"unconfigured", "deleted">>, <<"configured", "deleted">>,
               <<"disabled", "deleted">>}
    <2>1. Lifecycle!Move(c, db[c].status, d.status)
      BY <1>1, <1>2 DEF Lifecycle!Move
    <2>2. \/ Lifecycle!Create(c) \/ Lifecycle!MarkConfigured(c)
          \/ Lifecycle!MarkTested(c) \/ Lifecycle!Activate(c)
          \/ Lifecycle!Disable(c) \/ Lifecycle!Enable(c) \/ Lifecycle!Delete(c)
      BY <1>4, <2>1 DEF Lifecycle!Create, Lifecycle!MarkConfigured, Lifecycle!MarkTested,
         Lifecycle!Activate, Lifecycle!Disable, Lifecycle!Enable, Lifecycle!Delete
    <2>3. QED
      BY <2>2 DEF Lifecycle!Next
  <1>5. QED
    BY <1>3, <1>4

LEMMA NextMoves ==
  ASSUME IInv, [Next]_vars
  PROVE  [Lifecycle!Next]_StoredStatus
  <1>1. CASE UNCHANGED db
    BY <1>1 DEF StoredStatus
  <1>2. ASSUME NEW c \in Configs, NEW d \in Docs, db' = [db EXCEPT ![c] = d],
               db[c].status = "absent", d.status = "unconfigured"
        PROVE  [Lifecycle!Next]_StoredStatus
    BY <1>2, LegalMoves
  <1>3. ASSUME NEW c \in Configs, NEW d \in Docs, db' = [db EXCEPT ![c] = d],
               NEW r \in Requests, request[r].config = c, Legal(request[r]),
               db[c].status = request[r].read.status, d = request[r].doc,
               Current(request[r])
        PROVE  [Lifecycle!Next]_StoredStatus
    <2>1. request[r] \in Slots /\ db[c] \in Docs
      BY DEF IInv, TypeOK
    <2>2. db[c].status \notin {"absent", "deleted"}
      BY <1>3 DEF Current
    <2>3. \/ <<db[c].status, d.status>> \in
              {<<"unconfigured", "configured">>, <<"tested", "active">>,
               <<"active", "disabled">>, <<"disabled", "active">>}
          \/ db[c].status = "configured" /\ d.status = "tested"
          \/ d.status = db[c].status
          \/ db[c].status \notin {"active", "tested"} /\ d.status = "deleted"
      BY <1>3, <2>1, SavedDoc
    <2>4. db[c].status \in {"unconfigured", "configured", "tested", "active", "disabled"}
      BY <2>1, <2>2, StatusType
    <2>5. QED
      BY <1>3, <2>3, <2>4, LegalMoves
  <1>4. QED
    BY <1>1, <1>2, <1>3, Writes

\* The service implements the abstract life of a configuration: overlapping
\* requests never move a stored status in a way a single request could not.
THEOREM StatusImplemented == Spec => ImplementsStatus
  <1>1. Init => Lifecycle!Init
    BY DEF Init, Lifecycle!Init, NoDoc, StoredStatus
  <1>2. IInv /\ [Next]_vars => [Lifecycle!Next]_StoredStatus
    BY NextMoves
  <1>3. QED
    BY <1>1, <1>2, Invariance, PTL DEF Spec, ImplementsStatus, Lifecycle!Spec

-----------------------------------------------------------------------------
(* The answers of the API: what holds of a call that waits to write, of one  *)
(* that is answered, and of the documents meanwhile                          *)

Silently(call) == call.told = Silent /\ ~call.wrote

Waits(call) ==
  /\ call.op \in DOMAIN Success \ Reading
  /\ Silently(call)
  /\ call.op \in Creating => stored[call.new] = Missing
  /\ call.op \notin Creating =>
       /\ call.read.status \in LiveStatus
       /\ call.changed \/ stored[call.id].status = call.read.status

Says(call) ==
  /\ call.told.code \in 200 .. 299 /\ call.op \notin Reading => call.wrote
  /\ call.told.code \in 400 .. 499 => ~call.wrote
  /\ call.told.error = StateChanged => call.changed
  /\ call.told.code = 204 => stored[call.id].status = "deleted"
  /\ kind = "workflow" /\ call.told.code = 500 /\ ~call.outage => call.op = "template" /\ ~call.wrote

Good(call) ==
  /\ call \in CallType
  /\ call.pc = "idle" => Silently(call)
  /\ call.pc = "write" => Waits(call)
  /\ call.pc = "answered" => Says(call)

CreatorsApart ==
  \A b, c \in Callers :
    (/\ b # c /\ calls[b].pc = "write" /\ calls[b].op \in Creating
     /\ calls[c].pc = "write" /\ calls[c].op \in Creating) => calls[b].new # calls[c].new

AInv ==
  /\ AnswersTypeOK
  /\ NamesStayUnique
  /\ \A c \in Callers : Good(calls[c])
  /\ CreatorsApart
  /\ OneIsToldOfADeletion

-----------------------------------------------------------------------------
Resource == kind \in {"workflow", "provider", "executor"}

LEMMA SuccessOfOp ==
  ASSUME Resource, NEW op \in DOMAIN Success
  PROVE  /\ op \in DOMAIN WorkflowSuccess \cup DOMAIN ProviderSuccess
         /\ Success[op] \in {200, 201, 204}
         /\ Success[op] = 204 => op = "delete"
<1>1. CASE kind = "workflow"
  BY <1>1 DEF Success, WorkflowSuccess, ProviderSuccess
<1>2. CASE kind = "provider"
  BY <1>2 DEF Success, WorkflowSuccess, ProviderSuccess
<1>3. CASE kind = "executor"
  BY <1>3 DEF Success, ExecutorSuccess, WorkflowSuccess, ProviderSuccess
<1> QED
  BY <1>1, <1>2, <1>3 DEF Resource

\* What a refusal may tell.
Refusal(op, e) ==
  /\ e \in Errors /\ e # StateChanged
  /\ HandleError(e) \in {400, 404, 409, 422, 500}
  /\ kind = "workflow" /\ op # "template" => HandleError(e) # 500

LEMMA CodeOf ==
  ASSUME Resource, NEW e
  PROVE  HandleError(e) \in {400, 404, 409, 422, 500}
<1>1. WorkflowCode(e) \in {400, 404, 409, 422, 500}
  BY DEF WorkflowCode
<1>2. ProviderCode(e) \in {400, 404, 409, 422, 500}
  BY DEF ProviderCode
<1>3. ExecutorCode(e) \in {400, 404, 409, 422, 500}
  BY DEF ExecutorCode
<1> QED
  BY <1>1, <1>2, <1>3 DEF Resource, HandleError

LEMMA WorkflowErrors ==
  ASSUME NEW op \in DOMAIN WorkflowSuccess,
         NEW e \in WorkflowRules[op].before \cup WorkflowRules[op].after
                    \cup {x \in {WorkflowRules[op].wrong} : WorkflowRules[op].from # LiveStatus}
  PROVE  e \in {Sentinel("ExecutorNotFound"), Sentinel("InvalidStatus"), CannotModify,
                 NotInCatalog("Template"), Validation("Other"), Validation("NodesRequired"),
                 Validation("NoTrigger")} \cup {x \in {OtherError} : op = "template"}
  BY DEF WorkflowSuccess, WorkflowRules, Rule, Reads, DefinitionErrors, StructureErrors, NotBuilt

LEMMA ProviderErrors ==
  ASSUME NEW op \in DOMAIN ProviderSuccess,
         NEW e \in ProviderRules[op].before \cup ProviderRules[op].after
                    \cup {x \in {ProviderRules[op].wrong} : ProviderRules[op].from # LiveStatus}
  PROVE  e \in {Sentinel("ProviderNotFoundInCatalog"), Sentinel("BaseURL"), Validation("InvalidSchema"),
                 Validation("Other"), Validation("CannotModify")}
  BY DEF ProviderSuccess, ProviderRules, Rule, Reads, ConfigErrors

LEMMA ExecutorErrors ==
  ASSUME NEW op \in DOMAIN ExecutorSuccess,
         NEW e \in ExecutorRules[op].before \cup ExecutorRules[op].after
                    \cup {x \in {ExecutorRules[op].wrong} : ExecutorRules[op].from # LiveStatus}
  PROVE  e \in {CannotModify, Validation("CannotModify"), Validation("Other")}
  BY DEF ExecutorSuccess, ExecutorRules, Rule, Reads

RuleErrors(op) ==
  Rules[op].before \cup Rules[op].after \cup {x \in {Rules[op].wrong} : Rules[op].from # LiveStatus}

LEMMA RuleRefusal ==
  ASSUME Resource, NEW op \in DOMAIN Success, NEW e \in RuleErrors(op)
  PROVE  Refusal(op, e)
<1>0. HandleError(e) \in {400, 404, 409, 422, 500}
  BY CodeOf
<1>1. CASE kind = "workflow"
  <2>1. e \in {Sentinel("ExecutorNotFound"), Sentinel("InvalidStatus"), CannotModify,
                 NotInCatalog("Template"), Validation("Other"), Validation("NodesRequired"),
                 Validation("NoTrigger")} \cup {x \in {OtherError} : op = "template"}
    BY <1>1, WorkflowErrors DEF RuleErrors, Rules, Success
  <2>2. e \in Errors /\ e # StateChanged
    BY <2>1 DEF Errors, Sentinel, Validation, NotInCatalog, CannotModify, OtherError, StateChanged
  <2>3. op # "template" => WorkflowCode(e) # 500
    BY <2>1 DEF WorkflowCode, Sentinel, Validation, NotInCatalog, CannotModify, StateChanged, NotFound,
                DuplicateName
  <2> QED
    BY <1>0, <1>1, <2>2, <2>3 DEF Refusal, HandleError
<1>2. CASE kind = "provider"
  <2>1. e \in {Sentinel("ProviderNotFoundInCatalog"), Sentinel("BaseURL"), Validation("InvalidSchema"),
                 Validation("Other"), Validation("CannotModify")}
    BY <1>2, ProviderErrors DEF RuleErrors, Rules, Success
  <2> QED
    BY <1>0, <1>2, <2>1 DEF Refusal, Errors, Sentinel, Validation, StateChanged
<1>3. CASE kind = "executor"
  <2>1. e \in {CannotModify, Validation("CannotModify"), Validation("Other")}
    BY <1>3, ExecutorErrors DEF RuleErrors, Rules, Success
  <2> QED
    BY <1>0, <1>3, <2>1 DEF Refusal, Errors, Sentinel, Validation, StateChanged, CannotModify
<1> QED
  BY <1>1, <1>2, <1>3 DEF Resource

LEMMA CommonRefusals ==
  ASSUME Resource
  PROVE  /\ \A op : Refusal(op, NotFound) /\ Refusal(op, DuplicateName)
         /\ StateChanged \in Errors /\ HandleError(StateChanged) = 409
         /\ OtherError \in Errors /\ OtherError # StateChanged
<1>1. /\ NotFound \in Errors /\ NotFound # StateChanged
      /\ DuplicateName \in Errors /\ DuplicateName # StateChanged
      /\ StateChanged \in Errors /\ OtherError \in Errors /\ OtherError # StateChanged
  BY DEF Errors, Sentinel, NotFound, DuplicateName, StateChanged, OtherError
<1>2. ASSUME NEW e \in {NotFound, DuplicateName}  PROVE HandleError(e) # 500
  <2>1. WorkflowCode(e) # 500
    BY <1>2 DEF WorkflowCode
  <2>2. ProviderCode(e) # 500
    BY <1>2 DEF ProviderCode
  <2>3. ExecutorCode(e) # 500
    BY <1>2 DEF ExecutorCode
  <2> QED
    BY <2>1, <2>2, <2>3 DEF HandleError, Resource
<1>3. HandleError(StateChanged) = 409
  <2>0. /\ StateChanged # NotFound /\ StateChanged # Sentinel("ExecutorNotFound")
        /\ StateChanged # NotInCatalog("Template") /\ StateChanged # Sentinel("ProviderNotFoundInCatalog")
        /\ StateChanged # CannotModify /\ StateChanged # Sentinel("InvalidStatus")
        /\ StateChanged # Sentinel("BaseURL") /\ \A n : StateChanged # Validation(n)
    BY DEF StateChanged, NotFound, NotInCatalog, CannotModify, Sentinel, Validation
  <2>1. WorkflowCode(StateChanged) = 409
    BY <2>0 DEF WorkflowCode
  <2>2. ProviderCode(StateChanged) = 409
    BY <2>0 DEF ProviderCode
  <2>3. ExecutorCode(StateChanged) = 409
    BY <2>0 DEF ExecutorCode
  <2> QED
    BY <2>1, <2>2, <2>3 DEF HandleError, Resource
<1> QED
  BY <1>1, <1>2, <1>3, CodeOf DEF Refusal

\* What an operation that writes makes of a document.
LEMMA RuleOutcome ==
  ASSUME Resource, NEW op \in DOMAIN Success \ Reading
  PROVE  /\ Rules[op].to \in LiveStatus \cup {"same", "deleted"}
         /\ Rules[op].to = "deleted" <=> op = "delete"
         /\ op \in Creating => Rules[op].to \in LiveStatus
<1>1. CASE kind = "workflow"
  BY <1>1 DEF Success, Rules, WorkflowSuccess, WorkflowRules, Rule, Reads, Reading, Creating, LiveStatus
<1>2. CASE kind = "provider"
  BY <1>2 DEF Success, Rules, ProviderSuccess, ProviderRules, Rule, Reads, Reading, Creating, LiveStatus
<1>3. CASE kind = "executor"
  BY <1>3 DEF Success, Rules, ExecutorSuccess, ExecutorRules, Rule, Reads, Reading, Creating, LiveStatus
<1> QED
  BY <1>1, <1>2, <1>3 DEF Resource

-----------------------------------------------------------------------------
(* Calls *)

LEMMA Constants ==
  ASSUME kind \in Kinds
  PROVE  /\ Resource /\ AnyId \in Ids /\ AnyName \in Names
         /\ Missing \in [status : {"absent"}, name : Names]
         /\ Deleted \in [status : {"deleted"}, name : Names]
         /\ Nobody \in CallType /\ Silently(Nobody) /\ Nobody.pc = "idle"
<1>1. Resource /\ AnyId \in Ids /\ AnyName \in Names
  BY AnswersAssumption DEF Resource, AnyId, AnyName
<1>2. OtherError \in Errors
  BY <1>1, CommonRefusals
<1> QED
  BY <1>1, <1>2 DEF Missing, Deleted, Nobody, CallType, Silent, Silently, Ops, Copies, Replies,
     WorkflowSuccess, ProviderSuccess

\* A call as a client makes it.
LEMMA AskedCall ==
  ASSUME kind \in Kinds, NEW op \in DOMAIN Success, NEW call \in Asks(op)
  PROVE  /\ call \in CallType /\ call.op = op /\ call.pc = "idle"
         /\ Silently(call) /\ ~call.changed
         /\ op \in Creating => Fresh(call.new)
<1> DEFINE At == IF op \in Finding THEN Ids ELSE {AnyId}
           For == IF op \in Creating THEN {j \in Ids : Fresh(j)} ELSE {AnyId}
           By == IF op \in Naming THEN Names ELSE {AnyName}
<1>0. AnyId \in Ids /\ AnyName \in Names
  BY Constants
<1>1. PICK i \in At, new \in For, name \in By :
        call = Asked(op, i, new, name)
  BY DEF Asks
<1>2. i \in Ids /\ new \in Ids /\ name \in Names /\ (op \in Creating => Fresh(new))
  BY <1>0
<1>3. Nobody \in CallType /\ Silently(Nobody) /\ Nobody.pc = "idle" /\ ~Nobody.changed
  BY Constants DEF Nobody
<1>4. op \in Ops
  BY Constants, SuccessOfOp DEF Ops
<1> HIDE DEF At, For, By
<1>5. call \in CallType
  BY <1>1, <1>2, <1>3, <1>4 DEF CallType, Asked
<1>6. call.op = op /\ call.new = new /\ call.pc = "idle" /\ Silently(call) /\ ~call.changed
  BY <1>1, <1>3 DEF CallType, Asked, Silently
<1> QED
  BY <1>2, <1>5, <1>6

\* A call that is answered.
LEMMA ToldCall ==
  ASSUME kind \in Kinds, NEW call \in CallType,
         NEW code \in {200, 201, 204, 400, 404, 409, 422, 500}, NEW e \in Errors
  PROVE  /\ Told(call, code, e) \in CallType
         /\ Told(call, code, e).pc = "answered"
         /\ Told(call, code, e).told = [code |-> code, error |-> e]
         /\ Told(call, code, e).op = call.op /\ Told(call, code, e).id = call.id
         /\ Told(call, code, e).wrote = call.wrote /\ Told(call, code, e).outage = call.outage
         /\ Told(call, code, e).changed = call.changed
<1>1. AnyId \in Ids /\ AnyName \in Names /\ Missing \in [status : {"absent"}, name : Names]
  BY Constants
<1>2. Missing \in Copies
  BY <1>1 DEF Copies
<1>3. [code |-> code, error |-> e] \in Replies
  BY DEF Replies
<1> QED
  BY <1>1, <1>2, <1>3, ZenonT(60) DEF Told, CallType

\* One that is answered well, of a reading, or of a change that was made.
LEMMA WellCall ==
  ASSUME kind \in Kinds, NEW call \in CallType, call.op \in DOMAIN Success
  PROVE  /\ Well(call) \in CallType /\ Well(call).pc = "answered"
         /\ Well(call).told.code \in {200, 201, 204} /\ Well(call).told.error = OtherError
         /\ Well(call).told.code = 204 => call.op = "delete"
         /\ Well(call).op = call.op /\ Well(call).id = call.id /\ Well(call).wrote = call.wrote
<1>1. /\ Success[call.op] \in {200, 201, 204}
      /\ Success[call.op] = 204 => call.op = "delete"
  BY Constants, SuccessOfOp
<1>2. OtherError \in Errors
  BY Constants, CommonRefusals
<1>3. /\ Well(call) \in CallType /\ Well(call).pc = "answered"
      /\ Well(call).told = [code |-> Success[call.op], error |-> OtherError]
      /\ Well(call).op = call.op /\ Well(call).id = call.id /\ Well(call).wrote = call.wrote
  <2> DEFINE code == Success[call.op]
  <2>1. code \in {200, 201, 204, 400, 404, 409, 422, 500}
    BY <1>1
  <2> HIDE DEF code
  <2>2. /\ Told(call, code, OtherError) \in CallType /\ Told(call, code, OtherError).pc = "answered"
        /\ Told(call, code, OtherError).told = [code |-> code, error |-> OtherError]
        /\ Told(call, code, OtherError).op = call.op /\ Told(call, code, OtherError).id = call.id
        /\ Told(call, code, OtherError).wrote = call.wrote
    BY <2>1, <1>2, ToldCall
  <2> QED
    BY <2>2 DEF Well, code
<1> QED
  BY <1>1, <1>3

LEMMA RefusedCall ==
  ASSUME kind \in Kinds, NEW call \in CallType, ~call.wrote, NEW e, Refusal(call.op, e)
  PROVE  Good(Refused(call, e)) /\ Refused(call, e).pc = "answered" /\ Refused(call, e).told.code # 204
<1>1. Refused(call, e) \in CallType /\ Refused(call, e).pc = "answered" /\ ~Refused(call, e).wrote
      /\ Refused(call, e).told = [code |-> HandleError(e), error |-> e] /\ Refused(call, e).op = call.op
  BY ToldCall DEF Refused, Refusal
<1> QED
  BY <1>1 DEF Good, Says, Refusal

\* With an error of the database the client is told 500, whatever was written.
LEMMA BrokenCall ==
  ASSUME kind \in Kinds, NEW call \in CallType, NEW wrote \in BOOLEAN
  PROVE  /\ Good(Broken(call, wrote)) /\ Broken(call, wrote).pc = "answered"
         /\ Broken(call, wrote).told = [code |-> 500, error |-> OtherError]
         /\ Broken(call, wrote).wrote = wrote /\ Broken(call, wrote).outage
         /\ Broken(call, wrote).id = call.id
<1>1. HandleError(OtherError) = 500
  <2>0. /\ \A n : OtherError # Sentinel(n) /\ OtherError # Validation(n) /\ OtherError # NotInCatalog(n)
        /\ OtherError # NotFound /\ OtherError # DuplicateName /\ OtherError # StateChanged
        /\ OtherError # CannotModify
    BY DEF OtherError, Sentinel, Validation, NotInCatalog, NotFound, DuplicateName, StateChanged, CannotModify
  <2>1. WorkflowCode(OtherError) = 500
    BY <2>0 DEF WorkflowCode
  <2>2. ProviderCode(OtherError) = 500
    BY <2>0 DEF ProviderCode
  <2>3. ExecutorCode(OtherError) = 500
    BY <2>0 DEF ExecutorCode
  <2> QED
    BY <2>1, <2>2, <2>3, Constants DEF HandleError, Resource
<1>2. OtherError \in Errors /\ OtherError # StateChanged
  BY Constants, CommonRefusals
<1>3. /\ Refused(call, OtherError) \in CallType /\ Refused(call, OtherError).pc = "answered"
      /\ Refused(call, OtherError).told = [code |-> 500, error |-> OtherError]
      /\ Refused(call, OtherError).id = call.id
  BY <1>1, <1>2, ToldCall DEF Refused
<1>4. /\ Broken(call, wrote) \in CallType /\ Broken(call, wrote).pc = "answered" /\ Broken(call, wrote).outage
      /\ Broken(call, wrote).told = [code |-> 500, error |-> OtherError]
      /\ Broken(call, wrote).wrote = wrote /\ Broken(call, wrote).id = call.id
  BY <1>3, ZenonT(60) DEF Broken, CallType
<1> QED
  BY <1>2, <1>4 DEF Good, Says

-----------------------------------------------------------------------------
(* Steps *)

\* A step of one call that stores nothing.
LEMMA CallStep ==
  ASSUME AInv, NEW c \in Callers, NEW call, Becomes(c, call), NothingStored,
         outages' \in 0 .. MaxOutages, Good(call), call.told.code # 204,
         call.pc = "write" /\ call.op \in Creating => Fresh(call.new)
  PROVE  AInv'
<1>1. calls \in [Callers -> CallType] /\ call \in CallType
  BY DEF AInv, AnswersTypeOK, Good
<1>2. /\ calls' \in [Callers -> CallType]
      /\ \A b \in Callers : calls'[b] = IF b = c THEN call ELSE calls[b]
  BY <1>1 DEF Becomes
<1>3. kind' = kind /\ indexed' = indexed /\ stored' = stored
  BY DEF NothingStored
<1>4. AnswersTypeOK'
  BY <1>2, <1>3 DEF AInv, AnswersTypeOK, CallType, Ops, Copies, Replies
<1>5. NamesStayUnique'
  BY <1>3 DEF AInv, NamesStayUnique, Held, Clash
<1>6. \A b \in Callers : Good(calls'[b])
  BY <1>2 DEF AInv
<1>7. ASSUME NEW b \in Callers  PROVE Good(calls[b])'
  <2>1. Success' = Success
    BY <1>3 DEF Success
  <2>2. Waits(calls'[b]) => Waits(calls[b])'
    BY <1>3, <2>1 DEF Waits, Silently
  <2>3. Says(calls'[b]) => Says(calls[b])'
    BY <1>3 DEF Says
  <2> QED
    BY <1>6, <2>2, <2>3 DEF Good, Silently
<1>8. CreatorsApart'
  <2> SUFFICES ASSUME NEW a \in Callers, NEW b \in Callers, a # b,
                      calls'[a].pc = "write", calls'[a].op \in Creating,
                      calls'[b].pc = "write", calls'[b].op \in Creating
               PROVE  calls'[a].new # calls'[b].new
    BY DEF CreatorsApart
  <2>1. CASE a # c /\ b # c
    BY <1>2, <2>1 DEF AInv, CreatorsApart
  <2>2. CASE a = c
    BY <1>2, <2>2 DEF Fresh
  <2>3. CASE b = c
    BY <1>2, <2>3 DEF Fresh
  <2> QED
    BY <2>1, <2>2, <2>3
<1>9. OneIsToldOfADeletion'
  BY <1>2 DEF AInv, OneIsToldOfADeletion
<1> QED
  BY <1>4, <1>5, <1>7, <1>8, <1>9 DEF AInv

LEMMA MalformedInv ==
  ASSUME AInv, NEW c \in Callers, Malformed(c)
  PROVE  AInv'
<1>1. PICK op \in Parses : Becomes(c, Told([Nobody EXCEPT !.op = op], 400, OtherError))
  BY DEF Malformed
<1> DEFINE asked == [Nobody EXCEPT !.op = op]
           call == Told(asked, 400, OtherError)
<1>2. kind \in Kinds /\ Nobody \in CallType /\ Silently(Nobody)
  BY Constants DEF AInv, AnswersTypeOK
<1>3. op \in Ops
  BY <1>2, Constants DEF Parses, WorkflowParses, ProviderParses, ExecutorParses, Ops, Resource,
     WorkflowSuccess, ProviderSuccess
<1>4. asked \in CallType /\ ~asked.wrote
  BY <1>2, <1>3 DEF CallType, Silently
<1>5. OtherError # StateChanged /\ OtherError \in Errors
  BY <1>2, Constants, CommonRefusals
<1> HIDE DEF asked
<1>6. /\ call \in CallType /\ call.pc = "answered" /\ call.wrote = asked.wrote
      /\ call.told = [code |-> 400, error |-> OtherError]
  BY <1>2, <1>4, <1>5, ToldCall
<1> HIDE DEF call
<1>7. Good(call) /\ call.told.code # 204
  BY <1>4, <1>5, <1>6 DEF Good, Says
<1>8. outages' \in 0 .. MaxOutages /\ NothingStored /\ Becomes(c, call)
  BY <1>1 DEF Malformed, Quietly, AInv, AnswersTypeOK, asked, call
<1> QED
  BY <1>6, <1>7, <1>8, CallStep

\* What a command decides, short of a write.
LEMMA DecideInv ==
  ASSUME AInv, NEW c \in Callers, NEW op \in DOMAIN Success, NEW call \in Asks(op), Held(call.id),
         Decide(c, call, stored[call.id]), Quietly
  PROVE  AInv'
<1> DEFINE d == stored[call.id]
<1>1. /\ kind \in Kinds /\ Resource
      /\ outages' \in 0 .. MaxOutages /\ NothingStored
  BY Constants DEF AInv, AnswersTypeOK, Quietly
<1>2. /\ call \in CallType /\ call.op = op /\ call.pc = "idle" /\ Silently(call) /\ ~call.wrote
      /\ op \in Creating => Fresh(call.new)
  BY <1>1, AskedCall DEF Silently
<1>3. d.status \in LiveStatus /\ d \in Copies
  BY <1>2 DEF Held, AInv, AnswersTypeOK, Copies, CallType
<1>4. ASSUME NEW e \in RuleErrors(op), Becomes(c, Refused(call, e))
      PROVE  AInv'
  <2>1. Refusal(op, e)
    BY <1>1, <1>4, RuleRefusal
  <2>2. Good(Refused(call, e)) /\ Refused(call, e).pc = "answered" /\ Refused(call, e).told.code # 204
    BY <1>1, <1>2, <2>1, RefusedCall
  <2> QED
    BY <1>1, <1>4, <2>2, CallStep
<1>5. CASE \E e \in Rules[call.op].before : Becomes(c, Refused(call, e))
  BY <1>2, <1>4, <1>5 DEF RuleErrors
<1>6. CASE d.status \notin Rules[call.op].from /\ Becomes(c, Refused(call, Rules[call.op].wrong))
  <2>1. Rules[op].from # LiveStatus
    BY <1>2, <1>3, <1>6
  <2> QED
    BY <1>2, <1>4, <1>6, <2>1 DEF RuleErrors
<1>7. CASE \E e \in Rules[call.op].after : Becomes(c, Refused(call, e))
  BY <1>2, <1>4, <1>7 DEF RuleErrors
<1>8. CASE call.op \in Reading /\ Becomes(c, Well(call))
  <2>1. Good(Well(call)) /\ Well(call).told.code # 204 /\ Well(call).pc = "answered"
    <3>1. /\ Well(call) \in CallType /\ Well(call).pc = "answered"
          /\ Well(call).told.code \in {200, 201, 204} /\ Well(call).told.error = OtherError
          /\ Well(call).told.code = 204 => call.op = "delete"
          /\ Well(call).op = call.op
      BY <1>1, <1>2, WellCall
    <3>2. call.op # "delete"
      BY <1>8 DEF Reading
    <3>3. OtherError # StateChanged
      BY <1>1, CommonRefusals
    <3> QED
      BY <1>8, <3>1, <3>2, <3>3 DEF Good, Says
  <2> QED
    BY <1>1, <1>8, <2>1, CallStep
<1>9. CASE call.op \notin Reading /\ Becomes(c, [call EXCEPT !.pc = "write", !.read = d])
  <2> DEFINE waiting == [call EXCEPT !.pc = "write", !.read = d]
  <2>1. /\ waiting \in CallType /\ waiting.pc = "write" /\ waiting.op = op /\ waiting.id = call.id
        /\ waiting.new = call.new /\ waiting.read = d /\ Silently(waiting)
    BY <1>2, <1>3 DEF CallType, Silently
  <2>2. op \in Creating => stored[waiting.new] = Missing /\ Fresh(waiting.new)
    BY <1>2, <2>1 DEF Fresh
  <2>3. Good(waiting) /\ waiting.told.code # 204
    BY <1>2, <1>3, <1>9, <2>1, <2>2 DEF Good, Waits, Silently, Silent
  <2> HIDE DEF waiting
  <2> QED
    BY <1>1, <1>9, <2>1, <2>2, <2>3, CallStep DEF waiting
<1> QED
  BY <1>5, <1>6, <1>7, <1>8, <1>9 DEF Decide

\* A call that meets an error of the database and writes nothing.
LEMMA OutageInv ==
  ASSUME AInv, NEW c \in Callers, NEW call \in CallType, Becomes(c, Broken(call, FALSE)),
         Outage, NothingStored
  PROVE  AInv'
<1>1. kind \in Kinds /\ outages' \in 0 .. MaxOutages
  BY AnswersAssumption DEF AInv, AnswersTypeOK, Outage
<1>2. /\ Good(Broken(call, FALSE)) /\ Broken(call, FALSE).pc = "answered"
      /\ Broken(call, FALSE).told = [code |-> 500, error |-> OtherError]
  BY <1>1, BrokenCall, ZenonT(60)
<1> DEFINE answer == Broken(call, FALSE)
<1> HIDE DEF answer
<1>3. Good(answer) /\ answer.pc = "answered" /\ answer.told = [code |-> 500, error |-> OtherError]
  BY ONLY <1>2, Zenon DEF answer
<1>4. Becomes(c, answer) /\ NothingStored
  BY DEF answer
<1> QED
  BY <1>1, <1>3, <1>4, CallStep

LEMMA RefusedInv ==
  ASSUME AInv, NEW c \in Callers, NEW call \in CallType, ~call.wrote,
         NEW e, Refusal(call.op, e), Becomes(c, Refused(call, e)), Quietly
  PROVE  AInv'
<1>1. kind \in Kinds /\ outages' \in 0 .. MaxOutages /\ NothingStored
  BY DEF AInv, AnswersTypeOK, Quietly
<1>2. Good(Refused(call, e)) /\ Refused(call, e).pc = "answered" /\ Refused(call, e).told.code # 204
  BY <1>1, RefusedCall
<1> QED
  BY <1>1, <1>2, CallStep

LEMMA FindInv ==
  ASSUME AInv, NEW c \in Callers, Find(c)
  PROVE  AInv'
<1>0. PICK op \in Finding \cap DOMAIN Success : \E call \in Asks(op) :
        \/ Held(call.id) /\ Decide(c, call, stored[call.id]) /\ Quietly
        \/ ~Held(call.id) /\ Becomes(c, Refused(call, NotFound)) /\ Quietly
        \/ Becomes(c, Broken(call, FALSE)) /\ Outage /\ NothingStored
  BY DEF Find
<1>1. PICK call \in Asks(op) :
        \/ Held(call.id) /\ Decide(c, call, stored[call.id]) /\ Quietly
        \/ ~Held(call.id) /\ Becomes(c, Refused(call, NotFound)) /\ Quietly
        \/ Becomes(c, Broken(call, FALSE)) /\ Outage /\ NothingStored
  BY <1>0
<1>2. kind \in Kinds
  BY DEF AInv, AnswersTypeOK
<1>3. call \in CallType /\ ~call.wrote /\ Refusal(call.op, NotFound)
  BY <1>2, AskedCall, Constants, CommonRefusals DEF Silently
<1> QED
  BY <1>1, <1>3, DecideInv, RefusedInv, OutageInv

LEMMA ListInv ==
  ASSUME AInv, NEW c \in Callers, List(c)
  PROVE  AInv'
<1>1. PICK call \in Asks("list") :
        \/ \E e \in Rules["list"].before : Becomes(c, Refused(call, e)) /\ Quietly
        \/ Becomes(c, Well(call)) /\ Quietly
        \/ Becomes(c, Broken(call, FALSE)) /\ Outage /\ NothingStored
  BY DEF List
<1>2. kind \in Kinds /\ Resource
  BY Constants DEF AInv, AnswersTypeOK
<1>3. "list" \in DOMAIN Success
  BY <1>2 DEF Success, Resource, WorkflowSuccess, ProviderSuccess, ExecutorSuccess
<1>4. call \in CallType /\ ~call.wrote /\ call.op = "list"
  BY <1>2, <1>3, AskedCall DEF Silently
<1>5. CASE \E e \in Rules["list"].before : Becomes(c, Refused(call, e)) /\ Quietly
  BY <1>2, <1>3, <1>4, <1>5, RuleRefusal, RefusedInv DEF RuleErrors
<1>6. CASE Becomes(c, Well(call)) /\ Quietly
  <2>1. /\ Well(call) \in CallType /\ Well(call).pc = "answered"
        /\ Well(call).told.code \in {200, 201, 204} /\ Well(call).told.error = OtherError
        /\ Well(call).told.code = 204 => call.op = "delete"
        /\ Well(call).op = call.op
    BY <1>2, <1>3, <1>4, WellCall
  <2>2. OtherError # StateChanged
    BY <1>2, CommonRefusals
  <2>3. Good(Well(call)) /\ Well(call).told.code # 204
    BY <1>4, <2>1, <2>2 DEF Good, Says, Reading
  <2>4. outages' \in 0 .. MaxOutages /\ NothingStored
    BY <1>6 DEF Quietly, AInv, AnswersTypeOK
  <2> QED
    BY <1>6, <2>1, <2>3, <2>4, CallStep
<1> QED
  BY <1>1, <1>4, <1>5, <1>6, OutageInv

LEMMA ValidateInv ==
  ASSUME AInv, NEW c \in Callers, Validate(c)
  PROVE  AInv'
<1>0. PICK op \in {"create", "template"} \cap DOMAIN Success : \E call \in Asks(op) :
        \/ \E e \in Rules[op].before : Becomes(c, Refused(call, e))
        \/ Becomes(c, [call EXCEPT !.pc = "write"])
  BY DEF Validate
<1>1. PICK call \in Asks(op) :
        \/ \E e \in Rules[op].before : Becomes(c, Refused(call, e))
        \/ Becomes(c, [call EXCEPT !.pc = "write"])
  BY <1>0
<1>2. kind \in Kinds /\ Resource /\ outages' \in 0 .. MaxOutages /\ NothingStored /\ Quietly
  BY Constants DEF AInv, AnswersTypeOK, Validate, Quietly
<1>3. /\ call \in CallType /\ ~call.wrote /\ call.op = op /\ Silently(call)
      /\ op \in Creating /\ op \notin Reading /\ Fresh(call.new)
  BY <1>2, AskedCall DEF Silently, Creating, Reading
<1>4. CASE \E e \in Rules[op].before : Becomes(c, Refused(call, e))
  BY <1>2, <1>3, <1>4, RuleRefusal, RefusedInv DEF RuleErrors
<1>5. CASE Becomes(c, [call EXCEPT !.pc = "write"])
  <2> DEFINE waiting == [call EXCEPT !.pc = "write"]
  <2>1. /\ waiting \in CallType /\ waiting.pc = "write" /\ waiting.op = op
        /\ waiting.new = call.new /\ Silently(waiting)
    BY <1>3 DEF CallType, Silently
  <2> HIDE DEF waiting
  <2>2. Good(waiting) /\ waiting.told.code # 204
    BY <1>3, <2>1 DEF Good, Waits, Silently, Silent, Fresh
  <2> QED
    BY <1>2, <1>3, <1>5, <2>1, <2>2, CallStep DEF waiting
<1> QED
  BY <1>1, <1>4, <1>5

LEMMA ForgetInv ==
  ASSUME AInv, NEW c \in Callers, Forget(c)
  PROVE  AInv'
<1>1. kind \in Kinds /\ outages' \in 0 .. MaxOutages /\ NothingStored
  BY DEF AInv, AnswersTypeOK, Forget, Quietly
<1>2. Nobody \in CallType /\ Silently(Nobody) /\ Nobody.pc = "idle"
  BY <1>1, Constants
<1>3. Good(Nobody) /\ Nobody.told.code # 204
  BY <1>2 DEF Good, Silently, Silent
<1> QED
  BY <1>1, <1>2, <1>3, CallStep DEF Forget

-----------------------------------------------------------------------------
(* The write *)

\* What a waiting call makes of the document that it is for.
LEMMA WaitingOutcome ==
  ASSUME AInv, NEW c \in Callers, calls[c].pc = "write"
  PROVE  /\ Target(calls[c]) \in Ids
         /\ Outcome(calls[c]) \in [status : LiveStatus \cup {"deleted"}, name : Names]
         /\ Outcome(calls[c]).status = "deleted" <=> calls[c].op = "delete"
         /\ Outcome(calls[c]).status = "deleted" => Outcome(calls[c]) = Deleted
<1> DEFINE call == calls[c]
<1>1. kind \in Kinds /\ Resource /\ Deleted \in [status : {"deleted"}, name : Names]
  BY Constants DEF AInv, AnswersTypeOK
<1>2. call \in CallType /\ Waits(call)
  BY DEF AInv, Good
<1>3. /\ call.op \in DOMAIN Success \ Reading /\ call.id \in Ids /\ call.new \in Ids
      /\ call.name \in Names /\ call.read.name \in Names
      /\ call.op \notin Creating => call.read.status \in LiveStatus
  BY <1>2 DEF Waits, CallType, Copies
<1>4. /\ Rules[call.op].to \in LiveStatus \cup {"same", "deleted"}
      /\ Rules[call.op].to = "deleted" <=> call.op = "delete"
      /\ call.op \in Creating => Rules[call.op].to \in LiveStatus
  BY <1>1, <1>3, RuleOutcome
<1>5. "same" \notin LiveStatus /\ "deleted" \notin LiveStatus
  BY DEF LiveStatus
<1> HIDE DEF call
<1>6. Target(call) \in Ids
  BY <1>3 DEF Target
<1>7. CASE Rules[call.op].to = "deleted"
  BY <1>1, <1>4, <1>6, <1>7 DEF Outcome, call
<1>8. CASE Rules[call.op].to # "deleted"
  <2> DEFINE status == IF Rules[call.op].to = "same" THEN call.read.status ELSE Rules[call.op].to
             name == IF call.op \in Naming THEN call.name ELSE call.read.name
  <2>1. Outcome(call) = [status |-> status, name |-> name]
    BY <1>8 DEF Outcome
  <2>2. status \in LiveStatus /\ name \in Names
    BY <1>3, <1>4, <1>5, <1>8
  <2> QED
    BY <1>4, <1>5, <1>6, <1>8, <2>1, <2>2 DEF call
<1> QED
  BY <1>7, <1>8

\* The document that a waiting call may write is there as it was read, or is
\* not there yet.
LEMMA WaitingTarget ==
  ASSUME AInv, NEW c \in Callers, calls[c].pc = "write", Matches(calls[c])
  PROVE  /\ stored[Target(calls[c])].status # "deleted"
         /\ calls[c].op \notin Creating => stored[Target(calls[c])].status \in LiveStatus
<1>1. Waits(calls[c])
  BY DEF AInv, Good
<1>2. CASE calls[c].op \in Creating
  BY <1>1, <1>2 DEF Waits, Target, Missing
<1>3. CASE calls[c].op \notin Creating
  BY <1>1, <1>3 DEF Waits, Target, Matches, LiveStatus
<1> QED
  BY <1>2, <1>3

LEMMA ApplyInv ==
  ASSUME AInv, NEW c \in Callers, calls[c].pc = "write", Applies(calls[c]), NEW answer,
         Apply(c, answer), outages' \in 0 .. MaxOutages,
         answer \in CallType, answer.pc = "answered", answer.wrote, answer.told.error # StateChanged,
         answer.told.code \notin 400 .. 499, answer.id = calls[c].id,
         answer.told.code = 204 => calls[c].op = "delete",
         kind = "workflow" /\ answer.told.code = 500 => answer.outage
  PROVE  AInv'
<1> DEFINE call == calls[c]
           t == Target(call)
           x == Outcome(call)
           Touch(b) == [calls[b] EXCEPT !.changed = @ \/ (calls[b].pc = "write" /\ calls[b].id = t)]
<1>1. /\ kind' = kind /\ indexed' = indexed /\ stored' = [stored EXCEPT ![t] = x]
      /\ calls' = [b \in Callers |-> IF b = c THEN answer ELSE Touch(b)]
  BY DEF Apply
<1>2. /\ t \in Ids /\ x \in [status : LiveStatus \cup {"deleted"}, name : Names]
      /\ x.status = "deleted" <=> call.op = "delete"
      /\ x.status = "deleted" => x = Deleted
  BY WaitingOutcome
<1>3. stored[t].status # "deleted" /\ (call.op \notin Creating => stored[t].status \in LiveStatus)
  BY WaitingTarget DEF Applies
<1>4. stored \in [Ids -> [status : LiveStatus \cup {"absent", "deleted"}, name : Names]]
  BY DEF AInv, AnswersTypeOK
<1>5. calls \in [Callers -> CallType] /\ \A b \in Callers : Good(calls[b])
  BY DEF AInv, AnswersTypeOK
<1>6. Waits(call)
  BY <1>5 DEF Good
<1>7. ASSUME NEW b \in Callers
      PROVE  /\ Touch(b) \in CallType
             /\ Touch(b).pc = calls[b].pc /\ Touch(b).op = calls[b].op /\ Touch(b).id = calls[b].id
             /\ Touch(b).new = calls[b].new /\ Touch(b).read = calls[b].read
             /\ Touch(b).told = calls[b].told /\ Touch(b).wrote = calls[b].wrote
             /\ Touch(b).outage = calls[b].outage
             /\ calls[b].changed => Touch(b).changed
             /\ calls[b].pc = "write" /\ calls[b].id = t => Touch(b).changed
  BY <1>5 DEF CallType
<1>8. call.op = "delete" => call.op \notin Creating
  BY DEF Creating
<1>9. x.status = "deleted" => t = call.id
  BY <1>2, <1>8 DEF Target
<1>10. Applies(call) => (x # Deleted => ~Clash(t, x.name))
  BY DEF Applies
<1> HIDE DEF t, x, Touch
<1>11. AnswersTypeOK'
  <2>1. stored' \in [Ids -> [status : LiveStatus \cup {"absent", "deleted"}, name : Names]]
    BY <1>1, <1>2, <1>4
  <2>2. calls' \in [Callers -> CallType]
    BY <1>1, <1>7
  <2> QED
    BY <1>1, <2>1, <2>2 DEF AInv, AnswersTypeOK
<1>12. NamesStayUnique'
  <2> SUFFICES ASSUME NEW i \in Ids, Held(i)', indexed, NEW j \in Ids \ {i}, Held(j)',
                      stored'[j].name = stored'[i].name
               PROVE  FALSE
    BY <1>1 DEF NamesStayUnique, Clash
  <2>1. CASE i # t /\ j # t
    BY <1>1, <2>1 DEF AInv, NamesStayUnique, Clash, Held
  <2>2. CASE i = t \/ j = t
    <3>1. x.status # "deleted"
      BY <1>1, <1>2, <1>4, <2>2 DEF Held, LiveStatus
    <3>2. x # Deleted /\ ~Clash(t, x.name)
      BY <1>10, <3>1 DEF Deleted
    <3> QED
      BY <1>1, <1>2, <1>4, <2>2, <3>2 DEF Clash, Held
  <2> QED
    BY <2>1, <2>2
<1>13. ASSUME NEW b \in Callers  PROVE Good(calls[b])'
  <2>1. CASE b = c
    <3>1. calls'[b] = answer
      BY <1>1, <2>1
    <3>2. answer.told.code = 204 => stored'[answer.id].status = "deleted"
      BY <1>1, <1>2, <1>4, <1>9
    <3> QED
      BY <1>1, <3>1, <3>2 DEF Good, Says
  <2>2. CASE b # c
    <3>1. calls'[b] = Touch(b) /\ Good(calls[b])
      BY <1>1, <1>5, <2>2
    <3>2. calls[b].id \in Ids /\ calls[b].new \in Ids
      BY <1>5 DEF CallType
    <3>3. calls[b].pc = "idle" => Silently(Touch(b))
      BY <1>7, <3>1 DEF Good, Silently
    <3>4. ASSUME calls[b].pc = "write"  PROVE Waits(calls[b])'
      <4>1. Waits(calls[b]) /\ Success' = Success
        BY <1>1, <3>1, <3>4 DEF Good, Success
      <4>2. calls[b].op \in Creating => calls[b].new # t
        <5>1. CASE call.op \in Creating
          BY <2>2, <3>4, <5>1 DEF AInv, CreatorsApart, t, Target
        <5>2. CASE call.op \notin Creating
          BY <1>3, <4>1, <5>2 DEF Waits, Missing, LiveStatus
        <5> QED
          BY <5>1, <5>2
      <4>3. calls[b].op \in Creating => stored'[calls[b].new] = Missing
        BY <1>1, <1>4, <3>2, <4>1, <4>2 DEF Waits
      <4>4. calls[b].op \notin Creating =>
              Touch(b).changed \/ stored'[calls[b].id].status = calls[b].read.status
        BY <1>1, <1>4, <1>7, <3>2, <3>4, <4>1, SMTT(30) DEF Waits
      <4> QED
        BY <1>7, <3>1, <4>1, <4>3, <4>4 DEF Waits, Silently
    <3>5. ASSUME calls[b].pc = "answered"  PROVE Says(calls[b])'
      <4>1. Says(calls[b])
        BY <3>1, <3>5 DEF Good
      <4>2. calls[b].told.code = 204 => stored'[calls[b].id].status = "deleted"
        BY <1>1, <1>3, <1>4, <3>2, <4>1 DEF Says
      <4> QED
        BY <1>1, <1>7, <3>1, <4>1, <4>2 DEF Says
    <3>6. calls'[b].pc = calls[b].pc /\ calls'[b] \in CallType
      BY <1>7, <3>1
    <3> QED
      BY <3>1, <3>3, <3>4, <3>5, <3>6 DEF Good, Silently
  <2> QED
    BY <2>1, <2>2
<1>14. CreatorsApart'
  <2> SUFFICES ASSUME NEW a \in Callers, NEW b \in Callers, a # b,
                      calls'[a].pc = "write", calls'[a].op \in Creating,
                      calls'[b].pc = "write", calls'[b].op \in Creating
               PROVE  calls'[a].new # calls'[b].new
    BY DEF CreatorsApart
  <2>1. a # c /\ b # c
    BY <1>1
  <2> QED
    BY <1>1, <1>7, <2>1 DEF AInv, CreatorsApart
<1>15. OneIsToldOfADeletion'
  <2> SUFFICES ASSUME NEW a \in Callers, NEW b \in Callers, a # b,
                      calls'[a].told.code = 204, calls'[b].told.code = 204, calls'[a].id = calls'[b].id
               PROVE  FALSE
    BY DEF OneIsToldOfADeletion
  <2>1. CASE a # c /\ b # c
    BY <1>1, <1>7, <2>1 DEF AInv, OneIsToldOfADeletion
  <2>2. ASSUME NEW d \in Callers, d # c, calls[d].told.code = 204  PROVE stored[calls[d].id].status = "deleted"
    BY <1>5, <2>2 DEF Good, Waits, Silently, Silent, Says, CallType
  <2>3. answer.told.code = 204 => t = call.id /\ answer.id = t
    BY <1>2, <1>9
  <2>4. CASE a = c
    BY <1>1, <1>3, <1>7, <2>2, <2>3, <2>4
  <2>5. CASE b = c
    BY <1>1, <1>3, <1>7, <2>2, <2>3, <2>5
  <2> QED
    BY <2>1, <2>4, <2>5
<1> QED
  BY <1>11, <1>12, <1>13, <1>14, <1>15 DEF AInv


LEMMA WriteInv ==
  ASSUME AInv, NEW c \in Callers, Write(c)
  PROVE  AInv'
<1> DEFINE call == calls[c]
<1>1. kind \in Kinds /\ outages \in 0 .. MaxOutages /\ MaxOutages \in Nat
  BY AnswersAssumption DEF AInv, AnswersTypeOK
<1>2. /\ call \in CallType /\ call.pc = "write" /\ Waits(call)
      /\ call.op \in DOMAIN Success /\ call.op \notin Reading /\ ~call.wrote
  BY DEF AInv, AnswersTypeOK, Good, Write, Waits, Silently
<1>3. CASE Applies(call) /\ Apply(c, [Well(call) EXCEPT !.wrote = TRUE]) /\ UNCHANGED outages
  <2> DEFINE answer == [Well(call) EXCEPT !.wrote = TRUE]
  <2>1. /\ Well(call) \in CallType /\ Well(call).pc = "answered"
        /\ Well(call).told.code \in {200, 201, 204} /\ Well(call).told.error = OtherError
        /\ Well(call).told.code = 204 => call.op = "delete"
        /\ Well(call).id = call.id
    BY <1>1, <1>2, WellCall
  <2>2. /\ answer \in CallType /\ answer.pc = "answered" /\ answer.wrote
        /\ answer.told = Well(call).told /\ answer.id = call.id
    BY <2>1 DEF CallType
  <2>3. OtherError # StateChanged
    BY <1>1, Constants, CommonRefusals
  <2>4. Apply(c, answer) /\ Applies(call) /\ outages' \in 0 .. MaxOutages
    BY <1>1, <1>3
  <2> HIDE DEF answer
  <2> QED
    BY <1>2, <2>1, <2>2, <2>3, <2>4, ApplyInv
<1>4. CASE ~Matches(call) /\ Becomes(c, Refused(call, StateChanged)) /\ Quietly
  <2>1. call.changed
    BY <1>2, <1>4 DEF Waits, Matches
  <2>2. StateChanged \in Errors /\ HandleError(StateChanged) = 409
    BY <1>1, Constants, CommonRefusals
  <2>3. /\ Refused(call, StateChanged) \in CallType /\ Refused(call, StateChanged).pc = "answered"
        /\ Refused(call, StateChanged).told = [code |-> 409, error |-> StateChanged]
        /\ Refused(call, StateChanged).wrote = call.wrote
        /\ Refused(call, StateChanged).changed = call.changed
    BY <1>1, <1>2, <2>2, ToldCall DEF Refused
  <2>4. Good(Refused(call, StateChanged)) /\ Refused(call, StateChanged).told.code # 204
    BY <1>2, <2>1, <2>3 DEF Good, Says
  <2> QED
    BY <1>1, <1>4, <2>3, <2>4, CallStep DEF Quietly
<1>5. CASE Matches(call) /\ ~Applies(call) /\ Becomes(c, Refused(call, DuplicateName)) /\ Quietly
  BY <1>1, <1>2, <1>5, Constants, CommonRefusals, RefusedInv
<1>6. CASE Applies(call) /\ Apply(c, Broken(call, TRUE)) /\ Outage
  <2> DEFINE answer == Broken(call, TRUE)
  <2>1. /\ answer \in CallType /\ answer.pc = "answered" /\ answer.wrote /\ answer.outage
        /\ answer.told = [code |-> 500, error |-> OtherError] /\ answer.id = call.id
    BY <1>1, <1>2, BrokenCall, ZenonT(60) DEF Good
  <2>2. OtherError # StateChanged
    BY <1>1, Constants, CommonRefusals
  <2>3. outages' \in 0 .. MaxOutages
    BY <1>1, <1>6 DEF Outage
  <2>4. Apply(c, answer) /\ Applies(call)
    BY <1>6
  <2> HIDE DEF answer
  <2> QED
    BY <1>2, <2>1, <2>2, <2>3, <2>4, ApplyInv
<1>7. CASE Becomes(c, Broken(call, FALSE)) /\ Outage /\ NothingStored
  BY <1>2, <1>7, OutageInv
<1> QED
  BY <1>3, <1>4, <1>5, <1>6, <1>7 DEF Write

-----------------------------------------------------------------------------
(* The invariant *)

LEMMA FirstAInv ==
  ASSUME AnswersInit
  PROVE  AInv
<1>1. /\ Missing \in [status : {"absent"}, name : Names]
      /\ Nobody \in CallType /\ Silently(Nobody) /\ Nobody.pc = "idle"
  BY Constants DEF AnswersInit
<1>2. calls = [c \in Callers |-> Nobody]
  BY DEF AnswersInit
<1>3. \A k \in {"workflow", "provider", "executor"} : Status[k] \subseteq LiveStatus
  BY DEF Status, LiveStatus
<1>4. AnswersTypeOK
  BY <1>1, <1>2, <1>3, AnswersAssumption DEF AnswersInit, AnswersTypeOK
<1>5. NamesStayUnique
  BY DEF AnswersInit, NamesStayUnique
<1>6. \A c \in Callers : Good(calls[c])
  BY <1>1, <1>2 DEF Good
<1>7. CreatorsApart /\ OneIsToldOfADeletion
  BY <1>1, <1>2 DEF CreatorsApart, OneIsToldOfADeletion, Silently, Silent
<1> QED
  BY <1>4, <1>5, <1>6, <1>7 DEF AInv

LEMMA NextAInv ==
  ASSUME AInv, [AnswersNext]_answerVars
  PROVE  AInv'
<1>1. CASE AnswersNext
  BY <1>1, MalformedInv, FindInv, ValidateInv, ListInv, WriteInv, ForgetInv DEF AnswersNext
<1>2. CASE UNCHANGED answerVars
  <2>1. /\ kind' = kind /\ indexed' = indexed /\ stored' = stored
        /\ calls' = calls /\ outages' = outages
    BY <1>2 DEF answerVars
  <2>2. AnswersTypeOK' /\ NamesStayUnique' /\ CreatorsApart' /\ OneIsToldOfADeletion'
    BY <2>1 DEF AInv, AnswersTypeOK, CallType, Ops, Copies, Replies, NamesStayUnique, Held, Clash,
       CreatorsApart, OneIsToldOfADeletion
  <2>3. Success' = Success
    BY <2>1 DEF Success
  <2>4. ASSUME NEW c \in Callers  PROVE Good(calls[c])'
    <3>1. Good(calls[c])
      BY DEF AInv
    <3> QED
      BY <2>1, <2>3, <3>1 DEF Good, Waits, Says, Silently
  <2> QED
    BY <2>2, <2>4 DEF AInv
<1> QED
  BY <1>1, <1>2

LEMMA AInvSuffices ==
  ASSUME AInv
  PROVE  AnswersInv
<1>1. ASSUME NEW c \in Callers
      PROVE  /\ calls[c] \in CallType
             /\ calls[c].pc \in {"idle", "write", "answered"}
             /\ calls[c].pc # "answered" => Silently(calls[c])
             /\ calls[c].pc = "answered" => Says(calls[c])
  BY DEF AInv, AnswersTypeOK, CallType, Good, Waits
<1>2. AnswersTellTheEffect
  BY <1>1 DEF AnswersTellTheEffect, Answered, Says
<1>3. ConflictMeansChanged
  <2>1. OtherError # StateChanged
    BY DEF OtherError, StateChanged, Sentinel
  <2> QED
    BY <1>1, <2>1 DEF ConflictMeansChanged, Says, Silently, Silent
<1>4. kind = "workflow" => ServerErrorIsExplained
  BY <1>1 DEF ServerErrorIsExplained, Says, Silently, Silent
<1> QED
  BY <1>2, <1>3, <1>4 DEF AInv, AnswersInv

\* However the calls of clients overlap and whenever the database fails, what
\* clients are told is what happened: 2xx is told of changes that were made,
\* 4xx of changes that were not, "changed concurrently" only where somebody
\* did change the document, a deletion to one client, 500 of a workflow only
\* where the database failed or a template could not be built, and with the
\* index no two documents share a name.
THEOREM AnswersAreTrue == AnswersSpec => []AnswersInv
<1>1. AnswersInit => AInv
  BY FirstAInv
<1>2. AInv /\ [AnswersNext]_answerVars => AInv'
  BY NextAInv
<1>3. AInv => AnswersInv
  BY AInvSuffices
<1> QED
  BY <1>1, <1>2, <1>3, PTL DEF AnswersSpec

-----------------------------------------------------------------------------
(* The history of MCApi: what nobody marked by hand was tested *)

\* As long as nobody has asked for mark_tested, no request in flight is one, and
\* what was tested has answered.
MInv ==
  ~marked => /\ TestedIsVerified
             /\ \A r \in Requests : request[r].pc # "idle" => request[r].op # "mark_tested"

LEMMA UnmarkedInit == ASSUME Init, ~marked PROVE MInv
  BY IdleType DEF Init, MInv, NoDoc, TestedIsVerified, Late

\* A request keeps its operation until it is answered.
LEMMA SlotsKeepOps ==
  ASSUME IInv, ConfigsNext, ~marked'
  PROVE  \A r \in Requests : request'[r].pc # "idle" => request'[r].op # "mark_tested"
  BY DEF ConfigsNext

\* A step that writes no document but may add to what has answered.
LEMMA UnmarkedQuiet ==
  ASSUME IInv, MInv, ConfigsNext, ~marked', UNCHANGED db,
         \A c \in Configs : verified[c] \subseteq verified'[c]
  PROVE  TestedIsVerified'
  <1>1. TestedIsVerified
    BY DEF MInv, ConfigsNext
  <1>2. QED
    BY <1>1 DEF TestedIsVerified

LEMMA UnmarkedCreate ==
  ASSUME IInv, MInv, ConfigsNext, ~marked', NEW r \in Requests, Create(r)
  PROVE  TestedIsVerified'
  <1>1. TestedIsVerified
    BY DEF MInv, ConfigsNext
  <1>2. PICK c \in Configs : db' = [db EXCEPT ![c] =
          [status |-> "unconfigured", settings |-> request[r].input, lastTested |-> FALSE]]
    BY DEF Create
  <1>3. /\ db'[c].status = "unconfigured"
        /\ \A b \in Configs : b # c => db'[b] = db[b]
    BY <1>2 DEF IInv, TypeOK
  <1>4. QED
    BY <1>1, <1>3 DEF TestedIsVerified, Late, Create

LEMMA UnmarkedSave ==
  ASSUME IInv, MInv, ConfigsNext, ~marked', NEW r \in Requests, Save(r)
  PROVE  TestedIsVerified'
  <1> DEFINE s == request[r]
             c == s.config
  <1>1. /\ s \in Slots /\ s.doc \in Docs /\ c \in Configs /\ db[c] \in Docs
        /\ s.pc = "save" /\ UNCHANGED verified
    BY DEF IInv, TypeOK, Slots, Save
  <1>2. Current(s) /\ Legal(s)
    BY DEF Save, IInv, CopiesAreCurrent, CopiesAreLegal
  <1>3. db[c].status = s.read.status
    BY DEF Save, SameStatus
  <1>4. db'[c] = s.doc /\ \A b \in Configs : b # c => db'[b] = db[b]
    BY <1>1 DEF Save, Written, IInv, TypeOK
  <1>5. TestedIsVerified /\ s.op # "mark_tested"
    BY <1>1 DEF MInv, ConfigsNext
  <1>6. s.doc.status \in Late => s.doc.settings \in verified[c]
    <2>1. CASE db[c].status \in Late
      <3>1. s.doc.status \in Late => s.doc.settings = db[c].settings
        BY <1>1, <1>2, <1>3, <2>1, SavedDoc DEF Current, Late
      <3>2. QED
        BY <1>1, <1>5, <2>1, <3>1 DEF TestedIsVerified
    <2>2. CASE db[c].status \notin Late
      BY <1>1, <1>2, <1>3, <1>5, <2>2, SavedDoc DEF Late
    <2>3. QED
      BY <2>1, <2>2
  <1> HIDE DEF s, c
  <1>7. QED
    BY <1>1, <1>4, <1>5, <1>6 DEF TestedIsVerified

LEMMA UnmarkedNext ==
  ASSUME IInv, MInv, [ConfigsNext]_configVars
  PROVE  MInv'
  <1>1. CASE UNCHANGED configVars
    BY <1>1 DEF configVars, vars, MInv, TestedIsVerified
  <1>2. CASE ConfigsNext
    <2>1. SUFFICES ASSUME ~marked' PROVE TestedIsVerified'
      BY <1>2, SlotsKeepOps DEF MInv
    <2>2. PICK r \in Requests : Ask(r) \/ Proceed(r)
      BY <1>2 DEF ConfigsNext, Next
    <2>3. CASE Create(r)
      BY <1>2, <2>1, <2>3, UnmarkedCreate
    <2>4. CASE Save(r)
      BY <1>2, <2>1, <2>4, UnmarkedSave
    <2>5. CASE TestEndToEnd(r)
      <3>1. \A c \in Configs : verified[c] \subseteq verified'[c]
        BY <2>5 DEF TestEndToEnd, IInv, TypeOK
      <3>2. QED
        BY <1>2, <2>1, <2>5, <3>1, UnmarkedQuiet DEF TestEndToEnd
    <2>6. CASE \/ Ask(r) \/ Load(r) \/ BeginTest(r) \/ Fail(r)
               \/ TestConnectivity(r) \/ TestAuthentication(r)
      <3>1. UNCHANGED <<db, verified>>
        BY <2>6 DEF Ask, Load, BeginTest, Fail, TestConnectivity, TestAuthentication
      <3>2. QED
        BY <1>2, <2>1, <3>1, UnmarkedQuiet, SMTT(30)
    <2>7. QED
      BY <2>2, <2>3, <2>4, <2>5, <2>6 DEF Proceed
  <1>3. QED
    BY <1>1, <1>2

\* Whatever requests overlap and whatever else the process does meanwhile: while
\* nobody has marked a configuration by hand, a tested, active or disabled one
\* answered a full request with the settings that are stored
\* (test_executor_configuration.go:92-142).
THEOREM UnmarkedWereVerified == ApiSpec => []UnmarkedIsVerified
  <1>1. ApiInit => IInv /\ MInv
    BY InitInv, UnmarkedInit DEF ApiInit
  <1>2. IInv /\ MInv /\ [ApiNext]_apiVars => IInv' /\ MInv'
    <2>1. [ApiNext]_apiVars => [ConfigsNext]_configVars
      BY DEF ApiNext, apiVars
    <2>2. [ConfigsNext]_configVars => [Next]_vars
      BY DEF ConfigsNext, configVars
    <2>3. QED
      BY <2>1, <2>2, NextInv, UnmarkedNext
  <1>3. MInv => UnmarkedIsVerified
    BY DEF MInv, UnmarkedIsVerified
  <1>4. QED
    BY <1>1, <1>2, <1>3, PTL DEF ApiSpec

-----------------------------------------------------------------------------
(* Setup, as MCApi instantiates it *)

\* S!SetupInv, and of every process: it is between the ends of its plan, what it
\* has passed is there, and it is well at the end only.
Placed(p) ==
  /\ v5[p].first \in Nat \ {0} /\ v5[p].last \in Nat /\ v5[p].at \in Nat
  /\ <<v5[p].first, v5[p].last>> \in S!Plans
  /\ v5[p].first <= v5[p].at /\ v5[p].at <= v5[p].last + 1
  /\ \A n \in v5[p].first .. v5[p].at - 1 : S!Exists(n)
  /\ v5[p].end = "well" => v5[p].at = v5[p].last + 1

Plan == [first : Nat, at : Nat, last : Nat, step : {"exists", "create"},
         end : {"none", "well", "duplicates", "error"}]

SIInv ==
  /\ S!SetupInv
  /\ v5 \in [Requests -> Plan]
  /\ \A p \in Requests : Placed(p)

LEMMA SetupInit == ASSUME S!Init PROVE SIInv
  <1> DEFINE L == Len(S!Collections)
             K == Len(S!Indexes)
  <1>1. L \in Nat /\ K \in Nat /\ DOMAIN S!Collections = 1 .. L
    BY SetupAssumption
  <1>2. /\ v1 = [n \in DOMAIN S!Collections |-> "none"] /\ v2 = {} /\ v3 = {} /\ v4 = {}
        /\ v6 = 0 /\ v7 = 0
    BY DEF S!Init
  <1>3. \A p \in Requests : \E plan \in S!Plans :
          v5[p] = [first |-> plan[1], at |-> plan[1], last |-> plan[2], step |-> "exists", end |-> "none"]
    BY DEF S!Init
  <1>4. \A plan \in S!Plans : plan[1] \in Nat \ {0} /\ plan[2] \in Nat /\ plan[1] <= plan[2] + 1
    BY <1>1 DEF S!Plans, S!Last
  <1>5. v5 \in [Requests -> Plan]
    BY <1>4 DEF S!Init, Plan
  <1>11. ASSUME NEW p \in Requests PROVE v5[p].end = "none"
    <2>1. PICK plan \in S!Plans :
          v5[p] = [first |-> plan[1], at |-> plan[1], last |-> plan[2], step |-> "exists", end |-> "none"]
      BY <1>3
    <2>2. QED
      BY <2>1
  <1>6. ASSUME NEW p \in Requests PROVE Placed(p)
    <2>1. PICK plan \in S!Plans :
          v5[p] = [first |-> plan[1], at |-> plan[1], last |-> plan[2], step |-> "exists", end |-> "none"]
      BY <1>3
    <2>2. plan[1] \in Nat \ {0} /\ plan[2] \in Nat /\ plan[1] <= plan[2] + 1
      BY <1>4
    <2>5. <<plan[1], plan[2]>> \in S!Plans
      BY DEF S!Plans
    <2>3. v5[p].first .. v5[p].at - 1 = {}
      BY <2>1, <2>2
    <2>4. QED
      BY <2>1, <2>2, <2>3, <2>5 DEF Placed
  <1>7. S!SetupTypeOK
    <2>1. v1 \in [DOMAIN S!Collections -> {"none", "bare", "configured"}]
      BY <1>2
    <2>2. \A p \in Requests : v5[p].end \in {"none", "well", "duplicates", "error"}
      BY <1>11
    <2>3. QED
      BY <1>2, <2>1, <2>2 DEF S!SetupTypeOK
  <1>8. S!WellMeansAll /\ S!FailureHasACause
    BY <1>11 DEF S!WellMeansAll, S!FailureHasACause
  <1>9. S!IndexedIsUnique /\ S!BareMeansUsed
    BY <1>2 DEF S!IndexedIsUnique, S!BareMeansUsed
  <1>10. QED
    BY <1>5, <1>6, <1>7, <1>8, <1>9 DEF SIInv, S!SetupInv

LEMMA Growing ==
  ASSUME DOMAIN S!Collections = 1 .. Len(S!Collections), Len(S!Collections) \in Nat,
         \A n \in DOMAIN S!Collections : v1[n] # "none" => v1'[n] # "none",
         v3 \subseteq v3', NEW n \in Nat \ {0}, S!Exists(n)
  PROVE  S!Exists(n)'
  BY DEF S!Exists, S!IsCollection, S!IndexAt

\* A step of a process p, or of none, that keeps what is there.
LEMMA SetupStep ==
  ASSUME SIInv,
         v1' \in [DOMAIN S!Collections -> {"none", "bare", "configured"}],
         \A n \in DOMAIN S!Collections : v1[n] # "none" => v1'[n] # "none",
         \A n \in DOMAIN S!Collections : v1'[n] = "bare" =>
           v1[n] = "bare" \/ v6' > 0 \/ \E p \in Requests : ~S!IsCollection(v5[p].first),
         v2' \subseteq {n \in DOMAIN S!Collections : v1'[n] # "none"},
         v3 \subseteq v3', v3' \subseteq DOMAIN S!Indexes,
         v4 \subseteq v4', v4' \subseteq S!Chosen,
         \A i \in v3' \cap v4' : ~S!Indexes[i].unique,
         v6' \in 0 .. 2, v6 <= v6', v7' \in 0 .. 1, v7 <= v7',
         v5' \in [Requests -> Plan],
         \A p \in Requests :
           /\ v5'[p].first = v5[p].first /\ v5'[p].last = v5[p].last
           /\ \/ v5'[p].at = v5[p].at
              \/ /\ v5'[p].at = v5[p].at + 1 /\ v5[p].at <= v5[p].last
                 /\ \E n \in Nat : n = v5[p].at /\ S!Exists(n)'
           /\ v5'[p].end = "well" => v5'[p].at = v5[p].last + 1
           /\ v5'[p].end = "duplicates" => v4' # {}
           /\ v5'[p].end = "error" => v7' # 0
  PROVE  SIInv'
  <1>1. DOMAIN S!Collections = 1 .. Len(S!Collections) /\ Len(S!Collections) \in Nat
    BY SetupAssumption
  <1>2. \A n \in Nat \ {0} : S!Exists(n) => S!Exists(n)'
    BY <1>1, Growing
  <1>3. ASSUME NEW p \in Requests PROVE Placed(p)'
    <2>1. Placed(p)
      BY DEF SIInv
    <2>2. /\ v5[p].first \in Nat \ {0} /\ v5[p].last \in Nat /\ v5[p].at \in Nat
          /\ v5[p].first <= v5[p].at /\ v5[p].at <= v5[p].last + 1
          /\ <<v5'[p].first, v5'[p].last>> \in S!Plans
      BY <2>1 DEF Placed
    <2>3. \A n \in v5[p].first .. v5[p].at - 1 : S!Exists(n)'
      BY <1>2, <2>1, <2>2 DEF Placed
    <2>4. \A n \in v5'[p].first .. v5'[p].at - 1 : S!Exists(n)'
      <3>1. CASE v5'[p].at = v5[p].at
        BY <2>2, <2>3, <3>1
      <3>2. CASE v5'[p].at = v5[p].at + 1 /\ \E n \in Nat : n = v5[p].at /\ S!Exists(n)'
        <4>1. \A n \in v5[p].first .. v5'[p].at - 1 :
                n \in v5[p].first .. v5[p].at - 1 \/ n = v5[p].at
          BY <2>2, <3>2
        <4>2. QED
          BY <2>2, <2>3, <3>2, <4>1
      <3>3. QED
        BY <3>1, <3>2
    <2>5. S!Plans' = S!Plans
      BY DEF S!Plans, S!Last
    <2>6. QED
      BY <2>2, <2>4, <2>5 DEF Placed
  <1>4. S!SetupTypeOK'
    <2>1. \A p \in Requests : v5'[p].end \in {"none", "well", "duplicates", "error"}
      BY DEF Plan
    <2>2. QED
      BY <2>1 DEF S!SetupTypeOK
  <1>5. S!WellMeansAll'
    <2>1. SUFFICES ASSUME NEW p \in Requests, v5'[p].end = "well",
                          NEW n \in v5'[p].first .. v5'[p].last
                   PROVE  S!Exists(n)'
      BY DEF S!WellMeansAll
    <2>2. v5'[p].last \in Nat /\ v5'[p].first \in Nat /\ v5'[p].at = v5'[p].last + 1
      BY <1>3, <2>1 DEF Placed
    <2>3. n \in v5'[p].first .. v5'[p].at - 1
      BY <2>2
    <2>4. QED
      BY <1>3, <2>3 DEF Placed
  <1>6. S!FailureHasACause'
    BY DEF S!FailureHasACause
  <1>7. S!IndexedIsUnique'
    BY DEF S!IndexedIsUnique
  <1>8. S!BareMeansUsed'
    <2>1. v6 \in 0 .. 2 /\ S!BareMeansUsed
      BY DEF SIInv, S!SetupInv, S!SetupTypeOK
    <2>2. QED
      BY <2>1 DEF S!BareMeansUsed, S!IsCollection
  <1>9. QED
    BY <1>3, <1>4, <1>5, <1>6, <1>7, <1>8 DEF SIInv, S!SetupInv

\* The process p of a step; the others stay where they are.
LEMMA MoveStep ==
  ASSUME SIInv, NEW p \in Requests, NEW q \in Plan, v5' = [v5 EXCEPT ![p] = q],
         v4 \subseteq v4', v7' \in 0 .. 1, v7 <= v7',
         q.first = v5[p].first, q.last = v5[p].last,
         \/ q.at = v5[p].at
         \/ /\ q.at = v5[p].at + 1 /\ v5[p].at <= v5[p].last
            /\ \E n \in Nat : n = v5[p].at /\ S!Exists(n)',
         q.end = "well" => q.at = v5[p].last + 1,
         q.end = "duplicates" => v4' # {},
         q.end = "error" => v7' # 0
  PROVE  /\ v5' \in [Requests -> Plan]
         /\ \A r \in Requests :
              /\ v5'[r].first = v5[r].first /\ v5'[r].last = v5[r].last
              /\ \/ v5'[r].at = v5[r].at
                 \/ /\ v5'[r].at = v5[r].at + 1 /\ v5[r].at <= v5[r].last
                    /\ \E n \in Nat : n = v5[r].at /\ S!Exists(n)'
              /\ v5'[r].end = "well" => v5'[r].at = v5[r].last + 1
              /\ v5'[r].end = "duplicates" => v4' # {}
              /\ v5'[r].end = "error" => v7' # 0
  <1>1. v5 \in [Requests -> Plan]
    BY DEF SIInv
  <1>2. v5'[p] = q /\ \A r \in Requests : r # p => v5'[r] = v5[r]
    BY <1>1
  <1>3. \A r \in Requests :
          /\ v5[r].end = "well" => v5[r].at = v5[r].last + 1
          /\ v5[r].end = "duplicates" => v4 # {}
          /\ v5[r].end = "error" => v7 # 0
    BY DEF SIInv, Placed, S!SetupInv, S!FailureHasACause
  <1>4. v7 \in 0 .. 1
    BY DEF SIInv, S!SetupInv, S!SetupTypeOK
  <1>5. v5' \in [Requests -> Plan]
    BY <1>1
  <1>6. ASSUME NEW r \in Requests
        PROVE  /\ v5'[r].first = v5[r].first /\ v5'[r].last = v5[r].last
               /\ \/ v5'[r].at = v5[r].at
                  \/ /\ v5'[r].at = v5[r].at + 1 /\ v5[r].at <= v5[r].last
                     /\ \E n \in Nat : n = v5[r].at /\ S!Exists(n)'
               /\ v5'[r].end = "well" => v5'[r].at = v5[r].last + 1
               /\ v5'[r].end = "duplicates" => v4' # {}
               /\ v5'[r].end = "error" => v7' # 0
    <2>1. CASE r = p
      BY <1>2, <2>1
    <2>2. CASE r # p
      BY <1>2, <1>3, <1>4, <2>2
    <2>3. QED
      BY <2>1, <2>2
  <1>7. QED
    BY <1>5, <1>6

LEMMA BareType ==
  ASSUME v1 \in [DOMAIN S!Collections -> {"none", "bare", "configured"}], NEW n
  PROVE  /\ S!Bare(n) \in [DOMAIN S!Collections -> {"none", "bare", "configured"}]
         /\ n \in DOMAIN S!Collections => S!Bare(n)[n] # "none"
         /\ \A m \in DOMAIN S!Collections :
              /\ v1[m] # "none" => S!Bare(n)[m] = v1[m]
              /\ S!Bare(n)[m] = "bare" => v1[m] = "bare" \/ v1[m] = "none"
  BY DEF S!Bare

\* What is true of every step: the types, and where a process is that works.
LEMMA SetupFacts ==
  ASSUME SIInv
  PROVE  /\ v1 \in [DOMAIN S!Collections -> {"none", "bare", "configured"}]
         /\ v2 \subseteq {n \in DOMAIN S!Collections : v1[n] # "none"}
         /\ v3 \subseteq DOMAIN S!Indexes /\ v4 \subseteq S!Chosen
         /\ \A i \in v3 \cap v4 : ~S!Indexes[i].unique
         /\ v6 \in 0 .. 2 /\ v7 \in 0 .. 1
         /\ DOMAIN S!Collections = 1 .. Len(S!Collections) /\ Len(S!Collections) \in Nat
         /\ DOMAIN S!Indexes = 1 .. Len(S!Indexes) /\ Len(S!Indexes) \in Nat
         /\ v5 \in [Requests -> Plan]
         /\ \A p \in Requests :
              /\ v5[p] \in Plan /\ v5[p].at \in Nat \ {0}
              /\ v5[p].last <= Len(S!Collections) + Len(S!Indexes)
  <1>1. /\ Len(S!Collections) \in Nat /\ Len(S!Indexes) \in Nat
        /\ DOMAIN S!Collections = 1 .. Len(S!Collections)
        /\ DOMAIN S!Indexes = 1 .. Len(S!Indexes)
    BY SetupAssumption
  <1>2. ASSUME NEW p \in Requests
        PROVE  /\ v5[p].at \in Nat \ {0}
               /\ v5[p].last <= Len(S!Collections) + Len(S!Indexes)
    <2>1. Placed(p)
      BY DEF SIInv
    <2>2. v5[p].at \in Nat \ {0}
      BY <2>1 DEF Placed
    <2>3. PICK plan \in S!Plans : plan = <<v5[p].first, v5[p].last>>
      BY <2>1 DEF Placed
    <2>4. v5[p].last \in {Len(S!Collections) + Len(S!Indexes), Len(S!Collections)}
      BY <2>3 DEF S!Plans, S!Last
    <2>5. QED
      BY <1>1, <2>2, <2>4
  <1>3. v5 \in [Requests -> Plan]
    BY DEF SIInv
  <1>4. /\ v1 \in [DOMAIN S!Collections -> {"none", "bare", "configured"}]
        /\ v2 \subseteq {n \in DOMAIN S!Collections : v1[n] # "none"}
        /\ v3 \subseteq DOMAIN S!Indexes /\ v4 \subseteq S!Chosen
        /\ v6 \in 0 .. 2 /\ v7 \in 0 .. 1
    BY DEF SIInv, S!SetupInv, S!SetupTypeOK
  <1>5. \A i \in v3 \cap v4 : ~S!Indexes[i].unique
    BY DEF SIInv, S!SetupInv, S!IndexedIsUnique
  <1>6. QED
    BY <1>1, <1>2, <1>3, <1>4, <1>5

LEMMA InsertStep == ASSUME SIInv, S!Insert PROVE SIInv'
  <1>1. PICK n \in DOMAIN S!Collections :
          /\ v1' = S!Bare(n) /\ v2' = v2 \cup {n}
          /\ \E same \in SUBSET {i \in S!Chosen : S!Of(i) = n} :
               /\ same \cap v3 = {} /\ v4' = v4 \cup same
    BY DEF S!Insert
  <1>2. PICK same \in SUBSET S!Chosen : same \cap v3 = {} /\ v4' = v4 \cup same
    BY <1>1
  <1>3. v6 < 2 /\ v6' = v6 + 1 /\ UNCHANGED <<v3, v5, v7>>
    BY DEF S!Insert
  <1>4. /\ v1' \in [DOMAIN S!Collections -> {"none", "bare", "configured"}]
        /\ v1'[n] # "none"
        /\ \A m \in DOMAIN S!Collections : v1[m] # "none" => v1'[m] = v1[m]
    BY <1>1, SetupFacts, BareType
  <1>5. v6' \in 0 .. 2 /\ v6' > 0 /\ v6 <= v6' /\ v7' \in 0 .. 1 /\ v7 <= v7'
    BY <1>3, SetupFacts
  <1>6. /\ v2' \subseteq {m \in DOMAIN S!Collections : v1'[m] # "none"}
        /\ v4' \subseteq S!Chosen /\ v3' \subseteq DOMAIN S!Indexes
        /\ \A i \in v3' \cap v4' : ~S!Indexes[i].unique
    BY <1>1, <1>2, <1>3, <1>4, SetupFacts
  <1>7. \A p \in Requests :
          /\ v5[p].end = "well" => v5[p].at = v5[p].last + 1
          /\ v5[p].end = "duplicates" => v4' # {}
          /\ v5[p].end = "error" => v7' # 0
    BY <1>2, <1>3 DEF SIInv, Placed, S!SetupInv, S!FailureHasACause
  <1>8. QED
    BY <1>1, <1>2, <1>3, <1>4, <1>5, <1>6, <1>7, SetupFacts, SetupStep

\* Process p keeps what is there, and goes to q.
Keeps(p) ==
  /\ v1' \in [DOMAIN S!Collections -> {"none", "bare", "configured"}]
  /\ \A n \in DOMAIN S!Collections : v1[n] # "none" => v1'[n] = v1[n]
  /\ \A n \in DOMAIN S!Collections :
       v1[n] = "none" /\ v1'[n] = "bare" => ~S!IsCollection(v5[p].first)
  /\ UNCHANGED <<v2, v4, v6>>
  /\ v3 \subseteq v3' /\ v3' \subseteq DOMAIN S!Indexes
  /\ \A i \in v3' \cap v4 : ~S!Indexes[i].unique
  /\ v7' \in 0 .. 1 /\ v7 <= v7'

MovesTo(p, q) ==
  /\ q \in Plan /\ v5' = [v5 EXCEPT ![p] = q]
  /\ q.first = v5[p].first /\ q.last = v5[p].last
  /\ \/ q.at = v5[p].at
     \/ /\ q.at = v5[p].at + 1 /\ v5[p].at <= v5[p].last
        /\ \E n \in Nat : n = v5[p].at /\ S!Exists(n)'
  /\ q.end = "well" => q.at = v5[p].last + 1
  /\ q.end = "duplicates" => v4 # {}
  /\ q.end = "error" => v7' # 0

LEMMA ProcessStep ==
  ASSUME SIInv, NEW p \in Requests, NEW q, Keeps(p), MovesTo(p, q)
  PROVE  SIInv'
  <1>1. /\ v5' \in [Requests -> Plan]
        /\ \A r \in Requests :
             /\ v5'[r].first = v5[r].first /\ v5'[r].last = v5[r].last
             /\ \/ v5'[r].at = v5[r].at
                \/ /\ v5'[r].at = v5[r].at + 1 /\ v5[r].at <= v5[r].last
                   /\ \E n \in Nat : n = v5[r].at /\ S!Exists(n)'
             /\ v5'[r].end = "well" => v5'[r].at = v5[r].last + 1
             /\ v5'[r].end = "duplicates" => v4' # {}
             /\ v5'[r].end = "error" => v7' # 0
    BY MoveStep DEF Keeps, MovesTo
  <1>2. /\ v2' \subseteq {n \in DOMAIN S!Collections : v1'[n] # "none"}
        /\ v4' \subseteq S!Chosen /\ v6' \in 0 .. 2 /\ v6 <= v6'
        /\ v4 \subseteq v4'
        /\ \A i \in v3' \cap v4' : ~S!Indexes[i].unique
    BY SetupFacts DEF Keeps
  <1>3. \A n \in DOMAIN S!Collections : v1'[n] = "bare" =>
          v1[n] = "bare" \/ v6' > 0 \/ \E r \in Requests : ~S!IsCollection(v5[r].first)
    BY DEF Keeps
  <1>4. QED
    BY <1>1, <1>2, <1>3, SetupStep DEF Keeps

\* Where a process goes on.
LEMMA Advanced ==
  ASSUME NEW b \in Plan, NEW over \in {"well", "none"}, over = "well" => b.at = b.last,
         NEW q, q = [b EXCEPT !.at = b.at + 1, !.step = "exists", !.end = over]
  PROVE  /\ q \in Plan /\ q.first = b.first /\ q.last = b.last
         /\ q.at = b.at + 1 /\ q.end \in {"well", "none"}
         /\ q.end = "well" => q.at = b.last + 1
  <1>1. b.at + 1 \in Nat
    BY DEF Plan
  <1>2. q = [first |-> b.first, at |-> b.at + 1, last |-> b.last, step |-> "exists", end |-> over]
    BY DEF Plan
  <1>3. QED
    BY <1>1, <1>2 DEF Plan

LEMMA LookStep == ASSUME SIInv, NEW p \in Requests, S!Look(p) PROVE SIInv'
  <1> DEFINE at == v5[p].at
             over == IF at = v5[p].last THEN "well" ELSE "none"
  <1>1. /\ v5[p].end = "none" /\ at <= v5[p].last
        /\ UNCHANGED <<v1, v2, v3, v4, v6, v7>>
    BY DEF S!Look, S!Working, S!Database
  <1>2. /\ v5[p] \in Plan /\ at \in Nat \ {0} /\ v5[p].last \in Nat
    BY SetupFacts DEF Plan
  <1>6. /\ v1' \in [DOMAIN S!Collections -> {"none", "bare", "configured"}]
        /\ \A n \in DOMAIN S!Collections : v1'[n] = v1[n]
        /\ v3 \subseteq v3' /\ v3' \subseteq DOMAIN S!Indexes
        /\ \A i \in v3' \cap v4 : ~S!Indexes[i].unique
        /\ v7' \in 0 .. 1 /\ v7 <= v7'
    BY <1>1, SetupFacts
  <1>7. over \in {"well", "none"} /\ (over = "well" => at = v5[p].last)
    OBVIOUS
  <1> HIDE DEF over
  <1>3. CASE S!Exists(at)
    <2>1. PICK q : q = [v5[p] EXCEPT !.at = at + 1, !.step = "exists", !.end = over]
      OBVIOUS
    <2>2. v5' = [v5 EXCEPT ![p] = q]
      BY <1>3, <2>1, SMTT(30) DEF S!Look, S!Advance, S!Goes, over
    <2>3. /\ q \in Plan /\ q.first = v5[p].first /\ q.last = v5[p].last
          /\ q.at = at + 1 /\ q.end \in {"well", "none"}
          /\ q.end = "well" => q.at = v5[p].last + 1
      BY <1>2, <1>7, <2>1, Advanced
    <2>4. \E n \in Nat : n = at /\ S!Exists(n)'
      BY <1>1, <1>2, <1>3 DEF S!Exists
    <2>5. Keeps(p)
      BY <1>1, <2>2, <2>3, <2>4, <1>6 DEF Keeps
    <2>6. MovesTo(p, q)
      BY <1>1, <2>2, <2>3, <2>4, <1>6 DEF MovesTo
    <2>7. QED
      BY <2>5, <2>6, ProcessStep
  <1>4. CASE ~S!Exists(at)
    <2>1. PICK q : q = [v5[p] EXCEPT !.step = "create"]
      OBVIOUS
    <2>2. v5' = [v5 EXCEPT ![p] = q]
      BY <1>4, <2>1 DEF S!Look, S!Goes
    <2>3. /\ q \in Plan /\ q.first = v5[p].first /\ q.last = v5[p].last
          /\ q.at = at /\ q.end = "none"
      BY <1>1, <1>2, <2>1 DEF Plan
    <2>5. Keeps(p)
      BY <1>1, <2>2, <2>3, <1>6 DEF Keeps
    <2>6. MovesTo(p, q)
      BY <1>1, <2>2, <2>3, <1>6 DEF MovesTo
    <2>7. QED
      BY <2>5, <2>6, ProcessStep
  <1>5. QED
    BY <1>3, <1>4

LEMMA CreateCollectionStep ==
  ASSUME SIInv, NEW p \in Requests, S!CreateCollection(p)
  PROVE  SIInv'
  <1> DEFINE at == v5[p].at
             over == IF at = v5[p].last THEN "well" ELSE "none"
  <1>1. /\ v5[p].end = "none" /\ at <= v5[p].last /\ at <= Len(S!Collections)
        /\ UNCHANGED <<v2, v3, v4, v6, v7>>
        /\ v1' = IF v1[at] = "none" THEN [v1 EXCEPT ![at] = "configured"] ELSE v1
    BY DEF S!CreateCollection, S!Working, S!IsCollection
  <1>2. /\ v5[p] \in Plan /\ at \in Nat \ {0} /\ v5[p].last \in Nat
        /\ at \in DOMAIN S!Collections
    BY <1>1, SetupFacts DEF Plan
  <1>9. over \in {"well", "none"} /\ (over = "well" => at = v5[p].last)
    OBVIOUS
  <1> HIDE DEF over
  <1>3. PICK q : q = [v5[p] EXCEPT !.at = at + 1, !.step = "exists", !.end = over]
    OBVIOUS
  <1>4. v5' = [v5 EXCEPT ![p] = q]
    BY <1>3, SMTT(30) DEF S!CreateCollection, S!Advance, S!Goes, over
  <1>5. /\ q \in Plan /\ q.first = v5[p].first /\ q.last = v5[p].last
        /\ q.at = at + 1 /\ q.end \in {"well", "none"}
        /\ q.end = "well" => q.at = v5[p].last + 1
    BY <1>2, <1>3, <1>9, Advanced
  <1>6. /\ v1' \in [DOMAIN S!Collections -> {"none", "bare", "configured"}]
        /\ v1'[at] # "none"
        /\ \A n \in DOMAIN S!Collections :
             /\ v1[n] # "none" => v1'[n] = v1[n]
             /\ ~(v1[n] = "none" /\ v1'[n] = "bare")
    BY <1>1, <1>2, SetupFacts
  <1>7. \E n \in Nat : n = at /\ S!Exists(n)'
    BY <1>1, <1>2, <1>6 DEF S!Exists, S!IsCollection
  <1>10. /\ v3 \subseteq v3' /\ v3' \subseteq DOMAIN S!Indexes
         /\ \A i \in v3' \cap v4 : ~S!Indexes[i].unique
         /\ v7' \in 0 .. 1 /\ v7 <= v7'
    BY <1>1, SetupFacts
  <1>11. /\ UNCHANGED <<v2, v4, v6>> /\ at <= v5[p].last
         /\ \A n \in DOMAIN S!Collections : v1[n] # "none" => v1'[n] = v1[n]
         /\ \A n \in DOMAIN S!Collections : v1[n] = "none" /\ v1'[n] = "bare" =>
              ~S!IsCollection(v5[p].first)
    BY <1>1, <1>6
  <1>12. Keeps(p)
    BY <1>6, <1>10, <1>11 DEF Keeps
  <1>13. MovesTo(p, q)
    BY <1>4, <1>5, <1>7, <1>11 DEF MovesTo
  <1>14. QED
    BY <1>12, <1>13, ProcessStep

LEMMA CreateIndexStep ==
  ASSUME SIInv, NEW p \in Requests, S!CreateIndex(p)
  PROVE  SIInv'
  <1> DEFINE at == v5[p].at
             i == at - Len(S!Collections)
             over == IF at = v5[p].last THEN "well" ELSE "none"
  <1>1. /\ v5[p].end = "none" /\ at <= v5[p].last /\ ~(at <= Len(S!Collections))
        /\ UNCHANGED <<v2, v4, v6, v7>>
        /\ v1' = S!Bare(S!Of(i))
    BY DEF S!CreateIndex, S!Working, S!IsCollection, S!IndexAt
  <1>2. /\ v5[p] \in Plan /\ at \in Nat \ {0} /\ v5[p].last \in Nat
        /\ v5[p].first \in Nat \ {0} /\ i \in DOMAIN S!Indexes
    <2>1. v5[p].first \in Nat \ {0}
      BY DEF SIInv, Placed
    <2>2. QED
      BY <1>1, <2>1, SetupFacts DEF Plan
  <1>3. /\ v1' \in [DOMAIN S!Collections -> {"none", "bare", "configured"}]
        /\ \A n \in DOMAIN S!Collections : v1[n] # "none" => v1'[n] = v1[n]
    BY <1>1, SetupFacts, BareType
  <1>4. ASSUME NEW n \in DOMAIN S!Collections, v1[n] = "none"
        PROVE  ~S!IsCollection(v5[p].first)
    <2>1. SUFFICES ASSUME v5[p].first <= Len(S!Collections) PROVE FALSE
      BY DEF S!IsCollection
    <2>2. v5[p].first = 1
      <3>1. PICK plan \in S!Plans : plan = <<v5[p].first, v5[p].last>>
        BY DEF SIInv, Placed
      <3>2. v5[p].first \in {1, Len(S!Collections) + 1}
        BY <3>1 DEF S!Plans
      <3>3. QED
        BY <2>1, <3>2, SetupFacts
    <2>3. n \in v5[p].first .. at - 1
      BY <1>1, <1>2, <2>2, SetupFacts
    <2>4. S!Exists(n)
      BY <2>3 DEF SIInv, Placed
    <2>6. n <= Len(S!Collections)
      BY SetupFacts
    <2>5. QED
      BY <1>4, <2>4, <2>6 DEF S!Exists, S!IsCollection
  <1>8. over \in {"well", "none"} /\ (over = "well" => at = v5[p].last)
    OBVIOUS
  <1>9. v7' \in 0 .. 1 /\ v7 <= v7'
    BY <1>1, SetupFacts
  <1> HIDE DEF over
  <1>5. CASE S!Indexes[i].unique /\ i \in v4
    <2>1. PICK q : q = [v5[p] EXCEPT !.end = "duplicates"]
      OBVIOUS
    <2>2. v5' = [v5 EXCEPT ![p] = q] /\ v3' = v3
      BY <1>5, <2>1 DEF S!CreateIndex, S!Fails, S!Goes, S!IndexAt
    <2>3. /\ q \in Plan /\ q.first = v5[p].first /\ q.last = v5[p].last
          /\ q.at = at /\ q.end = "duplicates" /\ v4 # {}
      BY <1>2, <1>5, <2>1 DEF Plan
    <2>4. /\ v3 \subseteq v3' /\ v3' \subseteq DOMAIN S!Indexes
          /\ \A k \in v3' \cap v4 : ~S!Indexes[k].unique
      BY <2>2, SetupFacts
    <2>5. Keeps(p)
      BY <1>1, <1>3, <1>4, <1>9, <2>2, <2>3, <2>4 DEF Keeps
    <2>6. MovesTo(p, q)
      BY <1>1, <1>3, <1>4, <1>9, <2>2, <2>3, <2>4 DEF MovesTo
    <2>7. QED
      BY <2>5, <2>6, ProcessStep
  <1>6. CASE ~(S!Indexes[i].unique /\ i \in v4)
    <2>1. PICK q : q = [v5[p] EXCEPT !.at = at + 1, !.step = "exists", !.end = over]
      OBVIOUS
    <2>2. v5' = [v5 EXCEPT ![p] = q] /\ v3' = v3 \cup {i}
      BY <1>6, <2>1, SMTT(30) DEF S!CreateIndex, S!Advance, S!Goes, S!IndexAt, over
    <2>3. /\ q \in Plan /\ q.first = v5[p].first /\ q.last = v5[p].last
          /\ q.at = at + 1 /\ q.end \in {"well", "none"}
          /\ q.end = "well" => q.at = v5[p].last + 1
      BY <1>2, <1>8, <2>1, Advanced
    <2>4. \E n \in Nat : n = at /\ S!Exists(n)'
      BY <1>1, <1>2, <2>2 DEF S!Exists, S!IsCollection, S!IndexAt
    <2>5. /\ v3 \subseteq v3' /\ v3' \subseteq DOMAIN S!Indexes
          /\ \A k \in v3' \cap v4 : ~S!Indexes[k].unique
      BY <1>2, <1>6, <2>2, SetupFacts
    <2>6. Keeps(p)
      BY <1>1, <1>3, <1>4, <2>2, <2>3, <2>4, <2>5, <1>9 DEF Keeps
    <2>7. MovesTo(p, q)
      BY <1>1, <1>3, <1>4, <2>2, <2>3, <2>4, <2>5, <1>9 DEF MovesTo
    <2>8. QED
      BY <2>6, <2>7, ProcessStep
  <1>7. QED
    BY <1>5, <1>6

LEMMA ErrorStep == ASSUME SIInv, NEW p \in Requests, S!Error(p) PROVE SIInv'
  <1>1. v5[p].end = "none" /\ v7 < 1 /\ v7' = v7 + 1 /\ UNCHANGED <<v1, v2, v3, v4, v6>>
    BY DEF S!Error, S!Database
  <1>2. PICK q : q = [v5[p] EXCEPT !.end = "error"]
    OBVIOUS
  <1>3. v5' = [v5 EXCEPT ![p] = q]
    BY <1>2 DEF S!Error, S!Fails, S!Goes
  <1>4. /\ q \in Plan /\ q.first = v5[p].first /\ q.last = v5[p].last
        /\ q.at = v5[p].at /\ q.end = "error"
    BY <1>2, SetupFacts DEF Plan
  <1>5. v7' \in 0 .. 1 /\ v7 <= v7' /\ v7' # 0
    BY <1>1, SetupFacts
  <1>6. /\ v1' \in [DOMAIN S!Collections -> {"none", "bare", "configured"}]
        /\ \A n \in DOMAIN S!Collections : v1'[n] = v1[n]
        /\ v3 \subseteq v3' /\ v3' \subseteq DOMAIN S!Indexes
        /\ \A i \in v3' \cap v4 : ~S!Indexes[i].unique
    BY <1>1, SetupFacts
  <1>7. Keeps(p)
    BY <1>1, <1>3, <1>4, <1>5, <1>6 DEF Keeps
  <1>8. MovesTo(p, q)
    BY <1>1, <1>3, <1>4, <1>5, <1>6 DEF MovesTo
  <1>9. QED
    BY <1>7, <1>8, ProcessStep

LEMMA SetupNext == ASSUME SIInv, [S!Next]_<<v1, v2, v3, v4, v5, v6, v7>> PROVE SIInv'
  <1>1. CASE UNCHANGED <<v1, v2, v3, v4, v5, v6, v7>>
    <2>1. \A p \in Requests :
            /\ v5[p].end = "well" => v5[p].at = v5[p].last + 1
            /\ v5[p].end = "duplicates" => v4 # {}
            /\ v5[p].end = "error" => v7 # 0
      BY DEF SIInv, Placed, S!SetupInv, S!FailureHasACause
    <2>2. /\ v1' = v1 /\ v2' = v2 /\ v3' = v3 /\ v4' = v4 /\ v5' = v5 /\ v6' = v6 /\ v7' = v7
          /\ v6 <= v6 /\ v7 <= v7
      BY <1>1, SetupFacts
    <2>3. QED
      BY <2>1, <2>2, SetupFacts, SetupStep
  <1>2. CASE S!Next
    BY <1>2, InsertStep, LookStep, CreateCollectionStep, CreateIndexStep, ErrorStep DEF S!Next
  <1>3. QED
    BY <1>1, <1>2

\* Processes that set up the database at the same time, each with any part of
\* it, leave nothing out, and neither they nor documents that come meanwhile make
\* them fail where none repeats a unique value (collections.go, indexes.go:
\* "Safe to run multiple times").
THEOREM SetUpIsComplete == ApiSpec => []SetupInv
  <1> DEFINE P == part = "setup" => SIInv
  <1>1. ApiInit => P
    BY SetupInit DEF ApiInit
  <1>2. P /\ [ApiNext]_apiVars => P'
    <2>1. SUFFICES ASSUME P, [ApiNext]_apiVars, part' = "setup" PROVE SIInv'
      OBVIOUS
    <2>2. part = "setup" /\ [S!Next]_<<v1, v2, v3, v4, v5, v6, v7>>
      BY <2>1 DEF ApiNext, apiVars, otherVars
    <2>3. QED
      BY <2>1, <2>2, SetupNext
  <1>3. P => SetupInv
    BY DEF SIInv, SetupInv
  <1>4. QED
    BY <1>1, <1>2, <1>3, PTL DEF ApiSpec

-----------------------------------------------------------------------------
(* Webhooks: v1 is the status of each workflow, v2 its version, v3 its      *)
(* route, v4 the command under way, v5 the faults, v6 the requests, v7 the  *)
(* answers, v8 the executions and v9 what the requests met since they came. *)

Busy == [step : {"activate", "unregister"}, w : Workflows]
Came == [at : W!Places, door : {"webhook", "executions"}, w : Workflows \cup {NoKey},
         key : Keys \cup {NoKey}, token : 0 .. MaxVersion]
Execution == [by : Requests, w : Workflows, key : Keys \cup {NoKey},
              status : {"pending", "running", "completed", "failed"}]
Met == [steady : BOOLEAN, active : BOOLEAN]

WorkflowTypes ==
    /\ v1 \in [Workflows -> W!Statuses] /\ v2 \in [Workflows -> 1 .. MaxVersion]
    /\ v3 \in [Workflows -> 0 .. MaxVersion]
    /\ v4 \in {W!Idle} \cup Busy /\ v5 \in 0 .. MaxFaults
RequestTypes ==
    /\ v6 \in [Requests -> Came]
    /\ v7 \in [Requests -> [code : W!Codes \cup {0}, execution : Execution \cup {W!NoExecution}]]
    /\ v8 \subseteq Execution /\ v9 \in [Requests -> Met]
    /\ \A r \in Requests : /\ v6[r].at # "out" => v6[r].w \in Workflows
                           /\ v6[r].at = "answered" <=> v7[r].code # 0

\* The registry has the route of a workflow, of the version that the database
\* has, while the workflow is active and while a command other than its
\* deletion changes it.
Routed ==
    /\ \A w \in Workflows :
        v3[w] = IF v1[w] = "active" \/ (v4 # W!Idle /\ v4.w = w /\ v1[w] # "deleted")
                THEN v2[w] ELSE 0
    /\ v4.step = "activate" => v1[v4.w] = "draft"
    /\ v4.step = "unregister" => v1[v4.w] \in {"inactive", "deleted"}

\* What is known of a request on its way.  One that met no command got in by
\* the webhook of an active workflow.
OnItsWay(r) ==
    /\ v9[r].steady => v4 = W!Idle
    /\ (v6[r].at # "out" /\ v1[v6[r].w] = "active") => v9[r].active
    /\ v6[r].at \in {"loaded", "inserted"} => v9[r].active
    /\ v6[r].at = "inserted" => W!New(r) \in v8
    /\ (v6[r].at \in {"resolved", "looked", "loaded", "inserted"} /\ v9[r].steady
        /\ v6[r].door = "webhook") => (v1[v6[r].w] = "active" /\ W!Knows(r))

BegunByRequests == \A x \in v8 : v6[x.by].at \in {"inserted", "answered"} /\ v9[x.by].active

WInv ==
    /\ WorkflowTypes /\ RequestTypes /\ Routed
    /\ \A r \in Requests : OnItsWay(r)
    /\ BegunByRequests
    /\ W!OneExecutionPerKey
    /\ W!ServedWhileActive /\ W!GoneWhileInactive

LEMMA WebhookImplied == ASSUME WInv PROVE W!WebhookInv
  <1>1. W!TypeInv
    <2>1. /\ v1 \in [Workflows -> W!Statuses] /\ v2 \in [Workflows -> 1 .. MaxVersion]
          /\ v5 \in 0 .. MaxFaults /\ v9 \in [Requests -> [steady : BOOLEAN, active : BOOLEAN]]
      BY DEF WInv, WorkflowTypes, RequestTypes, Met
    <2>2. \A w \in Workflows : v3[w] \in 0 .. v2[w]
      BY WebhookAssumption DEF WInv, WorkflowTypes, Routed
    <2>3. v4.step \in {"idle", "activate", "unregister"}
      BY DEF WInv, WorkflowTypes, Busy, W!Idle
    <2>4. \A r \in Requests : /\ v6[r].at \in W!Places /\ v7[r].code \in W!Codes \cup {0}
                              /\ v6[r].at = "answered" <=> v7[r].code # 0
      BY DEF WInv, RequestTypes, Came
    <2>5. QED
      BY <2>1, <2>2, <2>3, <2>4 DEF W!TypeInv
  <1>2. W!StartsOnlyActive
    BY DEF WInv, BegunByRequests, W!StartsOnlyActive
  <1>3. QED
    BY <1>1, <1>2 DEF WInv, W!WebhookInv

LEMMA WebhookInit == ASSUME W!Init PROVE WInv
  <1>1. WorkflowTypes /\ Routed
    BY WebhookAssumption DEF W!Init, WorkflowTypes, Routed, W!Statuses, W!Idle
  <1>2. RequestTypes
    <2>1. v9 \in [Requests -> Met]
      BY Zenon DEF W!Init, Met
    <2>2. W!Outside \in Came /\ W!Outside.at = "out"
      BY WebhookAssumption DEF W!Outside, Came, W!Places
    <2>3. QED
      BY <2>1, <2>2 DEF W!Init, RequestTypes, W!NoAnswer, W!Codes
  <1>3. \A r \in Requests : ~v9[r].steady /\ v6[r].at = "out"
    <2>1. \A r \in Requests : ~v9[r].steady
      BY Zenon DEF W!Init
    <2>2. QED
      BY <2>1 DEF W!Init, W!Outside
  <1>4. v8 = {}
    BY DEF W!Init
  <1>5. QED
    BY <1>1, <1>2, <1>3, <1>4 DEF WInv, OnItsWay, BegunByRequests, W!OneExecutionPerKey,
       W!ServedWhileActive, W!GoneWhileInactive, W!Over

\* A command meets every request on its way, and leaves the rest to them.
LEMMA CommandInv ==
  ASSUME WInv, W!KeepRequests, W!Meets, WorkflowTypes', Routed'
  PROVE  WInv'
  <1>1. v6' = v6 /\ v7' = v7 /\ v8' = v8
    BY DEF W!KeepRequests
  <1>2. v9' \in [Requests -> Met]
    BY Zenon DEF W!Meets, Met
  <1>3. \A r \in Requests :
          /\ ~v9'[r].steady
          /\ v9'[r].active <=> (v9[r].active \/ (v6[r].at # "out" /\ v1'[v6[r].w] = "active"))
    BY Zenon DEF W!Meets
  <1>4. RequestTypes'
    BY <1>1, <1>2 DEF WInv, RequestTypes
  <1>5. ASSUME NEW r \in Requests PROVE OnItsWay(r)'
    BY <1>1, <1>3 DEF WInv, OnItsWay, W!New
  <1>6. BegunByRequests'
    BY <1>1, <1>3 DEF WInv, BegunByRequests, RequestTypes, Execution
  <1>7. W!OneExecutionPerKey'
    BY <1>1 DEF WInv, W!OneExecutionPerKey
  <1>8. W!ServedWhileActive' /\ W!GoneWhileInactive'
    BY <1>3 DEF W!ServedWhileActive, W!GoneWhileInactive
  <1>9. QED
    BY <1>4, <1>5, <1>6, <1>7, <1>8 DEF WInv

\* The commands keep the registry in step with the database.
LEMMA CommandsKeepRoutes ==
  ASSUME WorkflowTypes, Routed, NEW w \in Workflows,
         \/ W!Activate(w) \/ W!SaveActive(w) \/ W!Deactivate(w)
         \/ W!RemoveRoute(w) \/ W!MoveToDraft(w) \/ W!Edit(w) \/ W!Delete(w)
  PROVE  WorkflowTypes' /\ Routed'
  <1> USE WebhookAssumption DEF WorkflowTypes, Routed, W!Statuses
  <1>1. CASE W!Activate(w)
    <2>1. v4' \in Busy /\ v4'.w = w /\ v4'.step = "activate"
      BY <1>1 DEF W!Activate, Busy
    <2>2. QED
      BY <1>1, <2>1 DEF W!Activate, W!Idle, Busy
  <1>2. CASE W!SaveActive(w)
    BY <1>2 DEF W!SaveActive, W!Fault, W!Unregister, W!Idle
  <1>3. CASE W!Deactivate(w)
    <2>1. v4' \in Busy /\ v4'.w = w /\ v4'.step = "unregister"
      BY <1>3 DEF W!Deactivate, Busy
    <2>2. QED
      BY <1>3, <2>1 DEF W!Deactivate, W!Idle, Busy
  <1>4. CASE W!RemoveRoute(w)
    BY <1>4 DEF W!RemoveRoute, W!Unregister, W!Idle
  <1>5. CASE W!MoveToDraft(w)
    BY <1>5 DEF W!MoveToDraft, W!Idle
  <1>6. CASE W!Edit(w)
    BY <1>6 DEF W!Edit, W!Idle
  <1>7. CASE W!Delete(w)
    <2>1. v4' \in Busy /\ v4'.w = w /\ v4'.step = "unregister"
      BY <1>7 DEF W!Delete, Busy
    <2>2. QED
      BY <1>7, <2>1 DEF W!Delete, W!Idle, Busy
  <1>8. QED
    BY <1>1, <1>2, <1>3, <1>4, <1>5, <1>6, <1>7

LEMMA CommandStep ==
  ASSUME WInv, NEW w \in Workflows,
         \/ W!Activate(w) \/ W!SaveActive(w) \/ W!Deactivate(w)
         \/ W!RemoveRoute(w) \/ W!MoveToDraft(w) \/ W!Edit(w) \/ W!Delete(w)
  PROVE  WInv'
  <1>1. WorkflowTypes' /\ Routed'
    BY CommandsKeepRoutes DEF WInv
  <1>2. W!KeepRequests /\ W!Meets
    BY DEF W!Activate, W!SaveActive, W!Deactivate, W!RemoveRoute, W!MoveToDraft, W!Edit, W!Delete
  <1>3. QED
    BY <1>1, <1>2, CommandInv

-----------------------------------------------------------------------------
(* A request that comes *)

\* What the answer must be right about, if the request met no command.
Admitted(came) ==
    v1[came.w] = "active" /\ (came.w \in Open \/ came.token = v2[came.w])
RightAtTheDoor(code, came) ==
    v4 = W!Idle =>
        /\ (code = 0 /\ came.door = "webhook") => Admitted(came)
        /\ (came.door = "executions" \/ Admitted(came)) => code \notin {401, 404, 422}
        /\ (code # 0 /\ came.door = "webhook" /\ ~Admitted(came)) => code \in {401, 404, 413}

LEMMA ComeInv ==
  ASSUME WInv, NEW r \in Requests, NEW code \in W!Codes \cup {0}, NEW came \in Came,
         came.w \in Workflows, came.at = "out",
         W!Come(r, code, came), RightAtTheDoor(code, came)
  PROVE  WInv'
  <1>1. /\ UNCHANGED <<v1, v2, v3, v4, v5, v8>> /\ v6[r].at = "out"
        /\ v7' = [v7 EXCEPT ![r].code = code]
    BY DEF W!Come, W!workflows
  <1>2. PICK got : got = IF code = 0 THEN [came EXCEPT !.at = "resolved"]
                         ELSE [came EXCEPT !.at = "answered", !.key = NoKey]
    OBVIOUS
  <1>3. v6' = [v6 EXCEPT ![r] = got]
    BY <1>2 DEF W!Come
  <1>4. /\ got \in Came /\ got.w = came.w /\ got.door = came.door /\ got.token = came.token
        /\ got.at = IF code = 0 THEN "resolved" ELSE "answered"
    BY <1>2 DEF Came, W!Places
  <1>5. v9' \in [Requests -> Met]
    <2>1. v9 \in [Requests -> Met]
      BY DEF WInv, RequestTypes
    <2>2. QED
      BY <2>1, Zenon DEF W!Come, Met
  <1>6. /\ v9'[r].steady <=> v4 = W!Idle
        /\ v9'[r].active <=> v1[came.w] = "active"
    <2>1. v9 \in [Requests -> Met]
      BY DEF WInv, RequestTypes
    <2>2. QED
      BY <2>1, Zenon DEF W!Come
  <1>7. \A s \in Requests : s # r => v9'[s] = v9[s] /\ v6'[s] = v6[s] /\ v7'[s] = v7[s]
    <2>1. \A s \in Requests : s # r => v9'[s] = v9[s]
      BY Zenon DEF W!Come, WInv, RequestTypes
    <2>2. QED
      BY <1>1, <1>3, <2>1 DEF WInv, RequestTypes
  <1>8. v6'[r] = got /\ v7'[r].code = code
    BY <1>1, <1>3 DEF WInv, RequestTypes
  <1>9. WorkflowTypes' /\ Routed'
    BY <1>1 DEF WInv, WorkflowTypes, Routed
  <1>10. RequestTypes'
    <2>1. v7' \in [Requests -> [code : W!Codes \cup {0}, execution : Execution \cup {W!NoExecution}]]
      BY <1>1 DEF WInv, RequestTypes
    <2>2. v6' \in [Requests -> Came]
      BY <1>3, <1>4 DEF WInv, RequestTypes
    <2>3. QED
      BY <1>1, <1>4, <1>5, <1>7, <1>8, <2>1, <2>2 DEF WInv, RequestTypes
  <1>11. ASSUME NEW s \in Requests PROVE OnItsWay(s)'
    <2>1. CASE s = r
      BY <2>1, <1>1, <1>4, <1>6, <1>8 DEF OnItsWay, RightAtTheDoor, Admitted, W!Knows, W!Direct
    <2>2. CASE s # r
      BY <2>2, <1>1, <1>7 DEF WInv, OnItsWay, W!New, W!Knows, W!Direct
    <2>3. QED
      BY <2>1, <2>2
  <1>12. BegunByRequests'
    BY <1>1, <1>7 DEF WInv, BegunByRequests, RequestTypes, Execution
  <1>13. W!OneExecutionPerKey'
    BY <1>1 DEF WInv, W!OneExecutionPerKey
  <1>14. W!ServedWhileActive' /\ W!GoneWhileInactive'
    <2>1. ASSUME NEW s \in Requests, s # r
          PROVE  /\ (W!Over(s) /\ v9[s].steady)' <=> (W!Over(s) /\ v9[s].steady)
                 /\ W!Knows(s)' <=> W!Knows(s)
                 /\ W!Direct(s)' <=> W!Direct(s)
                 /\ v7'[s].code = v7[s].code /\ v6'[s].w = v6[s].w
      BY <2>1, <1>1, <1>7 DEF W!Over, W!Knows, W!Direct
    <2>2. /\ (W!Over(r) /\ v9[r].steady)' => v4 = W!Idle /\ code # 0
          /\ v6'[r].w = came.w /\ v7'[r].code = code
          /\ W!Direct(r)' <=> came.door = "executions"
          /\ (W!Knows(r) /\ ~W!Direct(r))' <=>
                came.door # "executions" /\ (came.w \in Open \/ came.token = v2[came.w])
      BY <1>1, <1>4, <1>6, <1>8 DEF W!Over, W!Knows, W!Direct
    <2>3. came.door \in {"webhook", "executions"}
      BY DEF Came
    <2>4. W!ServedWhileActive'
      BY <1>1, <2>1, <2>2, <2>3 DEF WInv, W!ServedWhileActive, RightAtTheDoor, Admitted
    <2>5. W!GoneWhileInactive'
      BY <1>1, <2>1, <2>2, <2>3 DEF WInv, W!GoneWhileInactive, RightAtTheDoor, Admitted
    <2>6. QED
      BY <2>4, <2>5
  <1>15. QED
    BY <1>9, <1>10, <1>11, <1>12, <1>13, <1>14 DEF WInv

LEMMA HandleWebhookInv ==
  ASSUME WInv, NEW r \in Requests, W!HandleWebhook(r)
  PROVE  WInv'
  <1>1. PICK w \in Workflows, key \in Keys \cup {NoKey},
             size \in {"small", "large"}, body \in {"object", "malformed"} :
             \E token \in IF w \in Open THEN {0} ELSE 1 .. MaxVersion :
               W!Come(r, W!Refusal(w, size, token, body),
                      [W!Outside EXCEPT !.w = w, !.key = key, !.token = token])
    BY DEF W!HandleWebhook
  <1>2. PICK token \in IF w \in Open THEN {0} ELSE 1 .. MaxVersion :
               W!Come(r, W!Refusal(w, size, token, body),
                      [W!Outside EXCEPT !.w = w, !.key = key, !.token = token])
    BY <1>1
  <1>3. PICK came : came = [W!Outside EXCEPT !.w = w, !.key = key, !.token = token]
    OBVIOUS
  <1>4. PICK code : code = W!Refusal(w, size, token, body)
    OBVIOUS
  <1>5. /\ came \in Came /\ came.w = w /\ came.at = "out"
        /\ came.door = "webhook" /\ came.token = token
    <2>1. token \in 0 .. MaxVersion
      BY WebhookAssumption
    <2>2. came = [at |-> "out", door |-> "webhook", w |-> w, key |-> key, token |-> token]
      BY <1>3 DEF W!Outside
    <2>3. QED
      BY <2>1, <2>2 DEF Came, W!Places
  <1>6. code \in W!Codes \cup {0}
    BY <1>4 DEF W!Refusal, W!Codes
  <1>7. v4 = W!Idle => v3[w] = IF v1[w] = "active" THEN v2[w] ELSE 0
    BY DEF WInv, Routed
  <1>8. v2[w] # 0
    BY WebhookAssumption DEF WInv, WorkflowTypes
  <1>9. RightAtTheDoor(code, came)
    BY <1>4, <1>5, <1>7, <1>8 DEF RightAtTheDoor, Admitted, W!Refusal
  <1>10. W!Come(r, code, came)
    BY <1>2, <1>3, <1>4
  <1>11. QED
    BY <1>5, <1>6, <1>9, <1>10, ComeInv

LEMMA ExecuteInv ==
  ASSUME WInv, NEW r \in Requests, W!Execute(r)
  PROVE  WInv'
  <1>1. PICK w \in Workflows, key \in Keys \cup {NoKey},
             size \in {"small", "large"}, body \in {"object", "malformed"} :
        W!Come(r, IF size = "large" THEN 413 ELSE IF body = "malformed" \/ key = NoKey THEN 400 ELSE 0,
               [W!Outside EXCEPT !.door = "executions", !.w = w, !.key = key])
    BY DEF W!Execute
  <1>2. PICK came : came = [W!Outside EXCEPT !.door = "executions", !.w = w, !.key = key]
    OBVIOUS
  <1>3. PICK code : code = IF size = "large" THEN 413
                           ELSE IF body = "malformed" \/ key = NoKey THEN 400 ELSE 0
    OBVIOUS
  <1>4. came \in Came /\ came.w = w /\ came.at = "out" /\ came.door = "executions"
    <2>1. came = [at |-> "out", door |-> "executions", w |-> w, key |-> key, token |-> 0]
      BY <1>2 DEF W!Outside
    <2>2. QED
      BY <2>1, WebhookAssumption DEF Came, W!Places
  <1>5. code \in W!Codes \cup {0} /\ RightAtTheDoor(code, came)
    BY <1>3, <1>4 DEF RightAtTheDoor, W!Codes
  <1>6. W!Come(r, code, came)
    BY <1>1, <1>2, <1>3
  <1>7. QED
    BY <1>4, <1>5, <1>6, ComeInv

-----------------------------------------------------------------------------
(* A request that goes on *)

\* Executions that may take the place of v8: those of requests that are on
\* their way are kept but for the one of r.
Kept(r, now) ==
    /\ now \subseteq Execution
    /\ \A x \in now : (\E y \in v8 : y.by = x.by) \/ x.by = r
    /\ \A s \in Requests : (s # r /\ v6[s].at = "inserted") => W!New(s) \in now
    /\ \A x, y \in now : (x.key # NoKey /\ x.key = y.key) => x = y

OnWay == {"resolved", "looked", "loaded", "inserted"}

\* What is common to the steps of a request after it came.
LEMMA RequestInv ==
  ASSUME WInv, NEW r \in Requests, v6[r].at \in OnWay,
         NEW place \in {"looked", "loaded", "inserted", "answered"}, W!Move(r, place),
         UNCHANGED <<v1, v2, v3, v4, v9>>, v5' \in 0 .. MaxFaults,
         Kept(r, v8'), (\E x \in v8' : x.by = r) => place \in {"inserted", "answered"} /\ v9[r].active,
         place \in {"loaded", "inserted"} => v9[r].active,
         place = "inserted" => W!New(r) \in v8',
         \/ place # "answered" /\ v7' = v7
         \/ /\ place = "answered"
            /\ \E code \in W!Codes, x \in Execution \cup {W!NoExecution} :
                /\ v7' = [v7 EXCEPT ![r] = [code |-> code, execution |-> x]]
                /\ code # 401
                /\ (code \in {404, 422}) => v1[v6[r].w] # "active"
  PROVE  WInv'
  <1>1. PICK got : got = [v6[r] EXCEPT !.at = place]
    OBVIOUS
  <1>2. v6' = [v6 EXCEPT ![r] = got]
    BY <1>1 DEF W!Move
  <1>3. /\ got \in Came /\ got.at = place /\ got.w = v6[r].w /\ got.door = v6[r].door
        /\ got.token = v6[r].token /\ got.key = v6[r].key
    BY <1>1, SMTT(30) DEF WInv, RequestTypes, Came, W!Places
  <1>4. /\ v6'[r] = got
        /\ \A s \in Requests : s # r => v6'[s] = v6[s] /\ v7'[s] = v7[s]
    BY <1>2 DEF WInv, RequestTypes
  <1>5. WorkflowTypes' /\ Routed'
    BY DEF WInv, WorkflowTypes, Routed
  <1>6. /\ v7' \in [Requests -> [code : W!Codes \cup {0}, execution : Execution \cup {W!NoExecution}]]
        /\ place = "answered" <=> v7'[r].code # 0
    <2>1. CASE place # "answered" /\ v7' = v7
      BY <2>1 DEF WInv, RequestTypes, OnWay
    <2>2. CASE place = "answered"
      BY <2>2 DEF WInv, RequestTypes, W!Codes
    <2>3. QED
      BY <2>1, <2>2
  <1>7. RequestTypes'
    <2>1. v8' \subseteq Execution
      BY DEF Kept
    <2>2. v6' \in [Requests -> Came]
      BY <1>2, <1>3 DEF WInv, RequestTypes
    <2>3. v6[r].w \in Workflows
      BY DEF WInv, RequestTypes, OnWay
    <2>4. QED
      BY <1>3, <1>4, <1>6, <2>1, <2>2, <2>3 DEF WInv, RequestTypes
  <1>8. ASSUME NEW s \in Requests PROVE OnItsWay(s)'
    <2>1. CASE s = r
      <3>1. W!New(r)' = W!New(r) /\ (W!Knows(r)' <=> W!Knows(r))
        BY <1>3, <1>4 DEF W!New, W!Knows, W!Direct
      <3>2. OnItsWay(r)
        BY DEF WInv
      <3>3. QED
        BY <2>1, <1>3, <1>4, <3>1, <3>2 DEF OnItsWay, OnWay
    <2>2. CASE s # r
      <3>1. W!New(s)' = W!New(s) /\ (W!Knows(s)' <=> W!Knows(s)) /\ v6'[s] = v6[s]
        BY <2>2, <1>4 DEF W!New, W!Knows, W!Direct
      <3>2. OnItsWay(s)
        BY DEF WInv
      <3>3. QED
        BY <2>2, <3>1, <3>2 DEF OnItsWay, Kept
    <2>3. QED
      BY <2>1, <2>2
  <1>9. BegunByRequests'
    BY <1>3, <1>4 DEF WInv, BegunByRequests, RequestTypes, Execution, Kept
  <1>10. W!OneExecutionPerKey'
    BY DEF Kept, W!OneExecutionPerKey
  <1>11. W!ServedWhileActive' /\ W!GoneWhileInactive'
    <2>1. ASSUME NEW s \in Requests, s # r
          PROVE  /\ W!Over(s)' <=> W!Over(s)
                 /\ W!Knows(s)' <=> W!Knows(s)
                 /\ W!Direct(s)' <=> W!Direct(s)
                 /\ v7'[s].code = v7[s].code /\ v6'[s].w = v6[s].w
      BY <2>1, <1>4 DEF W!Over, W!Knows, W!Direct
    <2>2. /\ W!Over(r)' => \/ v7'[r].code \notin {401, 404, 422}
                           \/ v7'[r].code # 401 /\ v1[v6[r].w] # "active"
          /\ W!Knows(r)' <=> W!Knows(r)
          /\ W!Direct(r)' <=> W!Direct(r)
          /\ v6'[r].w = v6[r].w
      BY <1>3, <1>4 DEF W!Over, W!Knows, W!Direct, WInv, RequestTypes
    <2>3. v9[r].steady /\ ~W!Direct(r) => v1[v6[r].w] = "active" /\ W!Knows(r)
      BY DEF WInv, OnItsWay, OnWay, W!Direct, RequestTypes, Came
    <2>4. W!ServedWhileActive'
      BY <2>1, <2>2 DEF WInv, W!ServedWhileActive
    <2>5. W!GoneWhileInactive'
      BY <2>1, <2>2, <2>3 DEF WInv, W!GoneWhileInactive
    <2>6. QED
      BY <2>4, <2>5
  <1>12. QED
    BY <1>5, <1>7, <1>8, <1>9, <1>10, <1>11 DEF WInv

\* A request that inserts nothing and is given no execution.
LEMMA SameExecutions ==
  ASSUME WInv, NEW r \in Requests, v6[r].at \in {"resolved", "looked", "loaded"}
  PROVE  Kept(r, v8) /\ ~\E x \in v8 : x.by = r
  BY DEF WInv, Kept, OnItsWay, RequestTypes, BegunByRequests, W!OneExecutionPerKey

\* What a request is answered with that is given the execution x, or none.
LEMMA AnsweredWith ==
  ASSUME WInv, NEW r \in Requests, NEW code \in W!Codes, NEW x \in Execution \cup {W!NoExecution},
         W!Answered(r, code, x), v6[r].at \in OnWay,
         UNCHANGED <<v1, v2, v3, v4, v9>>, v5' \in 0 .. MaxFaults,
         Kept(r, v8'), (\E y \in v8' : y.by = r) => v9[r].active,
         code # 401, code \in {404, 422} => v1[v6[r].w] # "active"
  PROVE  WInv'
  <1>1. W!Move(r, "answered") /\ v7' = [v7 EXCEPT ![r] = [code |-> code, execution |-> x]]
    BY DEF W!Answered
  <1>2. QED
    BY <1>1, RequestInv

LEMMA FaultStep ==
  ASSUME WInv, v5' = v5 \/ W!Fault
  PROVE  v5' \in 0 .. MaxFaults
  BY WebhookAssumption DEF WInv, WorkflowTypes, W!Fault

LEMMA ReturnedWith ==
  ASSUME WInv, NEW r \in Requests, NEW x \in Execution, W!Returned(r, x),
         v6[r].at \in OnWay, UNCHANGED <<v1, v2, v3, v4, v9>>, v5' \in 0 .. MaxFaults,
         Kept(r, v8'), (\E y \in v8' : y.by = r) => v9[r].active
  PROVE  WInv'
  <1>1. PICK code \in {200, 201} : W!Answered(r, code, x)
    BY DEF W!Returned
  <1>2. QED
    BY <1>1, AnsweredWith DEF W!Codes

LEMMA FastPathInv ==
  ASSUME WInv, NEW r \in Requests, W!CheckIdempotencyFastPath(r)
  PROVE  WInv'
  <1>1. /\ v6[r].at = "resolved" /\ UNCHANGED <<v1, v2, v3, v4, v8, v9>>
        /\ v5' \in 0 .. MaxFaults
    BY FaultStep DEF W!CheckIdempotencyFastPath, W!workflows
  <1>2. Kept(r, v8') /\ ~\E x \in v8' : x.by = r
    BY <1>1, SameExecutions
  <1>3. CASE W!Move(r, "looked") /\ v7' = v7
    BY <1>1, <1>2, <1>3, RequestInv DEF OnWay
  <1>4. ASSUME NEW x \in W!WithKey(v6[r].key), W!Returned(r, x) PROVE WInv'
    <2>1. x \in Execution
      BY DEF W!WithKey, WInv, RequestTypes
    <2>2. QED
      BY <1>1, <1>2, <1>4, <2>1, ReturnedWith DEF OnWay
  <1>5. CASE W!Answered(r, 500, W!NoExecution)
    BY <1>1, <1>2, <1>5, AnsweredWith DEF OnWay, W!Codes
  <1>6. QED
    BY <1>3, <1>4, <1>5 DEF W!CheckIdempotencyFastPath

LEMMA LoadWorkflowInv ==
  ASSUME WInv, NEW r \in Requests, W!LoadWorkflow(r)
  PROVE  WInv'
  <1>1. /\ v6[r].at = "looked" /\ UNCHANGED <<v1, v2, v3, v4, v8, v9>>
        /\ v5' \in 0 .. MaxFaults
    BY FaultStep DEF W!LoadWorkflow, W!workflows
  <1>2. Kept(r, v8') /\ ~\E x \in v8' : x.by = r
    BY <1>1, SameExecutions
  <1>3. CASE v1[v6[r].w] = "active" /\ W!Move(r, "loaded") /\ v7' = v7
    <2>1. v9[r].active
      BY <1>1, <1>3 DEF WInv, OnItsWay
    <2>2. QED
      BY <1>1, <1>2, <1>3, <2>1, RequestInv DEF OnWay
  <1>4. CASE \E code \in {404, 422} : v1[v6[r].w] # "active" /\ W!Answered(r, code, W!NoExecution)
    BY <1>1, <1>2, <1>4, AnsweredWith DEF OnWay, W!Codes
  <1>5. CASE W!Answered(r, 500, W!NoExecution)
    BY <1>1, <1>2, <1>5, AnsweredWith DEF OnWay, W!Codes
  <1>6. QED
    BY <1>3, <1>4, <1>5 DEF W!LoadWorkflow

\* The execution of a request on its way is pending.
LEMMA NewType ==
  ASSUME WInv, NEW r \in Requests, v6[r].at # "out"
  PROVE  W!New(r) \in Execution /\ W!New(r).by = r /\ W!New(r).key = v6[r].key
         /\ W!New(r).status = "pending"
  BY DEF WInv, RequestTypes, Came, Execution, W!New

LEMMA CreateExecutionInv ==
  ASSUME WInv, NEW r \in Requests, W!CreateExecution(r)
  PROVE  WInv'
  <1>1. v6[r].at = "loaded" /\ UNCHANGED <<v1, v2, v3, v4, v9>> /\ v5' \in 0 .. MaxFaults
    BY FaultStep DEF W!CreateExecution, W!workflows, W!Insert
  <1>2. v9[r].active
    BY <1>1 DEF WInv, OnItsWay
  <1>3. CASE W!WithKey(v6[r].key) = {} /\ W!Insert(r)
    <2>1. v8' = v8 \cup {W!New(r)} /\ W!Move(r, "inserted") /\ v7' = v7
      BY <1>3 DEF W!Insert
    <2>2. Kept(r, v8')
      <3>1. \A x \in v8 : ~(x.key # NoKey /\ x.key = v6[r].key)
        BY <1>3 DEF W!WithKey
      <3>2. QED
        BY <1>1, <2>1, <3>1, NewType DEF WInv, Kept, OnItsWay, RequestTypes, W!OneExecutionPerKey
    <2>3. QED
      BY <1>1, <1>2, <2>1, <2>2, RequestInv DEF OnWay
  <1>4. ASSUME NEW x \in W!WithKey(v6[r].key), W!Returned(r, x), v8' = v8 PROVE WInv'
    <2>1. x \in Execution
      BY DEF W!WithKey, WInv, RequestTypes
    <2>2. QED
      BY <1>1, <1>4, <2>1, SameExecutions, ReturnedWith DEF OnWay
  <1>5. CASE v8' = v8 /\ \E code \in {409, 500} : W!Answered(r, code, W!NoExecution)
    BY <1>1, <1>5, SameExecutions, AnsweredWith DEF OnWay, W!Codes
  <1>6. QED
    BY <1>3, <1>4, <1>5 DEF W!CreateExecution

\* An execution changes its status and nothing else.
LEMMA SavedExecution ==
  ASSUME WInv, NEW x \in v8, NEW to \in {"pending", "running", "completed", "failed"},
         W!Save(x, to), NEW r \in Requests,
         \A s \in Requests : (s # r /\ v6[s].at = "inserted") => W!New(s) # x
  PROVE  /\ Kept(r, v8')
         /\ \A y \in v8' : \E z \in v8 : z.by = y.by
         /\ (v6[r].at = "inserted" /\ W!New(r) # x) => W!New(r) \in v8'
  <1>1. x \in Execution /\ v8 \subseteq Execution
    BY DEF WInv, RequestTypes
  <1>2. PICK now : now = [x EXCEPT !.status = to]
    OBVIOUS
  <1>3. now \in Execution /\ now.by = x.by /\ now.key = x.key
    BY <1>1, <1>2 DEF Execution
  <1>4. v8' = (v8 \ {x}) \cup {now}
    BY <1>2 DEF W!Save
  <1>5. \A s \in Requests : v6[s].at = "inserted" => W!New(s) \in v8
    BY DEF WInv, OnItsWay
  <1>6. \A y, z \in v8' : (y.key # NoKey /\ y.key = z.key) => y = z
    BY <1>3, <1>4 DEF WInv, W!OneExecutionPerKey
  <1>7. QED
    BY <1>1, <1>3, <1>4, <1>5, <1>6 DEF Kept

LEMMA StartExecutionInv ==
  ASSUME WInv, NEW r \in Requests, W!StartExecution(r)
  PROVE  WInv'
  <1>1. v6[r].at = "inserted" /\ UNCHANGED <<v1, v2, v3, v4, v9>> /\ v5' \in 0 .. MaxFaults
    BY FaultStep DEF W!StartExecution, W!workflows
  <1>2. v9[r].active /\ W!New(r) \in v8
    BY <1>1 DEF WInv, OnItsWay
  <1>3. PICK x : x = W!New(r)
    OBVIOUS
  <1>4. x \in v8 /\ x \in Execution /\ x.by = r
    BY <1>1, <1>2, <1>3, NewType
  <1>5. \A s \in Requests : (s # r /\ v6[s].at = "inserted") => W!New(s) # x
    BY <1>4, NewType
  <1>6. ASSUME NEW to \in {"running", "failed"}, W!Save(x, to) PROVE Kept(r, v8')
    BY <1>4, <1>5, <1>6, SavedExecution
  <1>7. CASE v8' = v8
    <2>1. Kept(r, v8')
      BY <1>7 DEF WInv, Kept, OnItsWay, RequestTypes, W!OneExecutionPerKey
    <2>2. CASE W!Answered(r, 500, W!NoExecution)
      BY <1>1, <1>2, <2>1, <2>2, AnsweredWith DEF OnWay, W!Codes
    <2>3. CASE W!Returned(r, [x EXCEPT !.status = "running"])
      BY <1>1, <1>2, <1>4, <2>1, <2>3, ReturnedWith DEF OnWay, Execution
    <2>4. QED
      BY <1>3, <2>2, <2>3 DEF W!StartExecution
  <1>8. CASE W!Save(x, "running") /\ W!Returned(r, [x EXCEPT !.status = "running"])
    BY <1>1, <1>2, <1>4, <1>6, <1>8, ReturnedWith DEF OnWay, Execution
  <1>9. CASE W!Save(x, "failed") /\ W!Answered(r, 500, W!NoExecution)
    BY <1>1, <1>2, <1>6, <1>9, AnsweredWith DEF OnWay, W!Codes
  <1>10. QED
    BY <1>3, <1>7, <1>8, <1>9 DEF W!StartExecution

LEMMA RunInv ==
  ASSUME WInv, NEW x \in v8, W!RunStateMachine(x)
  PROVE  WInv'
  <1>1. x.status = "running" /\ UNCHANGED <<v1, v2, v3, v4, v5, v6, v7, v9>>
    BY DEF W!RunStateMachine, W!workflows
  <1>2. PICK to \in {"completed", "failed"} : W!Save(x, to)
    BY DEF W!RunStateMachine
  <1>3. PICK r \in Requests : r = x.by
    BY DEF WInv, RequestTypes, Execution
  <1>4. \A s \in Requests : v6[s].at = "inserted" => W!New(s) # x
    BY <1>1, NewType
  <1>5. /\ Kept(r, v8') /\ \A y \in v8' : \E z \in v8 : z.by = y.by
        /\ v6[r].at = "inserted" => W!New(r) \in v8'
    BY <1>2, <1>4, SavedExecution
  <1>6. ASSUME NEW s \in Requests PROVE OnItsWay(s)'
    <2>1. W!New(s)' = W!New(s) /\ (W!Knows(s)' <=> W!Knows(s))
      BY <1>1 DEF W!New, W!Knows, W!Direct
    <2>2. v6[s].at = "inserted" => W!New(s) \in v8'
      BY <1>5 DEF Kept
    <2>3. QED
      BY <1>1, <2>1, <2>2 DEF WInv, OnItsWay
  <1>7. RequestTypes' /\ WorkflowTypes' /\ Routed'
    BY <1>1, <1>5 DEF WInv, RequestTypes, WorkflowTypes, Routed, Kept
  <1>8. BegunByRequests'
    BY <1>1, <1>5 DEF WInv, BegunByRequests
  <1>9. W!OneExecutionPerKey'
    BY <1>5 DEF Kept, W!OneExecutionPerKey
  <1>10. W!ServedWhileActive' /\ W!GoneWhileInactive'
    BY <1>1 DEF WInv, W!ServedWhileActive, W!GoneWhileInactive, W!Over, W!Direct, W!Knows
  <1>11. QED
    BY <1>6, <1>7, <1>8, <1>9, <1>10 DEF WInv

LEMMA WebhookNext ==
  ASSUME WInv, W!Next \/ UNCHANGED <<v1, v2, v3, v4, v5, v6, v7, v8, v9>>
  PROVE  WInv'
  <1>1. CASE UNCHANGED <<v1, v2, v3, v4, v5, v6, v7, v8, v9>>
    <2>1. \A r \in Requests : OnItsWay(r)'
      BY <1>1 DEF WInv, OnItsWay, W!New, W!Knows, W!Direct
    <2>2. RequestTypes' /\ WorkflowTypes' /\ Routed' /\ BegunByRequests' /\ W!OneExecutionPerKey'
      BY <1>1 DEF WInv, RequestTypes, WorkflowTypes, Routed, BegunByRequests, W!OneExecutionPerKey
    <2>3. W!ServedWhileActive' /\ W!GoneWhileInactive'
      BY <1>1 DEF WInv, W!ServedWhileActive, W!GoneWhileInactive, W!Over, W!Direct, W!Knows
    <2>4. QED
      BY <2>1, <2>2, <2>3 DEF WInv
  <1>2. CASE W!Next
    BY <1>2, CommandStep, HandleWebhookInv, ExecuteInv, FastPathInv, LoadWorkflowInv,
       CreateExecutionInv, StartExecutionInv, RunInv DEF W!Next
  <1>3. QED
    BY <1>1, <1>2

\* Whatever commands on workflows, faults of the database and other requests a
\* request to a webhook meets: an execution begins only for one during which
\* its workflow was active, all those with one key get one execution, and one
\* that met no command is served if its workflow is active and stopped at the
\* door if it is not (webhook/handler.go, execute_workflow.go,
\* activate_workflow.go, deactivate_workflow.go, delete_workflow.go).
THEOREM WebhookHolds == ApiSpec => []WebhookInv
  <1> DEFINE P == part \in {"webhook", "edits"} => WInv
  <1>1. ApiInit => P
    BY WebhookInit DEF ApiInit
  <1>2. P /\ [ApiNext]_apiVars => P'
    <2>1. SUFFICES ASSUME P, [ApiNext]_apiVars, part' \in {"webhook", "edits"} PROVE WInv'
      OBVIOUS
    <2>2. part' = part /\ (W!Next \/ UNCHANGED <<v1, v2, v3, v4, v5, v6, v7, v8, v9>>)
      BY <2>1 DEF ApiNext, apiVars, otherVars
    <2>3. QED
      BY <2>1, <2>2, WebhookNext
  <1>3. P => WebhookInv
    BY WebhookImplied DEF WebhookInv
  <1>4. QED
    BY <1>1, <1>2, <1>3, PTL DEF ApiSpec

-----------------------------------------------------------------------------
(* The catalog: v1 is what is registered by default, v2 the phase, v3 the    *)
(* next registration, v4 the providers, v5 the executors, v6 their owners,  *)
(* v7 the active configurations, v8 those that are gone, v9 the clients,    *)
(* v10 the changes and v11 the errors.                                      *)

Stages == {"out", "template", "form", "filled", "valid", "nodes", "insert", "answered"}
Visitor(q) ==
    /\ DOMAIN q = {"at", "field", "options", "params", "steady", "seen", "broken", "code"}
    /\ q = [x \in DOMAIN q |-> q[x]]
    /\ q.at \in Stages /\ q.field \in 1 .. 2
    /\ q.options \in [1 .. 2 -> SUBSET C!Free] /\ q.params \in [1 .. 2 -> C!Free]
    /\ q.seen \subseteq Offered /\ q.code \in {0, 201, 400, 404, 500}

CatalogTypes ==
    /\ v1 \in Defaults /\ v2 \in {"registering", "listening", "failed"}
    /\ v3 \in 1 .. Len(v1) + 1
    /\ v2 = "registering" => v3 <= Len(v1)
    /\ v2 = "listening" => v3 = Len(v1) + 1
    /\ v7 \subseteq Offered \ v8
    /\ v10 \in 0 .. MaxChanges /\ v11 \in 0 .. MaxErrors

\* What came so far is registered, and an executor that a template calls has
\* the provider whose configurations the template offers for it.
Registered ==
    /\ C!CatalogIsLinked
    /\ \A n \in 1 .. v3 - 1 : v1[n].executors \subseteq DOMAIN v5
    /\ \A f \in 1 .. 2 : C!Calls[f] \in DOMAIN v5 => v5[C!Calls[f]] = C!Fields[f]

Fits(q, f) == q.params[f] \in q.seen /\ ProviderOf[q.params[f]] = C!Fields[f]

\* What is known of a client: the options it has, the parameters that it chose
\* from them, and those that have been found active.
Consults(q) ==
    /\ Visitor(q)
    /\ q.at # "out" => v2 = "listening"
    /\ q.at # "answered" => q.code = 0
    /\ q.at \in {"form", "filled", "valid"} => q.field = 1
    /\ (q.steady /\ q.at # "out") =>
          \A f \in 1 .. 2 : (q.at = "template" => f < q.field) =>
              q.options[f] = C!Free \/ q.options[f] = C!ActiveOf(C!Fields[f])
    /\ q.at \in {"filled", "valid", "nodes", "insert"} =>
          \A f \in 1 .. 2 : q.params[f] \in q.options[f]
    /\ q.at \in {"nodes", "insert"} => v7 \subseteq q.seen
    /\ q.at = "nodes" => \A f \in 1 .. 2 : f < q.field => Fits(q, f)
    /\ (q.at = "insert" \/ q.code = 201) => \A f \in 1 .. 2 : Fits(q, f)
    /\ (q.code \in {400, 404, 500} /\ q.steady /\ ~q.broken) =>
          \E f \in 1 .. 2 : q.options[f] = C!Free

\* The clients are a function on the requests of MCApi.
CInv ==
    /\ CatalogTypes /\ Registered
    /\ v9 = [c \in Requests |-> v9[c]]
    /\ \A c \in Requests : Consults(v9[c])

LEMMA TwoFields ==
  /\ DOMAIN C!Fields = 1 .. 2 /\ Len(C!Fields) = 2
  /\ C!Fields[1] = "tracer" /\ C!Fields[2] = "midaz"
  /\ C!Calls[1] = "tracer.validate-transaction" /\ C!Calls[2] = "midaz.create-transaction"
  BY DEF C!Fields, C!Calls

LEMMA CatalogImplied == ASSUME CInv PROVE C!CatalogInv
  <1>1. C!CatalogTypeOK
    BY TwoFields DEF CInv, CatalogTypes, Consults, Visitor, C!CatalogTypeOK
  <1>2. C!OfferedIsAccepted
    BY TwoFields DEF CInv, Consults, C!OfferedIsAccepted
  <1>3. C!CreatedWithActive
    BY TwoFields DEF CInv, Consults, Fits, C!CreatedWithActive
  <1>4. QED
    BY <1>1, <1>2, <1>3 DEF CInv, Registered, C!CatalogInv

LEMMA AtPlace ==
  ASSUME NEW A, NEW s \in Seq(A), NEW n \in 1 .. Len(s)
  PROVE  s[n] \in A
  OBVIOUS

LEMMA DefaultsType ==
  ASSUME NEW d \in Defaults
  PROVE  /\ d \in Seq([provider : STRING, executors : SUBSET STRING])
         /\ Len(d) \in Nat /\ Len(d) # 0 /\ DOMAIN d = 1 .. Len(d)
         /\ \A n \in 1 .. Len(d) :
              /\ d[n].executors \subseteq STRING
              /\ \A f \in 1 .. 2 : C!Calls[f] \in d[n].executors <=> d[n].provider = C!Fields[f]
         /\ \A f \in 1 .. 2 : \E n \in 1 .. Len(d) : d[n].provider = C!Fields[f]
  <1>1. /\ d \in Seq([provider : STRING, executors : SUBSET STRING])
        /\ \A n \in DOMAIN d, f \in 1 .. 2 :
              C!Calls[f] \in d[n].executors <=> d[n].provider = C!Fields[f]
        /\ \A f \in 1 .. 2 : \E n \in DOMAIN d : d[n].provider = C!Fields[f]
    BY CatalogAssumption, TwoFields, SMTT(30)
  <1>2. Len(d) \in Nat /\ DOMAIN d = 1 .. Len(d)
    BY <1>1
  <1>3. \A n \in 1 .. Len(d) : d[n] \in [provider : STRING, executors : SUBSET STRING]
    BY <1>1, AtPlace
  <1>4. QED
    BY <1>1, <1>2, <1>3

LEMMA OutsideType ==
  /\ Visitor(C!Outside) /\ C!Outside.at = "out" /\ C!Outside.code = 0 /\ C!Outside.field = 1
  /\ ~C!Outside.steady
  <1>1. [f \in DOMAIN C!Fields |-> "unset"] \in [1 .. 2 -> C!Free]
    BY TwoFields DEF C!Free, C!NotAnId
  <1>2. [f \in DOMAIN C!Fields |-> {}] \in [1 .. 2 -> SUBSET C!Free]
    BY TwoFields
  <1>3. Visitor(C!Outside) /\ C!Outside.at = "out" /\ C!Outside.code = 0 /\ C!Outside.field = 1
    BY <1>1, <1>2 DEF C!Outside, Visitor, Stages
  <1>4. ~C!Outside.steady
    BY Zenon DEF C!Outside
  <1>5. QED
    BY <1>3, <1>4

LEMMA CatalogInit == ASSUME C!Init PROVE CInv
  <1>1. CatalogTypes
    <2>1. v1 \in Defaults /\ v2 = "registering" /\ v3 = 1 /\ v7 \in SUBSET Offered /\ v8 = {}
          /\ v10 = 0 /\ v11 = 0
      BY DEF C!Init
    <2>2. QED
      BY <2>1, DefaultsType, CatalogAssumption DEF CatalogTypes
  <1>2. Registered
    <2>1. v5 = << >> /\ v6 = << >> /\ v4 = {} /\ v3 = 1
      BY DEF C!Init
    <2>2. QED
      BY <2>1 DEF Registered, C!CatalogIsLinked
  <1>3. \A c \in Requests : Consults(C!Outside)
    BY OutsideType DEF Consults
  <1>4. QED
    BY <1>1, <1>2, <1>3 DEF C!Init, CInv

-----------------------------------------------------------------------------
(* Registration and the configurations that others change *)

LEMMA RegisterInv == ASSUME CInv, C!RegisterProvider PROVE CInv'
  <1>1. PICK r : r = v1[v3]
    OBVIOUS
  <1>2. /\ v2 = "registering" /\ C!Registers(r)
        /\ v4' = v4 \cup {r.provider}
        /\ v5' = C!With(v5, r.executors, r.provider) /\ v6' = C!With(v6, r.executors, r.provider)
        /\ v3' = v3 + 1 /\ v2' = IF v3 = Len(v1) THEN "listening" ELSE v2
        /\ UNCHANGED <<v1, v7, v8, v9, v10, v11>>
    BY <1>1 DEF C!RegisterProvider
  <1>3. v3 \in 1 .. Len(v1) /\ v1 \in Defaults
    BY <1>2, DefaultsType DEF CInv, CatalogTypes
  <1>4. \A f \in 1 .. 2 : C!Calls[f] \in r.executors => r.provider = C!Fields[f]
    BY <1>1, <1>3, DefaultsType
  <1>5. CatalogTypes'
    BY <1>2, <1>3, DefaultsType DEF CInv, CatalogTypes
  <1>6. /\ DOMAIN v5' = DOMAIN v5 \cup r.executors
        /\ \A e \in DOMAIN v5' : v5'[e] = IF e \in r.executors THEN r.provider ELSE v5[e]
        /\ DOMAIN v6' = DOMAIN v6 \cup r.executors
        /\ \A e \in DOMAIN v6' : v6'[e] = IF e \in r.executors THEN r.provider ELSE v6[e]
    BY <1>2 DEF C!With
  <1>7. C!CatalogIsLinked'
    <2>1. /\ DOMAIN v6 = DOMAIN v5
          /\ \A e \in DOMAIN v6 : v6[e] = v5[e] /\ v6[e] \in v4
          /\ \A p \in v4 : \E n \in DOMAIN v1 : v1[n].provider = p /\ C!Complete(v1[n])
      BY DEF CInv, Registered, C!CatalogIsLinked
    <2>2. v3 \in DOMAIN v1 /\ v1[v3].provider = r.provider /\ C!Complete(v1[v3])
      BY <1>1, <1>2, <1>3, DefaultsType DEF C!Registers
    <2>3. \A p \in v4' : \E n \in DOMAIN v1 : v1[n].provider = p /\ C!Complete(v1[n])
      BY <1>2, <2>1, <2>2
    <2>4. \A e \in DOMAIN v6' : v6'[e] = v5'[e] /\ v6'[e] \in v4'
      BY <1>2, <1>6, <2>1
    <2>5. DOMAIN v6' = DOMAIN v5'
      BY <1>6, <2>1
    <2>6. \A p \in v4' : \E n \in DOMAIN v1' : v1'[n].provider = p /\ C!Complete(v1'[n])
      BY <1>2, <2>3
    <2>7. QED
      BY <2>4, <2>5, <2>6 DEF C!CatalogIsLinked, C!Complete
  <1>8. Registered'
    <2>1. \A n \in 1 .. v3' - 1 : v1'[n].executors \subseteq DOMAIN v5'
      <3>1. \A n \in 1 .. v3 - 1 : v1[n].executors \subseteq DOMAIN v5'
        BY <1>6 DEF CInv, Registered
      <3>2. v1[v3].executors \subseteq DOMAIN v5'
        BY <1>1, <1>6
      <3>3. QED
        BY <1>2, <1>3, <3>1, <3>2
    <2>2. \A f \in 1 .. 2 : C!Calls[f] \in DOMAIN v5' => v5'[C!Calls[f]] = C!Fields[f]
      BY <1>4, <1>6 DEF CInv, Registered
    <2>3. QED
      BY <1>7, <2>1, <2>2 DEF Registered
  <1>9. \A c \in Requests : Consults(v9[c])'
    <2>1. \A c \in Requests : v9[c].at = "out"
      BY <1>2 DEF CInv, Consults
    <2>2. \A c \in Requests : v9'[c] = v9[c] /\ Consults(v9[c])
      BY <1>2 DEF CInv
    <2>3. QED
      BY <2>1, <2>2 DEF Consults, Fits
  <1>10. v9' = [c \in Requests |-> v9'[c]]
    BY <1>2 DEF CInv
  <1>11. QED
    BY <1>5, <1>8, <1>9, <1>10 DEF CInv

LEMMA RefuseInv == ASSUME CInv, C!RefuseProvider PROVE CInv'
  <1>1. v2 = "registering" /\ v2' = "failed" /\ UNCHANGED <<v1, v3, v4, v5, v6, v7, v8, v9, v10, v11>>
    BY DEF C!RefuseProvider, C!registered
  <1>2. CatalogTypes'
    BY <1>1 DEF CInv, CatalogTypes
  <1>3. Registered'
    BY <1>1 DEF CInv, Registered, C!CatalogIsLinked, C!Complete
  <1>4. \A c \in Requests : v9[c].at = "out"
    BY <1>1 DEF CInv, Consults
  <1>5. \A c \in Requests : Consults(v9[c])'
    BY <1>1, <1>4 DEF CInv, Consults, Fits
  <1>6. QED
    BY <1>1, <1>2, <1>3, <1>5 DEF CInv

\* What every client is after a change: no longer undisturbed.
LEMMA ChangeInv == ASSUME CInv, C!ChangeConfig PROVE CInv'
  <1>1. /\ v2 = "listening" /\ v10 < MaxChanges /\ v10' = v10 + 1
        /\ UNCHANGED <<v1, v2, v3, v4, v5, v6, v11>>
        /\ C!Sees(v7')
    BY DEF C!ChangeConfig, C!start, C!registered
  <1>2. v7' \subseteq Offered \ v8'
    BY DEF C!ChangeConfig, CInv, CatalogTypes
  <1>3. CatalogTypes'
    BY <1>1, <1>2, CatalogAssumption DEF CInv, CatalogTypes
  <1>4. Registered'
    BY <1>1 DEF CInv, Registered, C!CatalogIsLinked, C!Complete
  <1>5. v9' = [c \in Requests |-> [v9[c] EXCEPT !.steady = FALSE, !.seen = @ \cup v7']]
    BY <1>1 DEF C!Sees
  <1>6. ASSUME NEW c \in Requests PROVE Consults(v9[c])'
    <2>1. PICK q : q = [v9[c] EXCEPT !.steady = FALSE, !.seen = @ \cup v7']
      OBVIOUS
    <2>2. v9'[c] = q
      BY <1>5, <2>1
    <2>3. Visitor(v9[c]) /\ Consults(v9[c])
      BY DEF CInv, Consults
    <2>4. ~q.steady
      BY <2>1, <2>3, Zenon DEF Visitor
    <2>5. /\ q.at = v9[c].at /\ q.field = v9[c].field /\ q.options = v9[c].options
          /\ q.params = v9[c].params /\ q.code = v9[c].code /\ q.seen = v9[c].seen \cup v7'
      BY <2>1, <2>3 DEF Visitor
    <2>6. DOMAIN q = DOMAIN v9[c] /\ q = [x \in DOMAIN q |-> q[x]]
      BY <2>1, Zenon
    <2>7. Visitor(q)
      BY <1>2, <2>3, <2>5, <2>6 DEF Visitor
    <2>8. Consults(q)'
      BY <1>1, <2>3, <2>4, <2>5, <2>7 DEF Consults, Fits
    <2>9. QED
      BY <2>2, <2>8
  <1>7. v9' = [c \in Requests |-> v9'[c]]
    BY <1>5
  <1>8. QED
    BY <1>3, <1>4, <1>6, <1>7 DEF CInv

-----------------------------------------------------------------------------
(* A client *)

\* A client goes on, alone.
LEMMA ClientInv ==
  ASSUME CInv, NEW c \in Requests, NEW q, C!Becomes(c, q), C!Only(c),
         v11' = v11 \/ C!Error, Consults(q)
  PROVE  CInv'
  <1>1. /\ UNCHANGED <<v1, v2, v3, v4, v5, v6, v7, v8, v10>>
        /\ v9' = [v9 EXCEPT ![c] = q]
    BY DEF C!Becomes, C!Only, C!start, C!registered
  <1>2. CatalogTypes'
    BY <1>1, CatalogAssumption DEF CInv, CatalogTypes, C!Error
  <1>3. Registered'
    BY <1>1 DEF CInv, Registered, C!CatalogIsLinked, C!Complete
  <1>4. v9' = [d \in Requests |-> IF d = c THEN q ELSE v9[d]]
    BY <1>1, Zenon DEF CInv
  <1>5. \A d \in Requests : Consults(v9'[d])
    BY <1>4 DEF CInv
  <1>6. \A d \in Requests : Consults(v9[d])'
    BY <1>1, <1>5 DEF Consults, Fits, C!ActiveOf
  <1>7. v9' = [d \in Requests |-> v9'[d]]
    BY <1>4
  <1>8. QED
    BY <1>2, <1>3, <1>6, <1>7 DEF CInv

LEMMA ClientFacts ==
  ASSUME CInv, NEW c \in Requests
  PROVE  Visitor(v9[c]) /\ Consults(v9[c])
  BY DEF CInv, Consults

LEMMA GetInv == ASSUME CInv, NEW c \in Requests, C!GetTemplate(c) PROVE CInv'
  <1>1. PICK q : q = [C!Outside EXCEPT !.at = "template", !.steady = TRUE, !.seen = v7]
    OBVIOUS
  <1>2. v2 = "listening" /\ C!Becomes(c, q) /\ C!Only(c) /\ v11' = v11
    BY <1>1 DEF C!GetTemplate
  <1>3. PICK o : o = C!Outside
    OBVIOUS
  <1>4. Visitor(o) /\ o.code = 0 /\ o.field = 1
    BY <1>3, OutsideType
  <1>5. q = [o EXCEPT !.at = "template", !.steady = TRUE, !.seen = v7]
    BY <1>1, <1>3
  <1>6. /\ q.at = "template" /\ q.code = 0 /\ q.field = 1 /\ q.seen = v7
        /\ q.options = o.options /\ q.params = o.params
    BY <1>4, <1>5 DEF Visitor
  <1>7. DOMAIN q = DOMAIN o /\ q = [x \in DOMAIN q |-> q[x]]
    BY <1>5, Zenon
  <1>8. Visitor(q)
    BY <1>4, <1>6, <1>7 DEF Visitor, Stages, CInv, CatalogTypes
  <1>9. Consults(q)
    BY <1>2, <1>6, <1>8 DEF Consults
  <1>10. QED
    BY <1>2, <1>9, ClientInv

LEMMA EnrichInv == ASSUME CInv, NEW c \in Requests, C!Enrich(c) PROVE CInv'
  <1>1. PICK f : f = v9[c].field
    OBVIOUS
  <1>2. Visitor(v9[c]) /\ Consults(v9[c]) /\ v9[c].at = "template" /\ f \in 1 .. 2
    BY <1>1, ClientFacts DEF C!Enrich, Visitor
  <1>3. PICK options : /\ options = C!Free \/ options = C!ActiveOf(C!Fields[f])
                       /\ C!Becomes(c, [v9[c] EXCEPT !.options[f] = options,
                              !.field = IF f = Len(C!Fields) THEN 1 ELSE f + 1,
                              !.at = IF f = Len(C!Fields) THEN "form" ELSE "template"])
                       /\ v11' = v11 \/ C!Error
    BY <1>1 DEF C!Enrich
  <1>4. options \in SUBSET C!Free
    BY <1>3 DEF CInv, CatalogTypes, C!ActiveOf, C!Free
  <1>5. PICK next : next = IF f = 2 THEN 1 ELSE f + 1
    OBVIOUS
  <1>6. PICK at : at = IF f = 2 THEN "form" ELSE "template"
    OBVIOUS
  <1>7. PICK all : all = [v9[c].options EXCEPT ![f] = options]
    OBVIOUS
  <1>8. /\ all \in [1 .. 2 -> SUBSET C!Free] /\ all[f] = options
        /\ \A g \in 1 .. 2 : g # f => all[g] = v9[c].options[g]
    <2>1. v9[c].options \in [1 .. 2 -> SUBSET C!Free]
      BY <1>2 DEF Visitor
    <2>2. QED
      BY <1>2, <1>4, <1>7, <2>1
  <1>9. PICK q : q = [v9[c] EXCEPT !.options = all, !.field = next, !.at = at]
    OBVIOUS
  <1>10. C!Becomes(c, q) /\ C!Only(c)
    <2>1. q = [v9[c] EXCEPT !.options[f] = options, !.field = next, !.at = at]
      BY <1>7, <1>9
    <2>2. QED
      BY <1>3, <1>5, <1>6, <2>1, TwoFields DEF C!Enrich
  <1>11. /\ q.at = at /\ q.field = next /\ q.code = v9[c].code
         /\ q.options = all /\ q.params = v9[c].params /\ q.seen = v9[c].seen
    BY <1>2, <1>9 DEF Visitor
  <1>12. DOMAIN q = DOMAIN v9[c] /\ q = [x \in DOMAIN q |-> q[x]]
    BY <1>9, Zenon
  <1>13. q.steady <=> v9[c].steady
    BY <1>2, <1>9, Zenon DEF Visitor
  <1>14. Visitor(q)
    BY <1>2, <1>5, <1>6, <1>8, <1>11, <1>12 DEF Visitor, Stages
  <1>15. /\ v2 = "listening" /\ q.code = 0
         /\ q.at = "template" \/ q.at = "form"
         /\ q.at = "form" => q.field = 1
    BY <1>2, <1>5, <1>6, <1>11 DEF Consults
  <1>16. q.steady => \A g \in 1 .. 2 : (q.at = "template" => g < q.field) =>
             q.options[g] = C!Free \/ q.options[g] = C!ActiveOf(C!Fields[g])
    <2>1. q.steady => \A g \in 1 .. 2 : g < f =>
            v9[c].options[g] = C!Free \/ v9[c].options[g] = C!ActiveOf(C!Fields[g])
      BY <1>1, <1>2, <1>13 DEF Consults
    <2>2. \A g \in 1 .. 2 : (q.at = "template" => g < q.field) => g = f \/ g < f
      BY <1>2, <1>5, <1>6, <1>11
    <2>3. QED
      BY <1>3, <1>8, <1>11, <2>1, <2>2
  <1>17. Consults(q)
    BY <1>14, <1>15, <1>16 DEF Consults
  <1>18. QED
    BY <1>3, <1>10, <1>17, ClientInv

LEMMA ChooseInv == ASSUME CInv, NEW c \in Requests, C!Choose(c) PROVE CInv'
  <1>1. Visitor(v9[c]) /\ Consults(v9[c]) /\ v9[c].at = "form" /\ C!Only(c) /\ v11' = v11
    BY ClientFacts DEF C!Choose
  <1>2. PICK params \in [1 .. 2 -> C!Free] :
            /\ \A f \in 1 .. 2 : params[f] \in v9[c].options[f]
            /\ C!Becomes(c, [v9[c] EXCEPT !.at = "filled", !.params = params])
    BY TwoFields DEF C!Choose
  <1>3. PICK q : q = [v9[c] EXCEPT !.at = "filled", !.params = params]
    OBVIOUS
  <1>4. /\ q.at = "filled" /\ q.params = params /\ q.field = v9[c].field
        /\ q.options = v9[c].options /\ q.code = v9[c].code /\ q.seen = v9[c].seen
    BY <1>1, <1>3 DEF Visitor
  <1>5. DOMAIN q = DOMAIN v9[c] /\ q = [x \in DOMAIN q |-> q[x]]
    BY <1>3, Zenon
  <1>6. q.steady <=> v9[c].steady
    BY <1>1, <1>3, Zenon DEF Visitor
  <1>7. Visitor(q)
    BY <1>1, <1>2, <1>4, <1>5 DEF Visitor, Stages
  <1>8. Consults(q)
    BY <1>1, <1>2, <1>4, <1>6, <1>7 DEF Consults
  <1>9. QED
    BY <1>1, <1>2, <1>3, <1>8, ClientInv

\* A client that is answered.
LEMMA AnsweredClient ==
  ASSUME CInv, NEW c \in Requests, NEW code \in {201, 400, 404, 500},
         NEW q, Visitor(q), q.at = "answered", q.code = code, q.options = v9[c].options,
         q.params = v9[c].params, q.seen = v9[c].seen,
         v9[c].at \in {"filled", "valid", "nodes", "insert"},
         C!Becomes(c, q), C!Only(c), v11' = v11 \/ C!Error,
         code = 201 => \A f \in 1 .. 2 : Fits(v9[c], f),
         (code # 201 /\ q.steady /\ ~q.broken) => \E f \in 1 .. 2 : v9[c].options[f] = C!Free,
         q.steady => v9[c].steady
  PROVE  CInv'
  <1>1. Visitor(v9[c]) /\ Consults(v9[c])
    BY ClientFacts
  <1>2. Consults(q)
    BY <1>1 DEF Consults, Fits
  <1>3. QED
    BY <1>2, ClientInv

\* What an answer that the database did not cause stands for.
Justified(c, code) ==
    IF code = 201 THEN \A f \in 1 .. 2 : Fits(v9[c], f)
    ELSE v9[c].steady => \E f \in 1 .. 2 : v9[c].options[f] = C!Free

LEMMA RefusedClient ==
  ASSUME CInv, NEW c \in Requests, NEW code \in {201, 400, 404, 500},
         v9[c].at \in {"filled", "valid", "nodes", "insert"},
         C!Becomes(c, [v9[c] EXCEPT !.at = "answered", !.code = code]), C!Only(c), v11' = v11,
         Justified(c, code)
  PROVE  CInv'
  <1>1. Visitor(v9[c])
    BY ClientFacts
  <1>2. PICK q : q = [v9[c] EXCEPT !.at = "answered", !.code = code]
    OBVIOUS
  <1>3. /\ q.at = "answered" /\ q.code = code /\ q.field = v9[c].field
        /\ q.options = v9[c].options /\ q.params = v9[c].params /\ q.seen = v9[c].seen
    BY <1>1, <1>2 DEF Visitor
  <1>4. DOMAIN q = DOMAIN v9[c] /\ q = [x \in DOMAIN q |-> q[x]]
    <2>1. PICK p : p = v9[c]
      OBVIOUS
    <2>2. q = [p EXCEPT !.at = "answered", !.code = code]
      BY <1>2, <2>1
    <2>3. DOMAIN q = DOMAIN p
      BY <2>2, Zenon
    <2>4. q = [x \in DOMAIN q |-> q[x]]
      BY <2>2, Zenon
    <2>5. QED
      BY <2>1, <2>3, <2>4
  <1>5. q.steady <=> v9[c].steady
    BY <1>1, <1>2, ZenonT(60) DEF Visitor
  <1>6. Visitor(q)
    BY <1>1, <1>3, <1>4 DEF Visitor, Stages
  <1>7. C!Becomes(c, q)
    BY <1>2
  <1>8. QED
    BY <1>3, <1>5, <1>6, <1>7, AnsweredClient DEF Justified

\* One that an error of the database made fail.
LEMMA BrokenClient ==
  ASSUME CInv, NEW c \in Requests, NEW code \in {400, 500},
         v9[c].at \in {"filled", "valid", "nodes", "insert"},
         C!Becomes(c, [v9[c] EXCEPT !.at = "answered", !.code = code, !.broken = TRUE]),
         C!Only(c), C!Error
  PROVE  CInv'
  <1>1. Visitor(v9[c])
    BY ClientFacts
  <1>2. PICK q : q = [v9[c] EXCEPT !.at = "answered", !.code = code, !.broken = TRUE]
    OBVIOUS
  <1>3. /\ q.at = "answered" /\ q.code = code /\ q.field = v9[c].field
        /\ q.options = v9[c].options /\ q.params = v9[c].params /\ q.seen = v9[c].seen
    BY <1>1, <1>2 DEF Visitor
  <1>4. DOMAIN q = DOMAIN v9[c] /\ q = [x \in DOMAIN q |-> q[x]]
    BY <1>2, Zenon
  <1>5. (q.steady <=> v9[c].steady) /\ q.broken
    BY <1>1, <1>2, ZenonT(60) DEF Visitor
  <1>6. Visitor(q)
    BY <1>1, <1>3, <1>4 DEF Visitor, Stages
  <1>7. C!Becomes(c, q)
    BY <1>2
  <1>8. QED
    BY <1>3, <1>5, <1>6, <1>7, AnsweredClient

\* Once the process listens, all is registered, so what the templates call is
\* there.
LEMMA AllRegistered ==
  ASSUME CInv, v2 = "listening", NEW f \in 1 .. 2
  PROVE  C!Calls[f] \in DOMAIN v5 /\ v5[C!Calls[f]] = C!Fields[f]
  <1>1. v1 \in Defaults /\ v3 = Len(v1) + 1 /\ Len(v1) \in Nat
    BY DefaultsType DEF CInv, CatalogTypes
  <1>2. PICK n \in 1 .. Len(v1) : v1[n].provider = C!Fields[f]
    BY <1>1, DefaultsType
  <1>3. C!Calls[f] \in v1[n].executors
    BY <1>1, <1>2, DefaultsType
  <1>4. n \in 1 .. v3 - 1
    BY <1>1
  <1>5. QED
    BY <1>3, <1>4 DEF CInv, Registered

\* A parameter that is no id was not chosen from configurations.
LEMMA NoIdIsFree ==
  ASSUME CInv, NEW c \in Requests, v9[c].at \in {"filled", "valid"}, v9[c].steady,
         NEW f \in 1 .. 2, v9[c].params[f] \in C!NotAnId
  PROVE  v9[c].options[f] = C!Free
  <1>1. /\ v9[c].params[f] \in v9[c].options[f]
        /\ v9[c].options[f] = C!Free \/ v9[c].options[f] = C!ActiveOf(C!Fields[f])
    BY ClientFacts DEF Consults
  <1>2. v9[c].params[f] \notin Offered
    BY CatalogAssumption
  <1>3. C!ActiveOf(C!Fields[f]) \subseteq Offered
    BY DEF C!ActiveOf, CInv, CatalogTypes
  <1>4. QED
    BY <1>1, <1>2, <1>3

\* What the command refuses before it asks the database.
LEMMA RefusalOf ==
  ASSUME CInv, v2 = "listening", NEW params \in [1 .. 2 -> C!Free], C!Refusal(params) # 0
  PROVE  /\ C!Refusal(params) \in {400, 404, 500}
         /\ \E f \in 1 .. 2 : params[f] \in C!NotAnId
  <1>1. CASE ~C!ValidParams(params)
    BY <1>1, TwoFields DEF C!Refusal, C!ValidParams, C!NotAnId
  <1>2. CASE C!ValidParams(params) /\ \E f \in DOMAIN C!Fields : params[f] = "empty"
    BY <1>2, TwoFields DEF C!Refusal, C!NotAnId
  <1>3. CASE C!ValidParams(params) /\ ~\E f \in DOMAIN C!Fields : params[f] = "empty"
    <2>1. C!Refusal(params) = C!NodesCode(params)
      BY <1>3, Zenon DEF C!Refusal
    <2>2. \A node : C!NodeCode(node) \in {0, 400, 404}
      BY DEF C!NodeCode
    <2>3. \A f \in 1 .. 2 : C!NodeCode(C!Node(params, f)) # 0 => params[f] \in C!NotAnId
      <3>1. TAKE f \in 1 .. 2
      <3>2. C!Calls[f] \in DOMAIN v5
        BY AllRegistered
      <3>3. PICK node : node = C!Node(params, f)
        OBVIOUS
      <3>4. node.config = params[f] /\ node.executor = C!Calls[f]
        BY <3>3 DEF C!Node
      <3>5. C!NodeCode(node) # 0 => params[f] \in C!NotAnId
        BY <3>2, <3>4 DEF C!NodeCode
      <3>6. QED
        BY <3>3, <3>5
    <2>4. C!NodesCode(params) # 0 => \E f \in 1 .. 2 : C!NodeCode(C!Node(params, f)) # 0
      BY TwoFields DEF C!NodesCode
    <2>5. C!NodesCode(params) \in {0, 400, 404}
      <3> DEFINE wrong == {f \in DOMAIN C!Fields : C!NodeCode(C!Node(params, f)) # 0}
      <3>1. C!NodesCode(params) = IF wrong = {} THEN 0
              ELSE C!NodeCode(C!Node(params, CHOOSE f \in wrong : \A g \in wrong : f <= g))
        BY DEF C!NodesCode
      <3> HIDE DEF wrong
      <3>2. QED
        BY <2>2, <3>1
    <2>6. QED
      BY <2>1, <2>3, <2>4, <2>5
  <1>4. QED
    BY <1>1, <1>2, <1>3

LEMMA ValidateParamsInv ==
  ASSUME CInv, NEW c \in Requests, C!ValidateTemplateParams(c) PROVE CInv'
  <1>1. Visitor(v9[c]) /\ Consults(v9[c]) /\ v9[c].at = "filled" /\ C!Only(c) /\ v11' = v11
    BY ClientFacts, SMTT(30) DEF C!ValidateTemplateParams
  <1>2. CASE ~C!ValidParams(v9[c].params)
    <2>1. C!Becomes(c, [v9[c] EXCEPT !.at = "answered", !.code = 400])
      BY <1>2, Zenon DEF C!ValidateTemplateParams, C!Refuse
    <2>2. Justified(c, 400)
      <3>1. PICK f \in 1 .. 2 : v9[c].params[f] \in C!NotAnId
        BY <1>2, TwoFields DEF C!ValidParams, C!NotAnId
      <3>2. QED
        BY <1>1, <3>1, NoIdIsFree DEF Justified
    <2>3. QED
      BY <1>1, <2>1, <2>2, RefusedClient, ZenonT(60)
  <1>3. CASE C!ValidParams(v9[c].params)
    <2>1. PICK q : q = [v9[c] EXCEPT !.at = "valid"]
      OBVIOUS
    <2>2. C!Becomes(c, q)
      BY <1>3, <2>1, Zenon DEF C!ValidateTemplateParams
    <2>3. /\ q.at = "valid" /\ q.code = v9[c].code /\ q.field = v9[c].field
          /\ q.options = v9[c].options /\ q.params = v9[c].params /\ q.seen = v9[c].seen
      BY <1>1, <2>1 DEF Visitor
    <2>4. DOMAIN q = DOMAIN v9[c] /\ q = [x \in DOMAIN q |-> q[x]]
      BY <1>1, <2>1 DEF Visitor
    <2>5. q.steady <=> v9[c].steady
      BY <1>1, <2>1, Zenon DEF Visitor
    <2>6. Visitor(q)
      BY <1>1, <2>3, <2>4 DEF Visitor, Stages
    <2>7. Consults(q)
      BY <1>1, <2>3, <2>5, <2>6 DEF Consults
    <2>8. QED
      BY <1>1, <2>2, <2>7, ClientInv
  <1>4. QED
    BY <1>2, <1>3

LEMMA CreateFromInv ==
  ASSUME CInv, NEW c \in Requests, C!CreateFromTemplate(c) PROVE CInv'
  <1>1. /\ Visitor(v9[c]) /\ Consults(v9[c]) /\ v9[c].at \in {"filled", "valid"}
        /\ C!Only(c) /\ v11' = v11
    BY ClientFacts DEF C!CreateFromTemplate
  <1>2. /\ v2 = "listening" /\ v9[c].field = 1 /\ v9[c].code = 0
        /\ \A f \in 1 .. 2 : v9[c].params[f] \in v9[c].options[f]
        /\ v9[c].steady => \A f \in 1 .. 2 : v9[c].options[f] = C!Free
                                              \/ v9[c].options[f] = C!ActiveOf(C!Fields[f])
    BY <1>1 DEF Consults
  <1>3. PICK code : code = C!Refusal(v9[c].params)
    OBVIOUS
  <1>4. CASE code # 0
    <2>1. C!Becomes(c, [v9[c] EXCEPT !.at = "answered", !.code = code])
      BY <1>3, <1>4, Zenon DEF C!CreateFromTemplate, C!Refuse
    <2>2. code \in {400, 404, 500} /\ \E f \in 1 .. 2 : v9[c].params[f] \in C!NotAnId
      BY <1>1, <1>2, <1>3, <1>4, RefusalOf DEF Visitor
    <2>3. Justified(c, code)
      BY <1>1, <2>2, NoIdIsFree DEF Justified
    <2>4. code \in {201, 400, 404, 500}
      BY <2>2
    <2>5. QED
      BY <1>1, <2>1, <2>3, <2>4, RefusedClient, ZenonT(60)
  <1>5. CASE code = 0
    <2>1. PICK q : q = [v9[c] EXCEPT !.at = "nodes", !.seen = v7]
      OBVIOUS
    <2>2. C!Becomes(c, q)
      BY <1>3, <1>5, <2>1, Zenon DEF C!CreateFromTemplate
    <2>3. /\ q.at = "nodes" /\ q.code = 0 /\ q.field = 1
          /\ q.options = v9[c].options /\ q.params = v9[c].params /\ q.seen = v7
      BY <1>1, <1>2, <2>1 DEF Visitor
    <2>4. DOMAIN q = DOMAIN v9[c] /\ q = [x \in DOMAIN q |-> q[x]]
      BY <2>1, Zenon
    <2>5. q.steady <=> v9[c].steady
      BY <1>1, <2>1, Zenon DEF Visitor
    <2>6. Visitor(q)
      BY <1>1, <2>3, <2>4 DEF Visitor, Stages, CInv, CatalogTypes
    <2>7. Consults(q)
      BY <1>2, <2>3, <2>5, <2>6 DEF Consults
    <2>8. QED
      BY <1>1, <2>2, <2>7, ClientInv
  <1>6. QED
    BY <1>4, <1>5

LEMMA CheckInv ==
  ASSUME CInv, NEW c \in Requests, C!CheckNode(c) PROVE CInv'
  <1>1. PICK f : f = v9[c].field
    OBVIOUS
  <1>2. /\ Visitor(v9[c]) /\ Consults(v9[c]) /\ v9[c].at = "nodes"
        /\ C!Only(c) /\ f \in 1 .. 2
    BY <1>1, ClientFacts DEF C!CheckNode, Visitor
  <1>3. /\ v2 = "listening" /\ v9[c].code = 0 /\ v7 \subseteq v9[c].seen
        /\ \A g \in 1 .. 2 : v9[c].params[g] \in v9[c].options[g]
        /\ \A g \in 1 .. 2 : g < f => Fits(v9[c], g)
        /\ v9[c].steady => \A g \in 1 .. 2 : v9[c].options[g] = C!Free
                                              \/ v9[c].options[g] = C!ActiveOf(C!Fields[g])
    BY <1>1, <1>2 DEF Consults
  <1>4. PICK node : node = C!Node(v9[c].params, f)
    OBVIOUS
  <1>5. node.config = v9[c].params[f] /\ v5[node.executor] = C!Fields[f]
    BY <1>2, <1>3, <1>4, AllRegistered DEF C!Node
  <1>6. C!Accepts(node) <=> v9[c].params[f] \in C!ActiveOf(C!Fields[f])
    BY <1>5, SMTT(30) DEF C!Accepts, C!ActiveOf
  <1>7. CASE /\ C!Error
             /\ C!Becomes(c, [v9[c] EXCEPT !.at = "answered", !.code = 400, !.broken = TRUE])
    BY <1>2, <1>7, BrokenClient, ZenonT(60)
  <1>8. CASE /\ ~C!Accepts(node) /\ v11' = v11
             /\ C!Becomes(c, [v9[c] EXCEPT !.at = "answered", !.code = 400])
    <2>1. Justified(c, 400)
      BY <1>2, <1>3, <1>6, <1>8 DEF Justified
    <2>2. QED
      BY <1>2, <1>8, <2>1, RefusedClient, ZenonT(60)
  <1>9. CASE /\ C!Accepts(node) /\ v11' = v11
             /\ C!Becomes(c, [v9[c] EXCEPT !.field = IF f = 2 THEN 1 ELSE f + 1,
                                           !.at = IF f = 2 THEN "insert" ELSE "nodes"])
    <2>1. PICK field : field = IF f = 2 THEN 1 ELSE f + 1
      OBVIOUS
    <2>2. PICK at : at = IF f = 2 THEN "insert" ELSE "nodes"
      OBVIOUS
    <2>3. PICK q : q = [v9[c] EXCEPT !.field = field, !.at = at]
      OBVIOUS
    <2>4. C!Becomes(c, q)
      BY <1>9, <2>1, <2>2, <2>3
    <2>5. /\ q.at = at /\ q.code = 0 /\ q.field = field
          /\ q.options = v9[c].options /\ q.params = v9[c].params /\ q.seen = v9[c].seen
      BY <1>2, <1>3, <2>3 DEF Visitor
    <2>6. DOMAIN q = DOMAIN v9[c] /\ q = [x \in DOMAIN q |-> q[x]]
      BY <2>3, Zenon
    <2>7. q.steady <=> v9[c].steady
      BY <1>2, <2>3, Zenon DEF Visitor
    <2>8. Visitor(q)
      BY <1>2, <2>1, <2>2, <2>5, <2>6 DEF Visitor, Stages
    <2>9. Fits(v9[c], f)
      BY <1>3, <1>6, <1>9 DEF Fits, C!ActiveOf
    <2>10. \A g \in 1 .. 2 : (g < f \/ g = f) => Fits(q, g)
      BY <1>3, <2>5, <2>9 DEF Fits
    <2>11. Consults(q)
      BY <1>2, <1>3, <2>1, <2>2, <2>5, <2>7, <2>8, <2>10 DEF Consults
    <2>12. QED
      BY <1>2, <1>9, <2>4, <2>11, ClientInv
  <1>10. \/ /\ C!Accepts(node) /\ v11' = v11
            /\ C!Becomes(c, [v9[c] EXCEPT !.field = IF f = 2 THEN 1 ELSE f + 1,
                                          !.at = IF f = 2 THEN "insert" ELSE "nodes"])
         \/ ~C!Accepts(node) /\ C!Becomes(c, C!Refuse(c, 400)) /\ v11' = v11
         \/ C!Becomes(c, [C!Refuse(c, 400) EXCEPT !.broken = TRUE]) /\ C!Error
    BY <1>1, <1>4, TwoFields DEF C!CheckNode
  <1>11. /\ C!Refuse(c, 400) = [v9[c] EXCEPT !.at = "answered", !.code = 400]
         /\ [C!Refuse(c, 400) EXCEPT !.broken = TRUE] =
               [v9[c] EXCEPT !.at = "answered", !.code = 400, !.broken = TRUE]
    BY DEF C!Refuse
  <1>12. QED
    BY <1>7, <1>8, <1>9, <1>10, <1>11, ZenonT(60)

LEMMA InsertedInv ==
  ASSUME CInv, NEW c \in Requests, C!Insert(c) PROVE CInv'
  <1>1. v9[c].at = "insert" /\ C!Only(c) /\ Consults(v9[c])
    BY ClientFacts DEF C!Insert
  <1>2. Justified(c, 201)
    BY <1>1 DEF Consults, Justified
  <1>3. CASE C!Becomes(c, [v9[c] EXCEPT !.at = "answered", !.code = 201]) /\ v11' = v11
    BY <1>1, <1>2, <1>3, RefusedClient, ZenonT(60)
  <1>4. CASE /\ C!Becomes(c, [v9[c] EXCEPT !.at = "answered", !.code = 500, !.broken = TRUE])
             /\ C!Error
    BY <1>1, <1>4, BrokenClient, ZenonT(60)
  <1>5. QED
    BY <1>3, <1>4, Zenon DEF C!Insert

LEMMA CatalogNext ==
  ASSUME CInv, C!Next \/ UNCHANGED otherVars
  PROVE  CInv'
  <1>1. CASE UNCHANGED otherVars
    <2>1. CatalogTypes' /\ Registered' /\ v9' = [c \in Requests |-> v9'[c]]
      BY <1>1 DEF otherVars, CInv, CatalogTypes, Registered, C!CatalogIsLinked, C!Complete
    <2>2. \A c \in Requests : Consults(v9[c])'
      BY <1>1 DEF otherVars, CInv, Consults, Fits, C!ActiveOf
    <2>3. QED
      BY <2>1, <2>2 DEF CInv
  <1>2. CASE C!Next
    BY <1>2, RegisterInv, RefuseInv, ChangeInv, GetInv, EnrichInv, ChooseInv,
       ValidateParamsInv, CreateFromInv, CheckInv, InsertedInv DEF C!Next
  <1>3. QED
    BY <1>1, <1>2

\* Whatever providers are registered, clients consult the catalog and
\* configurations change meanwhile: what is registered is linked, what a
\* template offers is accepted where nothing changed, and a workflow is created
\* only with configurations that were active during its creation, each of the
\* provider of its node (catalog.go, catalog/handler.go,
\* create_workflow_from_template.go).
THEOREM CatalogHolds == ApiSpec => []CatalogInv
  <1> DEFINE P == part = "catalog" => CInv
  <1>1. ApiInit => P
    BY CatalogInit DEF ApiInit
  <1>2. P /\ [ApiNext]_apiVars => P'
    <2>1. SUFFICES ASSUME P, [ApiNext]_apiVars, part' = "catalog" PROVE CInv'
      OBVIOUS
    <2>2. part = "catalog" /\ (C!Next \/ UNCHANGED otherVars)
      BY <2>1 DEF ApiNext, apiVars
    <2>3. QED
      BY <2>1, <2>2, CatalogNext
  <1>3. P => CatalogInv
    BY CatalogImplied DEF CatalogInv
  <1>4. QED
    BY <1>1, <1>2, <1>3, PTL DEF ApiSpec
=============================================================================
