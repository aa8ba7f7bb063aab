----------------------------- MODULE ServerProofs -----------------------------
(***************************************************************************)
(* Proofs about the two components that need nothing of the others: Server *)
(* (for every drain period that is longer than the probes the orchestrator *)
(* needs, a pod is routed only while it listens) and AuditChain (one row   *)
(* starts the chain, the links lead back to it, and it follows the ids as  *)
(* long as inserts do not overlap).                                        *)
(***************************************************************************)
EXTENDS MCAuditChain, Server, FiniteSetTheorems, TLAPS

(***************************************************************************)
(* Server                                                                  *)
(***************************************************************************)
\* A failed probe moves the bound by one period.
LEMMA OneMorePeriod ==
  ASSUME NEW n \in Nat PROVE (n + 1) * Period = n * Period + Period
  BY SMT, TimingAssumption

\* Fewer failures than the threshold are covered by the whole drain period.
LEMMA BelowThreshold ==
  ASSUME NEW n \in Nat, n < Threshold PROVE (n + 1) * Period < Grace
  <1>1. n + 1 <= Threshold
    BY TimingAssumption
  <1>2. (n + 1) * Period <= Threshold * Period
    BY SMT, <1>1, TimingAssumption
  <1>3. QED
    BY SMT, <1>2, TimingAssumption

LEMMA ServerInitInv == ServerInit => ServerInv
  <1> SUFFICES ASSUME ServerInit PROVE ServerInv
    OBVIOUS
  <1>1. check \in Checks
    BY TimingAssumption DEF ServerInit, Checks, NoCheck
  <1>2. ready \in Probers
    BY TimingAssumption DEF ServerInit, Probers
  <1>3. healthy \in BOOLEAN /\ selfProbe \in BOOLEAN /\ draining \in BOOLEAN
    BY Zenon DEF ServerInit
  <1>4. ServerTypeOK
    BY <1>1, <1>2, <1>3, TimingAssumption DEF ServerInit, ServerTypeOK, Phases, InitStages
  <1>5. DrainInv /\ TLSInv
    BY DEF ServerInit, DrainInv, TLSInv, NoCheck, Counting, NoPlainConnection
  <1>6. QED
    BY <1>4, <1>5 DEF ServerInv

\* The start touches neither the probes nor the drain, and ends in no state
\* that is routed unless it serves.
LEMMA StartInv == ASSUME ServerInv, InitServers PROVE ServerInv'
  <1>1. phase \in InitStages /\ ~ready.routed /\ ~check.open /\ UNCHANGED others
    BY DEF InitServers, ValidateConfig, EnforceTLS, ConnectMongo, ConnectAudit,
       RunSelfProbe, InitComponents, InitStages, ServerInv, DrainInv
  <1>2. /\ phase' \in Phases /\ healthy' \in BOOLEAN /\ selfProbe' \in BOOLEAN
        /\ pool' \subseteq Deps /\ UNCHANGED <<draining, grace>>
    BY DEF InitServers, ValidateConfig, EnforceTLS, ConnectMongo, ConnectAudit,
       RunSelfProbe, InitComponents, ServerInv, ServerTypeOK, Goto, Abort, Connect, Ping,
       SetSelfProbeOK, Phases, InitStages, Deps
  <1>3. ServerTypeOK'
    BY <1>1, <1>2 DEF ServerInv, ServerTypeOK, others
  <1>4. DrainInv'
    BY <1>1, <1>2 DEF DrainInv, others, Counting
  <1>5. TLSInv'
    <2>1. CASE ValidateConfig
      BY <2>1 DEF ValidateConfig, Goto, Abort, others, ServerInv, TLSInv, NoPlainConnection
    <2>2. CASE EnforceTLS
      BY <2>2 DEF EnforceTLS, Goto, Abort, others, ServerInv, TLSInv, NoPlainConnection,
         ValidateSaaSTLS, Dsns
    <2>3. CASE ConnectMongo
      BY <2>3 DEF ConnectMongo, Connect, Goto, Abort, others, ServerInv, TLSInv,
         NoPlainConnection, ValidateSaaSTLS, Dsns, Deps
    <2>4. CASE ConnectAudit
      BY <2>4 DEF ConnectAudit, Connect, Goto, Abort, others, ServerInv, TLSInv,
         NoPlainConnection, ValidateSaaSTLS, Dsns, Deps
    <2>5. CASE RunSelfProbe
      BY <2>5 DEF RunSelfProbe, Ping, others, ServerInv, TLSInv, NoPlainConnection
    <2>6. CASE InitComponents
      BY <2>6 DEF InitComponents, others, ServerInv, TLSInv, NoPlainConnection
    <2>7. QED
      BY <2>1, <2>2, <2>3, <2>4, <2>5, <2>6 DEF InitServers
  <1>6. QED
    BY <1>3, <1>4, <1>5 DEF ServerInv

\* SIGTERM begins a drain with the whole period before it.
LEMMA TerminateInv ==
  ASSUME ServerInv, Terminate, UNCHANGED <<env, up, check, ready>>,
         alive' \in 0..HealthThreshold, stops' \in 0..MaxStops
  PROVE  ServerInv'
  <1>1. CASE phase \in InitStages /\ Abort
    BY <1>1 DEF Abort, Goto, ServerInv, ServerTypeOK, DrainInv, TLSInv, Phases, InitStages,
       Counting, NoPlainConnection
  <1>2. CASE /\ phase = "serving" /\ ~draining /\ draining' = TRUE /\ grace' = Grace
             /\ UNCHANGED <<phase, pool, healthy, selfProbe>>
    <2>1. ServerTypeOK' /\ TLSInv'
      BY <1>2, TimingAssumption DEF ServerInv, ServerTypeOK, TLSInv, NoPlainConnection,
         ValidateSaaSTLS, Dsns
    <2>2. ready.wait \in 0..Period /\ ready.fails \in 0..Threshold
      BY DEF ServerInv, ServerTypeOK, Probers
    <2>3. ASSUME NEW n \in Nat PROVE ready.wait + Grace <= Grace + (n + 1) * Period
      <3>1. n * Period \in Nat
        BY SMT, TimingAssumption
      <3>2. QED
        BY <2>2, <3>1, OneMorePeriod, TimingAssumption
    <2>4. RoutingEnds' /\ AnswerInTime'
      BY <1>2, <2>2, <2>3, TimingAssumption DEF RoutingEnds, AnswerInTime
    <2>5. DrainInv'
      BY <1>2, <2>4 DEF ServerInv, DrainInv, Counting
    <2>6. QED
      BY <2>1, <2>5 DEF ServerInv
  <1>3. QED
    BY <1>1, <1>2 DEF Terminate

\* When the drain period is over nothing is routed and no probe is answered.
LEMMA ShutdownInv == ASSUME ServerInv, Shutdown PROVE ServerInv'
  <1>1. ready.wait \in 0..Period /\ ready.fails \in 0..Threshold /\ grace = 0 /\ Counting
    BY DEF ServerInv, ServerTypeOK, Probers, Shutdown, DrainOver, Counting
  <1>2. ASSUME NEW n \in Nat, n < Threshold
        PROVE  ~(ready.wait + Grace <= grace + (n + 1) * Period)
    <2>1. (n + 1) * Period < Grace /\ (n + 1) * Period \in Nat
      BY SMT, <1>2, BelowThreshold, TimingAssumption
    <2>2. QED
      BY <1>1, <2>1, TimingAssumption
  <1>3. ~ready.routed
    BY <1>1, <1>2, TimingAssumption DEF ServerInv, DrainInv, RoutingEnds
  <1>4. ~check.open
    <2>1. (0 + 1) * Period = Period
      BY SMT, TimingAssumption
    <2>2. QED
      BY <1>1, <1>2, <2>1, TimingAssumption DEF ServerInv, DrainInv, AnswerInTime
  <1>5. QED
    BY <1>3, <1>4 DEF Shutdown, Goto, others, ServerInv, ServerTypeOK, DrainInv, TLSInv, Phases, Counting,
       NoPlainConnection

\* A probe that fails, also the one whose failure ends the routing.
LEMMA FailedKeeps ==
  ASSUME ServerInv
  PROVE  /\ Failed \in Probers /\ Failed.wait = ready.wait
         /\ Failed.routed => /\ ready.routed /\ Failed.fails = ready.fails + 1
                             /\ Failed.fails < Threshold
  <1>1. /\ ready.wait \in 0..Period /\ ready.fails \in 0..Threshold
        /\ ready.routed \in BOOLEAN /\ (ready.routed => ready.fails < Threshold)
    BY DEF ServerInv, ServerTypeOK, DrainInv, Probers
  <1>2. /\ Failed.wait = ready.wait
        /\ Failed.fails = IF ready.fails < Threshold THEN ready.fails + 1 ELSE ready.fails
    BY DEF Failed
  <1>3. Failed.routed = (ready.routed /\ ready.fails + 1 < Threshold)
    BY Zenon DEF Failed
  <1>4. Failed.fails \in 0..Threshold
    BY <1>1, <1>2, TimingAssumption
  <1>5. Failed \in Probers
    BY Zenon, <1>1, <1>2, <1>3, <1>4 DEF Failed, Probers
  <1>6. Failed.routed => ready.routed /\ ready.fails + 1 < Threshold
    BY Zenon, <1>3
  <1>7. QED
    BY <1>1, <1>2, <1>5, <1>6, TimingAssumption

LEMMA ProbeReadyInv == ASSUME ServerInv, ProbeReady PROVE ServerInv'
  <1>1. /\ ready.wait = 0 /\ ~check.open
        /\ UNCHANGED <<env, up, phase, pool, healthy, selfProbe, draining, grace,
                       alive, stops>>
    BY DEF ProbeReady
  <1>2. TLSInv'
    BY <1>1 DEF ServerInv, TLSInv, NoPlainConnection, ValidateSaaSTLS, Dsns
  <1>3. CASE /\ phase = "serving" /\ ~Refuses
             /\ check' = [open |-> TRUE, left |-> Deps, bad |-> FALSE, age |-> 0]
             /\ ready' = [ready EXCEPT !.wait = Period]
    <2>1. ServerTypeOK'
      BY <1>1, <1>3, TimingAssumption DEF ServerInv, ServerTypeOK, Checks, Probers
    <2>2. ready'.routed = ready.routed /\ ready'.fails = ready.fails
      BY <1>3 DEF ServerInv, ServerTypeOK, Probers
    <2>3. DrainInv'
      BY <1>1, <1>3, <2>2 DEF ServerInv, DrainInv, Counting, Refuses
    <2>4. QED
      BY <1>2, <2>1, <2>3 DEF ServerInv
  <1>4. CASE /\ phase = "serving" => Refuses
             /\ ready' = [Failed EXCEPT !.wait = Period]
             /\ UNCHANGED check
    <2>1. ServerTypeOK'
      BY <1>1, <1>4, FailedKeeps, TimingAssumption DEF ServerInv, ServerTypeOK, Probers
    <2>2. /\ ready'.wait = Period
          /\ ready'.routed => /\ ready.routed /\ ready'.fails = ready.fails + 1
                              /\ ready'.fails < Threshold
      BY <1>4, FailedKeeps DEF Probers
    <2>3. ASSUME Counting, ready'.routed PROVE RoutingEnds'
      <3>1. RoutingEnds /\ ready.fails \in Nat /\ grace \in Nat
        BY <1>1, <2>2, <2>3 DEF ServerInv, DrainInv, ServerTypeOK, Probers
      <3>2. (ready.fails + 1 + 1) * Period = (ready.fails + 1) * Period + Period
        BY <3>1, OneMorePeriod
      <3>3. (ready.fails + 1) * Period \in Nat
        BY SMT, <3>1, TimingAssumption
      <3>4. ready'.wait + Grace <= grace' + (ready.fails + 1 + 1) * Period
        BY <1>1, <2>2, <3>1, <3>2, <3>3, TimingAssumption DEF RoutingEnds
      <3>5. QED
        BY <2>2, <2>3, <3>4 DEF RoutingEnds
    <2>4. DrainInv'
      BY <1>1, <1>4, <2>2, <2>3 DEF ServerInv, DrainInv, Counting
    <2>5. QED
      BY <1>2, <2>1, <2>4 DEF ServerInv
  <1>5. QED
    BY <1>3, <1>4 DEF ProbeReady

LEMMA RunSingleCheckInv ==
  ASSUME ServerInv, NEW d \in Deps, RunSingleCheck(d) PROVE ServerInv'
  <1>1. check' \in Checks /\ check'.open = check.open
    BY DEF RunSingleCheck, ServerInv, ServerTypeOK, Checks, Down
  <1>2. UNCHANGED <<env, up, phase, pool, healthy, selfProbe, draining, grace,
                    ready, alive, stops>>
    BY DEF RunSingleCheck
  <1>3. QED
    BY <1>1, <1>2 DEF ServerInv, ServerTypeOK, DrainInv, TLSInv, Counting, RoutingEnds, AnswerInTime,
       NoPlainConnection, ValidateSaaSTLS, Dsns

\* A probe that began before the drain may pass after it: the failures are
\* counted anew, and the period that is left still covers them.
LEMMA ReadyzInv == ASSUME ServerInv, Readyz PROVE ServerInv'
  <1>1. /\ check.open /\ check' = NoCheck
        /\ UNCHANGED <<env, up, phase, pool, healthy, selfProbe, draining, grace,
                       alive, stops>>
    BY DEF Readyz
  <1>2. TLSInv'
    BY <1>1 DEF ServerInv, TLSInv, NoPlainConnection, ValidateSaaSTLS, Dsns
  <1>3. check' \in Checks /\ ~check'.open
    BY <1>1, TimingAssumption DEF NoCheck, Checks
  <1>4. phase = "serving"
    BY <1>1 DEF ServerInv, DrainInv
  <1>5. CASE ready' = Failed
    <2>1. ServerTypeOK'
      BY <1>1, <1>3, <1>5, FailedKeeps DEF ServerInv, ServerTypeOK
    <2>2. ASSUME Counting, ready'.routed PROVE RoutingEnds'
      <3>1. /\ RoutingEnds /\ ready.fails \in Nat /\ grace \in Nat
            /\ ready.wait \in Nat /\ ready'.wait = ready.wait
            /\ ready'.fails = ready.fails + 1
        BY <1>5, <2>2, FailedKeeps DEF ServerInv, DrainInv, ServerTypeOK, Probers
      <3>2. (ready.fails + 1 + 1) * Period = (ready.fails + 1) * Period + Period
        BY <3>1, OneMorePeriod
      <3>3. (ready.fails + 1) * Period \in Nat
        BY SMT, <3>1, TimingAssumption
      <3>4. ready'.wait + Grace <= grace' + (ready.fails + 1 + 1) * Period
        BY <1>1, <3>1, <3>2, <3>3, TimingAssumption DEF RoutingEnds
      <3>5. QED
        BY <3>1, <3>4 DEF RoutingEnds
    <2>3. DrainInv'
      BY <1>1, <1>3, <1>4, <1>5, <2>2, FailedKeeps DEF ServerInv, DrainInv, Counting
    <2>4. QED
      BY <1>2, <2>1, <2>3 DEF ServerInv
  <1>6. CASE ready' = Passed
    <2>1. /\ ready' \in Probers /\ ready'.wait = ready.wait /\ ready'.fails = 0
      BY <1>6, TimingAssumption DEF ServerInv, ServerTypeOK, Probers, Passed
    <2>2. ServerTypeOK'
      BY <1>1, <1>3, <2>1 DEF ServerInv, ServerTypeOK
    <2>3. ASSUME Counting PROVE RoutingEnds'
      <3>1. (0 + 1) * Period = Period
        BY SMT, TimingAssumption
      <3>2. QED
        BY <1>1, <2>1, <2>3, <3>1 DEF ServerInv, DrainInv, AnswerInTime, RoutingEnds
    <2>4. DrainInv'
      BY <1>1, <1>3, <1>4, <2>1, <2>3, TimingAssumption DEF ServerInv, DrainInv, Counting
    <2>5. QED
      BY <1>2, <2>2, <2>4 DEF ServerInv
  <1>7. QED
    BY <1>5, <1>6 DEF Readyz

\* A second costs the drain and the next probe alike.
LEMMA TickInv == ASSUME ServerInv, Tick PROVE ServerInv'
  <1>1. /\ ready.wait \in 1..Period /\ ready.fails \in Nat /\ grace \in 0..Grace
        /\ ready' \in Probers /\ ready'.wait = ready.wait - 1
        /\ ready'.fails = ready.fails /\ ready'.routed = ready.routed
    BY TimingAssumption DEF Tick, ServerInv, ServerTypeOK, Probers
  <1>2. check' \in Checks /\ check'.open = check.open
    BY TimingAssumption DEF Tick, ServerInv, ServerTypeOK, Checks
  <1>3. /\ UNCHANGED <<env, up, phase, pool, healthy, selfProbe, draining, alive, stops>>
        /\ Counting => grace > 0 /\ grace' = grace - 1
        /\ ~Counting => grace' = grace
    BY DEF Tick
  <1>4. ServerTypeOK'
    BY <1>1, <1>2, <1>3, TimingAssumption DEF ServerInv, ServerTypeOK
  <1>5. TLSInv'
    BY <1>3 DEF ServerInv, TLSInv, NoPlainConnection, ValidateSaaSTLS, Dsns
  <1>6. ASSUME NEW n \in Nat, Counting, ready.wait + Grace <= grace + (n + 1) * Period
        PROVE  ready'.wait + Grace <= grace' + (n + 1) * Period
    <2>1. (n + 1) * Period \in Nat
      BY SMT, TimingAssumption
    <2>2. QED
      BY <1>1, <1>3, <1>6, <2>1, TimingAssumption
  <1>7. Counting /\ ready.routed => RoutingEnds'
    BY <1>1, <1>6 DEF ServerInv, DrainInv, RoutingEnds
  <1>8. Counting /\ check.open => AnswerInTime'
    BY <1>1, <1>3, TimingAssumption DEF ServerInv, DrainInv, AnswerInTime
  <1>9. DrainInv'
    BY <1>1, <1>2, <1>3, <1>7, <1>8 DEF ServerInv, DrainInv, Counting
  <1>10. QED
    BY <1>4, <1>5, <1>9 DEF ServerInv

LEMMA ServerNextInv == ASSUME ServerInv, [ServerNext]_serverVars PROVE ServerInv'
  <1>1. CASE Launch
    <2>1. healthy' \in BOOLEAN /\ selfProbe' \in BOOLEAN /\ draining' \in BOOLEAN
      BY Zenon, <1>1 DEF Launch
    <2>2. ServerTypeOK'
      BY <1>1, <2>1, TimingAssumption DEF Launch, ServerInv, ServerTypeOK, Phases, InitStages
    <2>3. DrainInv' /\ TLSInv'
      BY <1>1 DEF Launch, ServerInv, DrainInv, TLSInv, Counting, NoPlainConnection
    <2>4. QED
      BY <2>2, <2>3 DEF ServerInv
  <1>2. CASE Stop
    BY <1>2, TerminateInv, TimingAssumption DEF Stop, ServerInv, ServerTypeOK
  <1>3. CASE RestartUnhealthy
    BY <1>3, TerminateInv DEF RestartUnhealthy, others, ServerInv, ServerTypeOK
  <1>4. CASE Exit
    BY <1>4 DEF Exit, Goto, others, ServerInv, ServerTypeOK, DrainInv, TLSInv, Phases, InitStages,
       Counting, NoPlainConnection
  <1>5. CASE ProbeHealth
    BY <1>5, TimingAssumption DEF ProbeHealth, ServerInv, ServerTypeOK, DrainInv, TLSInv, Counting,
       RoutingEnds, AnswerInTime, NoPlainConnection, ValidateSaaSTLS, Dsns
  <1>6. ASSUME NEW d \in Deps, Toggle(d) PROVE ServerInv'
    BY <1>6 DEF Toggle, ServerInv, ServerTypeOK, DrainInv, TLSInv, Counting, RoutingEnds, AnswerInTime,
       NoPlainConnection, ValidateSaaSTLS, Dsns
  <1>7. CASE UNCHANGED serverVars
    BY <1>7 DEF serverVars, ServerInv, ServerTypeOK, DrainInv, TLSInv, Counting, RoutingEnds, AnswerInTime,
       NoPlainConnection, ValidateSaaSTLS, Dsns
  <1>8. QED
    BY <1>1, <1>2, <1>3, <1>4, <1>5, <1>6, <1>7, StartInv, ShutdownInv, ProbeReadyInv,
       ReadyzInv, RunSingleCheckInv, TickInv DEF ServerNext, Process, Probes

\* The invariant holds for every timing that satisfies the assumption, with
\* any number of restarts (shutdown.go:73-104, readyz/handler.go:158-225).
THEOREM ServerInvariance == ServerSpec => []ServerInv
  BY ServerInitInv, ServerNextInv, PTL DEF ServerSpec

\* The drain outlasts the routing: no traffic is sent to a process that has
\* stopped to listen, or does not listen yet (shutdown.go:39-42); and in SaaS
\* mode a connection without TLS is never opened (config.go:154-162).
THEOREM TrafficIsSafe == ServerSpec => []TrafficInv
  <1>1. ServerInv => RoutedIsListening
    BY DEF ServerInv, DrainInv, RoutedIsListening
  <1>2. ServerInv => NoPlainConnection
    BY DEF ServerInv, TLSInv
  <1>3. QED
    BY <1>1, <1>2, ServerInvariance, PTL DEF TrafficInv

(***************************************************************************)
(* AuditChain                                                              *)
(***************************************************************************)

USE ConstantsAssumption

\* A row that is stored has an event, and an event is not Null.
LEMMA StoredRows ==
  ASSUME TypeOK, NEW i \in Stored
  PROVE  rows[i].event \in Events /\ rows[i].previous \in Events \cup {Null}
BY DEF TypeOK, Stored, Rows, NoRow

\* Null is the last hash of the empty table only.
LEMMA LastHash ==
  ASSUME TypeOK, NEW h \in Events \cup {Null}, IsLastHash(h)
  PROVE  /\ h = Null <=> Stored = {}
         /\ h # Null => \E i \in Stored : h = rows[i].event
<1>1. \A i \in Stored : rows[i].event # Null
  BY StoredRows
<1>. QED
  BY <1>1 DEF IsLastHash

\* The initial states satisfy the invariant.
LEMMA InitHolds == Init => IInv
<1>. SUFFICES ASSUME Init PROVE IInv
  OBVIOUS
<1>1. Stored = {}
  BY DEF Init, Stored
<1>2. TypeOK
  BY DEF Init, TypeOK, Rows, NoRow, Inserts, Ids
<1>3. LockHeld /\ IdsDrawn
  BY DEF Init, LockHeld, IdsDrawn
<1>4. StoredOnce /\ OneGenesis /\ LinksGoBack /\ HistoryIsStored
  BY <1>1 DEF Init, StoredOnce, OneGenesis, LinksGoBack, HistoryIsStored
<1>. QED
  BY <1>2, <1>3, <1>4 DEF IInv

\* A step that leaves the rows and the history alone, keeps what is committed
\* and changes no id of a committed insert, keeps the parts about the rows.
LEMMA RowsAlone ==
  ASSUME IInv, UNCHANGED <<rows, history>>,
         \A e \in Events : insert[e].pc = "committed" <=> insert'[e].pc = "committed",
         \A e \in Events : insert[e].pc = "committed" => insert'[e].id = insert[e].id
  PROVE  StoredOnce' /\ HistoryIsStored' /\ OneGenesis' /\ LinksGoBack'
<1>1. Stored' = Stored
  BY DEF Stored
<1>2. StoredOnce'
  BY <1>1 DEF IInv, StoredOnce
<1>3. HistoryIsStored'
  <2>1. \A n \in DOMAIN history : history[n] \in Events
    BY DEF IInv, TypeOK
  <2>. QED
    BY <1>1, <2>1 DEF IInv, HistoryIsStored
<1>4. OneGenesis' /\ LinksGoBack'
  BY <1>1 DEF IInv, OneGenesis, LinksGoBack
<1>. QED
  BY <1>2, <1>3, <1>4

LEMMA RecordHolds == ASSUME IInv, NEW e \in Events, Record(e) PROVE IInv'
<1>1. TypeOK'
  BY DEF Record, Step, IInv, TypeOK, Inserts
<1>2. Stored' = Stored
  BY DEF Record, Stored
<1>3. LockHeld'
  BY <1>2 DEF Record, Step, IInv, TypeOK, Inserts, LockHeld, IsLastHash
<1>4. IdsDrawn'
  BY DEF Record, Step, IInv, TypeOK, Inserts, IdsDrawn
<1>5. StoredOnce' /\ HistoryIsStored' /\ OneGenesis' /\ LinksGoBack'
  BY RowsAlone DEF Record, Step, IInv, TypeOK
<1>. QED
  BY <1>1, <1>3, <1>4, <1>5 DEF IInv

LEMMA DrawHolds == ASSUME IInv, NEW e \in Events, Draw(e) PROVE IInv'
<1>1. TypeOK'
  BY DEF Draw, IInv, TypeOK, Inserts
<1>2. Stored' = Stored
  BY DEF Draw, Stored
<1>3. LockHeld'
  BY <1>2 DEF Draw, IInv, TypeOK, Inserts, LockHeld, IsLastHash
<1>4. IdsDrawn'
  BY DEF Draw, IInv, TypeOK, Inserts, IdsDrawn
<1>5. StoredOnce' /\ HistoryIsStored' /\ OneGenesis' /\ LinksGoBack'
  BY RowsAlone DEF Draw, IInv, TypeOK
<1>. QED
  BY <1>1, <1>3, <1>4, <1>5 DEF IInv

LEMMA LinkHolds == ASSUME IInv, NEW e \in Events, Link(e) PROVE IInv'
<1>1. PICK h \in Events \cup {Null} :
        /\ IsLastHash(h)
        /\ insert' = [insert EXCEPT ![e] = [@ EXCEPT !.pc = "linked", !.previous = h]]
  BY DEF Link
<1>2. TypeOK'
  BY <1>1, ZenonT(60) DEF Link, IInv, TypeOK, Inserts
<1>3. Stored' = Stored
  BY DEF Link, Stored
<1>4. /\ insert[e] \in Inserts /\ insert[e].pc = "drawn"
      /\ insert'[e].pc = "linked" /\ insert'[e].previous = h
      /\ insert'[e].id = insert[e].id
      /\ \A f \in Events : f # e => insert'[f] = insert[f]
  BY <1>1 DEF Link, IInv, TypeOK, Inserts
<1>5. LockHeld'
  <2>1. \A k : IsLastHash(k)' = IsLastHash(k)
    BY <1>3 DEF Link, IsLastHash
  <2>2. \A f \in Events : insert[f].pc # "linked"
    BY DEF Link, Free, IInv, LockHeld
  <2>. QED
    BY <1>1, <1>3, <1>4, <2>2 DEF Link, LockHeld, IsLastHash
<1>6. IdsDrawn'
  BY <1>4 DEF Link, IInv, IdsDrawn
<1>7. StoredOnce' /\ HistoryIsStored' /\ OneGenesis' /\ LinksGoBack'
  BY <1>4, RowsAlone DEF Link
<1>. QED
  BY <1>2, <1>5, <1>6, <1>7 DEF IInv

LEMMA LoseHolds == ASSUME IInv, NEW e \in Events, Lose(e) PROVE IInv'
<1>1. TypeOK'
  BY DEF Lose, IInv, TypeOK, Inserts
<1>2. Stored' = Stored
  BY DEF Lose, Stored
<1>3. LockHeld'
  BY <1>2 DEF Lose, IInv, TypeOK, Inserts, LockHeld, IsLastHash
<1>4. IdsDrawn'
  BY DEF Lose, IInv, TypeOK, Inserts, IdsDrawn
<1>5. StoredOnce' /\ HistoryIsStored' /\ OneGenesis' /\ LinksGoBack'
  BY RowsAlone DEF Lose, IInv, TypeOK
<1>. QED
  BY <1>1, <1>3, <1>4, <1>5 DEF IInv

\* The commit is the one step that changes the chain.
LEMMA CommitHolds == ASSUME IInv, NEW e \in Events, Commit(e) PROVE IInv'
<1>. DEFINE id == insert[e].id
            h == insert[e].previous
<1>1. /\ insert[e] \in Inserts
      /\ insert[e].pc = "linked" /\ id \in Ids /\ id <= sequence
      /\ h \in Events \cup {Null} /\ IsLastHash(h) /\ lock = e
      /\ insert'[e].pc = "committed" /\ insert'[e].id = id
      /\ \A f \in Events : f # e => insert'[f] = insert[f]
  BY DEF Commit, Step, IInv, TypeOK, Inserts, LockHeld, IdsDrawn, Ids
<1>2. rows \in [Ids -> Rows] /\ history \in Seq(Events)
  BY DEF IInv, TypeOK
<1>3. /\ rows' = [rows EXCEPT ![id] = [event |-> e, previous |-> h]]
      /\ history' = Append(history, e) /\ lock' = Nobody /\ sequence' = sequence
  BY DEF Commit
<1>. HIDE DEF id, h
<1>4. /\ rows'[id].event = e /\ rows'[id].previous = h
      /\ \A i \in Ids : i # id => rows'[i] = rows[i]
  BY <1>1, <1>2, <1>3
<1>5. id \notin Stored
  <2>. SUFFICES ASSUME id \in Stored PROVE FALSE
    OBVIOUS
  <2>. DEFINE f == rows[id].event
  <2>1. f \in Events
    BY StoredRows DEF IInv
  <2>2. insert[f].pc = "committed" /\ insert[f].id = id
    BY <2>1, <1>1 DEF IInv, StoredOnce
  <2>. QED
    BY <2>1, <2>2, <1>1 DEF IInv, IdsDrawn, Ids, id
<1>6. Stored' = Stored \cup {id}
  BY <1>1, <1>4 DEF Stored, NoRow
<1>7. \A i \in Stored : rows'[i] = rows[i] /\ rows[i].event # e /\ rows[i].event \in Events
  <2>. TAKE i \in Stored
  <2>1. rows'[i] = rows[i]
    BY <1>4, <1>5 DEF Stored
  <2>2. rows[i].event # e
    BY <1>1 DEF IInv, StoredOnce
  <2>. QED
    BY <2>1, <2>2, StoredRows DEF IInv
<1>8. TypeOK'
  BY <1>1, <1>2, <1>3 DEF IInv, TypeOK, Inserts, Rows, Commit, Step
<1>9. LockHeld'
  <2>1. \A f \in Events : insert'[f].pc # "linked"
    BY <1>1 DEF IInv, LockHeld
  <2>2. \A f \in Events : lock' # f
    BY <1>3
  <2>. QED
    BY <2>1, <2>2 DEF LockHeld
<1>10. IdsDrawn'
  <2>1. \A f \in Events : insert'[f].id = insert[f].id
    BY <1>1 DEF id
  <2>2. id # 0 /\ sequence' = sequence
    BY <1>1, <1>3 DEF Ids
  <2>3. \A f \in Events : insert'[f].pc \in {"drawn", "linked", "committed"} => insert'[f].id # 0
    BY <1>1, <2>1, <2>2 DEF IInv, IdsDrawn
  <2>. QED
    BY <2>1, <2>2, <2>3 DEF IInv, IdsDrawn
<1>11. StoredOnce'
  <2>. SUFFICES ASSUME NEW f \in Events
                PROVE  {i \in Stored' : rows'[i].event = f}
                       = IF insert'[f].pc = "committed" THEN {insert'[f].id} ELSE {}
    BY DEF StoredOnce
  <2>1. CASE f = e
    <3>1. {i \in Stored' : rows'[i].event = e} = {id}
      BY <1>4, <1>6, <1>7
    <3>. QED
      BY <2>1, <3>1, <1>1
  <2>2. CASE f # e
    <3>1. {i \in Stored' : rows'[i].event = f} = {i \in Stored : rows[i].event = f}
      BY <2>2, <1>4, <1>6, <1>7
    <3>2. insert'[f] = insert[f]
      BY <2>2, <1>1
    <3>3. {i \in Stored : rows[i].event = f}
          = IF insert[f].pc = "committed" THEN {insert[f].id} ELSE {}
      BY DEF IInv, StoredOnce
    <3>. QED
      BY <3>1, <3>2, <3>3
  <2>. QED
    BY <2>1, <2>2
<1>12. /\ DOMAIN history' = 1..Len(history) + 1
       /\ DOMAIN history = 1..Len(history) /\ Len(history) \in Nat
       /\ history'[Len(history) + 1] = e
       /\ \A n \in DOMAIN history : history'[n] = history[n] /\ history[n] \in Events
  BY <1>2, <1>3
<1>13. HistoryIsStored'
  <2>1. \A i \in Stored' : \E n \in DOMAIN history' : rows'[i].event = history'[n]
    BY <1>4, <1>6, <1>7, <1>12 DEF IInv, HistoryIsStored
  <2>2. \A n \in DOMAIN history' : insert'[history'[n]].pc = "committed"
    BY <1>1, <1>12 DEF IInv, HistoryIsStored
  <2>. QED
    BY <2>1, <2>2 DEF HistoryIsStored
<1>14. OneGenesis'
  <2>1. h = Null <=> Stored = {}
    BY <1>1, LastHash DEF IInv
  <2>. QED
    BY <2>1, <1>4, <1>6, <1>7 DEF IInv, OneGenesis
<1>15. LinksGoBack'
  <2>. SUFFICES ASSUME NEW n \in DOMAIN history', NEW i \in Stored',
                       rows'[i].event = history'[n]
                PROVE  \/ rows'[i].previous = Null /\ n = 1
                       \/ \E m \in 1..n - 1 : rows'[i].previous = history'[m]
    BY DEF LinksGoBack
  <2>1. CASE n \in DOMAIN history
    <3>1. history[n] # e
      BY <2>1, <1>1 DEF IInv, HistoryIsStored
    <3>2. i \in Stored /\ rows[i].event = history[n]
      BY <2>1, <3>1, <1>4, <1>6, <1>7, <1>12
    <3>3. \/ rows[i].previous = Null /\ n = 1
          \/ \E m \in 1..n - 1 : rows[i].previous = history[m]
      BY <2>1, <3>2 DEF IInv, LinksGoBack
    <3>. QED
      BY <2>1, <3>2, <3>3, <1>7, <1>12
  <2>2. CASE n \notin DOMAIN history
    <3>1. n = Len(history) + 1 /\ history'[n] = e
      BY <2>2, <1>12
    <3>2. i = id
      BY <3>1, <1>6, <1>7
    <3>3. CASE h = Null
      <4>1. Stored = {}
        BY <3>3, <1>1, LastHash DEF IInv
      <4>2. \A k \in DOMAIN history : insert[history[k]].id \in Stored
        BY <1>12 DEF IInv, HistoryIsStored, StoredOnce
      <4>3. Len(history) = 0
        BY <4>1, <4>2, <1>12
      <4>. QED
        BY <3>1, <3>2, <3>3, <4>3, <1>4
    <3>4. CASE h # Null
      <4>1. PICK j \in Stored : h = rows[j].event
        BY <3>4, <1>1, LastHash DEF IInv
      <4>2. PICK m \in DOMAIN history : rows[j].event = history[m]
        BY DEF IInv, HistoryIsStored
      <4>. QED
        BY <3>1, <3>2, <4>1, <4>2, <1>4, <1>12
    <3>. QED
      BY <3>3, <3>4
  <2>. QED
    BY <2>1, <2>2
<1>. QED
  BY <1>8, <1>9, <1>10, <1>11, <1>13, <1>14, <1>15 DEF IInv

LEMMA NextHolds == ASSUME IInv, [Next]_vars PROVE IInv'
<1>1. CASE Next
  BY <1>1, RecordHolds, DrawHolds, LinkHolds, CommitHolds, LoseHolds DEF Next
<1>2. CASE UNCHANGED vars
  <2>1. Stored' = Stored
    BY <1>2 DEF vars, Stored
  <2>2. TypeOK' /\ LockHeld' /\ IdsDrawn'
    BY <1>2, <2>1 DEF vars, IInv, TypeOK, LockHeld, IdsDrawn, IsLastHash
  <2>3. StoredOnce' /\ HistoryIsStored' /\ OneGenesis' /\ LinksGoBack'
    BY <1>2, RowsAlone DEF vars
  <2>. QED
    BY <2>2, <2>3 DEF IInv
<1>. QED
  BY <1>1, <1>2

\* The invariant holds whatever the number of events, connections and ids.
THEOREM Invariance == Spec => []IInv
  BY InitHolds, NextHolds, PTL DEF Spec

\* The chain has one start at most, the links of every row lead back to rows
\* committed before it, and an event is stored if and only if its insert was
\* committed, and once; a transaction that is rolled back leaves nothing
\* behind (000001_audit_events.up.sql:38-60).
THEOREM ChainIsSound == Spec => []ChainInv
<1>1. IInv => ChainInv
  BY DEF IInv, ChainInv
<1>. QED
  BY <1>1, Invariance, PTL

-----------------------------------------------------------------------------
(* The history of MCAuditChain: inserts one after the other *)

\* While inserts come one after the other, the one in flight has drawn the last
\* id, and the rows are linked in the order of their ids.
Serial ==
  /\ \A e, f \in InFlight : e = f
  /\ \A e \in InFlight : insert[e].id = sequence
  /\ ChainFollowsIds

SerialInv == IsFiniteSet(InFlight) /\ (~overlapped => Serial)

LEMMA AtMostOne ==
  ASSUME NEW S, IsFiniteSet(S), ~(Cardinality(S) > 1), NEW e \in S, NEW f \in S
  PROVE  e = f
<1>. SUFFICES ASSUME e # f PROVE FALSE
  OBVIOUS
<1>1. IsFiniteSet({e}) /\ Cardinality({e}) = 1
  BY FS_Singleton
<1>4. f \notin {e}
  OBVIOUS
<1>2. Cardinality({e} \cup {f}) = 2
  <2>1. Cardinality({e} \cup {f}) = Cardinality({e}) + 1
    BY <1>1, <1>4, FS_AddElement
  <2>. QED
    BY <1>1, <2>1
<1>3. Cardinality({e} \cup {f}) <= Cardinality(S)
  BY FS_Subset
<1>5. Cardinality(S) \in Nat
  BY FS_CardinalityType
<1>. QED
  BY <1>2, <1>3, <1>5

\* The rows that are there when a transaction is about to commit have lower ids.
LEMMA StoredBelow ==
  ASSUME IInv, NEW e \in InFlight, NEW i \in Stored
  PROVE  i # insert[e].id /\ i <= sequence /\ i \in Nat
<1>. DEFINE f == rows[i].event
<1>1. f \in Events /\ e \in Events /\ i \in Nat
  BY StoredRows DEF IInv, InFlight, Stored, Ids
<1>2. insert[f].pc = "committed" /\ insert[f].id = i
  BY <1>1 DEF IInv, StoredOnce
<1>3. e # f
  BY <1>2 DEF InFlight
<1>4. i # 0
  BY DEF Stored, Ids
<1>. QED
  BY <1>1, <1>2, <1>3, <1>4 DEF IInv, IdsDrawn

\* A step that stores nothing and links no row.
LEMMA FollowsAlone ==
  ASSUME ChainFollowsIds, UNCHANGED rows
  PROVE  ChainFollowsIds'
<1>1. Stored' = Stored
  BY DEF Stored
<1>2. \A i \in Stored : Before(i)' = Before(i)
  BY <1>1 DEF Before
<1>3. \A i \in Stored : Unlinked(i)' = Unlinked(i)
  BY <1>2 DEF Unlinked
<1>. QED
  BY <1>1, <1>2, <1>3 DEF ChainFollowsIds

LEMMA DrawSerial ==
  ASSUME IInv, SerialInv, MCNext, NEW e \in Events, Draw(e)
  PROVE  SerialInv'
<1>1. /\ e \notin InFlight /\ InFlight' = InFlight \cup {e}
      /\ insert'[e].id = sequence + 1 /\ sequence' = sequence + 1
      /\ UNCHANGED rows
  BY DEF Draw, InFlight, IInv, TypeOK, Inserts
<1>2. IsFiniteSet(InFlight')
  BY <1>1, FS_AddElement DEF SerialInv
<1>3. SUFFICES ASSUME ~overlapped' PROVE Serial'
  BY <1>2 DEF SerialInv
<1>4. ~overlapped /\ ~(Cardinality(InFlight') > 1)
  BY <1>3 DEF MCNext
<1>5. \A f, g \in InFlight' : f = g
  BY <1>2, <1>4, AtMostOne
<1>6. \A f \in InFlight' : f = e
  BY <1>1, <1>5
<1>7. ChainFollowsIds'
  BY <1>1, <1>4, FollowsAlone DEF SerialInv, Serial
<1>. QED
  BY <1>1, <1>5, <1>6, <1>7 DEF Serial

\* Steps that put nobody in flight and store no row.
LEMMA QuietSerial ==
  ASSUME SerialInv, InFlight' \subseteq InFlight,
         ~overlapped' => ~overlapped, UNCHANGED <<rows, sequence>>,
         \A f \in InFlight : insert'[f].id = insert[f].id
  PROVE  SerialInv'
<1>1. IsFiniteSet(InFlight')
  BY FS_Subset DEF SerialInv
<1>2. ~overlapped' => Serial'
  BY FollowsAlone DEF SerialInv, Serial
<1>. QED
  BY <1>1, <1>2 DEF SerialInv

LEMMA CommitSerial ==
  ASSUME IInv, SerialInv, MCNext, NEW e \in Events, Commit(e)
  PROVE  SerialInv'
<1>. DEFINE id == insert[e].id
            h == insert[e].previous
<1>1. /\ e \in InFlight /\ InFlight' = InFlight \ {e}
      /\ \A f \in InFlight' : insert'[f] = insert[f]
      /\ id \in Ids /\ h \in Events \cup {Null} /\ IsLastHash(h)
      /\ sequence' = sequence
  BY DEF Commit, Step, InFlight, IInv, TypeOK, Inserts, LockHeld, IdsDrawn, Ids
<1>2. IsFiniteSet(InFlight')
  BY <1>1, FS_Subset DEF SerialInv
<1>3. SUFFICES ASSUME ~overlapped' PROVE Serial'
  BY <1>2 DEF SerialInv
<1>4. Serial
  BY <1>3 DEF MCNext, SerialInv
<1>5. rows' = [rows EXCEPT ![id] = [event |-> e, previous |-> h]] /\ rows \in [Ids -> Rows]
  BY DEF Commit, IInv, TypeOK
<1>6. id = sequence /\ \A i \in Stored : i < id /\ i \in Nat
  BY <1>1, <1>4, StoredBelow DEF Serial, Ids
<1>. HIDE DEF id, h
<1>7. /\ rows'[id].event = e /\ rows'[id].previous = h
      /\ \A i \in Ids : i # id => rows'[i] = rows[i]
      /\ e # Null
  <2>1. e # Null
    BY ConstantsAssumption
  <2>. QED
    BY <1>1, <1>5, <2>1
<1>8. Stored' = Stored \cup {id} /\ id \notin Stored
  BY <1>1, <1>6, <1>7 DEF Stored, NoRow
<1>9. \A i \in Stored : rows'[i] = rows[i]
  BY <1>6, <1>7 DEF Stored
<1>10. {j \in Stored' : j < id} = Stored
  BY <1>1, <1>6, <1>8 DEF Ids
<1>11. \A i \in Stored : {j \in Stored' : j < i} = {j \in Stored : j < i}
  BY <1>1, <1>6, <1>8 DEF Ids
<1>12. h = Null <=> Stored = {}
  BY <1>1, LastHash DEF IInv
<1>13. ChainFollowsIds'
  <2>. SUFFICES ASSUME NEW i \in Stored'
                PROVE  ~Unlinked(i)' /\ (rows'[i].previous = Null <=> Before(i)' = {})
    BY DEF ChainFollowsIds
  <2>1. CASE i = id
    <3>1. Before(i)' = Stored
      BY <1>10, <2>1 DEF Before
    <3>2. ASSUME NEW j \in Stored, \A k \in Stored : k <= j
          PROVE  rows'[id].previous = rows'[j].event
      <4>1. PICK l \in Stored : h = rows[l].event /\ \A k \in Stored : k <= l
        BY <1>1, <3>2 DEF IsLastHash
      <4>2. l = j
        BY <1>6, <3>2, <4>1
      <4>. QED
        BY <1>7, <1>9, <4>1, <4>2
    <3>3. ~Unlinked(i)'
      BY <2>1, <3>1, <3>2 DEF Unlinked
    <3>. QED
      BY <1>7, <1>12, <2>1, <3>1, <3>3
  <2>2. CASE i \in Stored
    <3>1. Before(i)' = Before(i)
      BY <1>11, <2>2 DEF Before
    <3>2. \A j \in Before(i) : rows'[j] = rows[j]
      BY <1>9 DEF Before
    <3>3. Unlinked(i)' <=> Unlinked(i)
      BY <1>9, <2>2, <3>1, <3>2 DEF Unlinked
    <3>4. ~Unlinked(i) /\ (rows[i].previous = Null <=> Before(i) = {})
      BY <1>4, <2>2 DEF Serial, ChainFollowsIds
    <3>. QED
      BY <1>9, <2>2, <3>1, <3>3, <3>4
  <2>. QED
    BY <1>8, <2>1, <2>2
<1>14. \A f, g \in InFlight' : f = g
  BY <1>1, <1>4 DEF Serial
<1>15. \A f \in InFlight' : insert'[f].id = sequence'
  BY <1>1, <1>4 DEF Serial
<1>. QED
  BY <1>13, <1>14, <1>15 DEF Serial

\* As long as inserts come one after the other, each row is linked to the one
\* with the id before its own, also over the gaps that rolled back rows leave
\* (000001_audit_events.up.sql:42-60).
THEOREM SerialChainFollowsIds == MCSpec => []SerialFollowsIds
<1>1. MCInit => IInv /\ SerialInv
  <2>. SUFFICES ASSUME MCInit PROVE SerialInv
    BY InitHolds DEF MCInit
  <2>1. InFlight = {} /\ Stored = {}
    BY DEF MCInit, Init, InFlight, Stored
  <2>. QED
    BY <2>1, FS_EmptySet DEF SerialInv, Serial, ChainFollowsIds
<1>2. IInv /\ SerialInv /\ [MCNext]_<<vars, overlapped>> => IInv' /\ SerialInv'
  <2>. SUFFICES ASSUME IInv, SerialInv, [MCNext]_<<vars, overlapped>>
                PROVE  IInv' /\ SerialInv'
    OBVIOUS
  <2>1. [Next]_vars
    BY DEF MCNext
  <2>2. IInv'
    BY <2>1, NextHolds
  <2>3. SerialInv'
    <3>1. CASE UNCHANGED <<vars, overlapped>>
      <4>1. InFlight' = InFlight
        BY <3>1 DEF vars, InFlight
      <4>. QED
        BY <3>1, <4>1, QuietSerial DEF vars
    <3>2. CASE MCNext
      <4>1. PICK e \in Events : Record(e) \/ Draw(e) \/ Link(e) \/ Commit(e) \/ Lose(e)
        BY <3>2 DEF MCNext, Next
      <4>2. ~overlapped' => ~overlapped
        BY <3>2 DEF MCNext
      <4>3. CASE Record(e) \/ Link(e) \/ Lose(e)
        <5>1. /\ InFlight' \subseteq InFlight /\ UNCHANGED <<rows, sequence>>
              /\ \A f \in InFlight : insert'[f].id = insert[f].id
          <6>1. /\ insert \in [Events -> Inserts] /\ UNCHANGED <<rows, sequence>>
                /\ \A f \in Events : f # e => insert'[f] = insert[f]
                /\ insert'[e].id = insert[e].id
                /\ insert'[e].pc \in {"drawn", "linked"} => insert[e].pc \in {"drawn", "linked"}
            <7>1. insert \in [Events -> Inserts]
              BY DEF IInv, TypeOK
            <7>2. CASE Record(e)
              BY <7>1, <7>2 DEF Record, Step, Inserts
            <7>3. CASE Link(e)
              BY <7>1, <7>3 DEF Link, Inserts
            <7>4. CASE Lose(e)
              BY <7>1, <7>4 DEF Lose, Inserts
            <7>. QED
              BY <4>3, <7>2, <7>3, <7>4
          <6>. QED
            BY <6>1 DEF InFlight
        <5>. QED
          BY <4>2, <5>1, QuietSerial
      <4>. QED
        BY <3>2, <4>1, <4>3, DrawSerial, CommitSerial
    <3>. QED
      BY <3>1, <3>2
  <2>. QED
    BY <2>2, <2>3
<1>3. SerialInv => SerialFollowsIds
  BY DEF SerialInv, Serial, SerialFollowsIds
<1>. QED
  BY <1>1, <1>2, <1>3, PTL DEF MCSpec
=============================================================================
