------------------------------- MODULE Server -------------------------------
(***************************************************************************)
(* One Flowker process as its orchestrator sees it: the start              *)
(* (bootstrap.InitServers), the probes /readyz and /health, and the        *)
(* shutdown with its drain period (bootstrap.RegisterGracefulShutdown).    *)
(*                                                                         *)
(* The orchestrator is external and modelled after docs/readyz-guide.md:   *)
(* it probes /readyz every Period seconds and takes the pod out of the     *)
(* routing after Threshold failures in a row, it restarts a container whose *)
(* /health fails HealthThreshold times in a row, and it sends SIGTERM when *)
(* it wants the process to end.  Time advances by Tick, a second a time.   *)
(***************************************************************************)
EXTENDS Naturals, FiniteSets

CONSTANTS
  Grace,            \* DrainGracePeriod, in seconds
  Period,           \* seconds between two readiness probes
  Threshold,        \* readiness failures that end the routing
  HealthThreshold,  \* liveness failures that restart the container
  CheckTimeout,     \* the timeout of a ping of /readyz, in seconds
  MaxStops          \* bound: shutdowns that somebody asks for

ASSUME TimingAssumption ==
  /\ Grace \in Nat /\ Period \in Nat \ {0} /\ Threshold \in Nat \ {0}
  /\ HealthThreshold \in Nat \ {0} /\ CheckTimeout \in Nat /\ MaxStops \in Nat
  /\ CheckTimeout < Period
  /\ Threshold * Period < Grace

VARIABLES
  env,        \* what the environment variables say
  up,         \* the databases that answer
  phase,      \* how far the process is
  pool,       \* the databases it holds connections to
  healthy,    \* results of the self-probe so far
  selfProbe,  \* selfProbeOK
  draining,   \* drainingState
  grace,      \* what is left of the drain period
  check,      \* the /readyz request that is being answered
  ready,      \* the readiness prober
  alive,      \* failures of the liveness prober in a row
  stops       \* shutdowns asked for so far

serverVars == <<env, up, phase, pool, healthy, selfProbe, draining, grace,
          check, ready, alive, stops>>

\* What the environment and the orchestrator keep, the start leaves alone.
others == <<env, up, check, ready, alive, stops>>

-----------------------------------------------------------------------------
(* Data *)

Deps == {"mongodb", "postgresql"}

\* The stages of InitServers, then those of HTTPServer.Run.
InitStages == {"config", "tls", "mongodb", "audit", "probeMongo",
               "probeAudit", "components"}

Phases == InitStages \cup {"serving", "closing", "exited"}

\* keys: the settings of API key, Access Manager and telemetry are complete;
\* saas: DEPLOYMENT_MODE; tls: databases whose URI or DSN asks for TLS.
Envs == [keys : BOOLEAN, saas : BOOLEAN, tls : SUBSET Deps, audit : BOOLEAN]

\* left: pings that have not returned; bad: one of them failed.
Checks == [open : BOOLEAN, left : SUBSET Deps, bad : BOOLEAN, age : 0..CheckTimeout]

NoCheck == [open |-> FALSE, left |-> {}, bad |-> FALSE, age |-> 0]

Probers == [wait : 0..Period, fails : 0..Threshold, routed : BOOLEAN]

ServerTypeOK ==
  /\ env \in Envs /\ up \subseteq Deps
  /\ phase \in Phases /\ pool \subseteq Deps
  /\ healthy \in BOOLEAN /\ selfProbe \in BOOLEAN /\ draining \in BOOLEAN
  /\ grace \in 0..Grace
  /\ check \in Checks /\ ready \in Probers
  /\ alive \in 0..HealthThreshold /\ stops \in 0..MaxStops

-----------------------------------------------------------------------------
(* The start *)

\* The container is started: a new process with its initial atomics.
Launch ==
  /\ phase = "exited"
  /\ phase' = "config"
  /\ pool' = {} /\ healthy' = TRUE /\ selfProbe' = FALSE
  /\ draining' = FALSE /\ grace' = Grace
  /\ alive' = 0
  /\ UNCHANGED <<env, up, check, ready, stops>>

Goto(stage) ==
  /\ phase' = stage
  /\ UNCHANGED <<pool, healthy, selfProbe, draining, grace>>

\* main panics when InitServers returns an error.
Abort == Goto("exited")

ValidateConfig ==
  /\ phase = "config"
  /\ IF env.keys THEN Goto("tls") ELSE Abort
  /\ UNCHANGED others

\* Without a host the DSN of the audit database is empty, and passes.
Dsns == IF env.audit THEN Deps ELSE {"mongodb"}

\* Mutant: the mode is not looked at for PostgreSQL.
MongoTLSOnly == env.saas => "mongodb" \in env.tls

ValidateSaaSTLS == env.saas => Dsns \subseteq env.tls

EnforceTLS ==
  /\ phase = "tls"
  /\ IF ValidateSaaSTLS THEN Goto("mongodb") ELSE Abort
  /\ UNCHANGED others

Connect(d, next) ==
  IF d \in up
  THEN /\ pool' = pool \cup {d}
       /\ phase' = next
       /\ UNCHANGED <<healthy, selfProbe, draining, grace>>
  ELSE Abort

ConnectMongo ==
  /\ phase = "mongodb"
  /\ Connect("mongodb", "audit")
  /\ UNCHANGED others

ConnectAudit ==
  /\ phase = "audit"
  /\ IF env.audit THEN Connect("postgresql", "probeMongo") ELSE Abort
  /\ UNCHANGED others

\* RunSelfProbe pings the databases one after the other, once.
Ping(d, next) ==
  /\ phase' = next
  /\ healthy' = (healthy /\ d \in up)
  /\ UNCHANGED <<pool, selfProbe, draining, grace>>

RunSelfProbe ==
  /\ \/ phase = "probeMongo" /\ Ping("mongodb", "probeAudit")
     \/ phase = "probeAudit" /\ Ping("postgresql", "components")
  /\ UNCHANGED others

SetSelfProbeOK == selfProbe' = healthy

\* The components are wired and the server listens.
InitComponents ==
  /\ phase = "components"
  /\ phase' = "serving"
  /\ SetSelfProbeOK
  /\ UNCHANGED <<pool, healthy, draining, grace>>
  /\ UNCHANGED others

InitServers ==
  \/ ValidateConfig \/ EnforceTLS \/ ConnectMongo \/ ConnectAudit
  \/ RunSelfProbe \/ InitComponents

-----------------------------------------------------------------------------
(* The shutdown *)

\* SIGTERM: the drain begins; before HTTPServer.Run nothing handles it.
Terminate ==
  \/ /\ phase = "serving" /\ ~draining
     /\ draining' = TRUE /\ grace' = Grace
     /\ UNCHANGED <<phase, pool, healthy, selfProbe>>
  \/ /\ phase \in InitStages
     /\ Abort

Stop ==
  /\ stops < MaxStops /\ stops' = stops + 1
  /\ Terminate
  /\ UNCHANGED <<env, up, check, ready, alive>>

RestartUnhealthy ==
  /\ alive = HealthThreshold
  /\ Terminate
  /\ UNCHANGED others

\* Mutant: the server is shut down as soon as the signal arrives.
NoDrainPeriod == TRUE

DrainOver == grace = 0

Shutdown ==
  /\ phase = "serving" /\ draining /\ DrainOver
  /\ Goto("closing")
  /\ UNCHANGED others

\* App.Shutdown waits for the requests that are being answered; there is no
\* OnShutdown.
Exit ==
  /\ phase = "closing" /\ ~check.open
  /\ Goto("exited")
  /\ UNCHANGED others

-----------------------------------------------------------------------------
(* The probes *)

Failed ==
  [wait   |-> ready.wait,
   fails  |-> IF ready.fails < Threshold THEN ready.fails + 1 ELSE ready.fails,
   routed |-> ready.routed /\ ready.fails + 1 < Threshold]

Passed == [wait |-> ready.wait, fails |-> 0, routed |-> TRUE]

\* Mutant: /readyz does not know of the drain.
NeverRefuses == FALSE

\* Readyz answers 503 at once while it drains.
Refuses == draining

\* A readiness probe is sent: refused by a process that does not listen or
\* drains, otherwise all pings start.
ProbeReady ==
  /\ ready.wait = 0 /\ ~check.open
  /\ \/ /\ phase = "serving" /\ ~Refuses
        /\ check' = [open |-> TRUE, left |-> Deps, bad |-> FALSE, age |-> 0]
        /\ ready' = [ready EXCEPT !.wait = Period]
     \/ /\ phase = "serving" => Refuses
        /\ ready' = [Failed EXCEPT !.wait = Period]
        /\ UNCHANGED check
  /\ UNCHANGED <<env, up, phase, pool, healthy, selfProbe, draining, grace,
                 alive, stops>>

\* Mutant: the last result replaces the others.
LastDown(d) == d \notin up

\* runSingleCheck: a ping fails at once or when its timeout is over.
Down(d) == check.bad \/ d \notin up

RunSingleCheck(d) ==
  /\ d \in check.left
  /\ check' = [check EXCEPT !.left = @ \ {d}, !.bad = Down(d)]
  /\ UNCHANGED <<env, up, phase, pool, healthy, selfProbe, draining, grace,
                 ready, alive, stops>>

\* All pings have returned: 503 iff one of them failed.
Readyz ==
  /\ check.open /\ check.left = {}
  /\ check' = NoCheck
  /\ ready' = IF check.bad THEN Failed ELSE Passed
  /\ UNCHANGED <<env, up, phase, pool, healthy, selfProbe, draining, grace,
                 alive, stops>>

\* Mutant: /health is not gated.
UngatedHealth == "mongodb" \in up

\* Health: the self-probe gate, then a ping of MongoDB alone.
Health == selfProbe /\ "mongodb" \in up

ProbeHealth ==
  /\ phase = "serving"
  /\ alive' = IF Health THEN 0
              ELSE IF alive < HealthThreshold THEN alive + 1 ELSE alive
  /\ UNCHANGED <<env, up, phase, pool, healthy, selfProbe, draining, grace,
                 check, ready, stops>>

-----------------------------------------------------------------------------
(* The environment *)

\* A database stops or starts to answer.
Toggle(d) ==
  /\ up' = IF d \in up THEN up \ {d} ELSE up \cup {d}
  /\ UNCHANGED <<env, phase, pool, healthy, selfProbe, draining, grace,
                 check, ready, alive, stops>>

Counting == phase = "serving" /\ draining

\* A second passes, unless something is due.
Tick ==
  /\ ready.wait > 0
  /\ Counting => grace > 0
  /\ check.open => check.age < CheckTimeout
  /\ ready' = [ready EXCEPT !.wait = @ - 1]
  /\ grace' = IF Counting THEN grace - 1 ELSE grace
  /\ check' = IF check.open THEN [check EXCEPT !.age = @ + 1] ELSE check
  /\ UNCHANGED <<env, up, phase, pool, healthy, selfProbe, draining, alive, stops>>

-----------------------------------------------------------------------------
ServerInit ==
  /\ env \in Envs
  /\ up \in SUBSET Deps
  /\ phase = "config" /\ pool = {} /\ healthy = TRUE /\ selfProbe = FALSE
  /\ draining = FALSE /\ grace = Grace
  /\ check = NoCheck
  /\ ready = [wait |-> Period, fails |-> 0, routed |-> FALSE]
  /\ alive = 0 /\ stops = 0

Process == Launch \/ InitServers \/ Shutdown \/ Exit

Probes == ProbeReady \/ Readyz \/ \E d \in Deps : RunSingleCheck(d)

ServerNext ==
  \/ Process \/ Probes \/ ProbeHealth
  \/ Stop \/ RestartUnhealthy
  \/ \E d \in Deps : Toggle(d)
  \/ Tick

ServerSpec == ServerInit /\ [][ServerNext]_serverVars

\* Time passes, the process runs, the pings return within their timeout, and
\* the orchestrator keeps probing and restarting.
ServerFairness ==
  /\ WF_serverVars(Process) /\ WF_serverVars(Tick)
  /\ WF_serverVars(ProbeReady) /\ WF_serverVars(Readyz) /\ WF_serverVars(ProbeHealth)
  /\ WF_serverVars(RestartUnhealthy)
  /\ \A d \in Deps : WF_serverVars(RunSingleCheck(d))

FairSpec == ServerSpec /\ ServerFairness

-----------------------------------------------------------------------------
(* Properties *)

\* No traffic is routed to a process that does not listen: the drain period
\* outlasts the time the orchestrator needs to notice it, also when a probe
\* that began before the drain succeeds after it (shutdown.go:39-42).
RoutedIsListening == ready.routed => phase = "serving"

\* In SaaS mode no connection is opened without TLS, whatever fails first
\* (config.go:154-162).
NoPlainConnection == env.saas => pool \subseteq env.tls

\* The two directions of the traffic: what comes in finds a listener, and what
\* goes out in SaaS mode is encrypted.
TrafficInv == RoutedIsListening /\ NoPlainConnection

\* A database that stays away takes the pod out of the routing, and it stays
\* out (handler.go:172-183).
DownIsUnrouted ==
  \A d \in Deps : <>[](d \notin up) => <>[](~ready.routed)

\* With a complete configuration and databases that answer from some time on,
\* the pod ends up serving, routed and healthy, whatever the start found: a
\* start that failed and a self-probe that failed are both repeated.
Configured == env.keys /\ env.audit /\ ValidateSaaSTLS

ServesAgain ==
  Configured /\ <>[](up = Deps)
    => <>[](phase = "serving" /\ selfProbe /\ ready.routed)

\* Claim of docs/readyz-guide.md:250: the connections are closed before the
\* process exits.
DependenciesClosed ==
  [][phase = "closing" /\ phase' = "exited" => pool' = {}]_serverVars

\* The drain: what is left of the drain period
\* covers the probes that are still needed to end the routing, whether or not
\* the one that is being answered passes.
RoutingEnds == ready.wait + Grace <= grace + (ready.fails + 1) * Period

AnswerInTime == ready.wait + Grace <= grace + Period

DrainInv ==
  /\ phase # "serving" => ~ready.routed /\ ~check.open
  /\ ready.routed => ready.fails < Threshold
  /\ Counting /\ ready.routed => RoutingEnds
  /\ Counting /\ check.open => AnswerInTime

\* The stages that open connections come after the check of the settings.
TLSInv ==
  /\ phase \in {"mongodb", "audit"} => ValidateSaaSTLS
  /\ NoPlainConnection

\* The inductive invariant: types, the drain and the TLS check.
ServerInv == ServerTypeOK /\ DrainInv /\ TLSInv
=============================================================================
