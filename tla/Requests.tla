------------------------------ MODULE Requests ------------------------------
(* What a provider configuration turns into.  An execution builds its request *)
(* from it (buildRunnerInput, or the provider's own BuildInput) and the test  *)
(* of its connectivity builds three others, one for each stage, while the     *)
(* server that answers them may change between two of them.                   *)
(*                                                                            *)
(* Sources: internal/services/command/execute_workflow.go,                    *)
(* test_provider_config_connectivity.go, pkg/model/provider_config_test_      *)
(* result.go, pkg/executors/midaz and pkg/executors/tracer.                   *)
EXTENDS Integers, Sequences, FiniteSets

CONSTANTS
  Configs,     \* configurations that the schema of their provider accepts
  MaxCalls,    \* bound: calls of executions
  MaxChanges   \* bound: changes of the server

VARIABLES
  config,      \* the configuration
  server,      \* what the provider's server does with a request
  calls,       \* responses that executions got
  stage,       \* the stage the test is at
  results,     \* StageTestResult of each stage
  overall,     \* TestOverallStatus
  changes,     \* changes of the server
  since        \* changes when the test began

vars == <<config, server, calls, stage, results, overall, changes, since>>
testVars == <<stage, results, overall, since>>

(* A Tracer configuration requires base_url and api_key, one of Midaz two     *)
(* URLs, and may hold an auth block.  Neither schema mentions auth_type or    *)
(* headers, nor forbids them.                                                 *)
Tracer(authType, headers) ==
  [provider |-> "tracer", apiKey |-> TRUE, authType |-> authType, headers |-> headers, auth |-> FALSE]
Midaz(auth) ==
  [provider |-> "midaz", apiKey |-> FALSE, authType |-> "none", headers |-> {}, auth |-> auth]

\* Headers of a request: pairs of name and value, one value for a name.
ApiKey == <<"X-API-Key", "key">>
Bearer == <<"Authorization", "key">>
Token == <<"Authorization", "oidc token">>
Set(headers, h) == {g \in headers : g[1] # h[1]} \cup {h}
SetAll(headers, more) == {g \in headers : \A h \in more : g[1] # h[1]} \cup more

\* The header by which each provider authenticates.
Accepted == [tracer |-> ApiKey, midaz |-> Token]

Servers == [state : {"down", "failing", "serving"}, secured : BOOLEAN, root : BOOLEAN]

\* A secured server wants the credentials, one without a root knows only deeper paths.
Respond(headers, path) ==
  CASE server.state = "down" -> "no answer"
    [] server.state = "failing" -> "5xx"
    [] server.state = "serving" /\ server.secured /\ Accepted[config.provider] \notin headers -> "401"
    [] server.state = "serving" /\ ~(server.secured /\ Accepted[config.provider] \notin headers)
         -> IF path = "base" /\ ~server.root THEN "404" ELSE "2xx"

Stages == <<"connectivity", "authentication", "end_to_end">>

TypeInv ==
  /\ config \in Configs /\ server \in Servers
  /\ calls \in Seq({"2xx", "401", "404", "5xx", "no answer", "not sent"}) /\ Len(calls) <= MaxCalls
  /\ stage \in {"idle", "connectivity", "authentication", "end_to_end", "complete", "done"}
  /\ results \in Seq({"passed", "failed", "skipped"}) /\ Len(results) <= 3
  /\ overall \in {"none", "passed", "failed", "partial", "error"}
  /\ changes \in 0..MaxChanges /\ since \in 0..changes
  /\ stage \in {"complete", "done"} /\ overall # "error" => Len(results) = 3

Init ==
  /\ config \in Configs /\ server \in Servers
  /\ calls = <<>> /\ stage = "idle" /\ results = <<>> /\ overall = "none"
  /\ changes = 0 /\ since = 0

-----------------------------------------------------------------------------
(* The request of an execution *)

\* buildAuthConfig: without auth_type there is no authentication.
AuthConfig == config.authType

\* buildProviderConfigRunnerInput, setHeaders and applyAuth; a bearer block finds no token.
GenericHeaders ==
  IF AuthConfig = "api_key" THEN Set(config.headers, ApiKey) ELSE config.headers

\* BuildInput of Midaz with buildMidazAuth: only the auth block counts.
MidazHeaders == IF config.auth THEN {Token} ELSE {}

\* buildRunnerInput asks the provider for an InputBuilder, which Midaz has and Tracer has not.
RunnerHeaders == IF config.provider = "midaz" THEN MidazHeaders ELSE GenericHeaders
RunnerInput == config.provider = "midaz" \/ AuthConfig \in {"none", "api_key"}

CallRunner ==
  /\ Len(calls) < MaxCalls
  /\ calls' = Append(calls, IF RunnerInput THEN Respond(RunnerHeaders, "executor") ELSE "not sent")
  /\ UNCHANGED <<config, server, changes, testVars>>

-----------------------------------------------------------------------------
(* The test *)

\* extractAPIKey and extractHeaders: the key as a bearer token, then the custom headers.
TestHeaders == SetAll(IF config.apiKey THEN {Bearer} ELSE {}, config.headers)

\* Mutant of Begin: the result of the last test is used again.
BeginAgain ==
  /\ stage \in {"idle", "done"}
  /\ stage' = "connectivity"
  /\ overall' = "none" /\ since' = changes
  /\ UNCHANGED <<config, server, calls, changes, results>>

Begin ==
  /\ stage \in {"idle", "done"}
  /\ stage' = "connectivity"
  /\ results' = <<>> /\ overall' = "none" /\ since' = changes
  /\ UNCHANGED <<config, server, calls, changes>>

\* The configuration is gone, its URL is missing, malformed, or not allowed as a destination.
Refuse ==
  /\ stage \in {"idle", "done"}
  /\ stage' = "done"
  /\ results' = <<>> /\ overall' = "error" /\ since' = changes
  /\ UNCHANGED <<config, server, calls, changes>>

\* Mutant of Rest: a stage that fails does not stop the others.
GoOn(status, next) == stage' = next /\ results' = Append(results, status)

\* skipRemainingStages once a stage has failed.
Rest(status, next) ==
  IF status = "failed"
  THEN /\ stage' = "complete"
       /\ results' = Append(results, status) \o [i \in 1..(2 - Len(results)) |-> "skipped"]
  ELSE stage' = next /\ results' = Append(results, status)

Quiet == UNCHANGED <<config, server, calls, changes, since, overall>>

\* runConnectivityTest: without credentials, and 4xx will do.
RunConnectivity ==
  /\ stage = "connectivity"
  /\ Rest(IF Respond({}, "base") \in {"2xx", "401", "404"} THEN "passed" ELSE "failed", "authentication")
  /\ Quiet

\* Mutant of Authenticated: whatever the server answers is an acceptance, but for its failure.
AnyAnswer(response) == response \notin {"5xx", "no answer"}

Authenticated(response) == response \in {"2xx", "404"}

\* runAuthenticationTest: skipped without credentials.
RunAuthentication ==
  /\ stage = "authentication"
  /\ Rest(IF TestHeaders = {} THEN "skipped"
          ELSE IF Authenticated(Respond(TestHeaders, "base")) THEN "passed" ELSE "failed", "end_to_end")
  /\ Quiet

\* runEndToEndTest.
RunEndToEnd ==
  /\ stage = "end_to_end"
  /\ Rest(IF Respond(TestHeaders, "base") = "2xx" THEN "passed" ELSE "failed", "complete")
  /\ Quiet

Count(status) == Cardinality({i \in DOMAIN results : results[i] = status})

\* Mutant of OverallStatus: a stage that was skipped counts as passed.
SkippedIsPassed ==
  IF Count("failed") = 0 THEN "passed"
  ELSE IF Count("passed") + Count("skipped") = 0 THEN "failed" ELSE "partial"

\* calculateOverallStatus.
OverallStatus ==
  IF Count("failed") = 0 THEN "passed" ELSE IF Count("passed") = 0 THEN "failed" ELSE "partial"

Complete ==
  /\ stage = "complete"
  /\ stage' = "done" /\ overall' = OverallStatus
  /\ UNCHANGED <<config, server, calls, results, changes, since>>

\* The server is deployed, breaks down or comes back.
Change ==
  /\ changes < MaxChanges
  /\ \E s \in Servers \ {server} : server' = s
  /\ changes' = changes + 1
  /\ UNCHANGED <<config, calls, testVars>>

Test == RunConnectivity \/ RunAuthentication \/ RunEndToEnd \/ Complete
Next == CallRunner \/ Begin \/ Refuse \/ Test \/ Change
Spec == Init /\ [][Next]_vars

\* Each request of a stage has a timeout of ten seconds, after which the stage goes on.
FairSpec == Spec /\ WF_vars(Test)

-----------------------------------------------------------------------------
(* Properties *)

Tested == stage = "done" /\ overall # "error"
Steady == since = changes

\* The verdict tells the truth about a server that did not change: passed if and only if
\* it answers 2xx to a request with the credentials of the test; failed if and only if it
\* is out of reach, so that partial leaves credentials and path to look at.  Skipping
\* the later stages never hides a test that would have passed.
VerdictIsTrue ==
  Tested /\ Steady =>
    /\ overall = "passed" <=> Respond(TestHeaders, "base") = "2xx"
    /\ overall = "failed" <=> server.state # "serving"

\* Also when the server changes between the stages: one stage at most fails, what comes
\* before it has not failed and what comes after it was not tried; and the test says
\* "failed" only when nothing worked, "passed" only when the last request succeeded.
OneFailure ==
  Tested =>
    /\ \A i \in DOMAIN results : results[i] = "failed" => \A j \in (i + 1)..3 : results[j] = "skipped"
    /\ overall = "failed" <=> results[1] = "failed"
    /\ overall = "passed" <=> results[3] = "passed"

\* A rejected credential is never reported as accepted: while the server does not change,
\* an authentication that passed is followed by an end to end test that is not refused.
AcceptedIsAccepted ==
  Tested /\ Steady /\ results[2] = "passed" => Respond(TestHeaders, "base") # "401"

\* A test that began ends with a verdict.
TestEnds == stage = "connectivity" ~> stage = "done"

\* A serving Tracer never refuses the call of an execution whose configuration holds the key.
CallsCarryTheKey ==
  \A i \in DOMAIN calls : config.provider = "tracer" => calls[i] # "401"

\* The authentication is skipped only for a configuration without credentials.
SkippedHasNone ==
  Tested /\ results # <<>> /\ results[1] = "passed" /\ results[2] = "skipped" => ~config.apiKey /\ ~config.auth

\* The test and the executions agree: a server that would accept the call of an execution
\* does not make the authentication of the test fail.
TestedAsUsed ==
  Tested /\ Steady /\ results[2] = "failed" => ~(RunnerInput /\ Respond(RunnerHeaders, "executor") = "2xx")
=============================================================================
