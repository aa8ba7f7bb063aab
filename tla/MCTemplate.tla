----------------------------- MODULE MCTemplate -----------------------------
(* An instance of Template for TLC: beside the execution, one call of      *)
(* another execution with the configuration of Tracer.                     *)
EXTENDS Template

TwoConfigs ==
  [k \in Calls |-> IF k = "midaz-create-tx" THEN "midaz" ELSE "tracer"]

\* The breakers, between the execution and the other call (breaker.go and
\* execute_workflow.go, callRunnerWithInput): one breaker for each
\* configuration, one probe at a time, a bounded number of failing calls, and
\* no call refused for the failures of another configuration.
BreakerInv ==
  /\ TypeInv
  /\ OneBreaker
  /\ OneProbe
  /\ Isolation
  /\ FailuresBounded

\* The transaction (template.go): whatever Tracer and Midaz answer, and when,
\* it is booked only if Tracer allowed it, a completed execution says what was
\* decided and done, and no more is booked than was asked for.
TransactionInv ==
  /\ BookedOnlyIfAllowed
  /\ CompletedMeansDecided
  /\ EffectsAreBounded

\* A breaker closes by a probe only (gobreaker, afterRequest), and each
\* configuration has the circuit that Circuit promises.
BreakerAct == ClosesByProbe /\ ImplementsCircuit

\* Nothing waits for ever (executeRunnerWithRetry, runStateMachine): the
\* execution ends, so does the other call, and a half-open breaker decides.
AllEnd ==
  /\ Ends
  /\ CallsEnd
  /\ ProbeDecides
=============================================================================
