---------------------------- MODULE MCExecution ----------------------------
(* Small instances of Execution for TLC. *)
EXTENDS Execution, TLC

CONSTANTS r1, r2, k

\* r1 and r2 are the same client operation sent twice.
SameKey == (r1 :> k) @@ (r2 :> k)

\* Every kind of node, with an action step stored late between two others.
MixedPlans == {<<"executor", "action", "executor">>,
               <<"conditional", "executor">>, <<"action">>, <<"broken">>}

ShortPlans == {<<"action", "executor">>, <<"action">>, <<"broken">>}

\* What a client relies on (execute_workflow.go, Execute and runStateMachine):
\* what it was told is created stays stored, a keyed operation calls the
\* providers once, and a completed execution has lost no step.
ExecutionInv ==
  /\ TypeInv
  /\ CreatedIsDurable
  /\ CompletedIsClean
  /\ KeyedCallsOnce

\* Nothing runs for ever (execute_workflow.go:222-330): every handler and every
\* goroutine ends, whatever fails, and an execution that nothing disturbs ends
\* with its outcome stored.
AllEnd ==
  /\ EveryThreadEnds
  /\ EveryExecutionFinishes
=============================================================================
