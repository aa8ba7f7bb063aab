------------------------------ MODULE Lifecycle ------------------------------
(***************************************************************************)
(* What a workflow execution promises to those who read it: its stored     *)
(* status moves forward only and a terminal status is final                *)
(* (pkg/model/execution.go, the transition methods of WorkflowExecution).  *)
(* Module Execution is shown to implement this module for every document   *)
(* of the executions collection.                                           *)
(***************************************************************************)
CONSTANT Executions

VARIABLE status        \* the stored status of each execution

Absent == "absent"

Statuses == {Absent, "pending", "running", "completed", "failed"}

Terminal == {"completed", "failed"}

TypeOK == status \in [Executions -> Statuses]

Init == status = [e \in Executions |-> Absent]

Move(e, from, to) ==
  /\ status[e] = from
  /\ status' = [status EXCEPT ![e] = to]

\* An execution is created pending.
Create(e) == Move(e, Absent, "pending")

\* MarkRunning: only from pending.
MarkRunning(e) == Move(e, "pending", "running")

\* MarkCompleted: only from running.
MarkCompleted(e) == Move(e, "running", "completed")

\* MarkFailed: from any status that is not terminal.
MarkFailed(e) == Move(e, "pending", "failed") \/ Move(e, "running", "failed")

Next == \E e \in Executions :
          Create(e) \/ MarkRunning(e) \/ MarkCompleted(e) \/ MarkFailed(e)

Spec == Init /\ [][Next]_status
=============================================================================
