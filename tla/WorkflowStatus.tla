---------------------------- MODULE WorkflowStatus ----------------------------
(***************************************************************************)
(* What the status of a workflow promises (pkg/model/workflow.go): it is   *)
(* created as a draft, becomes active, then inactive, then a draft again;  *)
(* an active workflow is never deleted and a deleted one never returns.    *)
(***************************************************************************)
CONSTANT Workflows

VARIABLE status        \* the stored status of each workflow

Statuses == {"absent", "draft", "active", "inactive", "deleted"}

TypeOK == status \in [Workflows -> Statuses]

Init == status = [w \in Workflows |-> "absent"]

Move(w, from, to) ==
  /\ status[w] = from
  /\ status' = [status EXCEPT ![w] = to]

Create(w) == Move(w, "absent", "draft")

Activate(w) == Move(w, "draft", "active")

Deactivate(w) == Move(w, "active", "inactive")

MoveToDraft(w) == Move(w, "inactive", "draft")

Delete(w) == Move(w, "draft", "deleted") \/ Move(w, "inactive", "deleted")

Next == \E w \in Workflows :
          \/ Create(w) \/ Activate(w) \/ Deactivate(w) \/ MoveToDraft(w)
          \/ Delete(w)

Spec == Init /\ [][Next]_status
=============================================================================
