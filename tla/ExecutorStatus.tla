--------------------------- MODULE ExecutorStatus ----------------------------
(***************************************************************************)
(* What the status of an executor configuration promises                   *)
(* (pkg/model/executor_configuration.go): it is configured, tested and     *)
(* activated in this order and once, then disabled and enabled; what is    *)
(* tested or active is not deleted, and what is deleted does not return.   *)
(***************************************************************************)
CONSTANT Configs

VARIABLE status        \* the stored status of each configuration

Statuses == {"absent", "unconfigured", "configured", "tested", "active",
             "disabled", "deleted"}

TypeOK == status \in [Configs -> Statuses]

Init == status = [c \in Configs |-> "absent"]

Move(c, from, to) ==
  /\ status[c] = from
  /\ status' = [status EXCEPT ![c] = to]

Create(c) == Move(c, "absent", "unconfigured")

MarkConfigured(c) == Move(c, "unconfigured", "configured")

MarkTested(c) == Move(c, "configured", "tested")

Activate(c) == Move(c, "tested", "active")

Disable(c) == Move(c, "active", "disabled")

Enable(c) == Move(c, "disabled", "active")

Delete(c) == \E s \in {"unconfigured", "configured", "disabled"} : Move(c, s, "deleted")

Next == \E c \in Configs :
          \/ Create(c) \/ MarkConfigured(c) \/ MarkTested(c) \/ Activate(c)
          \/ Disable(c) \/ Enable(c) \/ Delete(c)

Spec == Init /\ [][Next]_status
=============================================================================
