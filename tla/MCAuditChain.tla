---------------------------- MODULE MCAuditChain -----------------------------
(* An instance of AuditChain for TLC, with a history variable: were two    *)
(* inserts ever in flight together?                                        *)
EXTENDS AuditChain

VARIABLE overlapped

MCInit == Init /\ overlapped = FALSE

MCNext ==
  /\ Next
  /\ overlapped' = (overlapped \/ Cardinality(InFlight') > 1)

MCSpec == MCInit /\ [][MCNext]_<<vars, overlapped>> /\ Fairness

\* As long as inserts come one after the other, the chain follows the ids,
\* also over the gaps that rolled back rows leave
\* (000001_audit_events.up.sql:42-60).
SerialFollowsIds == ~overlapped => ChainFollowsIds
==============================================================================
