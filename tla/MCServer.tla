------------------------------ MODULE MCServer ------------------------------
(***************************************************************************)
(* Small instances of Server and AuditChain for TLC.  They share no state: *)
(* a behaviour is one of `part`, chosen at its beginning, and the other    *)
(* part stays as it is.                                                    *)
(***************************************************************************)
EXTENDS MCAuditChain, Server, TLC

VARIABLE part

\* A process that nobody configured, as long as the audit trail is the part.
NoServer ==
  /\ env = [keys |-> FALSE, saas |-> FALSE, tls |-> {}, audit |-> FALSE]
  /\ up = {}

\* Every event is stored or lost.
AllRecorded == \A e \in Events : insert[e].pc \in {"committed", "lost"}

PartsInit ==
  /\ part \in {"server", "audit"}
  /\ ServerInit /\ MCInit
  /\ part = "audit" => NoServer

PartsNext ==
  /\ UNCHANGED part
  /\ \/ part = "server" /\ ServerNext /\ UNCHANGED <<vars, overlapped>>
     \/ part = "audit" /\ MCNext /\ UNCHANGED serverVars
     \/ part = "audit" /\ AllRecorded /\ UNCHANGED <<vars, overlapped, serverVars>>

\* Each part with the fairness that its module states; that of the inserts asks
\* for nothing as long as none is recorded.
PartsSpec ==
  /\ PartsInit /\ [][PartsNext]_<<part, vars, overlapped, serverVars>>
  /\ Fairness
  /\ part = "server" => ServerFairness

\* The routing follows the databases, both ways: a database that stays away
\* takes the pod out of it (handler.go:172-183), and once they answer again the
\* pod comes back, whatever the start found (selfprobe.go, config.go:245).
RoutingFollows == DownIsUnrouted /\ ServesAgain
=============================================================================
