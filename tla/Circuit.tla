------------------------------- MODULE Circuit -------------------------------
(***************************************************************************)
(* What a circuit breaker promises the calls of a configuration            *)
(* (pkg/circuitbreaker): it opens after Threshold failures in a row, lets  *)
(* nobody through until its time is over, then as many calls as it needs   *)
(* to close again, and only what it let through in its present state       *)
(* counts.                                                                 *)
(*                                                                         *)
(* Each configuration has its circuit from the beginning, and a circuit    *)
(* half opens by itself.  Module Breaker implements this with breakers     *)
(* made on demand, which change when somebody looks and tell their states  *)
(* apart by numbers.                                                       *)
(***************************************************************************)
EXTENDS Naturals, FiniteSets

CONSTANTS Calls, Configs, ConfigOf, Threshold, MaxRequests

VARIABLES
  state,       \* of the circuit of each configuration
  flight,      \* the calls it let through in this state, still without a result
  score,       \* failures in a row while closed, successes while half open
  refused      \* the calls that were refused

vars == <<state, flight, score, refused>>

Init ==
  /\ state = [c \in Configs |-> "closed"]
  /\ flight = [c \in Configs |-> {}]
  /\ score = [c \in Configs |-> 0]
  /\ refused = {}

\* A new state forgets what came before it.
Become(c, s) ==
  /\ state' = [state EXCEPT ![c] = s]
  /\ flight' = [flight EXCEPT ![c] = {}]
  /\ score' = [score EXCEPT ![c] = 0]
  /\ UNCHANGED refused

\* The result of k is one of n by now.
Score(k, n) ==
  /\ flight' = [flight EXCEPT ![ConfigOf[k]] = @ \ {k}]
  /\ score' = [score EXCEPT ![ConfigOf[k]] = n]
  /\ UNCHANGED <<state, refused>>

Lets(c) ==
  \/ state[c] = "closed"
  \/ state[c] = "half-open" /\ score[c] + Cardinality(flight[c]) < MaxRequests

Elapse(c) == state[c] = "open" /\ Become(c, "half-open")

Admit(k) ==
  /\ Lets(ConfigOf[k])
  /\ flight' = [flight EXCEPT ![ConfigOf[k]] = @ \cup {k}]
  /\ UNCHANGED <<state, score, refused>>

Refuse(k) ==
  /\ ~Lets(ConfigOf[k])
  /\ refused' = refused \cup {k}
  /\ UNCHANGED <<state, flight, score>>

Succeed(k) ==
  LET c == ConfigOf[k] IN
  /\ k \in flight[c]
  /\ \/ state[c] = "closed" /\ Score(k, 0)
     \/ state[c] = "half-open" /\ score[c] + 1 < MaxRequests /\ Score(k, score[c] + 1)
     \/ state[c] = "half-open" /\ score[c] + 1 >= MaxRequests /\ Become(c, "closed")

Fail(k) ==
  LET c == ConfigOf[k] IN
  /\ k \in flight[c]
  /\ \/ state[c] = "closed" /\ score[c] + 1 < Threshold /\ Score(k, score[c] + 1)
     \/ state[c] = "closed" /\ score[c] + 1 >= Threshold /\ Become(c, "open")
     \/ state[c] = "half-open" /\ Become(c, "open")

Next ==
  \/ \E c \in Configs : Elapse(c)
  \/ \E k \in Calls : Admit(k) \/ Refuse(k) \/ Succeed(k) \/ Fail(k)

Spec == Init /\ [][Next]_vars
=============================================================================
