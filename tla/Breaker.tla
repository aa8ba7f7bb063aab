------------------------------- MODULE Breaker -------------------------------
(***************************************************************************)
(* Calls to external executors: the retry loop around a call               *)
(* (execute_workflow.go), the manager that keeps one circuit breaker per   *)
(* key (pkg/circuitbreaker) and the breakers themselves, which are those   *)
(* of gobreaker: a result counts only in the generation it was admitted in.*)
(*                                                                         *)
(* A call is one run of the loop, by one executor node of one execution.   *)
(* Module Template composes two of them with the execution they belong to. *)
(***************************************************************************)
EXTENDS Naturals, FiniteSets

CONSTANTS
  Calls,           \* runs of the retry loop
  Configs,         \* provider configurations
  ConfigOf,        \* the provider configuration of a call
  Breakers,        \* identities of breakers: bound on their creation
  Threshold,       \* consecutive failures that open a breaker
  MaxRequests,     \* calls a half-open breaker lets through
  MaxRetries,      \* attempts of a call
  Missing          \* no breaker

ASSUME ConstantsAssumption ==
  /\ IsFiniteSet(Calls)
  /\ ConfigOf \in [Calls -> Configs]
  /\ Missing \notin Breakers
  /\ Threshold \in Nat \ {0}
  /\ MaxRequests \in Nat \ {0}
  /\ MaxRetries \in Nat \ {0}

\* There is always one more breaker to create.
ASSUME BreakersAssumption ==
  \A used \in [Configs -> Breakers \cup {Missing}] :
    (\E c \in Configs : used[c] = Missing)
      => \E b \in Breakers : \A c \in Configs : used[c] # b

VARIABLES
  breakers,    \* the manager's map from configurations to breakers
  breaker,     \* breaker[b]: the state of b
  call,        \* call[k]: where the loop of k is
  elapsed,     \* breakers whose open period is over
  failures     \* failures[c]: runs of c's executors since the last success or
               \* the last open period that ended

breakerVars == <<breakers, breaker, call, elapsed, failures>>

-----------------------------------------------------------------------------
(* Data *)

BreakerStates ==
  [state : {"closed", "open", "half-open"}, generation : Nat, requests : Nat,
   successes : Nat, failures : Nat]

CallStates ==
  [pc : {"ready", "missing", "admission", "running", "backoff",
         "ok", "error", "refused", "cancelled"},
   attempt : 1..MaxRetries, cb : Breakers \cup {Missing}, generation : Nat,
   admitted : {"none", "closed", "half-open"}]

TypeOK ==
  /\ breakers \in [Configs -> Breakers \cup {Missing}]
  /\ breaker \in [Breakers -> BreakerStates]
  /\ call \in [Calls -> CallStates]
  /\ elapsed \subseteq Breakers
  /\ failures \in [Configs -> Nat]

Ended == {"ok", "error", "refused", "cancelled"}

\* A new generation starts with every change of state.
Become(b, state) ==
  [state |-> state, generation |-> b.generation + 1, requests |-> 0,
   successes |-> 0, failures |-> 0]

\* The state of b when it is looked at: the open period may be over.
Current(b) ==
  IF breaker[b].state = "open" /\ b \in elapsed
  THEN Become(breaker[b], "half-open")
  ELSE breaker[b]

\* Mutant: the threshold is never reached.
NeverTrips(b) == FALSE

\* ReadyToTrip.
Trips(b) == b.failures + 1 >= Threshold

Counted(b, success) ==
  CASE b.state = "closed" /\ success ->
         [b EXCEPT !.successes = @ + 1, !.failures = 0]
    [] b.state = "closed" /\ ~success ->
         IF Trips(b) THEN Become(b, "open")
         ELSE [b EXCEPT !.failures = @ + 1, !.successes = 0]
    [] b.state = "half-open" /\ success ->
         IF b.successes + 1 >= MaxRequests THEN Become(b, "closed")
         ELSE [b EXCEPT !.successes = @ + 1]
    [] OTHER -> Become(b, "open")

\* Mutant: a result counts in whatever generation the breaker is.
AfterAnyRequest(b, generation, success) ==
  IF Current(b).state = "open" THEN Current(b) ELSE Counted(Current(b), success)

\* Mutant: a half-open breaker waits for a second success.
AfterSlowly(b, generation, success) ==
  IF Current(b).generation # generation \/ Current(b).state = "half-open"
  THEN Current(b)
  ELSE Counted(Current(b), success)

\* afterRequest: the result of an earlier generation is dropped.
AfterRequest(b, generation, success) ==
  IF Current(b).generation # generation THEN Current(b)
  ELSE Counted(Current(b), success)

\* The open periods that are over, once b is in that state.
Elapsed(b, state) == IF state = "open" THEN elapsed ELSE elapsed \ {b}

\* Mutant: a half-open breaker lets everybody through.
AdmitsAll(b) == b.state # "open"

Admits(b) ==
  \/ b.state = "closed"
  \/ b.state = "half-open" /\ b.requests < MaxRequests

-----------------------------------------------------------------------------
(* The manager *)

\* A new breaker: which one does not matter.
Fresh == CHOOSE b \in Breakers : \A c \in Configs : breakers[c] # b

\* Mutant: any breaker will do.
LookupAny(k) ==
  \E cb \in {breakers[c] : c \in Configs} :
    /\ call[k].pc = "ready"
    /\ (\A c \in Configs : breakers[c] = Missing) \/ cb # Missing
    /\ call' = [call EXCEPT ![k].pc = IF cb = Missing THEN "missing" ELSE "admission",
                            ![k].cb = cb]
    /\ UNCHANGED <<breakers, breaker, elapsed, failures>>

\* getOrCreate with the read lock.
Lookup(k) ==
  LET cb == breakers[ConfigOf[k]] IN
  /\ call[k].pc = "ready"
  /\ call' = [call EXCEPT ![k].pc = IF cb = Missing THEN "missing" ELSE "admission",
                          ![k].cb = cb]
  /\ UNCHANGED <<breakers, breaker, elapsed, failures>>

\* Mutant: no second look.
CreateAlways(k) ==
  LET c == ConfigOf[k] IN
  /\ call[k].pc = "missing"
  /\ breakers' = [breakers EXCEPT ![c] = Fresh]
  /\ call' = [call EXCEPT ![k].pc = "admission", ![k].cb = breakers'[c]]
  /\ UNCHANGED <<breaker, elapsed, failures>>

\* getOrCreate with the write lock: somebody may have been faster.
Create(k) ==
  LET c == ConfigOf[k] IN
  /\ call[k].pc = "missing"
  /\ breakers' = [breakers EXCEPT ![c] = IF @ = Missing THEN Fresh ELSE @]
  /\ call' = [call EXCEPT ![k].pc = "admission", ![k].cb = breakers'[c]]
  /\ UNCHANGED <<breaker, elapsed, failures>>

-----------------------------------------------------------------------------
(* A call *)

\* executeRunnerWithRetry: no runner is registered for the executor.
NoRunner(k) ==
  /\ call[k].pc = "ready"
  /\ call[k].attempt = 1
  /\ call' = [call EXCEPT ![k].pc = "error"]
  /\ UNCHANGED <<breakers, breaker, elapsed, failures>>

\* beforeRequest lets the call run.
Admit(k) ==
  LET cb == call[k].cb
      b  == Current(cb) IN
  /\ call[k].pc = "admission"
  /\ Admits(b)
  /\ breaker' = [breaker EXCEPT ![cb] = [b EXCEPT !.requests = @ + 1]]
  /\ elapsed' = Elapsed(cb, b.state)
  /\ call' = [call EXCEPT ![k].pc = "running", ![k].generation = b.generation,
                          ![k].admitted = b.state]
  /\ failures' = [failures EXCEPT ![ConfigOf[k]] = @ + 1]
  /\ UNCHANGED breakers

\* Mutant: the call asks again and again.
RefuseAndRetry(k) ==
  LET b == Current(call[k].cb) IN
  /\ call[k].pc = "admission"
  /\ ~Admits(b)
  /\ call' = [call EXCEPT ![k].pc = "ready"]
  /\ UNCHANGED <<breakers, breaker, elapsed, failures>>

\* ErrOpenState or ErrTooManyRequests: the call is not retried.
Refuse(k) ==
  LET cb == call[k].cb
      b  == Current(cb) IN
  /\ call[k].pc = "admission"
  /\ ~Admits(b)
  /\ breaker' = [breaker EXCEPT ![cb] = b]
  /\ elapsed' = Elapsed(cb, b.state)
  /\ call' = [call EXCEPT ![k].pc = "refused"]
  /\ UNCHANGED <<breakers, failures>>

Result(k, success, pc) ==
  LET cb == call[k].cb
      b  == AfterRequest(cb, call[k].generation, success) IN
  /\ call[k].pc = "running"
  /\ breaker' = [breaker EXCEPT ![cb] = b]
  /\ elapsed' = Elapsed(cb, b.state)
  /\ call' = [call EXCEPT ![k].pc = pc, ![k].admitted = "none"]
  /\ UNCHANGED breakers

Succeed(k) ==
  /\ Result(k, TRUE, "ok")
  /\ failures' = [failures EXCEPT ![ConfigOf[k]] = 0]

\* Mutant: one attempt too many.
AfterLast(k) == call[k].attempt > MaxRetries

Last(k) == call[k].attempt = MaxRetries

\* The executor answers with an error, or does not answer in time.  The runner
\* tells of either in a text, so that a context that is over is not known from
\* any other error: it ends the loop in the wait.
Fail(k) ==
  /\ Result(k, FALSE, IF Last(k) THEN "error" ELSE "backoff")
  /\ UNCHANGED failures

\* The wait is over.
Retry(k) ==
  /\ call[k].pc = "backoff"
  /\ call' = [call EXCEPT ![k].pc = "ready", ![k].attempt = @ + 1]
  /\ UNCHANGED <<breakers, breaker, elapsed, failures>>

\* The context of the execution ends during the wait.
GiveUp(k) ==
  /\ call[k].pc = "backoff"
  /\ call' = [call EXCEPT ![k].pc = "cancelled"]
  /\ UNCHANGED <<breakers, breaker, elapsed, failures>>

\* Thirty seconds after b opened.
Elapse(b) ==
  /\ breaker[b].state = "open"
  /\ b \notin elapsed
  /\ elapsed' = elapsed \cup {b}
  /\ failures' = [c \in Configs |-> IF breakers[c] = b THEN 0 ELSE failures[c]]
  /\ UNCHANGED <<breakers, breaker, call>>

BreakerInit ==
  /\ breakers = [c \in Configs |-> Missing]
  /\ breaker = [b \in Breakers |->
       [state |-> "closed", generation |-> 0, requests |-> 0, successes |-> 0,
        failures |-> 0]]
  /\ call = [k \in Calls |->
       [pc |-> "ready", attempt |-> 1, cb |-> Missing, generation |-> 0,
        admitted |-> "none"]]
  /\ elapsed = {}
  /\ failures = [c \in Configs |-> 0]

Proceed(k) ==
  \/ Lookup(k) \/ Create(k) \/ NoRunner(k) \/ Admit(k) \/ Refuse(k)
  \/ Succeed(k) \/ Fail(k) \/ Retry(k) \/ GiveUp(k)

-----------------------------------------------------------------------------
(* Properties *)

\* Calls that go to one configuration share one breaker, also when the first
\* ones race to create it (breaker.go:48-79).
OneBreaker ==
  \A k \in Calls :
    call[k].pc \in {"admission", "running"} => call[k].cb = breakers[ConfigOf[k]]

\* A run of k's executor failed or was interrupted.
Failed(k) ==
  call[k].attempt > 1 \/ call[k].pc \in {"backoff", "error", "cancelled"}

\* A call is refused only after calls with its own configuration failed: one
\* failing configuration does not stop the others.
Isolation ==
  \A k \in Calls : call[k].pc = "refused" =>
    \E j \in Calls : ConfigOf[j] = ConfigOf[k] /\ Failed(j)

\* A configuration whose calls fail one after the other is called a bounded
\* number of times before the breaker refuses: the failures that open it, and
\* one for each call that was admitted before it opened.
FailuresBounded ==
  \A c \in Configs : failures[c] <= Threshold + Cardinality(Calls) - 1

\* Of a half-open breaker no more than MaxRequests calls are running.
OneProbe ==
  \A b \in Breakers : breaker[b].state = "half-open" =>
    Cardinality({k \in Calls : /\ call[k].pc = "running" /\ call[k].cb = b
                               /\ call[k].admitted = "half-open"}) <= MaxRequests

\* A breaker that opened closes by the success of a call admitted after that,
\* never by the late answer of an older one.
ClosesByProbe ==
  [][\A b \in Breakers :
       breaker[b].state # "closed" /\ breaker'[b].state = "closed" =>
         \E k \in Calls : /\ call[k].cb = b /\ call[k].admitted = "half-open"
                          /\ call'[k].pc = "ok"]_breakerVars

\* The circuit of a configuration, as whoever looks at its breaker finds it.
Has(c) == breakers[c] # Missing
StateOf(c) == IF Has(c) THEN Current(breakers[c]).state ELSE "closed"
FlightOf(c) ==
  {k \in Calls : /\ call[k].pc = "running" /\ ConfigOf[k] = c
                 /\ call[k].generation = Current(breakers[c]).generation}
ScoreOf(c) ==
  IF ~Has(c) \/ StateOf(c) = "open" THEN 0
  ELSE IF StateOf(c) = "closed" THEN Current(breakers[c]).failures
  ELSE Current(breakers[c]).successes

CB == INSTANCE Circuit WITH
  state   <- [c \in Configs |-> StateOf(c)],
  flight  <- [c \in Configs |-> FlightOf(c)],
  score   <- [c \in Configs |-> ScoreOf(c)],
  refused <- {k \in Calls : call[k].pc = "refused"}

\* Breakers made on demand by calls that race, which change their state when
\* somebody looks at them and drop the results of earlier generations, are the
\* circuits that were promised (breaker.go:48-79 and gobreaker).
ImplementsCircuit == CB!Spec

\* A half-open breaker with a call on the way closes or opens again: it does
\* not refuse every other call for ever.
ProbeDecides ==
  \A b \in Breakers :
    breaker[b].state = "half-open" /\ breaker[b].requests > 0
      ~> breaker[b].state # "half-open"

\* Every retry loop that has begun ends.
CallsEnd ==
  \A k \in Calls :
    call[k].pc \in {"missing", "admission", "running", "backoff"}
      ~> call[k].pc \in Ended
=============================================================================
