--------------------------- MODULE TemplateProofs ---------------------------
(***************************************************************************)
(* Proofs about Breaker and Template: for every number of calls,           *)
(* configurations, attempts and decisions, and for every threshold, a      *)
(* configuration has one breaker that is opened by its own failures after  *)
(* a bounded number of calls, and the transaction is booked only if it was *)
(* allowed and no more often than the attempts of its node.                *)
(*                                                                         *)
(* The first part is about Breaker alone, whose steps CallStep collects;   *)
(* every step of Template is one of these or leaves the breakers alone.    *)
(* The second shows that what whoever looks at a breaker finds is the      *)
(* circuit that module Circuit promises its configuration.  The third is   *)
(* the execution.                                                          *)
(***************************************************************************)
EXTENDS MCTemplate, FiniteSetTheorems, TLAPS

CallStep ==
  \/ \E k \in Calls : Proceed(k)
  \/ \E b \in Breakers : Elapse(b)

-----------------------------------------------------------------------------
(* The inductive invariant of the breakers *)

\* No two configurations share a breaker.
OwnBreakers ==
  \A c, d \in Configs : breakers[c] # Missing /\ breakers[c] = breakers[d] => c = d

\* A breaker that nobody uses has not opened.
UnusedIsClosed ==
  \A b \in Breakers : (\A c \in Configs : breakers[c] # b) => breaker[b].state = "closed"

ClosedIsBelow ==
  \A b \in Breakers : breaker[b].state = "closed" => breaker[b].failures < Threshold

ElapsedIsOpen == \A b \in elapsed : breaker[b].state = "open"

\* A call that runs was admitted in a generation that is over, or in the
\* current one, whose state is the one in which it was admitted.
RunsAreKnown ==
  \A k \in Calls : call[k].pc = "running" =>
    /\ call[k].generation <= breaker[call[k].cb].generation
    /\ call[k].admitted \in {"closed", "half-open"}
    /\ call[k].generation = breaker[call[k].cb].generation
         => call[k].admitted = breaker[call[k].cb].state

\* The calls that run in the current generation of b.
Runs(b) ==
  {k \in Calls : /\ call[k].pc = "running" /\ call[k].cb = b
                 /\ call[k].generation = breaker[b].generation}

\* A half-open breaker has counted them.
ProbesAreCounted ==
  \A b \in Breakers : breaker[b].state = "half-open" =>
    /\ Cardinality(Runs(b)) <= breaker[b].requests
    /\ breaker[b].requests <= MaxRequests

\* A breaker that is not closed has seen a failure of its own configuration.
OpenedByFailure ==
  \A c \in Configs :
    breakers[c] # Missing /\ breaker[breakers[c]].state # "closed" =>
      \E j \in Calls : ConfigOf[j] = c /\ Failed(j)

\* What failures[c] counts: the failures that the breaker has counted and the
\* calls that run; after the open period it starts again.
FailuresCounted(c) ==
  /\ breakers[c] = Missing => failures[c] = 0
  /\ breakers[c] # Missing =>
       LET b == breakers[c] IN
         /\ breaker[b].state = "closed"
              => failures[c] <= breaker[b].failures + Cardinality(Runs(b))
         /\ breaker[b].state = "half-open" => failures[c] <= Cardinality(Runs(b))
         /\ breaker[b].state = "open" =>
              /\ b \in elapsed => failures[c] = 0
              /\ failures[c] <= Threshold + Cardinality(Calls) - 1

\* Who waits for a breaker or runs under one has it.
HasBreaker ==
  \A k \in Calls : call[k].pc \in {"admission", "running"} => call[k].cb \in Breakers

\* Nobody waits for another attempt after the last.
BackoffIsBelow ==
  \A k \in Calls : call[k].pc = "backoff" => call[k].attempt < MaxRetries

\* How the breakers, the calls and the open periods hang together.
LinkInv ==
  /\ TypeOK
  /\ OneBreaker
  /\ HasBreaker
  /\ OwnBreakers
  /\ UnusedIsClosed
  /\ ClosedIsBelow
  /\ ElapsedIsOpen
  /\ RunsAreKnown
  /\ BackoffIsBelow

CountInv ==
  /\ ProbesAreCounted
  /\ \A c \in Configs : FailuresCounted(c)

BlameInv ==
  /\ OpenedByFailure
  /\ Isolation

BInv == LinkInv /\ CountInv /\ BlameInv

-----------------------------------------------------------------------------
(* What a step does to one breaker *)

USE ConstantsAssumption

LEMMA TypeOfBecome ==
  ASSUME NEW b \in BreakerStates, NEW state \in {"closed", "open", "half-open"}
  PROVE  Become(b, state) \in BreakerStates
  BY DEF Become, BreakerStates

\* The counts of a generation change, the rest stays.
Recount(b, n, m) == [b EXCEPT !.successes = n, !.failures = m]

LEMMA TypeOfRecount ==
  ASSUME NEW b \in BreakerStates, NEW n \in Nat, NEW m \in Nat
  PROVE  /\ Recount(b, n, m) \in BreakerStates
         /\ Recount(b, n, m).state = b.state
         /\ Recount(b, n, m).generation = b.generation
         /\ Recount(b, n, m).requests = b.requests
         /\ Recount(b, n, m).failures = m
  BY DEF BreakerStates, Recount

\* To look at a breaker may end its open period, which starts a generation.
LEMMA LookedAt ==
  ASSUME TypeOK, NEW b \in Breakers
  PROVE  /\ Current(b) \in BreakerStates
         /\ \/ /\ Current(b) = breaker[b]
               /\ breaker[b].state = "open" => b \notin elapsed
            \/ /\ breaker[b].state = "open" /\ b \in elapsed
               /\ Current(b).state = "half-open"
               /\ Current(b).generation = breaker[b].generation + 1
               /\ Current(b).requests = 0
  <1>1. breaker[b] \in BreakerStates
    BY DEF TypeOK
  <1>2. QED
    BY <1>1, TypeOfBecome DEF Current, Become, BreakerStates

\* The state of a breaker after a success, and after a failure, that counts.
Succeeded(b) == Counted(b, TRUE)

HasFailed(b) == Counted(b, FALSE)

\* A success that counts is added, or closes a half-open breaker.
LEMMA SuccessCounted ==
  ASSUME NEW b \in BreakerStates, b.state # "open",
         b.state = "closed" => b.failures < Threshold
  PROVE  /\ Succeeded(b) \in BreakerStates
         /\ \/ /\ Succeeded(b).generation = b.generation
               /\ Succeeded(b).state = b.state
               /\ Succeeded(b).requests = b.requests
               /\ b.state = "closed" => Succeeded(b).failures = 0
               /\ b.state = "half-open" => b.successes + 1 < MaxRequests
            \/ /\ b.state = "half-open"
               /\ Succeeded(b) = Become(b, "closed")
  <1>1. b.failures \in Nat /\ b.successes \in Nat /\ b.generation \in Nat /\ b.requests \in Nat
        /\ b.state \in {"closed", "open", "half-open"}
    BY DEF BreakerStates
  <1>2. CASE b.state = "closed"
    <2>1. PICK n \in Nat, m \in Nat : n = b.successes + 1 /\ m = 0
      BY <1>1
    <2>2. Succeeded(b) = Recount(b, n, m)
      BY <1>2, <2>1 DEF Succeeded, Counted, BreakerStates, Recount
    <2>3. Succeeded(b) \in BreakerStates
      BY <2>2, TypeOfRecount
    <2>4. /\ Succeeded(b).generation = b.generation /\ Succeeded(b).state = b.state
          /\ Succeeded(b).requests = b.requests /\ Succeeded(b).failures = m
      BY <2>2, TypeOfRecount
    <2>5. QED
      BY <1>2, <2>1, <2>3, <2>4
  <1>3. CASE b.state = "half-open"
    <2>1. Succeeded(b) = IF b.successes + 1 >= MaxRequests THEN Become(b, "closed")
                             ELSE [b EXCEPT !.successes = @ + 1]
      BY <1>3 DEF Succeeded, Counted
    <2>2. CASE b.successes + 1 >= MaxRequests
      BY <1>1, <1>3, <2>1, <2>2, TypeOfBecome
    <2>3. CASE ~(b.successes + 1 >= MaxRequests)
      <3>1. PICK n \in Nat, m \in Nat : n = b.successes + 1 /\ m = b.failures
        BY <1>1
      <3>2. Succeeded(b) = Recount(b, n, m)
        BY <2>1, <2>3, <3>1 DEF BreakerStates, Recount
      <3>3. b.successes + 1 < MaxRequests
        BY <1>1, <2>3
      <3>4. Succeeded(b) \in BreakerStates
        BY <3>2, TypeOfRecount
      <3>5. /\ Succeeded(b).generation = b.generation /\ Succeeded(b).state = b.state
            /\ Succeeded(b).requests = b.requests
        BY <3>2, TypeOfRecount
      <3>6. QED
        BY <1>3, <3>3, <3>4, <3>5
    <2>4. QED
      BY <2>2, <2>3
  <1>4. QED
    BY <1>1, <1>2, <1>3

\* A failure that counts is added below the threshold, or opens the breaker.
LEMMA FailureCounted ==
  ASSUME NEW b \in BreakerStates, b.state # "open"
  PROVE  /\ HasFailed(b) \in BreakerStates
         /\ \/ /\ b.state = "closed" /\ b.failures + 1 < Threshold
               /\ HasFailed(b).generation = b.generation
               /\ HasFailed(b).state = "closed"
               /\ HasFailed(b).requests = b.requests
               /\ HasFailed(b).failures = b.failures + 1
            \/ HasFailed(b) = Become(b, "open")
  <1>1. b.failures \in Nat /\ b.successes \in Nat /\ b.generation \in Nat /\ b.requests \in Nat
        /\ b.state \in {"closed", "open", "half-open"}
    BY DEF BreakerStates
  <1>2. CASE b.state = "closed"
    <2>1. HasFailed(b) = IF Trips(b) THEN Become(b, "open")
                              ELSE [b EXCEPT !.failures = @ + 1, !.successes = 0]
      BY <1>2 DEF HasFailed, Counted
    <2>2. CASE Trips(b)
      BY <2>1, <2>2, TypeOfBecome
    <2>3. CASE ~Trips(b)
      <3>1. PICK n \in Nat, m \in Nat : n = 0 /\ m = b.failures + 1 /\ m < Threshold
        BY <1>1, <2>3 DEF Trips
      <3>2. HasFailed(b) = Recount(b, n, m)
        BY <2>1, <2>3, <3>1 DEF BreakerStates, Recount
      <3>3. HasFailed(b) \in BreakerStates
        BY <3>2, TypeOfRecount
      <3>4. /\ HasFailed(b).generation = b.generation /\ HasFailed(b).state = b.state
            /\ HasFailed(b).requests = b.requests /\ HasFailed(b).failures = m
        BY <3>2, TypeOfRecount
      <3>5. QED
        BY <1>2, <3>1, <3>3, <3>4
    <2>4. QED
      BY <2>2, <2>3
  <1>3. CASE b.state = "half-open"
    <2>1. HasFailed(b) = Become(b, "open")
      BY <1>3 DEF HasFailed, Counted
    <2>2. QED
      BY <2>1, TypeOfBecome
  <1>4. QED
    BY <1>1, <1>2, <1>3

-----------------------------------------------------------------------------
(* Steps of the calls: what becomes of the links *)

\* A step of k changes nothing of the other calls.
Others(k) == \A j \in Calls \ {k} : call'[j] = call[j]

\* The call k moves, and no breaker does.
LEMMA QuietLinks ==
  ASSUME LinkInv, NEW k \in Calls, Others(k), call' \in [Calls -> CallStates],
         UNCHANGED <<breakers, breaker, elapsed>>, failures' \in [Configs -> Nat],
         call'[k].pc # "running",
         call'[k].pc = "admission" =>
           call'[k].cb = breakers[ConfigOf[k]] /\ call'[k].cb # Missing,
         call'[k].pc # "backoff"
  PROVE  LinkInv'
  <1> USE DEF LinkInv, Others
  <1>1. TypeOK'
    BY DEF TypeOK
  <1>2. OneBreaker'
    BY DEF OneBreaker
  <1>3. HasBreaker'
    <2>1. ConfigOf[k] \in Configs
      OBVIOUS
    <2>2. breakers[ConfigOf[k]] \in Breakers \cup {Missing}
      BY <2>1 DEF TypeOK
    <2>3. QED
      BY <2>2 DEF HasBreaker
  <1>4. OwnBreakers' /\ UnusedIsClosed' /\ ClosedIsBelow' /\ ElapsedIsOpen'
    BY DEF OwnBreakers, UnusedIsClosed, ClosedIsBelow, ElapsedIsOpen
  <1>5. RunsAreKnown'
    BY DEF RunsAreKnown
  <1>6. BackoffIsBelow'
    BY DEF BackoffIsBelow
  <1>7. QED
    BY <1>1, <1>2, <1>3, <1>4, <1>5, <1>6

\* The call k moves, and with it its breaker: to the same state in the same
\* generation, or to a later generation.
LEMMA MoveLinks ==
  ASSUME LinkInv, NEW k \in Calls, Others(k), call' \in [Calls -> CallStates],
         call[k].pc \in {"admission", "running"},
         NEW new \in BreakerStates, breaker' = [breaker EXCEPT ![call[k].cb] = new],
         elapsed' = Elapsed(call[k].cb, new.state),
         UNCHANGED breakers, failures' \in [Configs -> Nat],
         call'[k].cb = call[k].cb,
         new.generation >= breaker[call[k].cb].generation,
         new.generation = breaker[call[k].cb].generation
           => new.state = breaker[call[k].cb].state,
         new.state = "closed" => new.failures < Threshold,
         call'[k].pc = "running" =>
           /\ call'[k].generation = new.generation
           /\ call'[k].admitted = new.state /\ new.state # "open",
         call'[k].pc = "backoff" => call'[k].attempt < MaxRetries
  PROVE  LinkInv'
  <1> USE DEF LinkInv, Others
  <1> DEFINE cb == call[k].cb
  <1>1. cb \in Breakers /\ cb = breakers[ConfigOf[k]] /\ ConfigOf[k] \in Configs
    BY DEF HasBreaker, OneBreaker
  <1>2. /\ breaker' \in [Breakers -> BreakerStates]
        /\ breaker'[cb] = new
        /\ \A b \in Breakers \ {cb} : breaker'[b] = breaker[b]
    BY <1>1 DEF TypeOK
  <1>3. elapsed' \subseteq elapsed /\ (cb \in elapsed' => new.state = "open")
    BY DEF Elapsed
  <1>4. TypeOK'
    BY <1>2, <1>3 DEF TypeOK
  <1>5. OneBreaker' /\ HasBreaker'
    BY DEF OneBreaker, HasBreaker
  <1>6. OwnBreakers' /\ UnusedIsClosed'
    BY <1>1, <1>2 DEF OwnBreakers, UnusedIsClosed
  <1>7. ClosedIsBelow' /\ ElapsedIsOpen'
    BY <1>2, <1>3 DEF ClosedIsBelow, ElapsedIsOpen, TypeOK
  <1>8. RunsAreKnown'
    <2>1. SUFFICES ASSUME NEW j \in Calls, call'[j].pc = "running"
                   PROVE  /\ call'[j].generation <= breaker'[call'[j].cb].generation
                          /\ call'[j].admitted \in {"closed", "half-open"}
                          /\ call'[j].generation = breaker'[call'[j].cb].generation
                               => call'[j].admitted = breaker'[call'[j].cb].state
      BY DEF RunsAreKnown
    <2>2. CASE j = k
      <3>1. new.state \in {"closed", "half-open"} /\ new.generation \in Nat
        BY <2>1, <2>2 DEF BreakerStates
      <3>2. breaker'[call'[j].cb] = new
        BY <1>2, <2>2
      <3>3. QED
        BY <2>1, <2>2, <3>1, <3>2
    <2>3. CASE j # k /\ call[j].cb # cb
      <3>1. call[j].cb \in Breakers /\ call'[j] = call[j]
        BY <2>1, <2>3 DEF HasBreaker
      <3>2. breaker'[call[j].cb] = breaker[call[j].cb]
        BY <1>2, <2>3, <3>1
      <3>3. QED
        BY <2>1, <3>1, <3>2 DEF RunsAreKnown
    <2>4. CASE j # k /\ call[j].cb = cb
      <3>1. /\ call[j].generation <= breaker[cb].generation
            /\ call[j].admitted \in {"closed", "half-open"}
            /\ call[j].generation = breaker[cb].generation
                 => call[j].admitted = breaker[cb].state
        BY <2>1, <2>4 DEF RunsAreKnown
      <3>2. call'[j] = call[j] /\ breaker'[call'[j].cb] = new
        BY <1>2, <2>4
      <3>3. call[j].generation \in Nat /\ breaker[cb].generation \in Nat /\ new.generation \in Nat
        BY <1>1 DEF TypeOK, CallStates, BreakerStates
      <3>4. QED
        BY <3>1, <3>2, <3>3
    <2>5. QED
      BY <2>2, <2>3, <2>4
  <1>9. BackoffIsBelow'
    BY DEF BackoffIsBelow
  <1>10. QED
    BY <1>4, <1>5, <1>6, <1>7, <1>8, <1>9

LEMMA LinksWhenQuiet ==
  ASSUME LinkInv, NEW k \in Calls,
         Lookup(k) \/ NoRunner(k) \/ Retry(k) \/ GiveUp(k)
  PROVE  LinkInv'
  <1>1. /\ call \in [Calls -> CallStates] /\ failures \in [Configs -> Nat]
        /\ ConfigOf[k] \in Configs /\ breakers[ConfigOf[k]] \in Breakers \cup {Missing}
    BY DEF LinkInv, TypeOK
  <1>2. CASE Lookup(k)
    <2> DEFINE cb == breakers[ConfigOf[k]]
               pc == IF cb = Missing THEN "missing" ELSE "admission"
    <2>1. call' = [call EXCEPT ![k].pc = pc, ![k].cb = cb]
      BY <1>2 DEF Lookup
    <2>2. pc \in {"missing", "admission"} /\ cb \in Breakers \cup {Missing}
      BY <1>1
    <2> HIDE DEF pc, cb
    <2>3. Others(k) /\ call' \in [Calls -> CallStates] /\ call'[k].pc = pc /\ call'[k].cb = cb
      BY <1>1, <2>1, <2>2, ZenonT(60) DEF CallStates, Others
    <2>4. QED
      BY <1>1, <1>2, <2>2, <2>3, QuietLinks DEF Lookup, pc, cb
  <1>3. CASE NoRunner(k)
    <2>1. Others(k) /\ call' \in [Calls -> CallStates] /\ call'[k].pc = "error"
      BY <1>1, <1>3 DEF NoRunner, CallStates, Others
    <2>2. QED
      BY <1>1, <1>3, <2>1, QuietLinks DEF NoRunner
  <1>4. CASE GiveUp(k)
    <2>1. Others(k) /\ call' \in [Calls -> CallStates] /\ call'[k].pc = "cancelled"
      BY <1>1, <1>4 DEF GiveUp, CallStates, Others
    <2>2. QED
      BY <1>1, <1>4, <2>1, QuietLinks DEF GiveUp
  <1>5. CASE Retry(k)
    <2>1. PICK n \in 1..MaxRetries : n = call[k].attempt + 1
      BY <1>1, <1>5 DEF Retry, LinkInv, BackoffIsBelow, CallStates
    <2>2. call' = [call EXCEPT ![k].pc = "ready", ![k].attempt = n]
      BY <1>1, <1>5, <2>1 DEF Retry
    <2>3. Others(k) /\ call' \in [Calls -> CallStates] /\ call'[k].pc = "ready"
      BY <1>1, <2>2, ZenonT(60) DEF CallStates, Others
    <2>4. QED
      BY <1>1, <1>5, <2>3, QuietLinks DEF Retry
  <1>6. QED
    BY <1>2, <1>3, <1>4, <1>5

\* The second look creates a breaker only if there is still none, and an unused one.
LEMMA LinksWhenCreated ==
  ASSUME LinkInv, NEW k \in Calls, Create(k)
  PROVE  LinkInv'
  <1> DEFINE c == ConfigOf[k]
  <1>1. /\ call \in [Calls -> CallStates] /\ failures \in [Configs -> Nat]
        /\ breakers \in [Configs -> Breakers \cup {Missing}]
        /\ c \in Configs /\ breakers[c] \in Breakers \cup {Missing}
    BY DEF LinkInv, TypeOK
  <1>2. PICK b \in Breakers :
          /\ breakers' = [breakers EXCEPT ![c] = b]
          /\ breakers[c] = Missing => \A d \in Configs : breakers[d] # b
          /\ breakers[c] # Missing => breakers[c] = b
    <2>1. CASE breakers[c] = Missing
      <3>1. \E b \in Breakers : \A d \in Configs : breakers[d] # b
        BY <1>1, <2>1, BreakersAssumption
      <3>2. Fresh \in Breakers /\ \A d \in Configs : breakers[d] # Fresh
        BY <3>1 DEF Fresh
      <3>3. QED
        BY <1>1, <2>1, <3>2 DEF Create
    <2>2. CASE breakers[c] # Missing
      BY <1>1, <2>2 DEF Create
    <2>3. QED
      BY <2>1, <2>2
  <1>3. breakers'[c] = b /\ \A d \in Configs \ {c} : breakers'[d] = breakers[d]
    BY <1>1, <1>2
  <1>4. call' = [call EXCEPT ![k].pc = "admission", ![k].cb = b]
    BY <1>3 DEF Create
  <1>5. /\ Others(k) /\ call' \in [Calls -> CallStates]
        /\ call'[k].pc = "admission" /\ call'[k].cb = b
    BY <1>1, <1>4, ZenonT(60) DEF CallStates, Others
  <1>6. UNCHANGED <<breaker, elapsed, failures>>
    BY DEF Create
  <1>7. b # Missing
    OBVIOUS
  <1>8. CASE breakers[c] # Missing
    <2>1. breakers' = breakers
      BY <1>1, <1>2, <1>8
    <2>2. QED
      BY <1>1, <1>2, <1>5, <1>6, <1>7, <1>8, <2>1, QuietLinks
  <1>9. CASE breakers[c] = Missing
    <2>1. TypeOK'
      BY <1>1, <1>2, <1>5, <1>6 DEF TypeOK, LinkInv
    <2>2. OneBreaker'
      <3>1. SUFFICES ASSUME NEW j \in Calls, j # k, call[j].pc \in {"admission", "running"}
                     PROVE  call[j].cb = breakers'[ConfigOf[j]]
        BY <1>3, <1>5 DEF OneBreaker, Others
      <3>2. ConfigOf[j] \in Configs /\ call[j].cb = breakers[ConfigOf[j]] /\ call[j].cb # Missing
        BY <3>1 DEF LinkInv, OneBreaker, HasBreaker
      <3>3. QED
        BY <1>3, <1>9, <3>2
    <2>3. HasBreaker'
      BY <1>5 DEF LinkInv, HasBreaker, Others
    <2>4. OwnBreakers' /\ UnusedIsClosed'
      BY <1>2, <1>3, <1>6, <1>9 DEF LinkInv, OwnBreakers, UnusedIsClosed
    <2>5. ClosedIsBelow' /\ ElapsedIsOpen'
      BY <1>6 DEF LinkInv, ClosedIsBelow, ElapsedIsOpen
    <2>6. RunsAreKnown' /\ BackoffIsBelow'
      BY <1>5, <1>6 DEF LinkInv, RunsAreKnown, BackoffIsBelow, Others
    <2>7. QED
      BY <2>1, <2>2, <2>3, <2>4, <2>5, <2>6 DEF LinkInv
  <1>10. QED
    BY <1>8, <1>9

\* The breaker of a call that waits for it or runs, as it is looked at.
LEMMA CurrentOfCall ==
  ASSUME LinkInv, NEW k \in Calls, call[k].pc \in {"admission", "running"}
  PROVE  /\ call[k] \in CallStates /\ call[k].cb \in Breakers
         /\ call[k].cb = breakers[ConfigOf[k]] /\ ConfigOf[k] \in Configs
         /\ breaker[call[k].cb] \in BreakerStates
         /\ Current(call[k].cb) \in BreakerStates
         /\ Current(call[k].cb).generation >= breaker[call[k].cb].generation
         /\ Current(call[k].cb).generation = breaker[call[k].cb].generation
              => Current(call[k].cb) = breaker[call[k].cb]
         /\ Current(call[k].cb).state = "closed" =>
              /\ Current(call[k].cb).failures < Threshold
              /\ Current(call[k].cb) = breaker[call[k].cb]
  <1>1. call[k].cb \in Breakers /\ TypeOK
    BY DEF LinkInv, HasBreaker
  <1>2. call[k] \in CallStates /\ breaker[call[k].cb] \in BreakerStates
    BY <1>1 DEF TypeOK
  <1>3. breaker[call[k].cb].generation \in Nat
    BY <1>2 DEF BreakerStates
  <1>4. QED
    BY <1>1, <1>2, <1>3, LookedAt DEF LinkInv, ClosedIsBelow, OneBreaker

LEMMA LinksWhenAdmitted ==
  ASSUME LinkInv, NEW k \in Calls, Admit(k)
  PROVE  LinkInv'
  <1> DEFINE cb == call[k].cb
             b  == Current(cb)
  <1>1. call[k].pc = "admission" /\ b.state \in {"closed", "half-open"}
    BY DEF Admit, Admits
  <1>2. /\ call \in [Calls -> CallStates] /\ failures \in [Configs -> Nat]
    BY DEF LinkInv, TypeOK
  <1> HIDE DEF b
  <1>3. PICK n \in Nat : n = b.requests + 1
    BY <1>1, CurrentOfCall DEF BreakerStates, b
  <1> DEFINE new == [b EXCEPT !.requests = n]
  <1>4. /\ new \in BreakerStates /\ new.state = b.state /\ new.generation = b.generation
        /\ new.failures = b.failures
    BY <1>1, CurrentOfCall DEF BreakerStates, b
  <1>5. breaker' = [breaker EXCEPT ![cb] = new] /\ elapsed' = Elapsed(cb, new.state)
    BY <1>3, <1>4 DEF Admit, b
  <1> HIDE DEF new
  <1>6. b.generation \in Nat
    BY <1>1, CurrentOfCall DEF BreakerStates, b
  <1>7. /\ Others(k) /\ call' \in [Calls -> CallStates]
        /\ call'[k].pc = "running" /\ call'[k].cb = cb
        /\ call'[k].generation = b.generation /\ call'[k].admitted = b.state
    <2>1. call' = [call EXCEPT ![k].pc = "running", ![k].generation = b.generation,
                               ![k].admitted = b.state]
      BY DEF Admit, b
    <2>2. b.state \in {"closed", "half-open"} /\ call[k] \in CallStates
      BY <1>1, <1>2
    <2> HIDE DEF cb
    <2>3. /\ call' \in [Calls -> CallStates] /\ call'[k].pc = "running"
          /\ call'[k].generation = b.generation /\ call'[k].admitted = b.state
      BY <1>2, <1>6, <2>1, <2>2, ZenonT(60) DEF CallStates
    <2>4. Others(k) /\ call'[k].cb = cb
      BY <1>2, <2>1, <2>2, ZenonT(60) DEF CallStates, Others, cb
    <2>5. QED
      BY <2>3, <2>4
  <1>8. UNCHANGED breakers /\ failures' \in [Configs -> Nat]
    BY <1>2 DEF Admit
  <1>9. /\ new.generation >= breaker[cb].generation
        /\ new.generation = breaker[cb].generation => new.state = breaker[cb].state
        /\ new.state = "closed" => new.failures < Threshold
    BY <1>1, <1>4, CurrentOfCall DEF b
  <1>10. QED
    BY <1>1, <1>4, <1>5, <1>7, <1>8, <1>9, MoveLinks

LEMMA LinksWhenRefused ==
  ASSUME LinkInv, NEW k \in Calls, Refuse(k)
  PROVE  LinkInv'
  <1> DEFINE cb == call[k].cb
             b  == Current(cb)
  <1>1. call[k].pc = "admission"
    BY DEF Refuse
  <1>2. /\ call \in [Calls -> CallStates] /\ failures \in [Configs -> Nat]
    BY DEF LinkInv, TypeOK
  <1>3. breaker' = [breaker EXCEPT ![cb] = b] /\ elapsed' = Elapsed(cb, b.state)
    BY DEF Refuse
  <1>4. /\ Others(k) /\ call' \in [Calls -> CallStates]
        /\ call'[k].pc = "refused" /\ call'[k].cb = cb
    BY <1>1, <1>2 DEF Refuse, CallStates, Others
  <1>5. UNCHANGED breakers /\ failures' \in [Configs -> Nat]
    BY <1>2 DEF Refuse
  <1> HIDE DEF b
  <1>6. /\ b \in BreakerStates /\ b.generation >= breaker[cb].generation
        /\ b.generation = breaker[cb].generation => b.state = breaker[cb].state
        /\ b.state = "closed" => b.failures < Threshold
    BY <1>1, CurrentOfCall DEF b
  <1>7. QED
    BY <1>1, <1>3, <1>4, <1>5, <1>6, MoveLinks

\* The breaker of k after its call succeeded, and after it failed.
AfterSuccess(k) == AfterRequest(call[k].cb, call[k].generation, TRUE)

AfterFailure(k) == AfterRequest(call[k].cb, call[k].generation, FALSE)

\* The result of k counts: its generation is the one of its breaker.
Counts(k) == call[k].generation = breaker[call[k].cb].generation

\* A result of an earlier generation is dropped; one that counts finds the
\* breaker in the state in which it admitted the call.
LEMMA ResultCounts ==
  ASSUME LinkInv, NEW k \in Calls, call[k].pc = "running"
  PROVE  /\ Counts(k) =>
              /\ breaker[call[k].cb].state = call[k].admitted
              /\ breaker[call[k].cb].state # "open"
              /\ AfterSuccess(k) = Succeeded(breaker[call[k].cb])
              /\ AfterFailure(k) = HasFailed(breaker[call[k].cb])
         /\ ~Counts(k) =>
              /\ AfterSuccess(k) = Current(call[k].cb)
              /\ AfterFailure(k) = Current(call[k].cb)
  <1> DEFINE b == breaker[call[k].cb]
             g == call[k].generation
             now == Current(call[k].cb)
  <1>1. /\ b \in BreakerStates /\ call[k] \in CallStates /\ call[k].cb \in Breakers
        /\ now \in BreakerStates
    BY CurrentOfCall
  <1>2. /\ g <= b.generation /\ call[k].admitted \in {"closed", "half-open"}
        /\ g = b.generation => call[k].admitted = b.state
    BY DEF LinkInv, RunsAreKnown
  <1>3. \/ now = b
        \/ b.state = "open" /\ now.generation = b.generation + 1
    BY <1>1, LookedAt DEF LinkInv
  <1>4. g \in Nat /\ b.generation \in Nat
    BY <1>1 DEF CallStates, BreakerStates
  <1>5. CASE Counts(k)
    <2>1. now = b /\ b.state = call[k].admitted /\ b.state # "open" /\ now.generation = g
      BY <1>2, <1>3, <1>4, <1>5 DEF Counts
    <2>2. AfterSuccess(k) = Succeeded(b) /\ AfterFailure(k) = HasFailed(b)
      BY <2>1 DEF AfterSuccess, AfterFailure, AfterRequest, Succeeded, HasFailed
    <2>3. QED
      BY <1>5, <2>1, <2>2
  <1>6. CASE ~Counts(k)
    <2>1. now.generation # g
      BY <1>2, <1>3, <1>4, <1>6 DEF Counts
    <2>2. AfterSuccess(k) = now /\ AfterFailure(k) = now
      BY <2>1 DEF AfterSuccess, AfterFailure, AfterRequest
    <2>3. QED
      BY <1>6, <2>2
  <1>7. QED
    BY <1>5, <1>6

\* The step of a result keeps the links, if the breaker after it fits.
LEMMA LinksWithResult ==
  ASSUME LinkInv, NEW k \in Calls, call[k].pc = "running",
         NEW pc \in {"ok", "error", "backoff"}, pc = "backoff" => call[k].attempt < MaxRetries,
         NEW new \in BreakerStates, breaker' = [breaker EXCEPT ![call[k].cb] = new],
         elapsed' = Elapsed(call[k].cb, new.state),
         call' = [call EXCEPT ![k].pc = pc, ![k].admitted = "none"],
         UNCHANGED breakers, failures' \in [Configs -> Nat],
         new.generation >= breaker[call[k].cb].generation,
         new.generation = breaker[call[k].cb].generation
           => new.state = breaker[call[k].cb].state,
         new.state = "closed" => new.failures < Threshold
  PROVE  LinkInv'
  <1>1. call \in [Calls -> CallStates]
    BY DEF LinkInv, TypeOK
  <1>2. /\ Others(k) /\ call' \in [Calls -> CallStates]
        /\ call'[k].pc = pc /\ call'[k].cb = call[k].cb /\ call'[k].attempt = call[k].attempt
    BY <1>1, ZenonT(60) DEF CallStates, Others
  <1>3. QED
    BY <1>2, MoveLinks

LEMMA LinksWhenSucceeded ==
  ASSUME LinkInv, NEW k \in Calls, Succeed(k)
  PROVE  LinkInv'
  <1> DEFINE b == breaker[call[k].cb]
             new == AfterSuccess(k)
  <1>1. /\ call[k].pc = "running"
        /\ breaker' = [breaker EXCEPT ![call[k].cb] = new]
        /\ elapsed' = Elapsed(call[k].cb, new.state)
        /\ call' = [call EXCEPT ![k].pc = "ok", ![k].admitted = "none"]
        /\ UNCHANGED breakers
    BY DEF Succeed, Result, AfterSuccess
  <1>2. failures' \in [Configs -> Nat]
    BY DEF Succeed, LinkInv, TypeOK
  <1>3. b \in BreakerStates /\ b.generation \in Nat
    BY <1>1, CurrentOfCall DEF BreakerStates
  <1>4. /\ new \in BreakerStates /\ new.generation >= b.generation
        /\ new.generation = b.generation => new.state = b.state
        /\ new.state = "closed" => new.failures < Threshold
    <2>1. CASE Counts(k)
      <3>1. new = Succeeded(b) /\ b.state # "open"
        BY <1>1, <2>1, ResultCounts
      <3>2. b.state = "closed" => b.failures < Threshold
        BY <1>1, CurrentOfCall DEF LinkInv, ClosedIsBelow
      <3>3. /\ new \in BreakerStates
            /\ \/ /\ new.generation = b.generation /\ new.state = b.state
                  /\ b.state = "closed" => new.failures = 0
               \/ new = Become(b, "closed")
        BY <1>3, <3>1, <3>2, SuccessCounted
      <3> HIDE DEF new
      <3>4. QED
        BY <1>3, <3>3 DEF Become
    <2>2. CASE ~Counts(k)
      <3>1. new = Current(call[k].cb)
        BY <1>1, <2>2, ResultCounts
      <3>2. QED
        BY <1>1, <3>1, CurrentOfCall
    <2>3. QED
      BY <2>1, <2>2
  <1> HIDE DEF new
  <1>5. QED
    BY <1>1, <1>2, <1>4, LinksWithResult

LEMMA LinksWhenFailed ==
  ASSUME LinkInv, NEW k \in Calls, Fail(k)
  PROVE  LinkInv'
  <1> DEFINE b == breaker[call[k].cb]
             new == AfterFailure(k)
             pc == IF Last(k) THEN "error" ELSE "backoff"
  <1>1. /\ call[k].pc = "running"
        /\ breaker' = [breaker EXCEPT ![call[k].cb] = new]
        /\ elapsed' = Elapsed(call[k].cb, new.state)
        /\ call' = [call EXCEPT ![k].pc = pc, ![k].admitted = "none"]
        /\ UNCHANGED breakers
    BY DEF Fail, Result, AfterFailure
  <1>2. failures' \in [Configs -> Nat]
    BY DEF Fail, LinkInv, TypeOK
  <1>3. b \in BreakerStates /\ b.generation \in Nat /\ call[k].attempt \in 1..MaxRetries
    BY <1>1, CurrentOfCall DEF BreakerStates, CallStates
  <1>4. /\ new \in BreakerStates /\ new.generation >= b.generation
        /\ new.generation = b.generation => new.state = b.state
        /\ new.state = "closed" => new.failures < Threshold
    <2>1. CASE Counts(k)
      <3>1. new = HasFailed(b) /\ b.state # "open"
        BY <1>1, <2>1, ResultCounts
      <3>2. /\ new \in BreakerStates
            /\ \/ /\ new.generation = b.generation /\ new.state = "closed" /\ b.state = "closed"
                  /\ b.failures + 1 < Threshold /\ new.failures = b.failures + 1
               \/ new = Become(b, "open")
        BY <1>3, <3>1, FailureCounted
      <3> HIDE DEF new
      <3>3. QED
        BY <1>3, <3>2 DEF Become
    <2>2. CASE ~Counts(k)
      <3>1. new = Current(call[k].cb)
        BY <1>1, <2>2, ResultCounts
      <3>2. QED
        BY <1>1, <3>1, CurrentOfCall
    <2>3. QED
      BY <2>1, <2>2
  <1>5. pc \in {"ok", "error", "backoff"} /\ (pc = "backoff" => call[k].attempt < MaxRetries)
    BY <1>3 DEF Last
  <1> HIDE DEF new, pc
  <1>6. QED
    BY <1>1, <1>2, <1>4, <1>5, LinksWithResult

LEMMA LinksWhenElapsed ==
  ASSUME LinkInv, NEW b \in Breakers, Elapse(b)
  PROVE  LinkInv'
  <1> USE DEF LinkInv, Elapse
  <1>1. TypeOK'
    BY DEF TypeOK
  <1>2. OneBreaker' /\ HasBreaker' /\ OwnBreakers' /\ UnusedIsClosed'
    BY DEF OneBreaker, HasBreaker, OwnBreakers, UnusedIsClosed
  <1>3. ClosedIsBelow' /\ RunsAreKnown' /\ BackoffIsBelow'
    BY DEF ClosedIsBelow, RunsAreKnown, BackoffIsBelow
  <1>4. ElapsedIsOpen'
    BY DEF ElapsedIsOpen
  <1>5. QED
    BY <1>1, <1>2, <1>3, <1>4

\* The links hold in the beginning and in every step of the breakers.
LEMMA LinksInit == BreakerInit => LinkInv
  <1> SUFFICES ASSUME BreakerInit
               PROVE  LinkInv
    OBVIOUS
  <1>1. TypeOK
    BY DEF BreakerInit, TypeOK, BreakerStates, CallStates
  <1>2. OneBreaker /\ HasBreaker /\ OwnBreakers /\ UnusedIsClosed /\ ClosedIsBelow
        /\ ElapsedIsOpen /\ RunsAreKnown /\ BackoffIsBelow
    BY DEF BreakerInit, OneBreaker, HasBreaker, OwnBreakers, UnusedIsClosed, ClosedIsBelow,
           ElapsedIsOpen, RunsAreKnown, BackoffIsBelow
  <1>3. QED
    BY <1>1, <1>2 DEF LinkInv

LEMMA LinksStep == LinkInv /\ CallStep => LinkInv'
  BY LinksWhenQuiet, LinksWhenCreated, LinksWhenAdmitted, LinksWhenRefused,
     LinksWhenSucceeded, LinksWhenFailed, LinksWhenElapsed
     DEF CallStep, Proceed

LEMMA LinksStutter == LinkInv /\ UNCHANGED breakerVars => LinkInv'
  BY DEF breakerVars, LinkInv, TypeOK, OneBreaker, HasBreaker, OwnBreakers, UnusedIsClosed,
         ClosedIsBelow, ElapsedIsOpen, RunsAreKnown, BackoffIsBelow

-----------------------------------------------------------------------------
(* Who opens a breaker *)

\* Where the steps of a call take it; none touches another call.
LEMMA Moves ==
  ASSUME LinkInv, NEW k \in Calls, Proceed(k)
  PROVE  /\ Others(k)
         /\ Lookup(k) => call'[k].pc \in {"missing", "admission"} /\ call[k].pc = "ready"
         /\ Create(k) => call'[k].pc = "admission" /\ call[k].pc = "missing"
         /\ NoRunner(k) => call'[k].pc = "error" /\ call[k].pc = "ready"
         /\ Admit(k) => call'[k].pc = "running" /\ call[k].pc = "admission"
         /\ Refuse(k) => call'[k].pc = "refused" /\ call[k].pc = "admission"
         /\ Succeed(k) => call'[k].pc = "ok" /\ call[k].pc = "running"
         /\ Fail(k) => /\ call'[k].pc = IF Last(k) THEN "error" ELSE "backoff"
                       /\ call[k].pc = "running"
         /\ Retry(k) => call'[k].pc = "ready" /\ call[k].pc = "backoff"
         /\ GiveUp(k) => call'[k].pc = "cancelled" /\ call[k].pc = "backoff"
         /\ call'[k].attempt = IF Retry(k) THEN call[k].attempt + 1 ELSE call[k].attempt
  <1>1. call \in [Calls -> CallStates]
    BY DEF LinkInv, TypeOK
  <1>2. ~Retry(k) => call'[k].attempt = call[k].attempt
    <2>1. CASE Lookup(k) \/ Create(k)
      BY <1>1, <2>1 DEF Lookup, Create, CallStates
    <2>2. CASE NoRunner(k) \/ Refuse(k) \/ GiveUp(k)
      BY <1>1, <2>2 DEF NoRunner, Refuse, GiveUp, CallStates
    <2>3. CASE Admit(k)
      BY <1>1, <2>3 DEF Admit, CallStates
    <2>4. CASE Succeed(k)
      BY <1>1, <2>4 DEF Succeed, Result, CallStates
    <2>5. CASE Fail(k)
      <3>1. call' = [call EXCEPT ![k].pc = IF Last(k) THEN "error" ELSE "backoff",
                                 ![k].admitted = "none"]
        BY <2>5 DEF Fail, Result
      <3>2. QED
        BY <1>1, <3>1 DEF CallStates
    <2>6. QED
      BY <2>1, <2>2, <2>3, <2>4, <2>5 DEF Proceed
  <1>3. Retry(k) => call'[k].attempt = call[k].attempt + 1
    BY <1>1 DEF Retry, CallStates
  <1>4. /\ Lookup(k) => call'[k].pc \in {"missing", "admission"} /\ call[k].pc = "ready"
        /\ Create(k) => call'[k].pc = "admission" /\ call[k].pc = "missing"
    BY <1>1 DEF Lookup, Create, CallStates
  <1>5. /\ NoRunner(k) => call'[k].pc = "error" /\ call[k].pc = "ready"
        /\ Retry(k) => call'[k].pc = "ready" /\ call[k].pc = "backoff"
        /\ GiveUp(k) => call'[k].pc = "cancelled" /\ call[k].pc = "backoff"
    BY <1>1 DEF NoRunner, Retry, GiveUp, CallStates
  <1>6. /\ Admit(k) => call'[k].pc = "running" /\ call[k].pc = "admission"
        /\ Refuse(k) => call'[k].pc = "refused" /\ call[k].pc = "admission"
        /\ Succeed(k) => call'[k].pc = "ok" /\ call[k].pc = "running"
    <2>1. Admit(k) => call'[k].pc = "running" /\ call[k].pc = "admission"
      BY <1>1 DEF Admit, CallStates
    <2>2. Refuse(k) => call'[k].pc = "refused" /\ call[k].pc = "admission"
      BY <1>1 DEF Refuse, CallStates
    <2>3. Succeed(k) => call'[k].pc = "ok" /\ call[k].pc = "running"
      BY <1>1 DEF Succeed, Result, CallStates
    <2>4. QED
      BY <2>1, <2>2, <2>3
  <1>7. Fail(k) => /\ call'[k].pc = IF Last(k) THEN "error" ELSE "backoff"
                   /\ call[k].pc = "running"
    <2>1. SUFFICES ASSUME Fail(k)
                   PROVE  /\ call'[k].pc = IF Last(k) THEN "error" ELSE "backoff"
                          /\ call[k].pc = "running"
      OBVIOUS
    <2>2. call' = [call EXCEPT ![k].pc = IF Last(k) THEN "error" ELSE "backoff",
                               ![k].admitted = "none"]
      BY <2>1 DEF Fail, Result
    <2>3. QED
      BY <1>1, <2>1, <2>2 DEF CallStates, Fail, Result
  <1>8. Others(k)
    <2>1. CASE Lookup(k) \/ Create(k) \/ NoRunner(k) \/ Refuse(k)
      BY <1>1, <2>1 DEF Lookup, NoRunner, Create, Refuse, Others
    <2>2. CASE Retry(k) \/ GiveUp(k)
      BY <1>1, <2>2 DEF Retry, GiveUp, Others
    <2>3. CASE Admit(k)
      BY <1>1, <2>3 DEF Admit, Others
    <2>4. CASE Succeed(k)
      BY <1>1, <2>4 DEF Succeed, Result, Others
    <2>5. CASE Fail(k)
      BY <1>1, <2>5 DEF Fail, Result, Others
    <2>6. QED
      BY <2>1, <2>2, <2>3, <2>4, <2>5 DEF Proceed
  <1>9. QED
    BY <1>2, <1>3, <1>4, <1>5, <1>6, <1>7, <1>8

\* The steps of the calls, one by one.
LEMMA EachCallStep ==
  ASSUME CallStep
  PROVE  \/ \E k \in Calls : \/ Lookup(k) \/ NoRunner(k) \/ Retry(k) \/ GiveUp(k)
                             \/ Create(k) \/ Admit(k) \/ Refuse(k) \/ Succeed(k) \/ Fail(k)
         \/ \E b \in Breakers : Elapse(b)
  BY DEF CallStep, Proceed

\* A configuration keeps its breaker; its first one is unused.
LEMMA BreakersStay ==
  ASSUME LinkInv, CallStep, NEW c \in Configs
  PROVE  \/ breakers'[c] = breakers[c]
         \/ /\ breakers[c] = Missing /\ UNCHANGED <<breaker, failures>>
            /\ breakers'[c] \in Breakers
            /\ \A d \in Configs : breakers[d] # breakers'[c]
            /\ \A k \in Calls : call'[k].pc = "running" => call[k].pc = "running"
                                                           /\ call'[k] = call[k]
  <1>1. breakers \in [Configs -> Breakers \cup {Missing}]
    BY DEF LinkInv, TypeOK
  <1>2. CASE \E k \in Calls : Create(k)
    <2>1. PICK k \in Calls : Create(k)
      BY <1>2
    <2>2. CASE breakers[c] = Missing /\ breakers'[c] # breakers[c]
      <3>1. \E b \in Breakers : \A d \in Configs : breakers[d] # b
        BY <1>1, <2>2, BreakersAssumption
      <3>2. Fresh \in Breakers /\ \A d \in Configs : breakers[d] # Fresh
        BY <3>1 DEF Fresh
      <3>3. breakers'[c] = Fresh
        BY <1>1, <2>1, <2>2 DEF Create
      <3>4. call \in [Calls -> CallStates]
        BY DEF LinkInv, TypeOK
      <3>5. \A j \in Calls : call'[j].pc = "running" => j # k /\ call'[j] = call[j]
        BY <2>1, <3>4 DEF Create, CallStates
      <3>6. QED
        BY <2>1, <2>2, <3>2, <3>3, <3>5 DEF Create
    <2>3. CASE breakers[c] # Missing
      BY <1>1, <2>1, <2>3 DEF Create
    <2>4. QED
      BY <2>2, <2>3
  <1>3. CASE ~(\E k \in Calls : Create(k))
    BY <1>3, EachCallStep
       DEF Lookup, NoRunner, Retry, GiveUp, Admit, Refuse, Succeed, Fail, Result, Elapse
  <1>4. QED
    BY <1>2, <1>3

\* A call of which a run failed is one for ever.
LEMMA FailedForEver ==
  ASSUME LinkInv, CallStep, NEW j \in Calls, Failed(j)
  PROVE  Failed(j)'
  <1>1. call[j].attempt \in Nat \ {0}
    BY DEF LinkInv, TypeOK, CallStates
  <1>2. CASE \E b \in Breakers : Elapse(b)
    BY <1>2 DEF Elapse, Failed
  <1>3. CASE \E k \in Calls : Proceed(k)
    <2>1. PICK k \in Calls : Proceed(k)
      BY <1>3
    <2>2. Others(k)
      BY <2>1, Moves
    <2>3. CASE j # k
      BY <2>2, <2>3 DEF Others, Failed
    <2>4. CASE j = k /\ Retry(j)
      BY <1>1, <2>1, <2>4, Moves DEF Failed
    <2>5. CASE j = k /\ ~Retry(j) /\ call[j].attempt > 1
      BY <2>1, <2>5, Moves DEF Failed
    <2>6. CASE j = k /\ ~Retry(j) /\ call[j].pc \in {"backoff", "error", "cancelled"}
      <3>1. GiveUp(j)
        BY <2>1, <2>6, Moves DEF Proceed
      <3>2. QED
        BY <2>1, <2>6, <3>1, Moves DEF Failed
    <2>7. QED
      BY <2>3, <2>4, <2>5, <2>6 DEF Failed
  <1>4. QED
    BY <1>2, <1>3 DEF CallStep

\* Who fails has failed.
LEMMA FailFails ==
  ASSUME LinkInv, NEW k \in Calls, Fail(k)
  PROVE  Failed(k)'
  BY Moves DEF Proceed, Failed

\* Only a failure that counts opens a breaker.
LEMMA OpenedByFail ==
  ASSUME LinkInv, CallStep, NEW b \in Breakers,
         breaker[b].state = "closed", breaker'[b].state # "closed"
  PROVE  \E k \in Calls : Fail(k) /\ call[k].cb = b
  <1>1. breaker \in [Breakers -> BreakerStates]
    BY DEF LinkInv, TypeOK
  <1>2. PICK k \in Calls : Admit(k) \/ Refuse(k) \/ Succeed(k) \/ Fail(k)
    BY EachCallStep DEF Lookup, NoRunner, Retry, GiveUp, Create, Elapse
  <1>3. call[k].pc \in {"admission", "running"} /\ call[k].cb \in Breakers
    BY <1>2, CurrentOfCall DEF Admit, Refuse, Succeed, Fail, Result
  <1>4. call[k].cb = b
    BY <1>1, <1>2, <1>3 DEF Admit, Refuse, Succeed, Fail, Result
  <1>5. Current(b) = breaker[b]
    BY DEF Current
  <1>6. breaker[b] \in BreakerStates
    BY <1>1
  <1>7. ~Admit(k)
    BY <1>1, <1>4, <1>5, <1>6 DEF Admit, BreakerStates
  <1>8. ~Refuse(k)
    BY <1>1, <1>4, <1>5 DEF Refuse
  <1>9. ~Succeed(k)
    <2>1. SUFFICES ASSUME Succeed(k)
                   PROVE  FALSE
      OBVIOUS
    <2>2. breaker'[b] = AfterSuccess(k) /\ call[k].pc = "running"
      BY <1>1, <1>4, <2>1 DEF Succeed, Result, AfterSuccess
    <2>3. Counts(k)
      BY <1>4, <1>5, <2>2, ResultCounts
    <2>4. breaker'[b] = Succeeded(breaker[b])
      BY <1>4, <2>2, <2>3, ResultCounts
    <2>5. breaker[b].failures < Threshold
      BY DEF LinkInv, ClosedIsBelow
    <2>6. QED
      BY <1>6, <2>4, <2>5, SuccessCounted
  <1>10. QED
    BY <1>2, <1>4, <1>7, <1>8, <1>9

LEMMA BlameStep ==
  ASSUME LinkInv, BlameInv, CallStep
  PROVE  BlameInv'
  <1>1. OpenedByFailure'
    <2>1. SUFFICES ASSUME NEW c \in Configs, breakers'[c] # Missing,
                          breaker'[breakers'[c]].state # "closed"
                   PROVE  \E j \in Calls : ConfigOf[j] = c /\ Failed(j)'
      BY DEF OpenedByFailure
    <2>2. breakers'[c] = breakers[c]
      BY <2>1, BreakersStay DEF LinkInv, UnusedIsClosed
    <2>3. breakers[c] \in Breakers
      BY <2>1, <2>2 DEF LinkInv, TypeOK
    <2>4. CASE breaker[breakers[c]].state # "closed"
      BY <2>1, <2>2, <2>4, FailedForEver DEF BlameInv, OpenedByFailure
    <2>5. CASE breaker[breakers[c]].state = "closed"
      <3>1. PICK k \in Calls : Fail(k) /\ call[k].cb = breakers[c]
        BY <2>1, <2>2, <2>3, <2>5, OpenedByFail
      <3>2. call[k].cb = breakers[ConfigOf[k]] /\ ConfigOf[k] \in Configs
        BY <3>1, CurrentOfCall DEF Fail, Result
      <3>3. ConfigOf[k] = c
        BY <2>3, <3>1, <3>2 DEF LinkInv, OwnBreakers
      <3>4. QED
        BY <3>1, <3>3, FailFails
    <2>6. QED
      BY <2>4, <2>5
  <1>2. Isolation'
    <2>1. SUFFICES ASSUME NEW k \in Calls, call'[k].pc = "refused"
                   PROVE  \E j \in Calls : ConfigOf[j] = ConfigOf[k] /\ Failed(j)'
      BY DEF Isolation
    <2>2. CASE call[k].pc = "refused"
      BY <2>2, FailedForEver DEF BlameInv, Isolation
    <2>3. CASE call[k].pc # "refused"
      <3>1. PICK j \in Calls : Proceed(j)
        BY <2>1, <2>3 DEF CallStep, Elapse
      <3>2. Refuse(k)
        BY <2>1, <2>3, <3>1, Moves DEF Proceed, Others
      <3>3. /\ call[k].cb = breakers[ConfigOf[k]] /\ ConfigOf[k] \in Configs
            /\ call[k].cb \in Breakers
        BY <3>2, CurrentOfCall DEF Refuse
      <3>4. breaker[call[k].cb].state # "closed"
        BY <3>2 DEF Refuse, Admits, Current
      <3>5. QED
        BY <3>3, <3>4, FailedForEver DEF BlameInv, OpenedByFailure
    <2>4. QED
      BY <2>2, <2>3
  <1>3. QED
    BY <1>1, <1>2 DEF BlameInv

-----------------------------------------------------------------------------
(* How many calls run in the current generation of a breaker *)

LEMMA RunsAreFew ==
  ASSUME NEW b
  PROVE  /\ IsFiniteSet(Runs(b)) /\ Cardinality(Runs(b)) \in Nat
         /\ Cardinality(Calls) \in Nat /\ Cardinality(Runs(b)) <= Cardinality(Calls)
  <1>1. Runs(b) \in SUBSET Calls
    BY DEF Runs
  <1>2. QED
    BY <1>1, FS_Subset, FS_CardinalityType

\* The calls that take no part in the runs: they do not end or begin one.
Idle(k) == Lookup(k) \/ Create(k) \/ NoRunner(k) \/ Retry(k) \/ GiveUp(k)

\* A step of k leaves alone the breakers that are not its own.
LEMMA RunsApart ==
  ASSUME LinkInv, NEW k \in Calls, Proceed(k), NEW b \in Breakers,
         Idle(k) \/ call[k].cb # b
  PROVE  /\ breaker'[b] = breaker[b] /\ (b \in elapsed' <=> b \in elapsed)
         /\ Runs(b)' = Runs(b)
  <1>1. Others(k)
    BY Moves
  <1>2. breaker \in [Breakers -> BreakerStates] /\ call \in [Calls -> CallStates]
    BY DEF LinkInv, TypeOK
  <1>3. CASE Idle(k)
    <2>1. breaker' = breaker /\ elapsed' = elapsed
      BY <1>3 DEF Idle, Lookup, Create, NoRunner, Retry, GiveUp
    <2>2. call[k].pc # "running" /\ call'[k].pc # "running"
      BY <1>3, Moves DEF Idle
    <2>3. QED
      BY <1>1, <2>1, <2>2 DEF Runs, Others
  <1>4. CASE ~Idle(k)
    <2>1. call[k].cb # b /\ (Admit(k) \/ Refuse(k) \/ Succeed(k) \/ Fail(k))
      BY <1>4 DEF Proceed, Idle
    <2>2. breaker'[b] = breaker[b] /\ (b \in elapsed' <=> b \in elapsed)
      BY <1>2, <2>1 DEF Admit, Refuse, Succeed, Fail, Result, Elapsed
    <2>3. call'[k].cb = call[k].cb
      <3>1. CASE Admit(k) \/ Refuse(k)
        BY <1>2, <3>1 DEF Admit, Refuse, CallStates
      <3>2. CASE Succeed(k) \/ Fail(k)
        <4>1. PICK pc : call' = [call EXCEPT ![k].pc = pc, ![k].admitted = "none"]
          BY <3>2 DEF Succeed, Fail, Result
        <4>2. QED
          BY <1>2, <4>1 DEF CallStates
      <3>3. QED
        BY <2>1, <3>1, <3>2
    <2>4. QED
      BY <1>1, <2>1, <2>2, <2>3 DEF Runs, Others
  <1>5. QED
    BY <1>3, <1>4

\* Nobody runs in a generation that has not begun.
LEMMA RunsBegin ==
  ASSUME LinkInv, NEW b \in Breakers, NEW j \in Calls,
         call[j].pc = "running", call[j].cb = b
  PROVE  ~(call[j].generation > breaker[b].generation)
  <1>1. call[j].generation \in Nat /\ breaker[b].generation \in Nat
    BY DEF LinkInv, TypeOK, CallStates, BreakerStates
  <1>2. QED
    BY <1>1 DEF LinkInv, RunsAreKnown

\* Where k stays off, or leaves, the runs of a breaker that changes under it.
LEMMA RunsGo ==
  ASSUME LinkInv, NEW k \in Calls, Others(k), NEW b \in Breakers, call[k].cb = b,
         call[k].pc \in {"admission", "running"}, call'[k].pc # "running"
  PROVE  /\ breaker'[b].generation = breaker[b].generation => Runs(b)' = Runs(b) \ {k}
         /\ breaker'[b].generation > breaker[b].generation => Runs(b)' = {}
  <1>1. breaker'[b].generation = breaker[b].generation => Runs(b)' = Runs(b) \ {k}
    BY DEF Runs, Others
  <1>2. ASSUME breaker'[b].generation > breaker[b].generation
        PROVE  Runs(b)' = {}
    BY <1>2, RunsBegin DEF Runs, Others
  <1>3. QED
    BY <1>1, <1>2

\* What an admission does to the breaker and its runs.
LEMMA AdmitCounts ==
  ASSUME LinkInv, NEW k \in Calls, Admit(k), NEW b, b = call[k].cb
  PROVE  /\ b \in Breakers /\ b = breakers[ConfigOf[k]]
         /\ \/ /\ breaker'[b].state = breaker[b].state
               /\ breaker[b].state \in {"closed", "half-open"}
               /\ breaker'[b].failures = breaker[b].failures
               /\ breaker'[b].requests = breaker[b].requests + 1
               /\ breaker[b].state = "half-open" => breaker[b].requests < MaxRequests
               /\ Cardinality(Runs(b)') = Cardinality(Runs(b)) + 1
            \/ /\ breaker[b].state = "open" /\ b \in elapsed
               /\ breaker'[b].state = "half-open" /\ breaker'[b].requests = 1
               /\ Cardinality(Runs(b)') = 1
  <1> DEFINE now == Current(b)
  <1>1. call[k].pc = "admission"
    BY DEF Admit
  <1>2. /\ b \in Breakers /\ b = breakers[ConfigOf[k]] /\ call \in [Calls -> CallStates]
        /\ now \in BreakerStates /\ breaker[b] \in BreakerStates
        /\ breaker \in [Breakers -> BreakerStates]
    BY <1>1, CurrentOfCall DEF LinkInv, TypeOK
  <1>3. \/ now = breaker[b]
        \/ /\ breaker[b].state = "open" /\ b \in elapsed
           /\ now.state = "half-open" /\ now.requests = 0
           /\ now.generation = breaker[b].generation + 1
    BY <1>2, LookedAt DEF LinkInv
  <1> HIDE DEF now
  <1>4. now.generation \in Nat /\ breaker[b].generation \in Nat /\ now.requests \in Nat
    BY <1>2 DEF BreakerStates
  <1>5. /\ breaker'[b] = [now EXCEPT !.requests = now.requests + 1]
        /\ now.state = "closed" \/ (now.state = "half-open" /\ now.requests < MaxRequests)
        /\ call' = [call EXCEPT ![k].pc = "running", ![k].generation = now.generation,
                                ![k].admitted = now.state]
    BY <1>2 DEF Admit, Admits, now
  <1>6. /\ breaker'[b].state = now.state /\ breaker'[b].failures = now.failures
        /\ breaker'[b].requests = now.requests + 1 /\ breaker'[b].generation = now.generation
    BY <1>2, <1>5 DEF BreakerStates
  <1>7. /\ Others(k) /\ call'[k].pc = "running" /\ call'[k].cb = b
        /\ call'[k].generation = now.generation
    <2>1. /\ call'[k] = [call[k] EXCEPT !.pc = "running", !.generation = now.generation,
                                        !.admitted = now.state]
          /\ Others(k)
      BY <1>2, <1>5 DEF Others
    <2>2. call[k] \in CallStates
      BY <1>2
    <2>3. QED
      BY <2>1, <2>2 DEF CallStates
  <1>8. CASE now = breaker[b]
    <2>1. Runs(b)' = Runs(b) \cup {k}
      BY <1>6, <1>7, <1>8 DEF Runs, Others
    <2>2. k \notin Runs(b)
      BY <1>1 DEF Runs
    <2>3. Cardinality(Runs(b) \cup {k}) = Cardinality(Runs(b)) + 1
      BY <2>2, FS_AddElement, RunsAreFew
    <2>4. QED
      BY <1>2, <1>5, <1>6, <1>8, <2>1, <2>3
  <1>9. CASE now # breaker[b]
    <2>1. now.generation > breaker[b].generation
      BY <1>3, <1>4, <1>9
    <2>2. \A j \in Calls \ {k} :
            ~(call'[j].pc = "running" /\ call'[j].cb = b
              /\ call'[j].generation = breaker'[b].generation)
      BY <1>2, <1>6, <1>7, <2>1, RunsBegin DEF Others
    <2>3. Runs(b)' = {k}
      BY <1>6, <1>7, <2>2 DEF Runs
    <2>4. QED
      BY <1>2, <1>3, <1>6, <1>9, <2>3, FS_Singleton
  <1>10. QED
    BY <1>8, <1>9

\* What a refusal, or a result of an earlier generation, does.
LEMMA LookCounts ==
  ASSUME LinkInv, NEW k \in Calls, NEW b, b = call[k].cb,
         \/ Refuse(k)
         \/ (Succeed(k) \/ Fail(k)) /\ ~Counts(k)
  PROVE  /\ b \in Breakers /\ b = breakers[ConfigOf[k]]
         /\ \/ /\ breaker'[b] = breaker[b] /\ Runs(b)' = Runs(b)
               /\ b \in elapsed' <=> b \in elapsed
            \/ /\ breaker[b].state = "open" /\ b \in elapsed
               /\ breaker'[b].state = "half-open" /\ breaker'[b].requests = 0
               /\ Runs(b)' = {}
  <1> DEFINE now == Current(b)
  <1>1. /\ call[k].pc \in {"admission", "running"} /\ call'[k].pc # "running" /\ Others(k)
        /\ k \notin Runs(b)
    BY Moves DEF Proceed, Runs, Counts
  <1>2. /\ b \in Breakers /\ b = breakers[ConfigOf[k]]
        /\ now \in BreakerStates /\ breaker[b] \in BreakerStates
        /\ breaker \in [Breakers -> BreakerStates]
    BY <1>1, CurrentOfCall DEF LinkInv, TypeOK
  <1>3. breaker'[b] = now /\ elapsed' = Elapsed(b, now.state)
    <2>1. CASE Refuse(k)
      BY <1>2, <2>1 DEF Refuse
    <2>2. CASE Succeed(k) /\ ~Counts(k)
      <3>1. call[k].pc = "running" /\ AfterSuccess(k) = now
        BY <2>2, ResultCounts DEF Succeed, Result
      <3>2. QED
        BY <1>2, <2>2, <3>1 DEF Succeed, Result, AfterSuccess
    <2>3. CASE Fail(k) /\ ~Counts(k)
      <3>1. call[k].pc = "running" /\ AfterFailure(k) = now
        BY <2>3, ResultCounts DEF Fail, Result
      <3>2. QED
        BY <1>2, <2>3, <3>1 DEF Fail, Result, AfterFailure
    <2>4. QED
      BY <2>1, <2>2, <2>3
  <1>4. \/ now = breaker[b]
        \/ /\ breaker[b].state = "open" /\ b \in elapsed
           /\ now.state = "half-open" /\ now.requests = 0
           /\ now.generation = breaker[b].generation + 1
    BY <1>2, LookedAt DEF LinkInv
  <1> HIDE DEF now
  <1>5. breaker[b].generation \in Nat
    BY <1>2 DEF BreakerStates
  <1>6. CASE now = breaker[b]
    <2>1. Runs(b)' = Runs(b) \ {k}
      BY <1>1, <1>2, <1>3, <1>6, RunsGo
    <2>2. Runs(b)' = Runs(b)
      BY <1>1, <2>1
    <2>3. b \in elapsed' <=> b \in elapsed
      BY <1>2, <1>3, <1>6 DEF Elapsed, LinkInv, ElapsedIsOpen
    <2>4. QED
      BY <1>2, <1>3, <1>6, <2>2, <2>3
  <1>7. CASE now # breaker[b]
    <2>1. breaker'[b].generation > breaker[b].generation
      BY <1>3, <1>4, <1>5, <1>7
    <2>2. Runs(b)' = {}
      BY <1>1, <1>2, <2>1, RunsGo
    <2>3. QED
      BY <1>2, <1>3, <1>4, <1>7, <2>2
  <1>8. QED
    BY <1>6, <1>7

\* A result that counts: k is one of the runs, and its breaker is as it found it.
LEMMA CountingRun ==
  ASSUME LinkInv, NEW k \in Calls, Succeed(k) \/ Fail(k), Counts(k), NEW b, b = call[k].cb
  PROVE  /\ b \in Breakers /\ b = breakers[ConfigOf[k]] /\ call[k].pc = "running"
         /\ Others(k) /\ call'[k].pc # "running" /\ k \in Runs(b)
         /\ breaker[b] \in BreakerStates /\ breaker[b].generation \in Nat
         /\ breaker[b].state \in {"closed", "half-open"}
         /\ breaker \in [Breakers -> BreakerStates]
         /\ Cardinality(Runs(b) \ {k}) = Cardinality(Runs(b)) - 1
  <1>1. call[k].pc = "running" /\ Others(k) /\ call'[k].pc # "running"
    BY Moves DEF Proceed
  <1>2. /\ b \in Breakers /\ b = breakers[ConfigOf[k]] /\ breaker[b] \in BreakerStates
        /\ breaker \in [Breakers -> BreakerStates]
    BY <1>1, CurrentOfCall DEF LinkInv, TypeOK
  <1>3. breaker[b].generation \in Nat /\ breaker[b].state \in {"closed", "open", "half-open"}
    BY <1>2 DEF BreakerStates
  <1>4. k \in Runs(b)
    BY <1>1 DEF Runs, Counts
  <1>5. breaker[b].state # "open"
    BY <1>1, ResultCounts
  <1>6. Cardinality(Runs(b) \ {k}) = Cardinality(Runs(b)) - 1
    BY <1>4, FS_RemoveElement, RunsAreFew
  <1>7. QED
    BY <1>1, <1>2, <1>3, <1>4, <1>5, <1>6

LEMMA SuccessCounts ==
  ASSUME LinkInv, NEW k \in Calls, Succeed(k), Counts(k), NEW b, b = call[k].cb
  PROVE  \/ /\ breaker'[b].state = breaker[b].state
            /\ breaker'[b].requests = breaker[b].requests
            /\ Cardinality(Runs(b)') = Cardinality(Runs(b)) - 1
         \/ breaker'[b].state = "closed"
  <1>1. /\ b \in Breakers /\ call[k].pc = "running" /\ Others(k) /\ call'[k].pc # "running"
        /\ breaker \in [Breakers -> BreakerStates]
        /\ Cardinality(Runs(b) \ {k}) = Cardinality(Runs(b)) - 1
    BY CountingRun
  <1>2. breaker[b] \in BreakerStates /\ breaker[b].state \in {"closed", "half-open"}
    BY CountingRun
  <1>3. breaker'[b] = Succeeded(breaker[b])
    BY <1>1, ResultCounts DEF Succeed, Result, AfterSuccess
  <1>4. breaker[b].state = "closed" => breaker[b].failures < Threshold
    BY <1>1 DEF LinkInv, ClosedIsBelow
  <1>5. \/ /\ breaker'[b].generation = breaker[b].generation
           /\ breaker'[b].state = breaker[b].state
           /\ breaker'[b].requests = breaker[b].requests
        \/ breaker'[b] = Become(breaker[b], "closed")
    BY <1>2, <1>3, <1>4, SuccessCounted
  <1>6. CASE breaker'[b] = Become(breaker[b], "closed")
    BY <1>6 DEF Become
  <1>7. CASE /\ breaker'[b].generation = breaker[b].generation
             /\ breaker'[b].state = breaker[b].state
             /\ breaker'[b].requests = breaker[b].requests
    <2>1. Runs(b)' = Runs(b) \ {k}
      BY <1>1, <1>7, RunsGo
    <2>2. QED
      BY <1>1, <1>7, <2>1
  <1>8. QED
    BY <1>5, <1>6, <1>7

LEMMA FailureCounts ==
  ASSUME LinkInv, NEW k \in Calls, Fail(k), Counts(k), NEW b, b = call[k].cb
  PROVE  \/ /\ breaker[b].state = "closed" /\ breaker'[b].state = "closed"
            /\ breaker'[b].failures = breaker[b].failures + 1
            /\ Cardinality(Runs(b)') = Cardinality(Runs(b)) - 1
         \/ /\ breaker[b].state \in {"closed", "half-open"}
            /\ breaker'[b].state = "open" /\ b \notin elapsed'
  <1>1. /\ b \in Breakers /\ call[k].pc = "running" /\ Others(k) /\ call'[k].pc # "running"
        /\ breaker \in [Breakers -> BreakerStates]
        /\ Cardinality(Runs(b) \ {k}) = Cardinality(Runs(b)) - 1
    BY CountingRun
  <1>2. breaker[b] \in BreakerStates /\ breaker[b].state \in {"closed", "half-open"}
    BY CountingRun
  <1>3. breaker'[b] = HasFailed(breaker[b]) /\ elapsed' = Elapsed(b, breaker'[b].state)
    BY <1>1, ResultCounts DEF Fail, Result, AfterFailure
  <1>4. \/ /\ breaker[b].state = "closed" /\ breaker'[b].state = "closed"
           /\ breaker'[b].generation = breaker[b].generation
           /\ breaker'[b].failures = breaker[b].failures + 1
        \/ breaker'[b] = Become(breaker[b], "open")
    BY <1>2, <1>3, FailureCounted
  <1>5. CASE breaker'[b] = Become(breaker[b], "open")
    <2>1. b \notin elapsed'
      BY <1>2, <1>3 DEF Elapsed, LinkInv, ElapsedIsOpen
    <2>2. QED
      BY <1>2, <1>5, <2>1 DEF Become
  <1>6. CASE /\ breaker[b].state = "closed" /\ breaker'[b].state = "closed"
             /\ breaker'[b].generation = breaker[b].generation
             /\ breaker'[b].failures = breaker[b].failures + 1
    <2>1. Runs(b)' = Runs(b) \ {k}
      BY <1>1, <1>6, RunsGo
    <2>2. QED
      BY <1>1, <1>6, <2>1
  <1>7. QED
    BY <1>4, <1>5, <1>6

-----------------------------------------------------------------------------
(* The counts hold in every step *)

LEMMA ProbesStep ==
  ASSUME LinkInv, ProbesAreCounted, CallStep
  PROVE  ProbesAreCounted'
  <1>1. SUFFICES ASSUME NEW b \in Breakers, breaker'[b].state = "half-open"
                 PROVE  /\ Cardinality(Runs(b)') <= breaker'[b].requests
                        /\ breaker'[b].requests <= MaxRequests
    BY DEF ProbesAreCounted
  <1>2. CASE \E x \in Breakers : Elapse(x)
    <2>1. breaker' = breaker /\ call' = call
      BY <1>2 DEF Elapse
    <2>2. Runs(b)' = Runs(b)
      BY <2>1 DEF Runs
    <2>3. QED
      BY <1>1, <2>1, <2>2 DEF ProbesAreCounted
  <1>3. CASE \E k \in Calls : Proceed(k)
    <2>1. PICK k \in Calls : Proceed(k)
      BY <1>3
    <2>2. CASE Idle(k) \/ call[k].cb # b
      BY <1>1, <2>1, <2>2, RunsApart DEF ProbesAreCounted
    <2>3. CASE ~Idle(k) /\ call[k].cb = b
      <3>1. /\ Cardinality(Runs(b)) \in Nat /\ breaker[b].requests \in Nat
            /\ Cardinality(Runs(b)') \in Nat /\ breaker[b].state \in {"closed", "open", "half-open"}
        <4>1. breaker[b].requests \in Nat /\ breaker[b].state \in {"closed", "open", "half-open"}
          BY DEF LinkInv, TypeOK, BreakerStates
        <4>2. Runs(b)' \in SUBSET Calls
          BY DEF Runs
        <4>3. Cardinality(Runs(b)') \in Nat
          BY <4>2, FS_Subset, FS_CardinalityType
        <4>4. QED
          BY <4>1, <4>3, RunsAreFew
      <3>2. breaker[b].state = "half-open" =>
              Cardinality(Runs(b)) <= breaker[b].requests /\ breaker[b].requests <= MaxRequests
        BY DEF ProbesAreCounted
      <3>3. CASE Admit(k)
        <4>1. \/ /\ breaker'[b].state = breaker[b].state
                 /\ breaker'[b].requests = breaker[b].requests + 1
                 /\ breaker[b].state = "half-open" => breaker[b].requests < MaxRequests
                 /\ Cardinality(Runs(b)') = Cardinality(Runs(b)) + 1
              \/ breaker'[b].requests = 1 /\ Cardinality(Runs(b)') = 1
          BY <2>3, <3>3, AdmitCounts
        <4>2. QED
          BY <1>1, <3>1, <3>2, <4>1
      <3>4. CASE Refuse(k) \/ ((Succeed(k) \/ Fail(k)) /\ ~Counts(k))
        <4>1. \/ breaker'[b] = breaker[b] /\ Runs(b)' = Runs(b)
              \/ breaker'[b].requests = 0 /\ Runs(b)' = {}
          BY <2>3, <3>4, LookCounts
        <4>2. QED
          BY <1>1, <3>2, <4>1, FS_EmptySet
      <3>5. CASE Succeed(k) /\ Counts(k)
        <4>1. /\ breaker'[b].state = breaker[b].state
              /\ breaker'[b].requests = breaker[b].requests
              /\ Cardinality(Runs(b)') = Cardinality(Runs(b)) - 1
          BY <1>1, <2>3, <3>5, SuccessCounts
        <4>2. QED
          BY <1>1, <3>1, <3>2, <4>1
      <3>6. CASE Fail(k) /\ Counts(k)
        BY <1>1, <2>3, <3>6, FailureCounts
      <3>7. QED
        BY <2>1, <2>3, <3>3, <3>4, <3>5, <3>6 DEF Proceed, Idle
    <2>4. QED
      BY <2>2, <2>3
  <1>4. QED
    BY <1>2, <1>3 DEF CallStep

\* What is counted against one configuration depends on its own breaker only.
LEMMA CountsApart ==
  ASSUME NEW c \in Configs, FailuresCounted(c), breakers'[c] = breakers[c],
         failures'[c] = failures[c],
         LET b == breakers[c] IN b # Missing =>
           /\ breaker'[b] = breaker[b] /\ (b \in elapsed' <=> b \in elapsed)
           /\ Runs(b)' = Runs(b)
  PROVE  FailuresCounted(c)'
  <1>1. CASE breakers[c] = Missing
    BY <1>1 DEF FailuresCounted
  <1>2. CASE breakers[c] # Missing
    <2> DEFINE b == breakers[c]
    <2>1. breaker'[b] = breaker[b] /\ (b \in elapsed' <=> b \in elapsed)
      BY <1>2
    <2>2. Cardinality({k \in Calls : /\ call'[k].pc = "running" /\ call'[k].cb = b
                                     /\ call'[k].generation = breaker'[b].generation})
            = Cardinality(Runs(b))
      BY <1>2 DEF Runs
    <2>3. QED
      BY <1>2, <2>1, <2>2 DEF FailuresCounted, Runs
  <1>3. QED
    BY <1>1, <1>2

\* The counts of the configuration of the call that moves.
LEMMA OwnCounts ==
  ASSUME LinkInv, CountInv, NEW k \in Calls, Proceed(k), ~Idle(k), NEW b, b = call[k].cb
  PROVE  FailuresCounted(ConfigOf[k])'
  <1> DEFINE c == ConfigOf[k]
             n == Cardinality(Runs(b))
             m == Cardinality(Runs(b)')
  <1>1. Admit(k) \/ Refuse(k) \/ Succeed(k) \/ Fail(k)
    BY DEF Proceed, Idle
  <1>2. /\ b \in Breakers /\ b = breakers[c] /\ c \in Configs /\ b # Missing
        /\ breaker[b] \in BreakerStates /\ failures[c] \in Nat
        /\ failures \in [Configs -> Nat]
    BY <1>1, CurrentOfCall DEF Admit, Refuse, Succeed, Fail, Result, LinkInv, TypeOK
  <1>3. breakers' = breakers
    BY <1>1 DEF Admit, Refuse, Succeed, Fail, Result
  <1>4. n \in Nat /\ m \in Nat /\ n <= Cardinality(Calls) /\ Cardinality(Calls) \in Nat
        /\ Cardinality(Calls) > 0
    <2>1. Runs(b)' \in SUBSET Calls
      BY DEF Runs
    <2>2. m \in Nat
      BY <2>1, FS_Subset, FS_CardinalityType
    <2>3. Cardinality(Calls) # 0
      BY FS_EmptySet
    <2>4. QED
      BY <2>2, <2>3, RunsAreFew
  <1>5. /\ breaker[b].failures \in Nat /\ Threshold \in Nat \ {0}
        /\ breaker[b].state = "closed" => breaker[b].failures < Threshold
    BY <1>2 DEF BreakerStates, LinkInv, ClosedIsBelow
  <1>6. /\ breaker[b].state = "closed" => failures[c] <= breaker[b].failures + n
        /\ breaker[b].state = "half-open" => failures[c] <= n
        /\ breaker[b].state = "open" =>
             /\ b \in elapsed => failures[c] = 0
             /\ failures[c] <= Threshold + Cardinality(Calls) - 1
    BY <1>2 DEF CountInv, FailuresCounted
  <1>7. SUFFICES /\ breaker'[b].state = "closed" => failures'[c] <= breaker'[b].failures + m
                 /\ breaker'[b].state = "half-open" => failures'[c] <= m
                 /\ breaker'[b].state = "open" =>
                      /\ b \in elapsed' => failures'[c] = 0
                      /\ failures'[c] <= Threshold + Cardinality(Calls) - 1
    <2>1. m = Cardinality({j \in Calls : /\ call'[j].pc = "running" /\ call'[j].cb = b
                                         /\ call'[j].generation = breaker'[b].generation})
      BY DEF Runs
    <2>2. breakers'[c] = b /\ b # Missing
      BY <1>2, <1>3
    <2>3. QED
      BY <2>1, <2>2 DEF FailuresCounted, Runs
  <1>8. CASE Admit(k)
    <2>1. failures'[c] = failures[c] + 1
      BY <1>2, <1>8 DEF Admit
    <2>2. \/ /\ breaker'[b].state = breaker[b].state /\ breaker[b].state \in {"closed", "half-open"}
             /\ breaker'[b].failures = breaker[b].failures /\ m = n + 1
          \/ /\ breaker[b].state = "open" /\ b \in elapsed
             /\ breaker'[b].state = "half-open" /\ m = 1
      BY <1>8, AdmitCounts
    <2> HIDE DEF n, m, c
    <2>3. QED
      BY <1>2, <1>4, <1>5, <1>6, <2>1, <2>2
  <1>9. CASE Refuse(k) \/ (Fail(k) /\ ~Counts(k))
    <2>1. failures'[c] = failures[c]
      BY <1>9 DEF Refuse, Fail
    <2>2. \/ /\ breaker'[b] = breaker[b] /\ Runs(b)' = Runs(b)
             /\ b \in elapsed' <=> b \in elapsed
          \/ /\ breaker[b].state = "open" /\ b \in elapsed /\ breaker'[b].state = "half-open"
      BY <1>9, LookCounts
    <2>3. Runs(b)' = Runs(b) => m = n
      OBVIOUS
    <2> HIDE DEF n, m, c
    <2>4. QED
      BY <1>2, <1>4, <1>5, <1>6, <2>1, <2>2, <2>3
  <1>10. CASE Succeed(k)
    <2>1. failures'[c] = 0
      BY <1>2, <1>10 DEF Succeed
    <2>2. breaker'[b] \in BreakerStates
      BY <1>1, <1>2, <1>10, LinksWhenSucceeded DEF LinkInv, TypeOK
    <2>3. breaker'[b].failures \in Nat
      BY <2>2 DEF BreakerStates
    <2> HIDE DEF n, m, c
    <2>4. QED
      BY <1>4, <1>5, <2>1, <2>3
  <1>11. CASE Fail(k) /\ Counts(k)
    <2>1. failures'[c] = failures[c]
      BY <1>11 DEF Fail
    <2>2. \/ /\ breaker[b].state = "closed" /\ breaker'[b].state = "closed"
             /\ breaker'[b].failures = breaker[b].failures + 1 /\ m = n - 1
          \/ /\ breaker[b].state \in {"closed", "half-open"}
             /\ breaker'[b].state = "open" /\ b \notin elapsed'
      BY <1>11, FailureCounts
    <2> HIDE DEF n, m, c
    <2>3. QED
      BY <1>2, <1>4, <1>5, <1>6, <2>1, <2>2
  <1>12. QED
    BY <1>1, <1>8, <1>9, <1>10, <1>11

LEMMA FailuresStep ==
  ASSUME LinkInv, CountInv, CallStep, NEW c \in Configs
  PROVE  FailuresCounted(c)'
  <1>1. FailuresCounted(c)
    BY DEF CountInv
  <1>2. CASE breakers'[c] # breakers[c]
    <2> SUFFICES ASSUME NEW b, b = breakers'[c]
                 PROVE  FailuresCounted(c)'
      OBVIOUS
    <2>1. /\ breakers[c] = Missing /\ UNCHANGED <<breaker, failures>>
          /\ b \in Breakers /\ \A d \in Configs : breakers[d] # b
      BY <1>2, BreakersStay
    <2>2. breaker'[b].state = "closed" /\ breaker'[b].failures \in Nat /\ failures'[c] = 0
      BY <1>1, <2>1 DEF LinkInv, UnusedIsClosed, FailuresCounted, TypeOK, BreakerStates
    <2>3. Runs(b)' \in SUBSET Calls
      BY DEF Runs
    <2>4. Cardinality(Runs(b)') \in Nat
      BY <2>3, FS_Subset, FS_CardinalityType
    <2>5. failures'[c] <= breaker'[b].failures
            + Cardinality({k \in Calls : /\ call'[k].pc = "running" /\ call'[k].cb = b
                                         /\ call'[k].generation = breaker'[b].generation})
      BY <2>2, <2>4 DEF Runs
    <2>6. b # Missing
      BY <2>1
    <2>7. QED
      BY <2>2, <2>5, <2>6 DEF FailuresCounted, Runs
  <1>3. CASE breakers'[c] = breakers[c]
    <2>1. CASE \E x \in Breakers : Elapse(x)
      <3>1. PICK x \in Breakers : Elapse(x)
        BY <2>1
      <3>2. CASE breakers[c] # x
        <4>1. failures'[c] = failures[c] /\ UNCHANGED <<breaker, call>>
              /\ (breakers[c] \in elapsed' <=> breakers[c] \in elapsed)
          BY <3>1, <3>2 DEF Elapse
        <4>2. Runs(breakers[c])' = Runs(breakers[c])
          BY <1>3, <4>1 DEF Runs
        <4>3. QED
          BY <1>1, <1>3, <4>1, <4>2, CountsApart
      <3>3. CASE breakers[c] = x
        <4>1. failures'[c] = 0 /\ breaker'[x].state = "open" /\ breakers'[c] = x
          BY <1>3, <3>1, <3>3 DEF Elapse
        <4>2. 0 <= Threshold + Cardinality(Calls) - 1
          BY RunsAreFew
        <4>3. QED
          BY <4>1, <4>2 DEF FailuresCounted
      <3>4. QED
        BY <3>2, <3>3
    <2>2. CASE \E k \in Calls : Proceed(k)
      <3>1. PICK k \in Calls : Proceed(k)
        BY <2>2
      <3>2. CASE ~Idle(k) /\ c = ConfigOf[k]
        BY <3>1, <3>2, OwnCounts
      <3>3. CASE Idle(k) \/ c # ConfigOf[k]
        <4>1. failures'[c] = failures[c]
          <5>1. CASE Idle(k) \/ Refuse(k) \/ Fail(k)
            BY <5>1 DEF Idle, Lookup, Create, NoRunner, Retry, GiveUp, Refuse, Fail
          <5>2. CASE ~Idle(k) /\ (Admit(k) \/ Succeed(k))
            BY <3>3, <5>2 DEF Admit, Succeed, LinkInv, TypeOK
          <5>3. QED
            BY <3>1, <5>1, <5>2 DEF Proceed, Idle
        <4>2. ASSUME breakers[c] # Missing
              PROVE  Idle(k) \/ call[k].cb # breakers[c]
          <5>1. SUFFICES ASSUME ~Idle(k), c # ConfigOf[k]
                         PROVE  call[k].cb # breakers[c]
            BY <3>3
          <5>2. call[k].pc \in {"admission", "running"}
            BY <3>1, <5>1, Moves DEF Proceed, Idle
          <5>3. call[k].cb = breakers[ConfigOf[k]] /\ ConfigOf[k] \in Configs
            BY <5>2, CurrentOfCall
          <5>4. QED
            BY <4>2, <5>1, <5>3 DEF LinkInv, OwnBreakers
        <4>3. breakers[c] # Missing => breakers[c] \in Breakers
          BY DEF LinkInv, TypeOK
        <4>4. breakers[c] # Missing =>
                /\ breaker'[breakers[c]] = breaker[breakers[c]]
                /\ breakers[c] \in elapsed' <=> breakers[c] \in elapsed
                /\ Cardinality({j \in Calls :
                      /\ call'[j].pc = "running" /\ call'[j].cb = breakers[c]
                      /\ call'[j].generation = breaker'[breakers[c]].generation})
                     = Cardinality(Runs(breakers[c]))
          <5>1. SUFFICES ASSUME breakers[c] # Missing, NEW b \in Breakers, b = breakers[c]
                         PROVE  /\ breaker'[b] = breaker[b]
                                /\ b \in elapsed' <=> b \in elapsed
                                /\ Cardinality({j \in Calls :
                                      /\ call'[j].pc = "running" /\ call'[j].cb = b
                                      /\ call'[j].generation = breaker'[b].generation})
                                     = Cardinality(Runs(b))
            BY <4>3
          <5>2. /\ breaker'[b] = breaker[b] /\ (b \in elapsed' <=> b \in elapsed)
                /\ Runs(b)' = Runs(b)
            BY <3>1, <4>2, <5>1, RunsApart
          <5>3. QED
            BY <5>2 DEF Runs
        <4>5. QED
          BY <1>1, <1>3, <4>1, <4>4 DEF FailuresCounted, Runs
      <3>4. QED
        BY <3>2, <3>3
    <2>3. QED
      BY <2>1, <2>2 DEF CallStep
  <1>4. QED
    BY <1>2, <1>3

LEMMA CountStep ==
  ASSUME LinkInv, CountInv, CallStep
  PROVE  CountInv'
  BY ProbesStep, FailuresStep DEF CountInv

-----------------------------------------------------------------------------
(* One probe *)

\* A call that a half-open breaker let through still counts.  That is so only
\* where one is let through at a time: the result of the first would end the
\* generation of a second.
ProbeIsCurrent ==
  \A k \in Calls :
    call[k].pc = "running" /\ call[k].admitted = "half-open" => Counts(k)

LEMMA ProbeStep ==
  ASSUME MaxRequests = 1, LinkInv, ProbesAreCounted, ProbeIsCurrent, CallStep
  PROVE  ProbeIsCurrent'
  <1>1. SUFFICES ASSUME NEW j \in Calls, call'[j].pc = "running", call'[j].admitted = "half-open"
                 PROVE  call'[j].generation = breaker'[call'[j].cb].generation
    BY DEF ProbeIsCurrent, Counts
  <1>2. CASE \E x \in Breakers : Elapse(x)
    BY <1>1, <1>2 DEF Elapse, ProbeIsCurrent, Counts
  <1>3. CASE \E k \in Calls : Proceed(k)
    <2>1. PICK k \in Calls : Proceed(k)
      BY <1>3
    <2>2. Others(k) /\ breaker \in [Breakers -> BreakerStates]
          /\ call \in [Calls -> CallStates]
      BY <2>1, Moves DEF LinkInv, TypeOK
    <2>3. CASE j = k
      <3>1. Admit(k)
        BY <1>1, <2>1, <2>3, Moves DEF Proceed
      <3> DEFINE now == Current(call[k].cb)
      <3>2. /\ breaker' = [breaker EXCEPT ![call[k].cb] = [now EXCEPT !.requests = now.requests + 1]]
            /\ call' = [call EXCEPT ![k].pc = "running", ![k].generation = now.generation,
                                    ![k].admitted = now.state]
        BY <3>1 DEF Admit
      <3>3. call[k].cb \in Breakers /\ now \in BreakerStates /\ call[k] \in CallStates
        BY <3>1, CurrentOfCall DEF Admit
      <3> HIDE DEF now
      <3>4. breaker'[call[k].cb] = [now EXCEPT !.requests = now.requests + 1]
        BY <2>2, <3>2, <3>3
      <3>5. breaker'[call[k].cb].generation = now.generation
        BY <3>3, <3>4 DEF BreakerStates
      <3>6. call'[k] = [call[k] EXCEPT !.pc = "running", !.generation = now.generation,
                                       !.admitted = now.state]
        BY <2>2, <3>2
      <3>7. call'[k].cb = call[k].cb /\ call'[k].generation = now.generation
        BY <3>3, <3>6 DEF CallStates
      <3>8. QED
        BY <2>3, <3>5, <3>7
    <2>4. CASE j # k
      <3>1. call'[j] = call[j] /\ call[j].pc = "running" /\ call[j].admitted = "half-open"
        BY <1>1, <2>2, <2>4 DEF Others
      <3> SUFFICES ASSUME NEW b \in Breakers, b = call[j].cb
                   PROVE  breaker'[b].generation = breaker[b].generation
        BY <3>1 DEF ProbeIsCurrent, Counts, LinkInv, HasBreaker
      <3>2. CASE Idle(k) \/ call[k].cb # b
        BY <2>1, <3>2, RunsApart
      <3>3. CASE ~Idle(k) /\ call[k].cb = b
        <4>1. Counts(j) /\ breaker[b].state = "half-open"
          BY <3>1 DEF ProbeIsCurrent, LinkInv, RunsAreKnown, Counts
        <4>2. Current(b) = breaker[b]
          BY <4>1 DEF Current
        <4>3. CASE Admit(k)
          <5>1. breaker'[b] = [breaker[b] EXCEPT !.requests = breaker[b].requests + 1]
            BY <2>2, <3>3, <4>2, <4>3 DEF Admit
          <5>2. QED
            BY <2>2, <5>1 DEF BreakerStates
        <4>4. CASE Refuse(k) \/ ((Succeed(k) \/ Fail(k)) /\ ~Counts(k))
          BY <3>3, <4>1, <4>4, LookCounts
        <4>5. ~((Succeed(k) \/ Fail(k)) /\ Counts(k))
          <5>1. SUFFICES ASSUME Succeed(k) \/ Fail(k), Counts(k)
                         PROVE  FALSE
            OBVIOUS
          <5>2. k \in Runs(b) /\ Cardinality(Runs(b) \ {k}) = Cardinality(Runs(b)) - 1
            BY <3>3, <5>1, CountingRun
          <5>3. j \in Runs(b) \ {k}
            BY <2>4, <3>1, <4>1 DEF Runs, Counts
          <5>4. IsFiniteSet(Runs(b) \ {k}) /\ Cardinality(Runs(b) \ {k}) # 0
            BY <5>3, FS_RemoveElement, FS_EmptySet, RunsAreFew
          <5>5. Cardinality(Runs(b)) <= 1
            <6>1. breaker[b].requests \in Nat
              BY <2>2 DEF BreakerStates
            <6>2. QED
              BY <4>1, <6>1, RunsAreFew DEF ProbesAreCounted
          <5>6. Cardinality(Runs(b) \ {k}) \in Nat /\ Cardinality(Runs(b)) \in Nat
            BY <5>4, FS_CardinalityType, RunsAreFew
          <5>7. QED
            BY <5>2, <5>4, <5>5, <5>6
        <4>6. QED
          BY <2>1, <3>3, <4>3, <4>4, <4>5 DEF Proceed, Idle
      <3>4. QED
        BY <3>2, <3>3
    <2>5. QED
      BY <2>3, <2>4
  <1>4. QED
    BY <1>2, <1>3 DEF CallStep

LEMMA OneProbeRuns ==
  ASSUME LinkInv, ProbesAreCounted, ProbeIsCurrent
  PROVE  OneProbe
  <1>1. SUFFICES ASSUME NEW b \in Breakers, breaker[b].state = "half-open"
                 PROVE  Cardinality({k \in Calls : /\ call[k].pc = "running" /\ call[k].cb = b
                                                   /\ call[k].admitted = "half-open"})
                          <= MaxRequests
    BY DEF OneProbe
  <1> DEFINE probes == {k \in Calls : /\ call[k].pc = "running" /\ call[k].cb = b
                                      /\ call[k].admitted = "half-open"}
  <1>2. probes \in SUBSET Runs(b)
    BY DEF ProbeIsCurrent, Counts, Runs
  <1>3. Cardinality(probes) <= Cardinality(Runs(b)) /\ Cardinality(probes) \in Nat
    BY <1>2, FS_Subset, FS_CardinalityType, RunsAreFew
  <1>4. breaker[b].requests \in Nat
    BY DEF LinkInv, TypeOK, BreakerStates
  <1>5. QED
    BY <1>1, <1>3, <1>4, RunsAreFew DEF ProbesAreCounted

-----------------------------------------------------------------------------
(* What the invariant of the breakers gives *)

LEMMA BInit == BreakerInit => BInv /\ ProbeIsCurrent
  <1> SUFFICES ASSUME BreakerInit
               PROVE  BInv /\ ProbeIsCurrent
    OBVIOUS
  <1>1. LinkInv
    BY LinksInit
  <1>2. CountInv /\ BlameInv /\ ProbeIsCurrent
    BY DEF BreakerInit, CountInv, ProbesAreCounted, FailuresCounted, BlameInv,
           OpenedByFailure, Isolation, ProbeIsCurrent
  <1>3. QED
    BY <1>1, <1>2 DEF BInv

LEMMA BStep == BInv /\ (CallStep \/ UNCHANGED breakerVars) => BInv'
  <1>1. BInv /\ CallStep => BInv'
    BY LinksStep, CountStep, BlameStep DEF BInv
  <1>2. ASSUME BInv, UNCHANGED breakerVars
        PROVE  BInv'
    <2>1. LinkInv'
      BY <1>2, LinksStutter DEF BInv
    <2>2. BlameInv'
      BY <1>2 DEF BInv, BlameInv, OpenedByFailure, Isolation, Failed, breakerVars
    <2>3. CountInv'
      BY <1>2 DEF BInv, CountInv, ProbesAreCounted, FailuresCounted, Runs, breakerVars
    <2>4. QED
      BY <2>1, <2>2, <2>3 DEF BInv
  <1>3. QED
    BY <1>1, <1>2

\* The counts of the invariant bound the calls of a configuration.
LEMMA CountsBound == BInv => FailuresBounded
  <1>1. SUFFICES ASSUME BInv, NEW c \in Configs
                 PROVE  failures[c] <= Threshold + Cardinality(Calls) - 1
    BY DEF FailuresBounded
  <1>2. FailuresCounted(c) /\ failures[c] \in Nat /\ Threshold \in Nat \ {0}
    BY <1>1 DEF BInv, CountInv, LinkInv, TypeOK
  <1>3. CASE breakers[c] = Missing
    BY <1>2, <1>3, RunsAreFew DEF FailuresCounted
  <1>4. CASE breakers[c] # Missing
    <2> SUFFICES ASSUME NEW b, b = breakers[c]
                 PROVE  failures[c] <= Threshold + Cardinality(Calls) - 1
      OBVIOUS
    <2>1. b \in Breakers /\ breaker[b] \in BreakerStates
      BY <1>1, <1>4 DEF BInv, LinkInv, TypeOK
    <2>2. /\ breaker[b].failures \in Nat
          /\ breaker[b].state \in {"closed", "open", "half-open"}
          /\ breaker[b].state = "closed" => breaker[b].failures < Threshold
      BY <1>1, <2>1 DEF BInv, LinkInv, ClosedIsBelow, BreakerStates
    <2>3. /\ breaker[b].state = "closed"
               => failures[c] <= breaker[b].failures + Cardinality(Runs(b))
          /\ breaker[b].state = "half-open" => failures[c] <= Cardinality(Runs(b))
          /\ breaker[b].state = "open" => failures[c] <= Threshold + Cardinality(Calls) - 1
      BY <1>2, <1>4 DEF FailuresCounted
    <2>4. QED
      BY <1>2, <2>2, <2>3, RunsAreFew
  <1>5. QED
    BY <1>3, <1>4

\* A breaker closes by the success of the call that its half-open state let in.
LEMMA ClosedByProbe ==
  ASSUME LinkInv, CallStep, NEW b \in Breakers,
         breaker[b].state # "closed", breaker'[b].state = "closed"
  PROVE  \E k \in Calls : /\ call[k].cb = b /\ call[k].admitted = "half-open"
                          /\ call'[k].pc = "ok"
  <1>1. PICK k \in Calls : Proceed(k)
    BY DEF CallStep, Elapse
  <1>2. ~Idle(k) /\ call[k].cb = b
    BY <1>1, RunsApart
  <1>3. ~Admit(k)
    BY <1>2, AdmitCounts
  <1>4. ~(Refuse(k) \/ ((Succeed(k) \/ Fail(k)) /\ ~Counts(k)))
    BY <1>2, LookCounts
  <1>5. ~(Fail(k) /\ Counts(k))
    BY <1>2, FailureCounts
  <1>6. Succeed(k) /\ Counts(k)
    BY <1>1, <1>2, <1>3, <1>4, <1>5 DEF Proceed, Idle
  <1>7. call[k].pc = "running" /\ call'[k].pc = "ok"
    BY <1>1, <1>6, Moves
  <1>8. breaker[b].state = call[k].admitted /\ breaker[b].state # "open"
    BY <1>2, <1>6, <1>7, ResultCounts
  <1>9. breaker[b].state \in {"closed", "open", "half-open"}
    BY DEF LinkInv, TypeOK, BreakerStates
  <1>10. QED
    BY <1>2, <1>7, <1>8, <1>9

-----------------------------------------------------------------------------
(* The circuits that the breakers implement *)

\* A breaker that nobody uses has counted nothing.
UnusedIsNew ==
  \A b \in Breakers : (\A c \in Configs : breakers[c] # b) => breaker[b].failures = 0

\* Of the requests that a half-open breaker let through, each is on its way or
\* succeeded.
Scored(c) ==
  Has(c) /\ StateOf(c) = "half-open" =>
    Current(breakers[c]).requests = Cardinality(FlightOf(c)) + Current(breakers[c]).successes

RequestsAreScored == \A c \in Configs : Scored(c)

\* What the circuits need beyond LinkInv.
CircuitInv == UnusedIsNew /\ RequestsAreScored

\* The circuit of c is as it was.
SameCircuit(c) ==
  /\ StateOf(c)' = StateOf(c)
  /\ FlightOf(c)' = FlightOf(c)
  /\ ScoreOf(c)' = ScoreOf(c)

\* Its breaker is as whoever looks finds it, the requests it let through included.
SameRequests(c) ==
  /\ Has(c)' = Has(c)
  /\ Has(c) => Current(breakers[c])' = Current(breakers[c])

\* A circuit has finitely many calls on their way.
LEMMA FlightIsFinite ==
  ASSUME NEW c
  PROVE  IsFiniteSet(FlightOf(c)) /\ Cardinality(FlightOf(c)) \in Nat
  <1>1. FlightOf(c) \in SUBSET Calls
    BY DEF FlightOf
  <1>2. QED
    BY <1>1, FS_Subset, FS_CardinalityType

\* Who runs has the breaker of its configuration, and no other configuration has it.
LEMMA RunsUnderItsOwn ==
  ASSUME LinkInv, NEW k \in Calls, call[k].pc = "running"
  PROVE  /\ ConfigOf[k] \in Configs /\ call[k].cb = breakers[ConfigOf[k]] /\ Has(ConfigOf[k])
         /\ call[k].cb \in Breakers
         /\ call[k].generation <= breaker[call[k].cb].generation
  <1>1. call[k].cb \in Breakers /\ call[k].cb = breakers[ConfigOf[k]]
    BY DEF LinkInv, HasBreaker, OneBreaker
  <1>2. QED
    BY <1>1 DEF LinkInv, RunsAreKnown, Has

\* The call k moves, and with it its breaker, to `new`: that is what whoever
\* looks at the breaker finds now, and at the others what they found before.
LEMMA LooksNew ==
  ASSUME LinkInv, NEW b \in Breakers, NEW new \in BreakerStates,
         breaker' = [breaker EXCEPT ![b] = new], elapsed' = Elapsed(b, new.state),
         new.state = "open" => b \notin elapsed
  PROVE  /\ Current(b)' = new
         /\ \A x \in Breakers \ {b} : Current(x)' = Current(x)
  <1>1. breaker \in [Breakers -> BreakerStates]
    BY DEF LinkInv, TypeOK
  <1>2. breaker'[b] = new /\ \A x \in Breakers \ {b} : breaker'[x] = breaker[x]
    BY <1>1
  <1>3. \A x \in Breakers \ {b} : x \in elapsed' <=> x \in elapsed
    BY DEF Elapsed
  <1>4. new.state = "open" => b \notin elapsed'
    BY DEF Elapsed
  <1>5. Current(b)' = new
    BY <1>2, <1>4 DEF Current
  <1>6. \A x \in Breakers \ {b} : Current(x)' = Current(x)
    BY <1>2, <1>3 DEF Current
  <1>7. QED
    BY <1>5, <1>6

\* The circuits of the other configurations.
LEMMA CircuitsApart ==
  ASSUME LinkInv, NEW k \in Calls, Others(k), NEW c \in Configs \ {ConfigOf[k]},
         UNCHANGED breakers,
         \A x \in Breakers : x # breakers[ConfigOf[k]] => Current(x)' = Current(x)
  PROVE  SameCircuit(c) /\ SameRequests(c)
  <1>1. Has(c) => breakers[c] \in Breakers /\ breakers[c] # breakers[ConfigOf[k]]
    BY DEF LinkInv, TypeOK, OwnBreakers, Has
  <1>2. SameRequests(c)
    BY <1>1 DEF SameRequests, Has
  <1>3. StateOf(c)' = StateOf(c) /\ ScoreOf(c)' = ScoreOf(c)
    BY <1>2 DEF SameRequests, StateOf, ScoreOf
  <1>4. FlightOf(c)' = FlightOf(c)
    <2>1. \A j \in Calls : ConfigOf[j] = c => call'[j] = call[j]
      BY DEF Others
    <2>2. CASE Has(c)
      BY <1>2, <2>1, <2>2 DEF FlightOf, SameRequests
    <2>3. CASE ~Has(c)
      <3>1. \A j \in Calls : ConfigOf[j] = c => call[j].pc # "running"
        BY <2>3, RunsUnderItsOwn
      <3>2. QED
        BY <2>1, <3>1 DEF FlightOf
    <2>4. QED
      BY <2>2, <2>3
  <1>5. QED
    BY <1>2, <1>3, <1>4 DEF SameCircuit

\* A step that neither begins nor ends a run leaves all circuits as they are; a
\* breaker that is made is closed and has counted nothing.
LEMMA CircuitsIdle ==
  ASSUME LinkInv, UnusedIsNew, NEW k \in Calls, Proceed(k), Idle(k), NEW c \in Configs
  PROVE  /\ SameCircuit(c)
         /\ SameRequests(c) \/ (~Has(c) /\ StateOf(c) = "closed")
  <1>1. UNCHANGED <<breaker, elapsed>>
    BY DEF Idle, Lookup, Create, NoRunner, Retry, GiveUp
  <1>2. /\ Others(k) /\ call[k].pc # "running" /\ call'[k].pc # "running"
    BY Moves DEF Idle
  <1>3. CallStep
    BY DEF CallStep
  <1>4. \A x : Current(x)' = Current(x)
    BY <1>1 DEF Current
  <1>5. CASE breakers'[c] = breakers[c]
    <2>1. SameRequests(c)
      BY <1>4, <1>5 DEF SameRequests, Has
    <2>2. StateOf(c)' = StateOf(c) /\ ScoreOf(c)' = ScoreOf(c)
      BY <2>1 DEF SameRequests, StateOf, ScoreOf
    <2>3. FlightOf(c)' = FlightOf(c)
      BY <1>2, <1>4, <1>5 DEF FlightOf, Others
    <2>4. QED
      BY <2>1, <2>2, <2>3 DEF SameCircuit
  <1>6. CASE breakers'[c] # breakers[c]
    <2>1. /\ ~Has(c) /\ breakers'[c] \in Breakers
          /\ \A d \in Configs : breakers[d] # breakers'[c]
      BY <1>3, <1>6, BreakersStay DEF Has
    <2> DEFINE b == breakers'[c]
    <2>2. breaker'[b].state = "closed" /\ breaker'[b].failures = 0
      BY <1>1, <2>1 DEF UnusedIsNew, LinkInv, UnusedIsClosed
    <2>3. Current(breakers[c])' = breaker'[b]
      BY <2>2 DEF Current
    <2>4. Has(c)'
      BY <2>1 DEF Has
    <2>5. StateOf(c) = "closed" /\ StateOf(c)' = "closed"
      BY <2>1, <2>2, <2>3, <2>4 DEF StateOf
    <2>6. ScoreOf(c) = 0 /\ ScoreOf(c)' = 0
      BY <2>1, <2>2, <2>3, <2>4, <2>5 DEF ScoreOf
    <2>7. \A j \in Calls : ConfigOf[j] = c => call[j].pc # "running" /\ call'[j].pc # "running"
      BY <1>2, <2>1, RunsUnderItsOwn DEF Others
    <2>8. FlightOf(c) = {} /\ FlightOf(c)' = {}
      BY <2>7 DEF FlightOf
    <2>9. QED
      BY <2>1, <2>5, <2>6, <2>8 DEF SameCircuit
  <1>7. QED
    BY <1>5, <1>6

\* The circuit of a call that runs or waits to.
LEMMA CircuitOfCall ==
  ASSUME LinkInv, NEW k \in Calls, call[k].pc \in {"admission", "running"}
  PROVE  LET c == ConfigOf[k]
             b == Current(breakers[c])
         IN  /\ c \in Configs /\ Has(c) /\ breakers[c] = call[k].cb /\ call[k].cb \in Breakers
             /\ b \in BreakerStates
             /\ StateOf(c) = b.state
             /\ b.state = "open" => breakers[c] \notin elapsed
             /\ ScoreOf(c) = IF b.state = "open" THEN 0
                             ELSE IF b.state = "closed" THEN b.failures ELSE b.successes
             /\ b.generation >= breaker[breakers[c]].generation
  <1> DEFINE c == ConfigOf[k]
  <1>1. c \in Configs /\ breakers[c] = call[k].cb /\ call[k].cb \in Breakers /\ Has(c)
    BY CurrentOfCall DEF Has, LinkInv
  <1>2. /\ Current(breakers[c]) \in BreakerStates
        /\ Current(breakers[c]).generation >= breaker[breakers[c]].generation
    BY <1>1, CurrentOfCall
  <1>3. Current(breakers[c]).state = "open" => breakers[c] \notin elapsed
    BY <1>1, LookedAt DEF LinkInv
  <1>4. QED
    BY <1>1, <1>2, <1>3 DEF StateOf, ScoreOf

\* What an admission does to the circuit of its configuration.
LEMMA CircuitAdmits ==
  ASSUME LinkInv, NEW k \in Calls, Admit(k), NEW c, c = ConfigOf[k]
  PROVE  /\ c \in Configs /\ Has(c) /\ Others(k)
         /\ k \notin FlightOf(c)
         /\ StateOf(c) = "closed" \/ (StateOf(c) = "half-open"
                                       /\ Current(breakers[c]).requests < MaxRequests)
         /\ StateOf(c)' = StateOf(c)
         /\ FlightOf(c)' = FlightOf(c) \cup {k}
         /\ ScoreOf(c)' = ScoreOf(c)
         /\ Current(breakers[c])'.requests = Current(breakers[c]).requests + 1
         /\ Current(breakers[c])'.successes = Current(breakers[c]).successes
         /\ \A d \in Configs \ {c} : SameCircuit(d) /\ SameRequests(d)
  <1> DEFINE now == Current(breakers[c])
             new == [now EXCEPT !.requests = now.requests + 1]
  <1>1. call[k].pc = "admission" /\ Others(k) /\ UNCHANGED breakers
    BY Moves DEF Proceed, Admit
  <1>2. /\ c \in Configs /\ Has(c) /\ breakers[c] = call[k].cb /\ breakers[c] \in Breakers
        /\ now \in BreakerStates /\ StateOf(c) = now.state
        /\ ScoreOf(c) = IF now.state = "open" THEN 0
                        ELSE IF now.state = "closed" THEN now.failures ELSE now.successes
    BY <1>1, CircuitOfCall
  <1>3. /\ now.state = "closed" \/ (now.state = "half-open" /\ now.requests < MaxRequests)
        /\ breaker' = [breaker EXCEPT ![breakers[c]] = new]
        /\ elapsed' = Elapsed(breakers[c], now.state)
        /\ call' = [call EXCEPT ![k].pc = "running", ![k].generation = now.generation,
                                ![k].admitted = now.state]
    BY <1>2 DEF Admit, Admits
  <1> HIDE DEF now
  <1>4. /\ new \in BreakerStates /\ new.state = now.state /\ new.generation = now.generation
        /\ new.failures = now.failures /\ new.successes = now.successes
        /\ new.requests = now.requests + 1
    BY <1>2 DEF BreakerStates
  <1> HIDE DEF new
  <1>5. /\ Current(breakers[c])' = new
        /\ \A x \in Breakers : x # breakers[ConfigOf[k]] => Current(x)' = Current(x)
    <2> SUFFICES ASSUME NEW b \in Breakers, b = breakers[c]
                 PROVE  /\ Current(b)' = new
                        /\ \A x \in Breakers \ {b} : Current(x)' = Current(x)
      BY <1>1, <1>2 DEF Current
    <2>1. breaker' = [breaker EXCEPT ![b] = new] /\ elapsed' = Elapsed(b, new.state)
      BY <1>3, <1>4
    <2>2. new.state # "open"
      BY <1>3, <1>4
    <2>3. QED
      BY <1>4, <2>1, <2>2, LooksNew
  <1>6. /\ call'[k].pc = "running" /\ call'[k].generation = now.generation
    <2>1. call[k] \in CallStates /\ call \in [Calls -> CallStates]
      BY DEF LinkInv, TypeOK
    <2>2. QED
      BY <1>3, <2>1 DEF CallStates
  <1>7. Has(c)'
    BY <1>1, <1>2 DEF Has
  <1>8. StateOf(c)' = StateOf(c) /\ ScoreOf(c)' = ScoreOf(c)
    BY <1>2, <1>3, <1>4, <1>5, <1>7 DEF StateOf, ScoreOf
  <1>9. FlightOf(c)' = FlightOf(c) \cup {k} /\ k \notin FlightOf(c)
    BY <1>1, <1>4, <1>5, <1>6 DEF FlightOf, Others, now
  <1>10. \A d \in Configs \ {c} : SameCircuit(d) /\ SameRequests(d)
    BY <1>1, <1>5, CircuitsApart
  <1>11. QED
    BY <1>1, <1>2, <1>3, <1>4, <1>5, <1>8, <1>9, <1>10, SMTT(30) DEF now

\* What a refusal, or a result of an earlier generation, does: somebody looked.
LEMMA CircuitLookedAt ==
  ASSUME LinkInv, NEW k \in Calls,
         \/ Refuse(k)
         \/ (Succeed(k) \/ Fail(k)) /\ ~Counts(k),
         NEW c \in Configs
  PROVE  SameCircuit(c) /\ SameRequests(c)
  <1> DEFINE d == ConfigOf[k]
             now == Current(breakers[d])
  <1>1. call[k].pc \in {"admission", "running"} /\ Others(k) /\ call'[k].pc # "running"
    BY Moves DEF Proceed
  <1>2. /\ d \in Configs /\ Has(d) /\ breakers[d] = call[k].cb /\ breakers[d] \in Breakers
        /\ now \in BreakerStates /\ (now.state = "open" => breakers[d] \notin elapsed)
        /\ now.generation >= breaker[breakers[d]].generation
    BY <1>1, CircuitOfCall
  <1>3. /\ breaker' = [breaker EXCEPT ![breakers[d]] = now]
        /\ elapsed' = Elapsed(breakers[d], now.state) /\ UNCHANGED breakers
    <2>1. CASE Refuse(k)
      BY <1>2, <2>1 DEF Refuse
    <2>2. CASE Succeed(k) /\ ~Counts(k)
      <3>1. call[k].pc = "running" /\ AfterSuccess(k) = now
        BY <1>2, <2>2, ResultCounts DEF Succeed, Result
      <3>2. QED
        BY <1>2, <2>2, <3>1 DEF Succeed, Result, AfterSuccess
    <2>3. CASE Fail(k) /\ ~Counts(k)
      <3>1. call[k].pc = "running" /\ AfterFailure(k) = now
        BY <1>2, <2>3, ResultCounts DEF Fail, Result
      <3>2. QED
        BY <1>2, <2>3, <3>1 DEF Fail, Result, AfterFailure
    <2>4. QED
      BY <2>1, <2>2, <2>3
  <1>4. k \notin FlightOf(d)
    <2>1. CASE Refuse(k)
      BY <2>1 DEF Refuse, FlightOf
    <2>2. CASE (Succeed(k) \/ Fail(k)) /\ ~Counts(k)
      <3>1. call[k].pc = "running" /\ AfterSuccess(k) = now
        BY <1>2, <2>2, ResultCounts DEF Succeed, Fail, Result
      <3>2. call[k].generation # now.generation
        <4>1. call[k].generation <= breaker[breakers[d]].generation
          BY <1>2, <3>1, RunsUnderItsOwn
        <4>2. call[k].generation # breaker[breakers[d]].generation
          BY <1>2, <2>2 DEF Counts
        <4>3. call[k].generation \in Nat /\ breaker[breakers[d]].generation \in Nat /\ now.generation \in Nat
          BY <1>2 DEF LinkInv, TypeOK, CallStates, BreakerStates
        <4> HIDE DEF now
        <4>4. QED
          BY <1>2, <4>1, <4>2, <4>3
      <3>3. QED
        BY <3>2 DEF FlightOf
    <2>3. QED
      BY <2>1, <2>2
  <1> HIDE DEF now
  <1>5. /\ Current(breakers[d])' = now
        /\ \A x \in Breakers : Current(x)' = Current(x)
    <2> SUFFICES ASSUME NEW b \in Breakers, b = breakers[d]
                 PROVE  /\ Current(b)' = now
                        /\ \A x \in Breakers \ {b} : Current(x)' = Current(x)
      BY <1>2, <1>3 DEF Current, now
    <2>1. breaker' = [breaker EXCEPT ![b] = now] /\ elapsed' = Elapsed(b, now.state)
      BY <1>3
    <2>2. now.state = "open" => b \notin elapsed
      BY <1>2
    <2>3. QED
      BY <1>2, <2>1, <2>2, LooksNew
  <1>6. CASE c # d
    BY <1>1, <1>3, <1>5, <1>6, CircuitsApart
  <1>7. CASE c = d
    <2>1. SameRequests(d)
      BY <1>2, <1>3, <1>5 DEF SameRequests, Has, now
    <2>2. StateOf(d)' = StateOf(d) /\ ScoreOf(d)' = ScoreOf(d)
      BY <2>1 DEF SameRequests, StateOf, ScoreOf
    <2>3. FlightOf(d)' = FlightOf(d)
      BY <1>1, <1>2, <1>4, <2>1 DEF FlightOf, Others, SameRequests
    <2>4. QED
      BY <1>7, <2>1, <2>2, <2>3 DEF SameCircuit
  <1>8. QED
    BY <1>6, <1>7

\* The call k moves its breaker from old to new.
MovesTo(k, old, new) ==
  /\ old = breaker[call[k].cb] /\ new \in BreakerStates
  /\ breaker' = [breaker EXCEPT ![call[k].cb] = new]
  /\ elapsed' = Elapsed(call[k].cb, new.state)

\* The result of k moves the circuit of c, as its breaker goes from old to new.
Scores(k, c, old, new) ==
  /\ c \in Configs /\ Has(c) /\ k \in FlightOf(c)
  /\ Current(breakers[c]) = old
  /\ StateOf(c) \in {"closed", "half-open"}
  /\ ScoreOf(c) = IF StateOf(c) = "closed" THEN old.failures ELSE old.successes
  /\ Has(c)' /\ Current(breakers[c])' = new
  /\ StateOf(c)' = new.state
  /\ ScoreOf(c)' = IF new.state = "open" THEN 0
                   ELSE IF new.state = "closed" THEN new.failures ELSE new.successes
  /\ new.generation = old.generation => FlightOf(c)' = FlightOf(c) \ {k}
  /\ new.generation > old.generation => FlightOf(c)' = {}
  /\ \A d \in Configs \ {c} : SameCircuit(d) /\ SameRequests(d)

\* What a result does that counts: the circuit takes a new state, or scores.
LEMMA CircuitCounts ==
  ASSUME LinkInv, NEW k \in Calls, Counts(k), NEW old, NEW new, MovesTo(k, old, new),
         Succeed(k) \/ Fail(k), NEW c, c = ConfigOf[k]
  PROVE  Scores(k, c, old, new)
  <1>0. /\ old = breaker[call[k].cb] /\ new \in BreakerStates
        /\ breaker' = [breaker EXCEPT ![call[k].cb] = new]
        /\ elapsed' = Elapsed(call[k].cb, new.state)
    BY SMTT(30) DEF MovesTo
  <1>1. call[k].pc = "running" /\ Others(k) /\ call'[k].pc # "running" /\ UNCHANGED breakers
    BY Moves DEF Proceed, Succeed, Fail, Result
  <1>2. /\ c \in Configs /\ Has(c) /\ breakers[c] = call[k].cb /\ breakers[c] \in Breakers
    BY <1>1, CircuitOfCall
  <1>3. old.state \in {"closed", "half-open"} /\ old \in BreakerStates
    BY <1>0, <1>1, CountingRun
  <1>4. Current(breakers[c]) = old
    BY <1>0, <1>2, <1>3 DEF Current
  <1>5. breakers[c] \notin elapsed
    BY <1>0, <1>2, <1>3 DEF LinkInv, ElapsedIsOpen
  <1>6. /\ Current(breakers[c])' = new
        /\ \A x \in Breakers : x # breakers[c] => Current(x)' = Current(x)
    <2> SUFFICES ASSUME NEW b \in Breakers, b = breakers[c]
                 PROVE  /\ Current(b)' = new
                        /\ \A x \in Breakers \ {b} : Current(x)' = Current(x)
      BY <1>1, <1>2 DEF Current
    <2>1. breaker' = [breaker EXCEPT ![b] = new] /\ elapsed' = Elapsed(b, new.state)
      BY <1>0, <1>2
    <2>2. QED
      BY <1>0, <1>5, <2>1, LooksNew
  <1>7. Has(c)'
    BY <1>1, <1>2 DEF Has
  <1>8. StateOf(c) = old.state /\ StateOf(c)' = new.state
    BY <1>2, <1>4, <1>6, <1>7 DEF StateOf
  <1>9. /\ ScoreOf(c) = IF StateOf(c) = "closed" THEN old.failures ELSE old.successes
        /\ ScoreOf(c)' = IF new.state = "open" THEN 0
                         ELSE IF new.state = "closed" THEN new.failures ELSE new.successes
    BY <1>2, <1>3, <1>4, <1>6, <1>7, <1>8 DEF ScoreOf
  <1>10. k \in FlightOf(c)
    BY <1>0, <1>1, <1>2, <1>4 DEF FlightOf, Counts
  <1>11. new.generation = old.generation => FlightOf(c)' = FlightOf(c) \ {k}
    BY <1>1, <1>4, <1>6 DEF FlightOf, Others
  <1>12. ASSUME new.generation > old.generation PROVE FlightOf(c)' = {}
    <2>1. SUFFICES ASSUME NEW j \in Calls, call'[j].pc = "running", ConfigOf[j] = c,
                          call'[j].generation = new.generation
                   PROVE  FALSE
      BY <1>6 DEF FlightOf
    <2>2. call[j] = call'[j]
      BY <1>1, <2>1 DEF Others
    <2>3. call[j].generation <= old.generation
      BY <1>0, <1>2, <2>1, <2>2, RunsUnderItsOwn
    <2>4. call[j].generation \in Nat /\ old.generation \in Nat /\ new.generation \in Nat
      BY <1>0, <1>3 DEF LinkInv, TypeOK, CallStates, BreakerStates
    <2>5. QED
      BY <1>12, <2>1, <2>2, <2>3, <2>4
  <1>13. \A d \in Configs \ {c} : SameCircuit(d) /\ SameRequests(d)
    BY <1>1, <1>6, CircuitsApart
  <1>14. QED
    BY <1>2, <1>3, <1>4, <1>6, <1>7, <1>8, <1>9, <1>10, <1>11, <1>12, <1>13 DEF Scores

\* The state of a breaker after a success that counts ...
LEMMA SuccessScores ==
  ASSUME NEW b \in BreakerStates, b.state \in {"closed", "half-open"}
  PROVE  /\ Succeeded(b) \in BreakerStates
         /\ b.state = "closed" =>
              /\ Succeeded(b).state = "closed" /\ Succeeded(b).failures = 0
              /\ Succeeded(b).generation = b.generation
         /\ b.state = "half-open" /\ b.successes + 1 < MaxRequests =>
              /\ Succeeded(b).state = "half-open" /\ Succeeded(b).successes = b.successes + 1
              /\ Succeeded(b).generation = b.generation /\ Succeeded(b).requests = b.requests
         /\ b.state = "half-open" /\ b.successes + 1 >= MaxRequests =>
              Succeeded(b) = Become(b, "closed")
  <1>1. b.successes \in Nat /\ b.failures \in Nat
    BY DEF BreakerStates
  <1>2. CASE b.state = "closed"
    <2>1. PICK n \in Nat, m \in Nat : n = b.successes + 1 /\ m = 0
      BY <1>1
    <2>2. Succeeded(b) = Recount(b, n, m)
      BY <1>2, <2>1 DEF Succeeded, Counted, BreakerStates, Recount
    <2>3. /\ Succeeded(b) \in BreakerStates /\ Succeeded(b).state = b.state
          /\ Succeeded(b).generation = b.generation /\ Succeeded(b).failures = m
      BY <2>2, TypeOfRecount
    <2>4. QED
      BY <1>2, <2>1, <2>3
  <1>3. CASE b.state = "half-open"
    <2>1. Succeeded(b) = IF b.successes + 1 >= MaxRequests THEN Become(b, "closed")
                         ELSE [b EXCEPT !.successes = @ + 1]
      BY <1>3 DEF Succeeded, Counted
    <2>2. CASE b.successes + 1 >= MaxRequests
      BY <1>1, <1>3, <2>1, <2>2, TypeOfBecome
    <2>3. CASE ~(b.successes + 1 >= MaxRequests)
      <3>1. PICK n \in Nat, m \in Nat : n = b.successes + 1 /\ m = b.failures
        BY <1>1
      <3>2. Succeeded(b) = Recount(b, n, m)
        BY <2>1, <2>3, <3>1 DEF BreakerStates, Recount
      <3>3. Succeeded(b).successes = n
        BY <3>2 DEF BreakerStates, Recount
      <3>4. /\ Succeeded(b) \in BreakerStates /\ Succeeded(b).state = b.state
            /\ Succeeded(b).generation = b.generation /\ Succeeded(b).requests = b.requests
        BY <3>2, TypeOfRecount
      <3>5. QED
        BY <1>3, <2>3, <3>1, <3>3, <3>4
    <2>4. QED
      BY <2>2, <2>3
  <1>4. QED
    BY <1>2, <1>3

\* ... and of one that failed.
LEMMA FailureScores ==
  ASSUME NEW b \in BreakerStates, b.state \in {"closed", "half-open"}
  PROVE  /\ HasFailed(b) \in BreakerStates
         /\ b.state = "closed" /\ b.failures + 1 < Threshold =>
              /\ HasFailed(b).state = "closed" /\ HasFailed(b).failures = b.failures + 1
              /\ HasFailed(b).generation = b.generation
         /\ ~(b.state = "closed" /\ b.failures + 1 < Threshold) =>
              HasFailed(b) = Become(b, "open")
  <1>1. b.failures \in Nat /\ b.successes \in Nat
    BY DEF BreakerStates
  <1>2. /\ HasFailed(b) \in BreakerStates
        /\ \/ /\ b.state = "closed" /\ b.failures + 1 < Threshold
              /\ HasFailed(b).generation = b.generation
              /\ HasFailed(b).state = "closed"
              /\ HasFailed(b).failures = b.failures + 1
           \/ HasFailed(b) = Become(b, "open")
    BY FailureCounted
  <1>3. b.state = "closed" /\ b.failures + 1 < Threshold => HasFailed(b) # Become(b, "open")
    <2>1. ASSUME b.state = "closed", b.failures + 1 < Threshold
          PROVE  HasFailed(b).state = "closed"
      <3>1. HasFailed(b) = [b EXCEPT !.failures = @ + 1, !.successes = 0]
        BY <1>1, <2>1 DEF HasFailed, Counted, Trips
      <3>2. QED
        BY <2>1, <3>1 DEF BreakerStates
    <2>2. Become(b, "open").state = "open"
      BY DEF Become
    <2>3. QED
      BY <2>1, <2>2
  <1>4. QED
    BY <1>2, <1>3

\* The circuits of a step: that of c is in state s, with these calls and this score.
Circuit(c, s, f, n) ==
  /\ StateOf(c)' = s /\ FlightOf(c)' = f /\ ScoreOf(c)' = n
  /\ \A d \in Configs \ {c} : SameCircuit(d)

\* What a success that counts does to the circuit.
LEMMA CircuitSucceeds ==
  ASSUME LinkInv, NEW k \in Calls, Succeed(k), Counts(k), NEW c, c = ConfigOf[k]
  PROVE  /\ c \in Configs /\ Has(c) /\ k \in FlightOf(c)
         /\ \A d \in Configs \ {c} : SameRequests(d)
         /\ \/ StateOf(c) = "closed" /\ Circuit(c, "closed", FlightOf(c) \ {k}, 0)
            \/ /\ StateOf(c) = "half-open" /\ ScoreOf(c) + 1 < MaxRequests
               /\ Circuit(c, "half-open", FlightOf(c) \ {k}, ScoreOf(c) + 1)
               /\ Current(breakers[c])'.requests = Current(breakers[c]).requests
               /\ Current(breakers[c])'.successes = Current(breakers[c]).successes + 1
            \/ /\ StateOf(c) = "half-open" /\ ScoreOf(c) + 1 >= MaxRequests
               /\ Circuit(c, "closed", {}, 0)
  <1>0. PICK old, new : old = breaker[call[k].cb] /\ new = Succeeded(old)
    OBVIOUS
  <1>1. call[k].pc = "running" /\ old \in BreakerStates /\ old.state \in {"closed", "half-open"}
        /\ old.generation \in Nat /\ old.successes \in Nat
    BY <1>0, CountingRun DEF BreakerStates
  <1>2. new \in BreakerStates
    BY <1>0, <1>1, SuccessScores
  <1>3. MovesTo(k, old, new)
    BY <1>0, <1>1, <1>2, ResultCounts DEF MovesTo, Succeed, Result, AfterSuccess
  <1>4. /\ old.state = "closed" =>
              new.state = "closed" /\ new.failures = 0 /\ new.generation = old.generation
        /\ old.state = "half-open" /\ old.successes + 1 < MaxRequests =>
              /\ new.state = "half-open" /\ new.successes = old.successes + 1
              /\ new.generation = old.generation /\ new.requests = old.requests
        /\ old.state = "half-open" /\ old.successes + 1 >= MaxRequests =>
              new.state = "closed" /\ new.failures = 0 /\ new.generation > old.generation
    <2>1. /\ Become(old, "closed").state = "closed" /\ Become(old, "closed").failures = 0
          /\ Become(old, "closed").generation > old.generation
      BY <1>1 DEF Become
    <2>2. QED
      BY <1>0, <1>1, <2>1, SuccessScores
  <1>5. /\ c \in Configs /\ Has(c) /\ k \in FlightOf(c)
        /\ Current(breakers[c]) = old /\ Current(breakers[c])' = new
        /\ StateOf(c) \in {"closed", "half-open"}
        /\ ScoreOf(c) = IF StateOf(c) = "closed" THEN old.failures ELSE old.successes
        /\ StateOf(c)' = new.state
        /\ ScoreOf(c)' = IF new.state = "open" THEN 0
                         ELSE IF new.state = "closed" THEN new.failures ELSE new.successes
        /\ new.generation = old.generation => FlightOf(c)' = FlightOf(c) \ {k}
        /\ new.generation > old.generation => FlightOf(c)' = {}
        /\ \A d \in Configs \ {c} : SameCircuit(d) /\ SameRequests(d)
    BY <1>3, CircuitCounts DEF Scores
  <1>6. StateOf(c) = old.state
    BY <1>5 DEF StateOf
  <1>7. CASE old.state = "closed"
    <2>1. StateOf(c)' = "closed" /\ ScoreOf(c)' = 0 /\ FlightOf(c)' = FlightOf(c) \ {k}
      BY <1>4, <1>5, <1>7
    <2>2. Circuit(c, "closed", FlightOf(c) \ {k}, 0)
      BY <1>5, <2>1 DEF Circuit
    <2>3. QED
      BY <1>5, <1>6, <1>7, <2>2
  <1>8. CASE old.state = "half-open" /\ old.successes + 1 < MaxRequests
    <2>1. ScoreOf(c) = old.successes
      BY <1>5, <1>6, <1>8
    <2>2. /\ StateOf(c)' = "half-open" /\ ScoreOf(c)' = ScoreOf(c) + 1
          /\ FlightOf(c)' = FlightOf(c) \ {k}
      BY <1>4, <1>5, <1>8, <2>1
    <2>3. Circuit(c, "half-open", FlightOf(c) \ {k}, ScoreOf(c) + 1)
      BY <1>5, <2>2 DEF Circuit
    <2>4. /\ Current(breakers[c])'.requests = Current(breakers[c]).requests
          /\ Current(breakers[c])'.successes = Current(breakers[c]).successes + 1
      BY <1>4, <1>5, <1>8
    <2>5. QED
      BY <1>5, <1>6, <1>8, <2>1, <2>3, <2>4
  <1>9. CASE old.state = "half-open" /\ old.successes + 1 >= MaxRequests
    <2>1. ScoreOf(c) = old.successes
      BY <1>5, <1>6, <1>9
    <2>2. StateOf(c)' = "closed" /\ ScoreOf(c)' = 0 /\ FlightOf(c)' = {}
      BY <1>4, <1>5, <1>9
    <2>3. Circuit(c, "closed", {}, 0)
      BY <1>5, <2>2 DEF Circuit
    <2>4. QED
      BY <1>5, <1>6, <1>9, <2>1, <2>3
  <1>10. QED
    <2>1. old.state = "half-open" =>
            old.successes + 1 < MaxRequests \/ old.successes + 1 >= MaxRequests
      BY <1>1
    <2>2. QED
      BY <1>1, <1>7, <1>8, <1>9, <2>1

\* What a failure that counts does to the circuit.
LEMMA CircuitFails ==
  ASSUME LinkInv, NEW k \in Calls, Fail(k), Counts(k), NEW c, c = ConfigOf[k]
  PROVE  /\ c \in Configs /\ Has(c) /\ k \in FlightOf(c)
         /\ \A d \in Configs \ {c} : SameRequests(d)
         /\ \/ /\ StateOf(c) = "closed" /\ ScoreOf(c) + 1 < Threshold
               /\ Circuit(c, "closed", FlightOf(c) \ {k}, ScoreOf(c) + 1)
            \/ /\ StateOf(c) = "closed" /\ ScoreOf(c) + 1 >= Threshold
               /\ Circuit(c, "open", {}, 0)
            \/ StateOf(c) = "half-open" /\ Circuit(c, "open", {}, 0)
  <1>0. PICK old, new : old = breaker[call[k].cb] /\ new = HasFailed(old)
    OBVIOUS
  <1>1. call[k].pc = "running" /\ old \in BreakerStates /\ old.state \in {"closed", "half-open"}
        /\ old.generation \in Nat /\ old.failures \in Nat
    BY <1>0, CountingRun DEF BreakerStates
  <1>2. new \in BreakerStates
    BY <1>0, <1>1, FailureScores
  <1>3. MovesTo(k, old, new)
    BY <1>0, <1>1, <1>2, ResultCounts DEF MovesTo, Fail, Result, AfterFailure
  <1>4. /\ old.state = "closed" /\ old.failures + 1 < Threshold =>
              /\ new.state = "closed" /\ new.failures = old.failures + 1
              /\ new.generation = old.generation
        /\ ~(old.state = "closed" /\ old.failures + 1 < Threshold) =>
              new.state = "open" /\ new.generation > old.generation
    <2>1. Become(old, "open").state = "open" /\ Become(old, "open").generation > old.generation
      BY <1>1 DEF Become
    <2>2. QED
      BY <1>0, <1>1, <2>1, FailureScores
  <1>5. /\ c \in Configs /\ Has(c) /\ k \in FlightOf(c)
        /\ Current(breakers[c]) = old
        /\ StateOf(c) \in {"closed", "half-open"}
        /\ ScoreOf(c) = IF StateOf(c) = "closed" THEN old.failures ELSE old.successes
        /\ StateOf(c)' = new.state
        /\ ScoreOf(c)' = IF new.state = "open" THEN 0
                         ELSE IF new.state = "closed" THEN new.failures ELSE new.successes
        /\ new.generation = old.generation => FlightOf(c)' = FlightOf(c) \ {k}
        /\ new.generation > old.generation => FlightOf(c)' = {}
        /\ \A d \in Configs \ {c} : SameCircuit(d) /\ SameRequests(d)
    BY <1>3, CircuitCounts DEF Scores
  <1>6. StateOf(c) = old.state
    BY <1>5 DEF StateOf
  <1>7. Threshold \in Nat
    OBVIOUS
  <1>8. CASE old.state = "closed" /\ old.failures + 1 < Threshold
    <2>1. ScoreOf(c) = old.failures
      BY <1>5, <1>6, <1>8
    <2>2. /\ StateOf(c)' = "closed" /\ ScoreOf(c)' = ScoreOf(c) + 1
          /\ FlightOf(c)' = FlightOf(c) \ {k}
      BY <1>4, <1>5, <1>8, <2>1
    <2>3. Circuit(c, "closed", FlightOf(c) \ {k}, ScoreOf(c) + 1)
      BY <1>5, <2>2 DEF Circuit
    <2>4. QED
      BY <1>5, <1>6, <1>8, <2>1, <2>3
  <1>9. CASE ~(old.state = "closed" /\ old.failures + 1 < Threshold)
    <2>1. StateOf(c)' = "open" /\ ScoreOf(c)' = 0 /\ FlightOf(c)' = {}
      BY <1>4, <1>5, <1>9
    <2>2. Circuit(c, "open", {}, 0)
      BY <1>5, <2>1 DEF Circuit
    <2>3. StateOf(c) = "closed" => ScoreOf(c) = old.failures /\ ScoreOf(c) + 1 >= Threshold
      BY <1>1, <1>5, <1>6, <1>7, <1>9
    <2>4. QED
      BY <1>5, <2>2, <2>3
  <1>10. QED
    BY <1>8, <1>9

\* The open period of a breaker ends: its circuit half opens.
LEMMA CircuitElapses ==
  ASSUME LinkInv, NEW b \in Breakers, Elapse(b)
  PROVE  \E c \in Configs :
           /\ StateOf(c) = "open" /\ Circuit(c, "half-open", {}, 0)
           /\ Has(c)' /\ Current(breakers[c])'.requests = 0 /\ Current(breakers[c])'.successes = 0
           /\ \A d \in Configs \ {c} : SameRequests(d)
  <1>1. PICK c \in Configs : breakers[c] = b
    BY DEF Elapse, LinkInv, UnusedIsClosed
  <1>2. /\ breaker[b].state = "open" /\ b \notin elapsed /\ elapsed' = elapsed \cup {b}
        /\ UNCHANGED <<breakers, breaker, call>>
    BY DEF Elapse
  <1>3. Has(c) /\ Has(c)'
    BY <1>1, <1>2 DEF Has
  <1>4. Current(breakers[c]) = breaker[b] /\ Current(breakers[c])' = Become(breaker[b], "half-open")
    BY <1>1, <1>2 DEF Current
  <1>5. \A x : x # b => Current(x)' = Current(x)
    BY <1>2 DEF Current
  <1>6. StateOf(c) = "open" /\ StateOf(c)' = "half-open" /\ ScoreOf(c)' = 0
        /\ Current(breakers[c])'.requests = 0 /\ Current(breakers[c])'.successes = 0
    BY <1>2, <1>3, <1>4 DEF StateOf, ScoreOf, Become
  <1>7. FlightOf(c)' = {}
    <2>1. SUFFICES ASSUME NEW j \in Calls, call[j].pc = "running", ConfigOf[j] = c,
                          call[j].generation = breaker[b].generation + 1
                   PROVE  FALSE
      BY <1>2, <1>4 DEF FlightOf, Become
    <2>2. call[j].generation <= breaker[b].generation
      BY <1>1, <2>1, RunsUnderItsOwn
    <2>3. breaker[b].generation \in Nat
      BY DEF LinkInv, TypeOK, BreakerStates
    <2>4. QED
      BY <2>1, <2>2, <2>3
  <1>8. ASSUME NEW d \in Configs \ {c} PROVE SameCircuit(d) /\ SameRequests(d)
    <2>1. Has(d) => breakers[d] # b
      BY <1>1, <1>3 DEF LinkInv, OwnBreakers, Has
    <2>2. SameRequests(d)
      BY <1>2, <1>5, <2>1 DEF SameRequests, Has
    <2>3. StateOf(d)' = StateOf(d) /\ ScoreOf(d)' = ScoreOf(d)
      BY <2>2 DEF SameRequests, StateOf, ScoreOf
    <2>4. FlightOf(d)' = FlightOf(d)
      <3>1. CASE Has(d)
        BY <1>2, <2>2, <3>1 DEF FlightOf, SameRequests
      <3>2. CASE ~Has(d)
        <4>1. \A j \in Calls : ConfigOf[j] = d => call[j].pc # "running"
          BY <3>2, RunsUnderItsOwn
        <4>2. QED
          BY <1>2, <4>1 DEF FlightOf
      <3>3. QED
        BY <3>1, <3>2
    <2>5. QED
      BY <2>2, <2>3, <2>4 DEF SameCircuit
  <1>9. QED
    BY <1>3, <1>6, <1>7, <1>8 DEF Circuit

\* A breaker that nobody uses stays as new.
LEMMA NewStaysUnused ==
  ASSUME LinkInv, UnusedIsNew, CallStep
  PROVE  UnusedIsNew'
  <1> SUFFICES ASSUME NEW b \in Breakers, \A c \in Configs : breakers'[c] # b
               PROVE  breaker'[b].failures = 0
    BY DEF UnusedIsNew
  <1>1. \A c \in Configs : breakers[c] # b
    BY BreakersStay
  <1>2. breaker[b].failures = 0
    BY <1>1 DEF UnusedIsNew
  <1>3. breaker'[b] = breaker[b]
    <2>1. CASE \E k \in Calls : Admit(k) \/ Refuse(k) \/ Succeed(k) \/ Fail(k)
      <3>1. PICK k \in Calls : Admit(k) \/ Refuse(k) \/ Succeed(k) \/ Fail(k)
        BY <2>1
      <3>2. call[k].pc \in {"admission", "running"}
        BY <3>1 DEF Admit, Refuse, Succeed, Fail, Result
      <3>3. call[k].cb # b
        BY <1>1, <3>2, CircuitOfCall
      <3>4. \E new : breaker' = [breaker EXCEPT ![call[k].cb] = new]
        BY <3>1 DEF Admit, Refuse, Succeed, Fail, Result
      <3>5. breaker \in [Breakers -> BreakerStates]
        BY DEF LinkInv, TypeOK
      <3>6. QED
        BY <3>3, <3>4, <3>5
    <2>2. CASE (\E k \in Calls : Idle(k)) \/ (\E x \in Breakers : Elapse(x))
      BY <2>2 DEF Idle, Lookup, Create, NoRunner, Retry, GiveUp, Elapse
    <2>3. QED
      BY <2>1, <2>2 DEF CallStep, Proceed, Idle
  <1>4. QED
    BY <1>2, <1>3

\* Who is left alone keeps what relates requests, calls and successes.
LEMMA ScoredKept ==
  ASSUME NEW c, Scored(c), SameCircuit(c), SameRequests(c)
  PROVE  Scored(c)'
  BY DEF Scored, SameCircuit, SameRequests

\* The calls that were refused.
RefusedCalls == {k \in Calls : call[k].pc = "refused"}

\* Only a refusal changes who was refused.
LEMMA WhoIsRefused ==
  ASSUME LinkInv, NEW k \in Calls, Proceed(k)
  PROVE  /\ Refuse(k) => RefusedCalls' = RefusedCalls \cup {k}
         /\ Idle(k) \/ Admit(k) \/ Succeed(k) \/ Fail(k) => RefusedCalls' = RefusedCalls
  <1>1. Others(k)
    BY Moves
  <1>2. Refuse(k) => call'[k].pc = "refused"
    BY Moves
  <1>3. Idle(k) \/ Admit(k) \/ Succeed(k) \/ Fail(k) =>
          call[k].pc # "refused" /\ call'[k].pc # "refused"
    BY Moves DEF Idle
  <1>4. QED
    BY <1>1, <1>2, <1>3 DEF Others, RefusedCalls

\* The circuits as Circuit sees them.
States == [c \in Configs |-> StateOf(c)]
Flights == [c \in Configs |-> FlightOf(c)]
ScoresOf == [c \in Configs |-> ScoreOf(c)]

\* No circuit changes.
LEMMA CircuitsStay ==
  ASSUME \A c \in Configs : SameCircuit(c)
  PROVE  States' = States /\ Flights' = Flights /\ ScoresOf' = ScoresOf
  BY DEF SameCircuit, States, Flights, ScoresOf

\* One circuit changes, in the terms of Circuit.
LEMMA OneCircuitMoves ==
  ASSUME NEW c \in Configs, NEW s, NEW f, NEW n, Circuit(c, s, f, n)
  PROVE  /\ States' = [States EXCEPT ![c] = s]
         /\ Flights' = [Flights EXCEPT ![c] = f]
         /\ ScoresOf' = [ScoresOf EXCEPT ![c] = n]
  BY DEF Circuit, SameCircuit, States, Flights, ScoresOf

\* The cardinality that Circuit speaks of.
LEMMA SameCardinality == \A S : CB!Cardinality(S) = Cardinality(S)
  BY DEF CB!Cardinality, Cardinality

\* What Circuit asks of a circuit before it lets a call through.
LEMMA LetsOf ==
  ASSUME NEW c \in Configs
  PROVE  CB!Lets(c) <=>
           \/ StateOf(c) = "closed"
           \/ StateOf(c) = "half-open" /\ ScoreOf(c) + Cardinality(FlightOf(c)) < MaxRequests
  <1>1. CB!Cardinality(FlightOf(c)) = Cardinality(FlightOf(c))
    BY SameCardinality
  <1>2. QED
    BY <1>1 DEF CB!Lets

\* A circuit that takes a new state.
LEMMA BecomesOf ==
  ASSUME NEW c \in Configs, NEW s, Circuit(c, s, {}, 0), RefusedCalls' = RefusedCalls
  PROVE  CB!Become(c, s)
  <1>1. /\ States' = [States EXCEPT ![c] = s]
        /\ Flights' = [Flights EXCEPT ![c] = {}]
        /\ ScoresOf' = [ScoresOf EXCEPT ![c] = 0]
    BY OneCircuitMoves
  <1>2. QED
    BY <1>1, Zenon DEF CB!Become, States, Flights, ScoresOf, RefusedCalls

\* A circuit that scores in the state it is in.
LEMMA ScoresAs ==
  ASSUME NEW k \in Calls, ConfigOf[k] \in Configs, NEW n,
         Circuit(ConfigOf[k], StateOf(ConfigOf[k]), FlightOf(ConfigOf[k]) \ {k}, n),
         RefusedCalls' = RefusedCalls
  PROVE  CB!Score(k, n)
  <1> DEFINE c == ConfigOf[k]
  <1>1. /\ States' = [States EXCEPT ![c] = StateOf(c)]
        /\ Flights' = [Flights EXCEPT ![c] = FlightOf(c) \ {k}]
        /\ ScoresOf' = [ScoresOf EXCEPT ![c] = n]
    BY OneCircuitMoves
  <1>2. /\ [States EXCEPT ![c] = StateOf(c)] = States
        /\ Flights[c] = FlightOf(c)
    BY DEF States, Flights
  <1>3. /\ States' = States
        /\ Flights' = [Flights EXCEPT ![c] = Flights[c] \ {k}]
    BY <1>1, <1>2
  <1>4. QED
    BY <1>1, <1>3, Zenon DEF CB!Score, States, Flights, ScoresOf, RefusedCalls

\* The circuits of c and of the others keep their score of requests.
LEMMA AllScored ==
  ASSUME RequestsAreScored, NEW c \in Configs, Scored(c)',
         \A d \in Configs \ {c} : SameCircuit(d) /\ SameRequests(d)
  PROVE  RequestsAreScored'
  BY ScoredKept DEF RequestsAreScored

\* A step of a call that no breaker sees.
LEMMA IdleIsStutter ==
  ASSUME LinkInv, CircuitInv, NEW k \in Calls, Proceed(k), Idle(k)
  PROVE  UNCHANGED CB!vars /\ RequestsAreScored'
  <1>1. \A c \in Configs : SameCircuit(c)
    BY CircuitsIdle DEF CircuitInv
  <1>2. RefusedCalls' = RefusedCalls
    BY WhoIsRefused
  <1>3. UNCHANGED CB!vars
    BY <1>1, <1>2, CircuitsStay DEF CB!vars, States, Flights, ScoresOf, RefusedCalls
  <1>4. ASSUME NEW c \in Configs PROVE Scored(c)'
    <2>1. CASE SameRequests(c)
      BY <1>1, <2>1, ScoredKept DEF CircuitInv, RequestsAreScored
    <2>2. CASE StateOf(c) = "closed"
      BY <1>1, <2>2 DEF Scored, SameCircuit
    <2>3. QED
      BY <2>1, <2>2, CircuitsIdle DEF CircuitInv
  <1>5. QED
    BY <1>3, <1>4 DEF RequestsAreScored

\* Somebody looked at a breaker whose open period was over, or a result came
\* that does not count.
LEMMA LookIsStutter ==
  ASSUME LinkInv, CircuitInv, NEW k \in Calls,
         \/ Refuse(k)
         \/ (Succeed(k) \/ Fail(k)) /\ ~Counts(k)
  PROVE  /\ States' = States /\ Flights' = Flights /\ ScoresOf' = ScoresOf
         /\ RequestsAreScored'
  <1>1. \A c \in Configs : SameCircuit(c) /\ SameRequests(c)
    BY CircuitLookedAt
  <1>2. RequestsAreScored'
    BY <1>1, ScoredKept DEF CircuitInv, RequestsAreScored
  <1>3. QED
    BY <1>1, <1>2, CircuitsStay

\* The end of the open period is the circuit half opening.
LEMMA ElapseHalfOpens ==
  ASSUME LinkInv, CircuitInv, NEW b \in Breakers, Elapse(b)
  PROVE  (\E c \in Configs : CB!Elapse(c)) /\ RequestsAreScored'
  <1>1. PICK c \in Configs :
           /\ StateOf(c) = "open" /\ Circuit(c, "half-open", {}, 0)
           /\ Has(c)' /\ Current(breakers[c])'.requests = 0 /\ Current(breakers[c])'.successes = 0
           /\ \A d \in Configs \ {c} : SameRequests(d)
    BY CircuitElapses
  <1>2. RefusedCalls' = RefusedCalls
    BY DEF Elapse, RefusedCalls
  <1>3. CB!Elapse(c)
    BY <1>1, <1>2, BecomesOf DEF CB!Elapse
  <1>4. FlightOf(c)' = {} /\ \A d \in Configs \ {c} : SameCircuit(d)
    BY <1>1 DEF Circuit
  <1>5. Scored(c)'
    BY <1>1, <1>4, FS_EmptySet DEF Scored
  <1>6. QED
    BY <1>1, <1>3, <1>4, <1>5, AllScored DEF CircuitInv

\* The breaker admits when the circuit lets the call through.
LEMMA AdmitIsAdmit ==
  ASSUME LinkInv, CircuitInv, NEW k \in Calls, Admit(k)
  PROVE  CB!Admit(k) /\ RequestsAreScored'
  <1> DEFINE c == ConfigOf[k]
             now == Current(breakers[c])
  <1>1. /\ c \in Configs /\ Has(c) /\ k \notin FlightOf(c)
        /\ StateOf(c) = "closed" \/ (StateOf(c) = "half-open" /\ now.requests < MaxRequests)
        /\ Circuit(c, StateOf(c), FlightOf(c) \cup {k}, ScoreOf(c))
        /\ now'.requests = now.requests + 1 /\ now'.successes = now.successes
        /\ \A d \in Configs \ {c} : SameCircuit(d) /\ SameRequests(d)
    BY CircuitAdmits DEF Circuit
  <1>2. StateOf(c) = "half-open" =>
          /\ now.requests = Cardinality(FlightOf(c)) + now.successes
          /\ ScoreOf(c) = now.successes
    BY <1>1 DEF CircuitInv, RequestsAreScored, Scored, ScoreOf
  <1>3. now.successes \in Nat
    <2>1. call[k].pc = "admission"
      BY DEF Admit
    <2>2. now \in BreakerStates
      BY <2>1, CircuitOfCall
    <2>3. QED
      BY <2>2 DEF BreakerStates
  <1>4. Cardinality(FlightOf(c)) \in Nat /\ IsFiniteSet(FlightOf(c))
    BY FlightIsFinite
  <1> HIDE DEF now
  <1>5. CB!Lets(c)
    BY <1>1, <1>2, <1>3, <1>4, LetsOf
  <1>6. RefusedCalls' = RefusedCalls
    BY WhoIsRefused DEF Proceed
  <1>7. /\ States' = States /\ ScoresOf' = ScoresOf
        /\ Flights' = [Flights EXCEPT ![c] = FlightOf(c) \cup {k}]
    <2>1. /\ States' = [States EXCEPT ![c] = StateOf(c)]
          /\ Flights' = [Flights EXCEPT ![c] = FlightOf(c) \cup {k}]
          /\ ScoresOf' = [ScoresOf EXCEPT ![c] = ScoreOf(c)]
      BY <1>1, OneCircuitMoves
    <2>2. /\ [States EXCEPT ![c] = StateOf(c)] = States
          /\ [ScoresOf EXCEPT ![c] = ScoreOf(c)] = ScoresOf
      BY DEF States, ScoresOf
    <2>3. QED
      BY <2>1, <2>2
  <1>8. CB!Admit(k)
    BY <1>1, <1>5, <1>6, <1>7 DEF CB!Admit, States, Flights, ScoresOf, RefusedCalls
  <1>9. Scored(c)'
    <2>1. FlightOf(c)' = FlightOf(c) \cup {k} /\ StateOf(c)' = StateOf(c)
      BY <1>1 DEF Circuit
    <2>2. Cardinality(FlightOf(c))' = Cardinality(FlightOf(c)) + 1
      BY <1>1, <1>4, <2>1, FS_AddElement
    <2>3. QED
      BY <1>1, <1>2, <1>3, <1>4, <2>1, <2>2 DEF Scored, now
  <1>10. QED
    BY <1>1, <1>8, <1>9, AllScored DEF CircuitInv

\* The breaker refuses when the circuit does not.
LEMMA RefuseIsRefuse ==
  ASSUME LinkInv, CircuitInv, NEW k \in Calls, Refuse(k)
  PROVE  CB!Refuse(k) /\ RequestsAreScored'
  <1> DEFINE c == ConfigOf[k]
             now == Current(breakers[c])
  <1>1. call[k].pc = "admission" /\ ~Admits(Current(call[k].cb))
    BY DEF Refuse
  <1>2. /\ c \in Configs /\ Has(c) /\ breakers[c] = call[k].cb
        /\ now \in BreakerStates /\ StateOf(c) = now.state
        /\ ScoreOf(c) = IF now.state = "open" THEN 0
                        ELSE IF now.state = "closed" THEN now.failures ELSE now.successes
    BY <1>1, CircuitOfCall
  <1>3. \/ now.state = "open"
        \/ now.state = "half-open" /\ ~(now.requests < MaxRequests)
    BY <1>1, <1>2 DEF Admits, BreakerStates
  <1>4. now.state = "half-open" => now.requests = Cardinality(FlightOf(c)) + ScoreOf(c)
    BY <1>2 DEF CircuitInv, RequestsAreScored, Scored
  <1>5. now.state = "half-open" => ScoreOf(c) \in Nat
    BY <1>2 DEF BreakerStates
  <1>6. Cardinality(FlightOf(c)) \in Nat
    BY FlightIsFinite
  <1> HIDE DEF now
  <1>7. ~CB!Lets(c)
    BY <1>2, <1>3, <1>4, <1>5, <1>6, LetsOf
  <1>8. RefusedCalls' = RefusedCalls \cup {k}
    BY WhoIsRefused DEF Proceed
  <1>9. States' = States /\ Flights' = Flights /\ ScoresOf' = ScoresOf /\ RequestsAreScored'
    BY LookIsStutter
  <1>10. QED
    BY <1>7, <1>8, <1>9 DEF CB!Refuse, States, Flights, ScoresOf, RefusedCalls

\* One call less is on its way.
LEMMA FlightGone ==
  ASSUME NEW k \in Calls, NEW c, k \in FlightOf(c)
  PROVE  Cardinality(FlightOf(c) \ {k}) = Cardinality(FlightOf(c)) - 1
  BY FlightIsFinite, FS_RemoveElement

\* A success that counts.
LEMMA SucceedIsSucceed ==
  ASSUME LinkInv, CircuitInv, NEW k \in Calls, Succeed(k), Counts(k)
  PROVE  CB!Succeed(k) /\ RequestsAreScored'
  <1> DEFINE c == ConfigOf[k]
             now == Current(breakers[c])
  <1>1. /\ c \in Configs /\ Has(c) /\ k \in FlightOf(c)
        /\ \A d \in Configs \ {c} : SameRequests(d)
    BY CircuitSucceeds
  <1>2. \/ StateOf(c) = "closed" /\ Circuit(c, "closed", FlightOf(c) \ {k}, 0)
        \/ /\ StateOf(c) = "half-open" /\ ScoreOf(c) + 1 < MaxRequests
           /\ Circuit(c, "half-open", FlightOf(c) \ {k}, ScoreOf(c) + 1)
           /\ now'.requests = now.requests /\ now'.successes = now.successes + 1
        \/ /\ StateOf(c) = "half-open" /\ ScoreOf(c) + 1 >= MaxRequests
           /\ Circuit(c, "closed", {}, 0)
    BY CircuitSucceeds
  <1>3. RefusedCalls' = RefusedCalls
    BY WhoIsRefused DEF Proceed
  <1>4. now.successes \in Nat
    <2>1. call[k].pc = "running"
      BY DEF Succeed, Result
    <2>2. now \in BreakerStates
      BY <2>1, CircuitOfCall
    <2>3. QED
      BY <2>2 DEF BreakerStates
  <1>5. \A d \in Configs \ {c} : SameCircuit(d) /\ SameRequests(d)
    BY <1>1, <1>2 DEF Circuit
  <1> HIDE DEF now
  <1>6. CASE StateOf(c) = "closed" /\ Circuit(c, "closed", FlightOf(c) \ {k}, 0)
    <2>1. CB!Score(k, 0)
      BY <1>1, <1>3, <1>6, ScoresAs
    <2>2. CB!Succeed(k)
      BY <1>1, <1>6, <2>1 DEF CB!Succeed
    <2>3. Scored(c)'
      BY <1>6 DEF Circuit, Scored
    <2>4. QED
      BY <1>1, <1>5, <2>2, <2>3, AllScored DEF CircuitInv
  <1>7. CASE /\ StateOf(c) = "half-open" /\ ScoreOf(c) + 1 < MaxRequests
             /\ Circuit(c, "half-open", FlightOf(c) \ {k}, ScoreOf(c) + 1)
             /\ now'.requests = now.requests /\ now'.successes = now.successes + 1
    <2>1. CB!Score(k, ScoreOf(c) + 1)
      BY <1>1, <1>3, <1>7, ScoresAs
    <2>2. CB!Succeed(k)
      BY <1>1, <1>7, <2>1 DEF CB!Succeed
    <2>3. now.requests = Cardinality(FlightOf(c)) + now.successes
      BY <1>1, <1>7 DEF CircuitInv, RequestsAreScored, Scored, now
    <2>4. Cardinality(FlightOf(c)) \in Nat /\ FlightOf(c)' = FlightOf(c) \ {k}
      BY <1>7, FlightIsFinite DEF Circuit
    <2>5. Cardinality(FlightOf(c))' = Cardinality(FlightOf(c)) - 1
      BY <1>1, <2>4, FlightGone
    <2>6. now'.requests = Cardinality(FlightOf(c))' + now'.successes
      BY <1>4, <1>7, <2>3, <2>4, <2>5
    <2>7. Scored(c)'
      BY <2>6 DEF Scored, now
    <2>8. QED
      BY <1>1, <1>5, <2>2, <2>7, AllScored DEF CircuitInv
  <1>8. CASE /\ StateOf(c) = "half-open" /\ ScoreOf(c) + 1 >= MaxRequests
             /\ Circuit(c, "closed", {}, 0)
    <2>1. CB!Become(c, "closed")
      BY <1>1, <1>3, <1>8, BecomesOf
    <2>2. CB!Succeed(k)
      BY <1>1, <1>8, <2>1 DEF CB!Succeed
    <2>3. Scored(c)'
      BY <1>8 DEF Circuit, Scored
    <2>4. QED
      BY <1>1, <1>5, <2>2, <2>3, AllScored DEF CircuitInv
  <1>9. QED
    BY <1>2, <1>6, <1>7, <1>8

\* A failure that counts.
LEMMA FailIsFail ==
  ASSUME LinkInv, CircuitInv, NEW k \in Calls, Fail(k), Counts(k)
  PROVE  CB!Fail(k) /\ RequestsAreScored'
  <1> DEFINE c == ConfigOf[k]
  <1>1. /\ c \in Configs /\ Has(c) /\ k \in FlightOf(c)
        /\ \A d \in Configs \ {c} : SameRequests(d)
    BY CircuitFails
  <1>2. \/ /\ StateOf(c) = "closed" /\ ScoreOf(c) + 1 < Threshold
           /\ Circuit(c, "closed", FlightOf(c) \ {k}, ScoreOf(c) + 1)
        \/ /\ StateOf(c) = "closed" /\ ScoreOf(c) + 1 >= Threshold
           /\ Circuit(c, "open", {}, 0)
        \/ StateOf(c) = "half-open" /\ Circuit(c, "open", {}, 0)
    BY CircuitFails
  <1>3. RefusedCalls' = RefusedCalls
    BY WhoIsRefused DEF Proceed
  <1>4. \A d \in Configs \ {c} : SameCircuit(d) /\ SameRequests(d)
    BY <1>1, <1>2 DEF Circuit
  <1>5. Scored(c)'
    BY <1>2 DEF Circuit, Scored
  <1>6. RequestsAreScored'
    BY <1>1, <1>4, <1>5, AllScored DEF CircuitInv
  <1>7. CASE /\ StateOf(c) = "closed" /\ ScoreOf(c) + 1 < Threshold
             /\ Circuit(c, "closed", FlightOf(c) \ {k}, ScoreOf(c) + 1)
    <2>1. CB!Score(k, ScoreOf(c) + 1)
      BY <1>1, <1>3, <1>7, ScoresAs
    <2>2. QED
      BY <1>1, <1>6, <1>7, <2>1 DEF CB!Fail
  <1>8. CASE /\ Circuit(c, "open", {}, 0)
             /\ \/ StateOf(c) = "closed" /\ ScoreOf(c) + 1 >= Threshold
                \/ StateOf(c) = "half-open"
    <2>1. CB!Become(c, "open")
      BY <1>1, <1>3, <1>8, BecomesOf
    <2>2. QED
      BY <1>1, <1>6, <1>8, <2>1 DEF CB!Fail
  <1>9. QED
    BY <1>2, <1>7, <1>8

\* Every step of the breakers is one of the circuits, or a stutter.
LEMMA CircuitStep ==
  ASSUME LinkInv, CircuitInv, CallStep
  PROVE  (CB!Next \/ UNCHANGED CB!vars) /\ CircuitInv'
  <1>1. UnusedIsNew'
    BY NewStaysUnused DEF CircuitInv
  <1>2. CASE \E b \in Breakers : Elapse(b)
    BY <1>1, <1>2, ElapseHalfOpens DEF CB!Next, CircuitInv
  <1>3. CASE \E k \in Calls : Proceed(k)
    <2>1. PICK k \in Calls : Proceed(k)
      BY <1>3
    <2>2. CASE Idle(k)
      BY <1>1, <2>1, <2>2, IdleIsStutter DEF CircuitInv
    <2>3. CASE Admit(k)
      BY <1>1, <2>3, AdmitIsAdmit DEF CB!Next, CircuitInv
    <2>4. CASE Refuse(k)
      BY <1>1, <2>4, RefuseIsRefuse DEF CB!Next, CircuitInv
    <2>5. CASE Succeed(k) /\ Counts(k)
      BY <1>1, <2>5, SucceedIsSucceed DEF CB!Next, CircuitInv
    <2>6. CASE Fail(k) /\ Counts(k)
      BY <1>1, <2>6, FailIsFail DEF CB!Next, CircuitInv
    <2>7. CASE (Succeed(k) \/ Fail(k)) /\ ~Counts(k)
      <3>1. /\ States' = States /\ Flights' = Flights /\ ScoresOf' = ScoresOf
            /\ RequestsAreScored'
        BY <2>7, LookIsStutter
      <3>2. RefusedCalls' = RefusedCalls
        BY <2>1, <2>7, WhoIsRefused
      <3>3. UNCHANGED CB!vars
        BY <3>1, <3>2 DEF CB!vars, States, Flights, ScoresOf, RefusedCalls
      <3>4. QED
        BY <1>1, <3>1, <3>3 DEF CircuitInv
    <2>8. QED
      BY <2>1, <2>2, <2>3, <2>4, <2>5, <2>6, <2>7 DEF Proceed, Idle
  <1>4. QED
    BY <1>2, <1>3 DEF CallStep

\* The other steps of the execution leave the circuits alone.
LEMMA CircuitStutter ==
  ASSUME CircuitInv, UNCHANGED breakerVars
  PROVE  UNCHANGED CB!vars /\ CircuitInv'
  <1>1. UNCHANGED <<breakers, breaker, call, elapsed>>
    BY DEF breakerVars
  <1>2. \A x : Current(x)' = Current(x)
    BY <1>1 DEF Current
  <1>3. \A c \in Configs : SameCircuit(c) /\ SameRequests(c)
    BY <1>1, <1>2 DEF SameCircuit, SameRequests, Has, StateOf, FlightOf, ScoreOf
  <1>4. States' = States /\ Flights' = Flights /\ ScoresOf' = ScoresOf
    BY <1>3, CircuitsStay
  <1>5. UNCHANGED CB!vars
    BY <1>1, <1>4 DEF CB!vars, States, Flights, ScoresOf
  <1>6. UnusedIsNew'
    BY <1>1 DEF CircuitInv, UnusedIsNew
  <1>7. RequestsAreScored'
    BY <1>3, ScoredKept DEF CircuitInv, RequestsAreScored
  <1>8. QED
    BY <1>5, <1>6, <1>7 DEF CircuitInv

\* In the beginning there is no breaker and every circuit is closed.
LEMMA CircuitStart == BreakerInit => CB!Init /\ CircuitInv
  <1> SUFFICES ASSUME BreakerInit
               PROVE  CB!Init /\ CircuitInv
    OBVIOUS
  <1>1. UnusedIsNew
    BY DEF BreakerInit, UnusedIsNew
  <1>2. \A c \in Configs : ~Has(c)
    BY DEF BreakerInit, Has
  <1>3. \A c \in Configs : StateOf(c) = "closed" /\ ScoreOf(c) = 0
    BY <1>2 DEF StateOf, ScoreOf
  <1>4. \A k \in Calls : call[k].pc = "ready"
    BY DEF BreakerInit
  <1>5. \A c \in Configs : FlightOf(c) = {}
    BY <1>4 DEF FlightOf
  <1>6. RequestsAreScored
    BY <1>2 DEF RequestsAreScored, Scored
  <1>7. CB!Init
    BY <1>3, <1>4, <1>5 DEF CB!Init
  <1>8. QED
    BY <1>1, <1>6, <1>7 DEF CircuitInv

-----------------------------------------------------------------------------
(* The inductive invariant of the execution *)

\* The state machine has a call only at an executor, and a request on the way
\* only while that call runs.
WalkInv ==
  /\ phase \in {"calling", "sent"} => at \in Executors
  /\ phase = "sent" => call[at].pc = "running"

\* Every request belongs to an attempt of its own.
AttemptInv ==
  \A n \in Executors :
    /\ sent[n] <= call[n].attempt
    /\ call[n].pc \in {"ready", "missing", "admission"} => sent[n] < call[n].attempt

\* Midaz is asked for nothing before the walk is there, and each booking, each
\* request that may yet be handled and the one on the way was sent.
BookInv ==
  /\ at # "midaz-create-tx" =>
       sent["midaz-create-tx"] = 0 /\ late["midaz-create-tx"] = 0 /\ bookings = 0
  /\ bookings + late["midaz-create-tx"] <= sent["midaz-create-tx"]
  /\ phase = "sent" /\ at = "midaz-create-tx" =>
       bookings + late["midaz-create-tx"] < sent["midaz-create-tx"]

\* Nobody gets past the decision but with an approval.
DecisionInv ==
  /\ at = "midaz-create-tx" => context = "ALLOW"
  /\ at = "decision-check" => context \in Decisions \cup {NoDecision}

\* Where a completed execution has ended.
EndInv ==
  status = "completed" =>
    /\ phase = "ended"
    /\ \/ at = "midaz-create-tx" /\ bookings > 0
       \/ at = "decision-check" /\ context \in Decisions \ {"ALLOW"}

RunInv ==
  /\ TypeInv
  /\ WalkInv
  /\ AttemptInv
  /\ BookInv
  /\ DecisionInv
  /\ EndInv

TInv == BInv /\ RunInv

-----------------------------------------------------------------------------
(* Every step of the execution is a step of the breakers, or none *)

USE DecisionsAssumption, CallsAssumption

LEMMA TFacts ==
  ASSUME TypeInv
  PROVE  /\ at \in {"webhook-trigger", "tracer-validate", "decision-check", "midaz-create-tx"}
         /\ phase \in {"enter", "calling", "sent", "ended"}
         /\ context \in Decisions \cup {NoDecision, NoAnswer}
         /\ over \in BOOLEAN /\ status \in {"running", "completed", "failed"}
         /\ sent \in [Executors -> Nat] /\ late \in [Executors -> Nat] /\ bookings \in Nat
         /\ sent["midaz-create-tx"] \in Nat /\ late["midaz-create-tx"] \in Nat
         /\ "midaz-create-tx" \in Executors /\ TypeOK
  BY DEF TypeInv, Nodes, Executors

\* Where the edges of the template lead.
LEMMA Following ==
  ASSUME NEW handle, Follow(handle)
  PROVE  \/ /\ phase' = "enter" /\ status' = status
            /\ \/ at = "webhook-trigger" /\ handle = "any" /\ at' = "tracer-validate"
               \/ at = "tracer-validate" /\ handle = "any" /\ at' = "decision-check"
               \/ at = "decision-check" /\ handle = "true" /\ at' = "midaz-create-tx"
         \/ /\ status' = "completed" /\ phase' = "ended" /\ at' = at
            /\ ~(at = "webhook-trigger" /\ handle = "any")
            /\ ~(at = "tracer-validate" /\ handle = "any")
            /\ ~(at = "decision-check" /\ handle = "true")
  <1> DEFINE next == {e \in Edges : e.source = at /\ e.handle = handle}
  <1>1. CASE next = {}
    <2>1. status' = "completed" /\ phase' = "ended" /\ at' = at
      BY <1>1 DEF Follow
    <2>2. \A e \in Edges : ~(e.source = at /\ e.handle = handle)
      BY <1>1
    <2>3. QED
      BY <2>1, <2>2 DEF Edges
  <1>2. CASE next # {}
    <2>1. PICK e \in next : at' = e.target /\ phase' = "enter" /\ UNCHANGED status
      BY <1>2 DEF Follow
    <2>2. QED
      BY <2>1 DEF Edges
  <1>3. QED
    BY <1>1, <1>2

LEMMA StepsAreCallSteps ==
  ASSUME WalkInv, Next
  PROVE  CallStep \/ UNCHANGED breakerVars
  <1>1. CASE EnterTrigger \/ EvaluateConditionalNode \/ EnterExecutor \/ HandledLate \/ Expire
    BY <1>1 DEF EnterTrigger, EvaluateConditionalNode, EnterExecutor, HandledLate, Expire
  <1>2. CASE FindBreaker \/ Refused \/ Send \/ NotSent \/ Again
    <2>1. at \in Calls
      BY <1>2 DEF WalkInv, FindBreaker, Refused, Send, NotSent, Again
    <2>2. Proceed(at)
      BY <1>2 DEF Proceed, FindBreaker, Refused, Send, NotSent, Again, AttemptFailed
    <2>3. QED
      BY <2>1, <2>2 DEF CallStep
  <1>3. CASE Unanswered \/ Answered \/ Rejected
    <2>1. at \in Calls
      BY <1>3 DEF WalkInv, Unanswered, Answered, Rejected
    <2>2. Proceed(at)
      BY <1>3 DEF Proceed, Unanswered, Answered, Rejected, AttemptFailed
    <2>3. QED
      BY <2>1, <2>2 DEF CallStep
  <1>4. CASE \E k \in Calls \ Executors : Other(k)
    BY <1>4 DEF Other, CallStep
  <1>5. CASE \E b \in Breakers : Elapse(b) /\ UNCHANGED <<walk, context, over, services>>
    BY <1>5 DEF CallStep
  <1>6. QED
    BY <1>1, <1>2, <1>3, <1>4, <1>5 DEF Next, StateMachine, Services

\* A call that moves without a request keeps the count of its attempts.
LEMMA AttemptsKept ==
  ASSUME LinkInv, AttemptInv, sent \in [Executors -> Nat], UNCHANGED sent,
         NEW k \in Calls, Proceed(k)
  PROVE  AttemptInv'
  <1>1. SUFFICES ASSUME NEW n \in Executors
                 PROVE  /\ sent[n] <= call'[n].attempt
                        /\ call'[n].pc \in {"ready", "missing", "admission"}
                             => sent[n] < call'[n].attempt
    BY DEF AttemptInv
  <1>2. n \in Calls /\ sent[n] \in Nat /\ call[n].attempt \in Nat
    BY DEF LinkInv, TypeOK, CallStates
  <1>3. /\ sent[n] <= call[n].attempt
        /\ call[n].pc \in {"ready", "missing", "admission"} => sent[n] < call[n].attempt
    BY DEF AttemptInv
  <1>4. CASE n # k
    <2>1. call'[n] = call[n]
      BY <1>2, <1>4, Moves DEF Others
    <2>2. QED
      BY <1>3, <2>1
  <1>5. CASE n = k
    <2>1. CASE Retry(k)
      <3>1. call'[k].attempt = call[k].attempt + 1
        BY <2>1, Moves
      <3>2. QED
        BY <1>2, <1>3, <1>5, <3>1
    <2>2. CASE ~Retry(k)
      <3>1. call'[k].attempt = call[k].attempt
        BY <2>2, Moves
      <3>2. call'[k].pc \in {"ready", "missing", "admission"}
              => call[k].pc \in {"ready", "missing", "admission"}
        BY <2>2, Moves DEF Proceed
      <3>3. QED
        BY <1>2, <1>3, <1>5, <3>1, <3>2
    <2>3. QED
      BY <2>1, <2>2
  <1>6. QED
    BY <1>4, <1>5

\* A step of the execution that asks for nothing and answers nothing: where it
\* leads.
LEMMA QuietWalk ==
  ASSUME RunInv, TypeOK', AttemptInv', UNCHANGED <<context, sent, late, bookings>>,
         over' \in BOOLEAN,
         \/ status' = "failed" /\ phase' = "ended" /\ at' = at
         \/ status' = status /\ at' = at /\ phase' \in {"enter", "calling"}
            /\ at \in Executors /\ status # "completed"
         \/ status' = status /\ phase' = "enter" /\ status # "completed"
            /\ \/ at = "webhook-trigger" /\ at' = "tracer-validate"
               \/ at = "decision-check" /\ at' = "midaz-create-tx" /\ context = "ALLOW"
         \/ status' = "completed" /\ phase' = "ended" /\ at' = at
            /\ at = "decision-check" /\ context \in Decisions \ {"ALLOW"}
  PROVE  RunInv'
  <1>1. /\ at \in {"webhook-trigger", "tracer-validate", "decision-check", "midaz-create-tx"}
        /\ context \in Decisions \cup {NoDecision, NoAnswer}
        /\ status \in {"running", "completed", "failed"}
        /\ sent \in [Executors -> Nat] /\ late \in [Executors -> Nat] /\ bookings \in Nat
        /\ sent["midaz-create-tx"] \in Nat /\ late["midaz-create-tx"] \in Nat
    BY TFacts DEF RunInv
  <1>2. TypeInv'
    BY <1>1 DEF TypeInv, Nodes, Executors
  <1>3. WalkInv'
    BY DEF WalkInv, Executors
  <1>4. BookInv'
    BY <1>1 DEF RunInv, BookInv
  <1>5. DecisionInv'
    BY DEF RunInv, DecisionInv, Executors
  <1>6. EndInv'
    BY DEF RunInv, EndInv
  <1>7. QED
    BY <1>2, <1>3, <1>4, <1>5, <1>6 DEF RunInv

LEMMA RunTrigger ==
  ASSUME RunInv, EnterTrigger
  PROVE  RunInv'
  <1>1. TypeOK' /\ AttemptInv'
    BY DEF RunInv, TypeInv, TypeOK, AttemptInv, EnterTrigger, breakerVars, services
  <1>2. UNCHANGED <<context, sent, late, bookings>> /\ over' \in BOOLEAN
    BY TFacts DEF RunInv, EnterTrigger, services
  <1>3. status # "completed"
    BY DEF RunInv, EndInv, EnterTrigger
  <1>4. status' = status /\ phase' = "enter" /\ at = "webhook-trigger" /\ at' = "tracer-validate"
    BY Following DEF EnterTrigger
  <1>5. QED
    BY <1>1, <1>2, <1>3, <1>4, QuietWalk

LEMMA RunCondition ==
  ASSUME RunInv, EvaluateConditionalNode
  PROVE  RunInv'
  <1>1. TypeOK' /\ AttemptInv'
    BY DEF RunInv, TypeInv, TypeOK, AttemptInv, EvaluateConditionalNode, breakerVars, services
  <1>2. UNCHANGED <<context, sent, late, bookings>> /\ over' \in BOOLEAN
    BY TFacts DEF RunInv, EvaluateConditionalNode, services
  <1>3. status # "completed" /\ at = "decision-check" /\ context \in Decisions \cup {NoDecision}
    BY DEF RunInv, EndInv, DecisionInv, EvaluateConditionalNode
  <1>4. CASE FailNode
    BY <1>1, <1>2, <1>4, QuietWalk DEF FailNode
  <1>5. CASE ~FailNode
    <2>1. context # NoDecision /\ Follow(IF context = "ALLOW" THEN "true" ELSE "false")
      BY <1>5 DEF EvaluateConditionalNode, Store
    <2>2. CASE context = "ALLOW"
      <3>1. Follow("true")
        BY <2>1, <2>2
      <3>2. status' = status /\ phase' = "enter" /\ at' = "midaz-create-tx"
        BY <1>3, <3>1, Following
      <3>3. QED
        BY <1>1, <1>2, <1>3, <2>2, <3>2, QuietWalk
    <2>3. CASE context # "ALLOW"
      <3>1. Follow("false")
        BY <2>1, <2>3
      <3>2. status' = "completed" /\ phase' = "ended" /\ at' = at
        BY <1>3, <3>1, Following
      <3>3. context \in Decisions \ {"ALLOW"}
        BY <1>3, <2>1, <2>3
      <3>4. QED
        BY <1>1, <1>2, <1>3, <3>2, <3>3, QuietWalk
    <2>4. QED
      BY <2>2, <2>3
  <1>6. QED
    BY <1>4, <1>5

LEMMA RunExecutor ==
  ASSUME RunInv, EnterExecutor
  PROVE  RunInv'
  <1>1. TypeOK' /\ AttemptInv'
    BY DEF RunInv, TypeInv, TypeOK, AttemptInv, EnterExecutor, breakerVars, services
  <1>2. UNCHANGED <<context, sent, late, bookings>> /\ over' \in BOOLEAN
    BY TFacts DEF RunInv, EnterExecutor, services
  <1>3. status # "completed" /\ at \in Executors
    BY DEF RunInv, EndInv, EnterExecutor
  <1>4. \/ status' = "failed" /\ phase' = "ended" /\ at' = at
        \/ status' = status /\ at' = at /\ phase' = "calling"
    BY DEF EnterExecutor, FailNode
  <1>5. QED
    BY <1>1, <1>2, <1>3, <1>4, QuietWalk

\* The steps of the call that send nothing and end in nothing.
LEMMA RunCall ==
  ASSUME BInv, RunInv, TypeOK',
         FindBreaker \/ Refused \/ NotSent \/ Rejected \/ Again
  PROVE  RunInv'
  <1>1. at \in Executors /\ status # "completed"
    BY DEF RunInv, WalkInv, EndInv, FindBreaker, Refused, NotSent, Rejected, Again
  <1>2. at \in Calls /\ Proceed(at)
    BY <1>1 DEF Proceed, FindBreaker, Refused, NotSent, Rejected, Again, AttemptFailed
  <1>3. UNCHANGED <<context, over, sent, late, bookings>>
    BY DEF FindBreaker, Refused, NotSent, Rejected, Again, services
  <1>4. AttemptInv'
    BY <1>2, <1>3, AttemptsKept, TFacts DEF BInv, RunInv
  <1>5. over' \in BOOLEAN
    BY <1>3, TFacts DEF RunInv
  <1>6. \/ status' = "failed" /\ phase' = "ended" /\ at' = at
        \/ status' = status /\ at' = at /\ phase' = "calling"
    BY DEF FindBreaker, Refused, NotSent, Rejected, Again, AttemptFailed, FailNode, walk
  <1>7. QED
    BY <1>1, <1>3, <1>4, <1>5, <1>6, QuietWalk

LEMMA RunSend ==
  ASSUME BInv, RunInv, TypeOK', Send
  PROVE  RunInv'
  <1>1. at \in Executors /\ status # "completed" /\ at \in Calls /\ phase = "calling"
    BY DEF RunInv, WalkInv, EndInv, Send
  <1>2. /\ Others(at) /\ call'[at].attempt = call[at].attempt
        /\ call'[at].pc = "running" /\ call[at].pc = "admission"
    <2>1. Proceed(at) /\ Admit(at)
      BY DEF Proceed, Send
    <2>2. ~Retry(at)
      BY <2>1 DEF Admit, Retry
    <2>3. QED
      BY <1>1, <2>1, <2>2, Moves DEF BInv
  <1>3. /\ at \in {"tracer-validate", "midaz-create-tx"}
        /\ sent \in [Executors -> Nat] /\ late \in [Executors -> Nat] /\ bookings \in Nat
        /\ sent["midaz-create-tx"] \in Nat /\ late["midaz-create-tx"] \in Nat
        /\ over \in BOOLEAN /\ status \in {"running", "completed", "failed"}
        /\ context \in Decisions \cup {NoDecision, NoAnswer}
    BY <1>1, TFacts DEF RunInv, Executors
  <1>4. UNCHANGED <<at, status, context, over, late, bookings>>
    BY DEF Send
  <1>5. CASE over
    <2>1. UNCHANGED <<phase, sent>>
      BY <1>5 DEF Send
    <2>2. AttemptInv'
      BY <1>1, <1>3, <2>1, AttemptsKept DEF BInv, RunInv, Proceed, Send
    <2>3. QED
      BY <1>1, <1>3, <1>4, <2>1, <2>2, QuietWalk
  <1>6. CASE ~over
    <2>1. phase' = "sent" /\ sent' = [sent EXCEPT ![at] = @ + 1]
      BY <1>6 DEF Send
    <2>2. sent' \in [Executors -> Nat] /\ sent'[at] = sent[at] + 1
          /\ \A n \in Executors \ {at} : sent'[n] = sent[n]
      BY <1>1, <1>3, <2>1
    <2>3. AttemptInv'
      <3>1. \A n \in Executors \ {at} : call'[n] = call[n]
        BY <1>2 DEF Others
      <3>2. sent[at] \in Nat /\ call[at].attempt \in Nat /\ sent[at] < call[at].attempt
        BY <1>1, <1>2, <1>3 DEF RunInv, AttemptInv, BInv, LinkInv, TypeOK, CallStates
      <3>3. QED
        BY <1>2, <2>2, <3>1, <3>2 DEF RunInv, AttemptInv
    <2>4. WalkInv'
      BY <1>1, <1>2, <1>4, <2>1 DEF WalkInv
    <2>5. BookInv'
      <3>1. at # "midaz-create-tx" => sent'["midaz-create-tx"] = sent["midaz-create-tx"]
        BY <2>2 DEF Executors
      <3>2. QED
        BY <1>1, <1>3, <1>4, <2>1, <2>2, <3>1 DEF RunInv, BookInv
    <2>6. DecisionInv' /\ EndInv'
      BY <1>1, <1>4 DEF RunInv, DecisionInv, EndInv
    <2>7. TypeInv'
      BY <1>3, <1>4, <2>1, <2>2 DEF TypeInv, Nodes, Executors
    <2>8. QED
      BY <2>3, <2>4, <2>5, <2>6, <2>7 DEF RunInv
  <1>7. QED
    BY <1>5, <1>6

LEMMA RunUnanswered ==
  ASSUME BInv, RunInv, TypeOK', Unanswered
  PROVE  RunInv'
  <1>1. at \in Executors /\ status # "completed" /\ at \in Calls /\ phase = "sent"
    BY DEF RunInv, WalkInv, EndInv, Unanswered
  <1>2. UNCHANGED <<context, over, sent, bookings>> /\ Proceed(at)
    BY DEF Unanswered, AttemptFailed, Proceed
  <1>3. /\ at \in {"tracer-validate", "midaz-create-tx"}
        /\ sent \in [Executors -> Nat] /\ late \in [Executors -> Nat] /\ bookings \in Nat
        /\ sent["midaz-create-tx"] \in Nat /\ late["midaz-create-tx"] \in Nat
        /\ over \in BOOLEAN /\ status \in {"running", "completed", "failed"}
        /\ context \in Decisions \cup {NoDecision, NoAnswer}
    BY <1>1, TFacts DEF RunInv, Executors
  <1>4. AttemptInv'
    BY <1>1, <1>2, <1>3, AttemptsKept DEF BInv, RunInv
  <1>5. \/ status' = "failed" /\ phase' = "ended" /\ at' = at
        \/ status' = status /\ at' = at /\ phase' = "calling"
    BY DEF Unanswered, AttemptFailed, FailNode
  <1>6. late' = late \/ late' = [late EXCEPT ![at] = @ + 1]
    BY DEF Unanswered
  <1>7. /\ late' \in [Executors -> Nat]
        /\ \/ late'["midaz-create-tx"] = late["midaz-create-tx"]
           \/ /\ at = "midaz-create-tx"
              /\ late'["midaz-create-tx"] = late["midaz-create-tx"] + 1
    BY <1>1, <1>3, <1>6 DEF Executors
  <1>8. BookInv'
    BY <1>1, <1>2, <1>3, <1>5, <1>7 DEF RunInv, BookInv
  <1>9. WalkInv' /\ DecisionInv' /\ EndInv'
    BY <1>1, <1>2, <1>5 DEF RunInv, WalkInv, DecisionInv, EndInv
  <1>10. TypeInv'
    BY <1>2, <1>3, <1>5, <1>7 DEF TypeInv, Nodes, Executors
  <1>11. QED
    BY <1>4, <1>8, <1>9, <1>10 DEF RunInv

LEMMA RunAnswered ==
  ASSUME BInv, RunInv, TypeOK', Answered
  PROVE  RunInv'
  <1>1. at \in Executors /\ status # "completed" /\ at \in Calls /\ phase = "sent"
    BY DEF RunInv, WalkInv, EndInv, Answered
  <1>2. UNCHANGED <<over, sent, late>> /\ Proceed(at)
    BY DEF Answered, Proceed
  <1>3. /\ at \in {"tracer-validate", "midaz-create-tx"}
        /\ sent \in [Executors -> Nat] /\ late \in [Executors -> Nat] /\ bookings \in Nat
        /\ sent["midaz-create-tx"] \in Nat /\ late["midaz-create-tx"] \in Nat
        /\ over \in BOOLEAN /\ status \in {"running", "completed", "failed"}
        /\ context \in Decisions \cup {NoDecision, NoAnswer}
    BY <1>1, TFacts DEF RunInv, Executors
  <1>4. AttemptInv'
    BY <1>1, <1>2, <1>3, AttemptsKept DEF BInv, RunInv
  <1>5. CASE at = "tracer-validate"
    <2>1. bookings' = bookings /\ context' \in Decisions \cup {NoDecision}
      BY <1>5 DEF Answered, Effect
    <2>2. \/ status' = "failed" /\ phase' = "ended" /\ at' = at
          \/ status' = status /\ at' = "decision-check" /\ phase' = "enter"
      BY <1>5, Following DEF Answered, Store, FailNode
    <2>3. BookInv'
      BY <1>2, <1>3, <1>5, <2>1, <2>2 DEF RunInv, BookInv
    <2>4. WalkInv' /\ DecisionInv' /\ EndInv'
      BY <1>1, <1>5, <2>1, <2>2 DEF RunInv, WalkInv, DecisionInv, EndInv
    <2>5. TypeInv'
      BY <1>2, <1>3, <2>1, <2>2 DEF TypeInv, Nodes, Executors
    <2>6. QED
      BY <1>4, <2>3, <2>4, <2>5 DEF RunInv
  <1>6. CASE at = "midaz-create-tx"
    <2>1. bookings' = bookings + 1 /\ context' = context
      BY <1>6 DEF Answered, Effect
    <2>2. \/ status' = "failed" /\ phase' = "ended" /\ at' = at
          \/ status' = "completed" /\ phase' = "ended" /\ at' = at
      BY <1>6, Following DEF Answered, Store, FailNode
    <2>3. BookInv'
      BY <1>1, <1>2, <1>3, <1>6, <2>1, <2>2 DEF RunInv, BookInv
    <2>4. WalkInv' /\ DecisionInv' /\ EndInv'
      BY <1>1, <1>3, <1>6, <2>1, <2>2 DEF RunInv, WalkInv, DecisionInv, EndInv
    <2>5. TypeInv'
      BY <1>2, <1>3, <2>1, <2>2 DEF TypeInv, Nodes, Executors
    <2>6. QED
      BY <1>4, <2>3, <2>4, <2>5 DEF RunInv
  <1>7. QED
    BY <1>3, <1>5, <1>6

LEMMA RunLate ==
  ASSUME RunInv, HandledLate
  PROVE  RunInv'
  <1>1. PICK n \in Executors :
          /\ late[n] > 0 /\ late' = [late EXCEPT ![n] = @ - 1]
          /\ bookings' = IF n = "midaz-create-tx" THEN bookings + 1 ELSE bookings
          /\ UNCHANGED <<breakerVars, walk, context, over, sent>>
    BY DEF HandledLate, Effect
  <1>2. /\ at \in {"webhook-trigger", "tracer-validate", "decision-check", "midaz-create-tx"}
        /\ sent \in [Executors -> Nat] /\ late \in [Executors -> Nat] /\ bookings \in Nat
        /\ sent["midaz-create-tx"] \in Nat /\ late["midaz-create-tx"] \in Nat
    BY TFacts DEF RunInv
  <1>3. /\ late' \in [Executors -> Nat] /\ bookings' \in Nat
        /\ \/ /\ late'["midaz-create-tx"] = late["midaz-create-tx"] /\ bookings' = bookings
           \/ /\ late["midaz-create-tx"] > 0 /\ bookings' = bookings + 1
              /\ late'["midaz-create-tx"] = late["midaz-create-tx"] - 1
    BY <1>1, <1>2 DEF Executors
  <1>4. BookInv'
    BY <1>1, <1>2, <1>3 DEF RunInv, BookInv, walk
  <1>5. WalkInv' /\ AttemptInv' /\ DecisionInv'
    BY <1>1 DEF RunInv, WalkInv, AttemptInv, DecisionInv, walk, breakerVars
  <1>6. EndInv'
    BY <1>1, <1>2, <1>3 DEF RunInv, EndInv, walk
  <1>7. TypeInv'
    <2>1. TypeOK'
      BY <1>1 DEF RunInv, TypeInv, TypeOK, breakerVars
    <2>2. UNCHANGED <<at, phase, status, context, over, sent>>
      BY <1>1 DEF walk
    <2>3. QED
      BY <1>3, <2>1, <2>2 DEF RunInv, TypeInv
  <1>8. QED
    BY <1>4, <1>5, <1>6, <1>7 DEF RunInv

\* What happens elsewhere changes nothing for the execution.
LEMMA RunElsewhere ==
  ASSUME RunInv, TypeOK', UNCHANGED <<walk, context, services>>, over' \in BOOLEAN,
         \A n \in Executors : call'[n] = call[n]
  PROVE  RunInv'
  <1>1. UNCHANGED <<at, phase, status, context, sent, late, bookings>>
    BY DEF walk, services
  <1>2. WalkInv'
    BY <1>1 DEF RunInv, WalkInv
  <1>3. AttemptInv'
    BY <1>1 DEF RunInv, AttemptInv
  <1>4. BookInv' /\ DecisionInv' /\ EndInv'
    BY <1>1 DEF RunInv, BookInv, DecisionInv, EndInv
  <1>5. TypeInv'
    BY <1>1 DEF RunInv, TypeInv
  <1>6. QED
    BY <1>2, <1>3, <1>4, <1>5 DEF RunInv

LEMMA RunInit == Init => RunInv
  <1> SUFFICES ASSUME Init
               PROVE  RunInv
    OBVIOUS
  <1>1. TypeInv
    <2>1. TypeOK
      BY BInit DEF Init, BInv, LinkInv
    <2>2. sent \in [Executors -> Nat] /\ late \in [Executors -> Nat]
      BY DEF Init
    <2>3. over \in BOOLEAN
      BY DEF Init
    <2>4. at \in Nodes /\ context \in Decisions \cup {NoDecision, NoAnswer} /\ bookings \in Nat
      BY DEF Init, Nodes, Executors
    <2>5. phase \in {"enter", "calling", "sent", "ended"}
          /\ status \in {"running", "completed", "failed"}
      BY DEF Init
    <2>6. QED
      BY <2>1, <2>2, <2>3, <2>4, <2>5 DEF TypeInv
  <1>2. WalkInv /\ BookInv /\ DecisionInv /\ EndInv
    BY DEF Init, WalkInv, BookInv, DecisionInv, EndInv, Executors
  <1>3. AttemptInv
    BY DEF Init, BreakerInit, AttemptInv
  <1>4. QED
    BY <1>1, <1>2, <1>3 DEF RunInv

LEMMA TInit == Init => TInv
  BY RunInit, BInit DEF Init, TInv

LEMMA TStep == TInv /\ [Next]_vars => TInv'
  <1> SUFFICES ASSUME BInv, RunInv, [Next]_vars
               PROVE  TInv'
    BY DEF TInv
  <1>1. BInv' /\ TypeOK'
    <2>1. CallStep \/ UNCHANGED breakerVars
      BY StepsAreCallSteps DEF RunInv, vars
    <2>2. QED
      BY <2>1, BStep DEF BInv, LinkInv
  <1>2. over \in BOOLEAN
    BY TFacts DEF RunInv
  <1>3. RunInv'
    <2>1. CASE EnterTrigger
      BY <2>1, RunTrigger
    <2>2. CASE EvaluateConditionalNode
      BY <2>2, RunCondition
    <2>3. CASE EnterExecutor
      BY <2>3, RunExecutor
    <2>4. CASE FindBreaker \/ Refused \/ NotSent \/ Rejected \/ Again
      BY <1>1, <2>4, RunCall
    <2>5. CASE Send
      BY <1>1, <2>5, RunSend
    <2>6. CASE Unanswered
      BY <1>1, <2>6, RunUnanswered
    <2>7. CASE Answered
      BY <1>1, <2>7, RunAnswered
    <2>8. CASE HandledLate
      BY <2>8, RunLate
    <2>9. CASE Expire \/ UNCHANGED vars
      <3>1. UNCHANGED <<breakerVars, walk, context, services>> /\ over' \in BOOLEAN
        BY <1>2, <2>9 DEF Expire, vars, walk, services
      <3>2. QED
        BY <1>1, <3>1, RunElsewhere DEF breakerVars
    <2>10. CASE \E k \in Calls \ Executors : Other(k)
      <3>1. PICK k \in Calls \ Executors : Other(k)
        BY <2>10
      <3>2. Others(k)
        BY <3>1, Moves DEF BInv, Other
      <3>3. QED
        BY <1>1, <1>2, <3>1, <3>2, RunElsewhere DEF Other, Others
    <2>11. CASE \E b \in Breakers : Elapse(b) /\ UNCHANGED <<walk, context, over, services>>
      BY <1>1, <1>2, <2>11, RunElsewhere DEF Elapse
    <2>12. QED
      BY <2>1, <2>2, <2>3, <2>4, <2>5, <2>6, <2>7, <2>8, <2>9, <2>10, <2>11
         DEF Next, StateMachine, Services
  <1>4. QED
    BY <1>1, <1>3 DEF TInv

-----------------------------------------------------------------------------
(* The theorems *)

LEMMA TInvariant == Spec => []TInv
  <1>1. TInv /\ [Next]_vars => TInv'
    BY TStep
  <1>2. QED
    BY <1>1, TInit, PTL DEF Spec

\* Type correctness of the execution, the services and the breakers.
THEOREM TypeCorrect == Spec => []TypeInv
  <1>1. TInv => TypeInv
    BY DEF TInv, RunInv
  <1>2. QED
    BY <1>1, TInvariant, PTL

\* Calls of one configuration share one breaker, also when they race to create
\* it (getOrCreate).
THEOREM SharedBreaker == Spec => []OneBreaker
  <1>1. TInv => OneBreaker
    BY DEF TInv, BInv, LinkInv
  <1>2. QED
    BY <1>1, TInvariant, PTL

\* A call is refused only after calls with its own configuration failed.
THEOREM OwnFailuresOnly == Spec => []Isolation
  <1>1. TInv => Isolation
    BY DEF TInv, BInv, BlameInv
  <1>2. QED
    BY <1>1, TInvariant, PTL

\* Between two open periods a failing configuration is called no more often
\* than the threshold and the calls in flight allow.
THEOREM FailingCallsBounded == Spec => []FailuresBounded
  <1>1. TInv => FailuresBounded
    BY CountsBound DEF TInv
  <1>2. QED
    BY <1>1, TInvariant, PTL

\* With the one request of a half-open breaker that the code asks for
\* (DefaultMaxRequests, breaker.go:16), everything the run checks of the breakers.
THEOREM BreakersHold == ASSUME MaxRequests = 1 PROVE Spec => []BreakerInv
  <1>1. Init => ProbeIsCurrent
    BY BInit DEF Init
  <1>2. TInv /\ ProbeIsCurrent /\ [Next]_vars => ProbeIsCurrent'
    <2> SUFFICES ASSUME TInv, ProbeIsCurrent, [Next]_vars
                 PROVE  ProbeIsCurrent'
      OBVIOUS
    <2>1. CASE CallStep
      BY <2>1, ProbeStep DEF TInv, BInv, CountInv
    <2>2. CASE UNCHANGED breakerVars
      BY <2>2 DEF ProbeIsCurrent, Counts, breakerVars
    <2>3. QED
      BY <2>1, <2>2, StepsAreCallSteps DEF TInv, RunInv, vars
  <1>3. TInv /\ ProbeIsCurrent => BreakerInv
    <2> SUFFICES ASSUME TInv, ProbeIsCurrent
                 PROVE  BreakerInv
      OBVIOUS
    <2>1. TypeInv /\ OneBreaker /\ Isolation
      BY DEF TInv, RunInv, BInv, LinkInv, BlameInv
    <2>2. OneProbe
      BY OneProbeRuns DEF TInv, BInv, CountInv
    <2>3. FailuresBounded
      BY CountsBound DEF TInv
    <2>4. QED
      BY <2>1, <2>2, <2>3 DEF BreakerInv
  <1>4. QED
    BY <1>1, <1>2, <1>3, TInvariant, PTL DEF Spec

\* A breaker that opened closes by the success of a call that its half-open
\* state let through, never by the late answer of an older one.
THEOREM ClosedByItsProbe == Spec => ClosesByProbe
  <1>1. TInv /\ [Next]_vars =>
          [\A b \in Breakers :
             breaker[b].state # "closed" /\ breaker'[b].state = "closed" =>
               \E k \in Calls : /\ call[k].cb = b /\ call[k].admitted = "half-open"
                                /\ call'[k].pc = "ok"]_breakerVars
    <2> SUFFICES ASSUME TInv, [Next]_vars, ~UNCHANGED breakerVars,
                        NEW b \in Breakers,
                        breaker[b].state # "closed", breaker'[b].state = "closed"
                 PROVE  \E k \in Calls : /\ call[k].cb = b /\ call[k].admitted = "half-open"
                                         /\ call'[k].pc = "ok"
      OBVIOUS
    <2>1. CallStep
      BY StepsAreCallSteps DEF TInv, RunInv, vars
    <2>2. QED
      BY <2>1, ClosedByProbe DEF TInv, BInv
  <1>2. QED
    BY <1>1, TInvariant, PTL DEF Spec, ClosesByProbe

\* Each configuration has the circuit that Circuit promises, although breakers
\* are made on demand, by calls that race, and change when somebody looks: for
\* every threshold, every number of half-open requests, calls and configurations
\* (breaker.go and gobreaker).
THEOREM CircuitImplemented == Spec => ImplementsCircuit
  <1>1. Init => CB!Init /\ CircuitInv
    BY CircuitStart DEF Init
  <1>2. TInv /\ CircuitInv /\ [Next]_vars => [CB!Next]_(CB!vars) /\ CircuitInv'
    <2> SUFFICES ASSUME TInv, CircuitInv, [Next]_vars
                 PROVE  (CB!Next \/ UNCHANGED CB!vars) /\ CircuitInv'
      OBVIOUS
    <2>1. CASE CallStep
      BY <2>1, CircuitStep DEF TInv, BInv
    <2>2. CASE UNCHANGED breakerVars
      BY <2>2, CircuitStutter
    <2>3. QED
      BY <2>1, <2>2, StepsAreCallSteps DEF TInv, RunInv, vars
  <1>3. QED
    BY <1>1, <1>2, TInvariant, PTL DEF Spec, ImplementsCircuit, CB!Spec

\* Everything the run checks of the steps of the breakers.
THEOREM BreakersStep == Spec => BreakerAct
  BY ClosedByItsProbe, CircuitImplemented, PTL DEF BreakerAct

\* Whatever Tracer and Midaz answer, and when: the transaction is booked only
\* if it was allowed, a completed execution says what was decided and done, and
\* a node has no more effects than attempts.
THEOREM TransactionHolds == Spec => []TransactionInv
  <1>1. TInv => TransactionInv
    <2> SUFFICES ASSUME TInv
                 PROVE  TransactionInv
      OBVIOUS
    <2>1. /\ at \in {"webhook-trigger", "tracer-validate", "decision-check", "midaz-create-tx"}
          /\ sent \in [Executors -> Nat] /\ bookings \in Nat
          /\ sent["midaz-create-tx"] \in Nat /\ late["midaz-create-tx"] \in Nat
      BY TFacts DEF TInv, RunInv
    <2>2. BookedOnlyIfAllowed
      BY <2>1 DEF TInv, RunInv, BookInv, DecisionInv, BookedOnlyIfAllowed
    <2>3. CompletedMeansDecided
      BY <2>1 DEF TInv, RunInv, BookInv, DecisionInv, EndInv, CompletedMeansDecided
    <2>4. EffectsAreBounded
      <3>1. SUFFICES ASSUME NEW n \in Executors
                     PROVE  sent[n] <= MaxRetries
        BY DEF EffectsAreBounded, TInv, RunInv, BookInv
      <3>2. sent[n] <= call[n].attempt /\ sent[n] \in Nat
        BY <2>1 DEF TInv, RunInv, AttemptInv
      <3>3. call[n].attempt \in 1..MaxRetries
        BY DEF TInv, BInv, LinkInv, TypeOK, CallStates
      <3>4. QED
        BY <3>2, <3>3
    <2>5. QED
      BY <2>2, <2>3, <2>4 DEF TransactionInv
  <1>2. QED
    BY <1>1, TInvariant, PTL
=============================================================================
