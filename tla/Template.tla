------------------------------ MODULE Template ------------------------------
(***************************************************************************)
(* One run of the workflow that the built-in template generates            *)
(* (pkg/templates/tracer_midaz/template.go): Tracer validates a            *)
(* transaction, a condition looks at its decision, and Midaz books the     *)
(* transaction.  It composes the graph of the template and the condition   *)
(* with the calls of module Breaker and with two services that answer,     *)
(* refuse, fail or answer too late.                                        *)
(*                                                                         *)
(* The two executor nodes are two of Breaker's Calls; the others are calls *)
(* of other executions, which share the breakers.  What is stored of the   *)
(* run is left to module Execution.                                        *)
(***************************************************************************)
EXTENDS Breaker

CONSTANT Decisions    \* what Tracer's answer may decide; "ALLOW" is one

\* NoDecision: an answer of Tracer without a decision in its body.
NoDecision == "no decision"
NoAnswer == "no answer"

ASSUME DecisionsAssumption ==
  /\ "ALLOW" \in Decisions
  /\ NoDecision \notin Decisions /\ NoAnswer \notin Decisions

VARIABLES
  at,         \* the node the state machine is at
  phase,      \* how far the node is
  context,    \* what the workflow context holds of tracer-validate
  over,       \* the five minutes of the execution are over
  status,     \* the status of the execution
  sent,       \* number of requests sent by each executor node (not in the code)
  late,       \* requests given up that the service may yet handle (external)
  bookings    \* transactions that Midaz booked (external)

vars ==
  <<breakerVars, at, phase, context, over, status, sent, late, bookings>>

-----------------------------------------------------------------------------
(* The workflow that build generates *)

Executors == {"tracer-validate", "midaz-create-tx"}

ASSUME CallsAssumption == Executors \subseteq Calls

Nodes == Executors \cup {"webhook-trigger", "decision-check"}

Edges ==
  { [source |-> "webhook-trigger", target |-> "tracer-validate", handle |-> "any"],
    [source |-> "tracer-validate", target |-> "decision-check", handle |-> "any"],
    [source |-> "decision-check", target |-> "midaz-create-tx", handle |-> "true"] }

TypeInv ==
  /\ TypeOK
  /\ at \in Nodes
  /\ phase \in {"enter", "calling", "sent", "ended"}
  /\ context \in Decisions \cup {NoDecision, NoAnswer}
  /\ over \in BOOLEAN
  /\ status \in {"running", "completed", "failed"}
  /\ {sent, late} \subseteq [Executors -> Nat]
  /\ bookings \in Nat

\* MarkRunning has been called and the walk begins at the trigger.
Init ==
  /\ BreakerInit
  /\ at = "webhook-trigger" /\ phase = "enter"
  /\ context = NoAnswer /\ over = FALSE /\ status = "running"
  /\ sent = [n \in Executors |-> 0]
  /\ late = sent /\ bookings = 0

-----------------------------------------------------------------------------
(* How the walk goes on *)

services == <<sent, late, bookings>>

walk == <<at, phase, status>>

FailNode == status' = "failed" /\ phase' = "ended" /\ UNCHANGED at

\* Follow the edge of the node with this handle.  Where there is none the
\* branch ends, and with it the execution: no node of the template has two edges.
Follow(handle) ==
  LET next == {e \in Edges : e.source = at /\ e.handle = handle}
  IN IF next = {}
     THEN status' = "completed" /\ phase' = "ended" /\ UNCHANGED at
     ELSE \E e \in next : at' = e.target /\ phase' = "enter" /\ UNCHANGED status

\* The step at the node is stored (Update), which fails when time is over, and
\* may fail at any time; then the walk goes on.
Store(handle) == (~over /\ Follow(handle)) \/ FailNode

EnterTrigger ==
  /\ phase = "enter" /\ at = "webhook-trigger"
  /\ Follow("any")
  /\ UNCHANGED <<breakerVars, context, over, services>>

\* Mutant: an answer without a decision is taken for an approval.
TakenForApproval ==
  /\ phase = "enter" /\ at = "decision-check"
  /\ Store(IF context \in {"ALLOW", NoDecision} THEN "true" ELSE "false")
  /\ UNCHANGED <<breakerVars, context, over, services>>

\* evaluateConditionalNode with tracer-validate.body.decision == "ALLOW"; a path
\* that is not in the context is an error.
EvaluateConditionalNode ==
  /\ phase = "enter" /\ at = "decision-check"
  /\ IF context = NoDecision
     THEN FailNode
     ELSE Store(IF context = "ALLOW" THEN "true" ELSE "false")
  /\ UNCHANGED <<breakerVars, context, over, services>>

-----------------------------------------------------------------------------
(* executeWithProviderConfig and executeRunnerWithRetry *)

\* The configuration is loaded and the input built, or that fails (not found,
\* not active, a bad mapping, ...); the retry loop begins.
EnterExecutor ==
  /\ phase = "enter" /\ at \in Executors
  /\ (phase' = "calling" /\ UNCHANGED <<at, status>>) \/ FailNode
  /\ UNCHANGED <<breakerVars, context, over, services>>

\* The breaker of the configuration is found or created.
FindBreaker ==
  /\ phase = "calling"
  /\ Lookup(at) \/ Create(at)
  /\ UNCHANGED <<walk, context, over, services>>

\* The breaker is open, or there is no runner: the node fails at once.
Refused ==
  /\ phase = "calling"
  /\ Refuse(at) \/ NoRunner(at)
  /\ FailNode
  /\ UNCHANGED <<context, over, services>>

\* The breaker lets the attempt run, and the request leaves unless the context
\* of the execution is over.
Send ==
  /\ phase = "calling"
  /\ Admit(at)
  /\ IF over
     THEN UNCHANGED <<phase, sent>>
     ELSE phase' = "sent" /\ sent' = [sent EXCEPT ![at] = @ + 1]
  /\ UNCHANGED <<at, status, context, over, late, bookings>>

\* Mutant: the error of the last attempt is lost.
ErrorLost ==
  /\ Fail(at)
  /\ IF Last(at) THEN Follow("any") ELSE phase' = "calling" /\ UNCHANGED <<at, status>>

\* An attempt ends with an error; isNonRetryableError knows none of those the
\* runner reports.
AttemptFailed ==
  /\ Fail(at)
  /\ IF Last(at) THEN FailNode ELSE phase' = "calling" /\ UNCHANGED <<at, status>>

\* The request did not leave.
NotSent ==
  /\ phase = "calling"
  /\ AttemptFailed
  /\ UNCHANGED <<context, over, services>>

\* Midaz books what it is sent: nothing in a request tells that it is a retry.
Effect(n) == bookings' = IF n = "midaz-create-tx" THEN bookings + 1 ELSE bookings

\* The service does what is asked and its answer, a 2xx, arrives.
Answered ==
  /\ phase = "sent"
  /\ Succeed(at)
  /\ Effect(at)
  /\ IF at = "tracer-validate"
     THEN context' \in Decisions \cup {NoDecision}
     ELSE UNCHANGED context
  /\ Store("any")
  /\ UNCHANGED <<over, sent, late>>

\* The service answers with a 4xx, and has done nothing.
Rejected ==
  /\ phase = "sent"
  /\ AttemptFailed
  /\ UNCHANGED <<context, over, sent, late, bookings>>

\* No answer arrives in time: the request is lost, or may yet be handled.
Unanswered ==
  /\ phase = "sent"
  /\ late' \in {late, [late EXCEPT ![at] = @ + 1]}
  /\ AttemptFailed
  /\ UNCHANGED <<context, over, sent, bookings>>

\* A service handles a request that nobody waits for (any more).
HandledLate ==
  \E n \in Executors :
    /\ late[n] > 0
    /\ late' = [late EXCEPT ![n] = @ - 1]
    /\ Effect(n)
    /\ UNCHANGED <<breakerVars, walk, context, over, sent>>

\* After the backoff the next attempt begins, or the context is found done.
Again ==
  /\ phase = "calling"
  /\ \/ Retry(at) /\ UNCHANGED walk
     \/ over /\ GiveUp(at) /\ FailNode
  /\ UNCHANGED <<context, over, services>>

\* executionTimeout
Expire ==
  /\ status = "running" /\ ~over
  /\ over' = TRUE
  /\ UNCHANGED <<breakerVars, walk, context, services>>

-----------------------------------------------------------------------------
(* Specification *)

\* Mutant: nothing ends an attempt that is not answered.
NoClientTimeout ==
  \/ EnterTrigger \/ EvaluateConditionalNode \/ EnterExecutor
  \/ FindBreaker \/ Refused \/ Send \/ NotSent \/ Again

\* The goroutine of the execution, with the timeout of its HTTP client.
StateMachine ==
  \/ EnterTrigger \/ EvaluateConditionalNode \/ EnterExecutor
  \/ FindBreaker \/ Refused \/ Send \/ NotSent \/ Unanswered \/ Again

\* The services, as the goroutine notices them or not.
Services == Answered \/ Rejected \/ HandledLate

\* The call of another execution.
Other(k) == Proceed(k) /\ UNCHANGED <<walk, context, over, services>>

Next ==
  \/ StateMachine \/ Services \/ Expire
  \/ \E k \in Calls \ Executors : Other(k)
  \/ \E b \in Breakers : Elapse(b) /\ UNCHANGED <<walk, context, over, services>>

Spec == Init /\ [][Next]_vars

\* The scheduler runs the goroutines, and the timeout of the client ends an
\* attempt; the services owe nothing.
FairSpec ==
  /\ Spec
  /\ WF_vars(StateMachine)
  /\ \A k \in Calls \ Executors : WF_vars(Other(k))

-----------------------------------------------------------------------------
(* Properties *)

\* Midaz is asked to book only after Tracer allowed the transaction, however
\* many attempts, late answers and timeouts came before.
BookedOnlyIfAllowed ==
  (sent["midaz-create-tx"] > 0 \/ bookings > 0) => context = "ALLOW"

\* What a client reads from the status: a completed execution has booked the
\* transaction if Tracer allowed it, and not if Tracer decided otherwise.
CompletedMeansDecided ==
  status = "completed" =>
    /\ context \in Decisions
    /\ (bookings > 0) <=> (context = "ALLOW")

\* However the attempts end, and whenever their effects show, a node has at
\* most MaxRetries of them: as many requests, and as many bookings.
EffectsAreBounded ==
  /\ \A n \in Executors : sent[n] <= MaxRetries
  /\ bookings + late["midaz-create-tx"] <= sent["midaz-create-tx"]

\* The execution ends, whatever the services do.
Ends == <>(status # "running")

\* The description of the template (template.go:34): it "creates a transaction
\* in Midaz if approved".  A request whose answer was lost is sent again.
OneTransaction == bookings <= 1
=============================================================================
