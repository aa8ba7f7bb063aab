----------------------------- MODULE AuditChain ------------------------------
(***************************************************************************)
(* The audit trail: events recorded by goroutines that nobody waits for    *)
(* (record_audit_event.go), inserted in PostgreSQL by a trigger that links *)
(* each row to a previous one (migrations/000001_audit_events.up.sql), and *)
(* the verification of the links (adapters/postgresql/audit).              *)
(*                                                                         *)
(* A row draws its id from a sequence before the trigger takes the lock    *)
(* that serializes the reading of the previous hash; the lock is held      *)
(* until the transaction ends.  The hash of a row stands for its event:    *)
(* two events never have the same one.                                     *)
(***************************************************************************)
EXTENDS Naturals, FiniteSets, Sequences

CONSTANTS
  Events,        \* events to be recorded
  Connections,   \* connections of the pool: inserts in flight
  MaxId,         \* bound: ids drawn from the sequence
  Null,          \* no previous hash
  Nobody         \* no transaction holds the lock

ASSUME ConstantsAssumption ==
  /\ Null \notin Events
  /\ Nobody \notin Events
  /\ Connections \in Nat \ {0}
  /\ MaxId \in Nat

VARIABLES
  rows,       \* rows[i]: the committed row with id i
  sequence,   \* the last value drawn from the sequence of ids
  insert,     \* insert[e]: the transaction that inserts e
  lock,       \* the holder of the advisory lock
  history     \* the events in the order they were committed

vars == <<rows, sequence, insert, lock, history>>

-----------------------------------------------------------------------------
(* Data *)

Ids == 1..MaxId

NoRow == [event |-> Null, previous |-> Null]

Rows == {NoRow} \cup [event : Events, previous : Events \cup {Null}]

Inserts == [pc : {"unrecorded", "recorded", "drawn", "linked", "committed", "lost"},
            id : 0..MaxId, previous : Events \cup {Null}]

TypeOK ==
  /\ rows \in [Ids -> Rows]
  /\ sequence \in 0..MaxId
  /\ insert \in [Events -> Inserts]
  /\ lock \in Events \cup {Nobody}
  /\ history \in Seq(Events)

Stored == {i \in Ids : rows[i] # NoRow}

InFlight == {e \in Events : insert[e].pc \in {"drawn", "linked"}}

Step(e, from, to) ==
  /\ insert[e].pc = from
  /\ insert' = [insert EXCEPT ![e].pc = to]

-----------------------------------------------------------------------------
(* Recording *)

\* recordEvent: the insert goes on in a goroutine of its own.
Record(e) ==
  /\ Step(e, "unrecorded", "recorded")
  /\ UNCHANGED <<rows, sequence, lock, history>>

\* Mutant: two rows get the same id.
DrawTwice(e) ==
  /\ insert[e].pc = "recorded"
  /\ Cardinality(InFlight) < Connections
  /\ sequence < MaxId
  /\ sequence' = IF sequence = 0 THEN 1 ELSE sequence
  /\ insert' = [insert EXCEPT ![e] =
       [pc |-> "drawn", id |-> sequence', previous |-> Null]]
  /\ UNCHANGED <<rows, lock, history>>

\* The default of the id column is evaluated before the trigger runs.
Draw(e) ==
  /\ insert[e].pc = "recorded"
  /\ Cardinality(InFlight) < Connections
  /\ sequence < MaxId
  /\ sequence' = sequence + 1
  /\ insert' = [insert EXCEPT ![e] =
       [pc |-> "drawn", id |-> sequence + 1, previous |-> Null]]
  /\ UNCHANGED <<rows, lock, history>>

\* Mutant: the transaction does not wait for the lock.
Unlocked == TRUE

Free == lock = Nobody

\* Mutant: the previous hash of the last row, not its hash.
IsPreviousHash(h) ==
  \/ Stored = {} /\ h = Null
  \/ \E i \in Stored : h = rows[i].previous /\ \A j \in Stored : j <= i

\* The hash of the row with the highest id.
IsLastHash(h) ==
  \/ Stored = {} /\ h = Null
  \/ \E i \in Stored : h = rows[i].event /\ \A j \in Stored : j <= i

\* calculate_audit_event_hash: with the lock, the previous hash is read.
Link(e) ==
  /\ insert[e].pc = "drawn"
  /\ Free
  /\ lock' = e
  /\ \E h \in Events \cup {Null} :
       /\ IsLastHash(h)
       /\ insert' = [insert EXCEPT ![e] = [@ EXCEPT !.pc = "linked", !.previous = h]]
  /\ UNCHANGED <<rows, sequence, history>>

\* Mutant: the lock outlives the transaction.
CommitHolding(e) ==
  /\ Step(e, "linked", "committed")
  /\ rows' = [rows EXCEPT ![insert[e].id] =
       [event |-> e, previous |-> insert[e].previous]]
  /\ history' = Append(history, e)
  /\ UNCHANGED <<lock, sequence>>

\* The row becomes visible and the lock is released.
Commit(e) ==
  /\ Step(e, "linked", "committed")
  /\ rows' = [rows EXCEPT ![insert[e].id] =
       [event |-> e, previous |-> insert[e].previous]]
  /\ lock' = Nobody
  /\ history' = Append(history, e)
  /\ UNCHANGED sequence

\* The five seconds are over, the connection breaks or the process dies: the
\* event is lost, a row in the making is rolled back.
Lose(e) ==
  /\ insert[e].pc \in {"recorded", "drawn", "linked"}
  /\ insert' = [insert EXCEPT ![e].pc = "lost"]
  /\ lock' = IF lock = e THEN Nobody ELSE lock
  /\ UNCHANGED <<rows, sequence, history>>

Init ==
  /\ rows = [i \in Ids |-> NoRow]
  /\ sequence = 0
  /\ insert = [e \in Events |-> [pc |-> "unrecorded", id |-> 0, previous |-> Null]]
  /\ lock = Nobody
  /\ history = << >>

Next == \E e \in Events : Record(e) \/ Draw(e) \/ Link(e) \/ Commit(e) \/ Lose(e)

\* The database goes on with every transaction.
Fairness ==
  \A e \in Events : WF_vars(Draw(e)) /\ SF_vars(Link(e)) /\ WF_vars(Commit(e))

Spec == Init /\ [][Next]_vars /\ Fairness

-----------------------------------------------------------------------------
(* VerifyHashChain *)

Before(i) == {j \in Stored : j < i}

\* The check of a row that is not the first against the one before it.
Unlinked(i) ==
  \E j \in Before(i) : /\ \A k \in Before(i) : k <= j
                       /\ rows[i].previous # rows[j].event

\* The rows up to the target in the order of ids; a row whose previous hash is
\* NULL cannot be scanned into a string.
Verify(target) ==
  LET upTo == {i \in Stored : i <= target}
      bad  == {i \in upTo : rows[i].previous = Null \/ Unlinked(i)} IN
  IF bad = {} THEN "valid"
  ELSE LET first == CHOOSE i \in bad : \A j \in bad : i <= j IN
       IF rows[first].previous = Null THEN "error" ELSE "broken"

-----------------------------------------------------------------------------
(* Properties *)

\* At most one row starts the chain, also when the first inserts race
\* (000001_audit_events.up.sql:38-41).
OneGenesis ==
  \A i, j \in Stored : rows[i].previous = Null /\ rows[j].previous = Null => i = j

\* A row is linked to a row that was committed before it: the links lead back
\* to the start of the chain, whatever was rolled back meanwhile.
LinksGoBack ==
  \A n \in DOMAIN history : \A i \in Stored :
    rows[i].event = history[n] =>
      \/ rows[i].previous = Null /\ n = 1
      \/ \E m \in 1..n - 1 : rows[i].previous = history[m]

\* An event is stored if and only if its insert was committed, and once.
StoredOnce ==
  \A e \in Events :
    LET here == {i \in Stored : rows[i].event = e} IN
    IF insert[e].pc = "committed" THEN here = {insert[e].id} ELSE here = {}

\* What the lock and the trigger promise of the table: one start, links that
\* lead back to it, and every committed event once.
ChainInv == OneGenesis /\ LinksGoBack /\ StoredOnce

\* Each entry references the entry with the id before its own (docs/
\* PROJECT_RULES.md:148).
ChainFollowsIds ==
  \A i \in Stored : ~Unlinked(i) /\ (rows[i].previous = Null <=> Before(i) = {})

\* No two rows have the same previous hash (000001_audit_events.up.sql:39:
\* "This prevents concurrent inserts from reading the same previous_hash").
NoFork ==
  \A i, j \in Stored : rows[i].previous = rows[j].previous => i = j

\* The verification of a row that nobody touched finds the chain valid.
VerifySucceeds == \A i \in Stored : Verify(i) = "valid"

\* A recorded event ends in the table or is lost; no insert waits for the
\* lock for ever.
InsertsEnd ==
  \A e \in Events : insert[e].pc = "recorded" ~> insert[e].pc \in {"committed", "lost"}

\* The holder of the lock is the transaction that linked its row, and the
\* hash it read is still the last one.
LockHeld ==
  \A e \in Events :
    /\ insert[e].pc = "linked" <=> lock = e
    /\ insert[e].pc = "linked" => IsLastHash(insert[e].previous)

\* An id is drawn once.
IdsDrawn ==
  \A e \in Events :
    /\ insert[e].id <= sequence
    /\ insert[e].pc \in {"drawn", "linked", "committed"} => insert[e].id # 0
    /\ \A f \in Events : insert[e].id = insert[f].id /\ e # f => insert[e].id = 0

\* The history names the stored rows.
HistoryIsStored ==
  /\ \A i \in Stored : \E n \in DOMAIN history : rows[i].event = history[n]
  /\ \A n \in DOMAIN history : insert[history[n]].pc = "committed"

\* The inductive invariant behind the first three properties: who holds the
\* lock, which ids are drawn and what the history names decide what the next
\* commit can do to the chain.
IInv ==
  /\ TypeOK
  /\ LockHeld
  /\ IdsDrawn
  /\ StoredOnce
  /\ HistoryIsStored
  /\ OneGenesis
  /\ LinksGoBack
=============================================================================
