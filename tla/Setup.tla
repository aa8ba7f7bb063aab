-------------------------------- MODULE Setup --------------------------------
(***************************************************************************)
(* Collections and indexes of MongoDB (internal/bootstrap/collections.go   *)
(* and indexes.go): processes that start at the same time each go through  *)
(* the same definitions, look whether one exists and create it if not.     *)
(* Meanwhile services already insert documents, and the first document, or *)
(* the first index, of a collection that is not there creates it bare.     *)
(***************************************************************************)
EXTENDS Naturals, Sequences

CONSTANTS
    Processes,   \* processes that set up the database
    Taken,       \* collections that are looked at
    MaxInserts,  \* bound on the documents inserted meanwhile
    MaxErrors    \* bound on the errors of the database

VARIABLES
    collections, \* how each collection was created, if it was
    filled,      \* those that have documents
    built,       \* indexes that exist
    repeated,    \* indexes on a field that has one value in two documents
    process,     \* where each process is
    inserts,     \* documents inserted so far
    errors       \* errors of the database so far

setupVars == <<collections, filled, built, repeated, process, inserts, errors>>

\* GetCollectionDefinitions: all have a validator, or are a time series.
AllCollections == <<"workflows", "executor_configurations", "provider_configurations",
                    "workflow_executions", "audit_entries">>

Index(collection, field, unique) == [of |-> collection, field |-> field, unique |-> unique]

\* GetIndexDefinitions.
AllIndexes ==
    << Index("workflows", "workflowId", TRUE), Index("workflows", "name", TRUE),
       Index("workflows", "status", FALSE), Index("workflows", "createdAt", FALSE),
       Index("executor_configurations", "executorId", TRUE), Index("executor_configurations", "name", TRUE),
       Index("executor_configurations", "status", FALSE), Index("executor_configurations", "createdAt", FALSE),
       Index("workflow_executions", "executionId", TRUE), Index("workflow_executions", "workflowId", FALSE),
       Index("workflow_executions", "status", FALSE), Index("workflow_executions", "startedAt", FALSE),
       Index("workflow_executions", "workflowId_status", FALSE),
       Index("workflow_executions", "idempotencyKey", TRUE),
       Index("provider_configurations", "providerConfigId", TRUE), Index("provider_configurations", "name", TRUE),
       Index("provider_configurations", "providerId", FALSE), Index("provider_configurations", "status", FALSE),
       Index("provider_configurations", "createdAt", FALSE),
       Index("audit_entries", "metadata.entityId", FALSE), Index("audit_entries", "metadata.entityType", FALSE) >>

\* Nothing passes from one collection to another: some are enough.
IsTaken(name)   == name \in Taken
OfTaken(index)  == index.of \in Taken
Collections == SelectSeq(AllCollections, IsTaken)
Indexes     == SelectSeq(AllIndexes, OfTaken)

\* Fields that clients choose: two documents may have one value.
Chosen == {n \in DOMAIN Indexes : Indexes[n].field \in {"name", "idempotencyKey"}}

\* A process goes through collections, then indexes, or through one of them.
Last == Len(Collections) + Len(Indexes)
Plans == {<<1, Last>>, <<1, Len(Collections)>>, <<Len(Collections) + 1, Last>>}

Init ==
    /\ collections = [n \in DOMAIN Collections |-> "none"] /\ filled = {}
    /\ built = {} /\ repeated = {}
    /\ process \in [Processes -> {[first |-> plan[1], at |-> plan[1], last |-> plan[2],
                                   step |-> "exists", end |-> "none"] : plan \in Plans}]
    /\ inserts = 0 /\ errors = 0

IsCollection(n) == n <= Len(Collections)
IndexAt(n) == n - Len(Collections)
Of(i) == CHOOSE n \in DOMAIN Collections : Collections[n] = Indexes[i].of

Working(p, step) == process[p].end = "none" /\ process[p].at <= process[p].last /\ process[p].step = step

Goes(p, q) == process' = [process EXCEPT ![p] = q]
Advance(p) ==
    LET at == process[p].at
    IN  Goes(p, [process[p] EXCEPT !.at = at + 1, !.step = "exists",
                                   !.end = IF at = process[p].last THEN "well" ELSE "none"])
Fails(p, why) == Goes(p, [process[p] EXCEPT !.end = why])
Database == UNCHANGED <<collections, filled, built, repeated>>

\* InitializeCollections and CreateIndexes: is it there?
Exists(n) == IF IsCollection(n) THEN collections[n] # "none" ELSE IndexAt(n) \in built

Look(p) ==
    /\ Working(p, "exists")
    /\ IF Exists(process[p].at) THEN Advance(p) ELSE Goes(p, [process[p] EXCEPT !.step = "create"])
    /\ Database /\ UNCHANGED <<inserts, errors>>

CreateOrFail(p) ==
    LET n == process[p].at
    IN  /\ Working(p, "create") /\ IsCollection(n)
        /\ collections' = IF collections[n] = "none" THEN [collections EXCEPT ![n] = "configured"]
                          ELSE collections
        /\ IF collections[n] = "none" THEN Advance(p) ELSE Fails(p, "error")
        /\ UNCHANGED <<filled, built, repeated, inserts, errors>>

\* createCollection: the code NamespaceExists of a collection that came in
\* between is no error.
CreateCollection(p) ==
    LET n == process[p].at
    IN  /\ Working(p, "create") /\ IsCollection(n)
        /\ collections' = IF collections[n] = "none" THEN [collections EXCEPT ![n] = "configured"]
                          ELSE collections
        /\ Advance(p)
        /\ UNCHANGED <<filled, built, repeated, inserts, errors>>

\* Creates the collection of the index too; a unique index fails where the
\* documents do not allow it.
Bare(n) == IF collections[n] = "none" THEN [collections EXCEPT ![n] = "bare"] ELSE collections

CreateIndex(p) ==
    LET i == IndexAt(process[p].at)
    IN  /\ Working(p, "create") /\ ~IsCollection(process[p].at)
        /\ collections' = Bare(Of(i))
        /\ IF Indexes[i].unique /\ i \in repeated
           THEN Fails(p, "duplicates") /\ UNCHANGED built
           ELSE Advance(p) /\ built' = built \cup {i}
        /\ UNCHANGED <<filled, repeated, inserts, errors>>

\* Any of these calls may fail, and ends the process.
Error(p) ==
    /\ process[p].end = "none" /\ process[p].at <= process[p].last
    /\ errors < MaxErrors /\ errors' = errors + 1
    /\ Fails(p, "error")
    /\ Database /\ UNCHANGED inserts

\* A service inserts a document, that repeats the value of a field or not.
Insert ==
    /\ inserts < MaxInserts /\ inserts' = inserts + 1
    /\ \E n \in DOMAIN Collections :
        /\ collections' = Bare(n) /\ filled' = filled \cup {n}
        /\ \E same \in SUBSET {i \in Chosen : Of(i) = n} :
            /\ same \cap built = {}
            /\ same # {} => n \in filled
            /\ repeated' = repeated \cup same
    /\ UNCHANGED <<built, process, errors>>

Next == Insert \/ \E p \in Processes : Look(p) \/ CreateCollection(p) \/ CreateIndex(p) \/ Error(p)

Spec == Init /\ [][Next]_setupVars

-----------------------------------------------------------------------------
(* Properties                                                               *)

SetupTypeOK ==
    /\ collections \in [DOMAIN Collections -> {"none", "bare", "configured"}]
    /\ filled \subseteq {n \in DOMAIN Collections : collections[n] # "none"}
    /\ built \subseteq DOMAIN Indexes /\ repeated \subseteq Chosen
    /\ \A p \in Processes : process[p].end \in {"none", "well", "duplicates", "error"}
    /\ inserts \in 0 .. MaxInserts /\ errors \in 0 .. MaxErrors

\* A process that reports no error leaves nothing missing of what it went
\* through, whoever created it (VerifyCollections, VerifyIndexes).
WellMeansAll ==
    \A p \in Processes : process[p].end = "well" =>
        \A n \in process[p].first .. process[p].last : Exists(n)

\* "Safe to run multiple times": processes that start together, or again, do
\* not make each other fail: where no call failed, documents did.
FailureHasACause ==
    /\ \A p \in Processes : process[p].end = "duplicates" => repeated # {}
    /\ errors = 0 => \A p \in Processes : process[p].end # "error"

\* No unique index is there with documents that it forbids.
IndexedIsUnique == \A i \in built \cap repeated : ~Indexes[i].unique

\* A collection is without its validator only where a document or an index
\* came before it, never because two processes created it.
BareMeansUsed ==
    \A n \in DOMAIN Collections :
        collections[n] = "bare" => inserts > 0 \/ \E p \in Processes : ~IsCollection(process[p].first)

SetupInv ==
    /\ SetupTypeOK
    /\ WellMeansAll
    /\ FailureHasACause
    /\ IndexedIsUnique
    /\ BareMeansUsed
=============================================================================
