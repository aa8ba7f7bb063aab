----------------------------- MODULE Pagination ------------------------------
(***************************************************************************)
(* Cursor pagination over a MongoDB collection: the List of the workflow,  *)
(* executor configuration and provider configuration repositories, and the *)
(* List of executions, which takes the order from the cursor               *)
(* (internal/adapters/mongodb, pkg/pagination/cursor.go).                  *)
(*                                                                         *)
(* A client walks the pages of one listing while documents come, change    *)
(* and go.  Between two pages nothing is kept but the cursor.              *)
(*                                                                         *)
(* A sort value is a number.  What is kept of its conversions is the BSON  *)
(* type, since a comparison never matches a value of another type.         *)
(* Executions call createdAt startedAt and updatedAt completedAt.          *)
(***************************************************************************)
EXTENDS Naturals, FiniteSets

CONSTANTS
  Items,        \* document ids
  Values,       \* times and names
  Limit,        \* documents per page
  First,        \* sortBy and sortOrder of the request without a cursor
  Following,    \* sortBy and sortOrder of the requests with a cursor
  FromCursor,   \* do those take the order from the cursor?
  MaxChanges    \* bound: changes of the collection during the walk

Requests == [sortBy : {"createdAt", "updatedAt", "name", "created_at"},
             sortOrder : {"ASC", "DESC"}]

\* A client that sorts by name does so on every page.
ASSUME ConstantsAssumption ==
  /\ Items \subseteq Nat
  /\ Values \subseteq Nat
  /\ Limit \in Nat \ {0}
  /\ First \in Requests
  /\ Following \in Requests
  /\ First.sortBy = "name" <=> Following.sortBy = "name"
  /\ FromCursor \in BOOLEAN
  /\ MaxChanges \in Nat

VARIABLES
  docs,      \* the documents that match the filter of the listing
  cursor,    \* the cursor of the next page
  walk,      \* which page the client asks for next
  seen,      \* the documents it was given
  twice,     \* the documents it was given more than once
  steady,    \* the documents that matched from the start and never changed
  changes    \* changes so far

vars == <<docs, cursor, walk, seen, twice, steady, changes>>

-----------------------------------------------------------------------------
(* Data *)

Absent == [stored |-> FALSE, createdAt |-> 0, updatedAt |-> 0, name |-> 0]

StoredDocs ==
  [stored : {TRUE}, createdAt : Values, updatedAt : Values, name : Values]

Cursors == [id : Nat, value : Nat, order : Requests]

TypeOK ==
  /\ docs \in [Items -> StoredDocs \cup {Absent}]
  /\ cursor \in Cursors
  /\ walk \in {"first", "next", "done"}
  /\ seen \subseteq Items
  /\ twice \subseteq Items
  /\ steady \subseteq {i \in Items : docs[i].stored}
  /\ changes \in 0..MaxChanges

\* mapSortField: a name it does not know is createdAt.
MapSortField(sortBy) ==
  IF sortBy \in {"createdAt", "updatedAt", "name"} THEN sortBy ELSE "createdAt"

\* The type a field is stored with.
StoredType(field) == IF field = "name" THEN "string" ELSE "date"

\* ParseSortValue knows the API names only.
ParsedType(sortBy) ==
  IF sortBy \in {"createdAt", "updatedAt"} THEN "date" ELSE "string"

\* The order of a listing: is the document j with value w after i with v?
Beyond(order, v, i, w, j) ==
  IF order = "ASC" THEN w > v \/ (w = v /\ j > i) ELSE w < v \/ (w = v /\ j < i)

Key(r, i) == docs[i][MapSortField(r.sortBy)]

Precedes(r, i, j) == Beyond(r.sortOrder, Key(r, i), i, Key(r, j), j)

-----------------------------------------------------------------------------
(* List *)

\* The order a page is asked for.
Order ==
  IF walk = "first" THEN First ELSE IF FromCursor THEN cursor.order ELSE Following

\* Mutant: the id does not break ties.
PastValue(r, i) ==
  IF r.sortOrder = "ASC" THEN Key(r, i) > cursor.value ELSE Key(r, i) < cursor.value

\* Mutant: the document of the cursor is included.
FromValue(r, i) ==
  \/ Beyond(r.sortOrder, cursor.value, cursor.id, Key(r, i), i)
  \/ Key(r, i) = cursor.value /\ i = cursor.id

\* The condition a cursor adds to the filter.
PastCursor(r, i) == Beyond(r.sortOrder, cursor.value, cursor.id, Key(r, i), i)

\* The filter: without a cursor every document, with one those beyond it.
Matching(r) ==
  {i \in Items :
     /\ docs[i].stored
     /\ walk = "next" =>
          /\ ParsedType(r.sortBy) = StoredType(MapSortField(r.sortBy))
          /\ PastCursor(r, i)}

\* One document more than the limit is fetched, to know if there are more.
HasMore(r) == Cardinality(Matching(r)) > Limit

IsPage(r, P) ==
  IF HasMore(r)
    THEN /\ Cardinality(P) = Limit
         /\ \A i \in P, j \in Matching(r) \ P : Precedes(r, i, j)
    ELSE P = Matching(r)

List ==
  /\ walk # "done"
  /\ \E P \in SUBSET Matching(Order) :
       /\ IsPage(Order, P)
       /\ seen' = seen \cup P
       /\ twice' = twice \cup (seen \cap P)
       /\ \/ /\ HasMore(Order)
             /\ walk' = "next"
             /\ \E last \in P :
                  /\ \A i \in P \ {last} : Precedes(Order, i, last)
                  /\ cursor' = [id |-> last, value |-> Key(Order, last),
                                order |-> Order]
          \/ /\ ~HasMore(Order)
             /\ walk' = "done"
             /\ UNCHANGED cursor
  /\ UNCHANGED <<docs, steady, changes>>

-----------------------------------------------------------------------------
(* The collection changes between two pages *)

Change(i, d) ==
  /\ walk # "done"
  /\ changes < MaxChanges
  /\ changes' = changes + 1
  /\ docs' = [docs EXCEPT ![i] = d]
  /\ steady' = steady \ {i}
  /\ UNCHANGED <<cursor, walk, seen, twice>>

\* A document is created or starts to match the filter.
Enter(i, d) == ~docs[i].stored /\ Change(i, d)

\* An update keeps the time of creation.
Update(i, d) ==
  docs[i].stored /\ d.createdAt = docs[i].createdAt /\ Change(i, d)

\* A document is deleted or ceases to match.
Leave(i) == docs[i].stored /\ Change(i, Absent)

-----------------------------------------------------------------------------
(* The specification *)

Init ==
  /\ docs \in [Items -> StoredDocs \cup {Absent}]
  /\ cursor = [id |-> 0, value |-> 0, order |-> First]
  /\ walk = "first"
  /\ seen = {}
  /\ twice = {}
  /\ steady = {i \in Items : docs[i].stored}
  /\ changes = 0

Next ==
  \/ List
  \/ \E i \in Items : \E d \in StoredDocs : Enter(i, d) \/ Update(i, d)
  \/ \E i \in Items : Leave(i)

\* The client asks for the pages until there are no more.
Spec == Init /\ [][Next]_vars /\ WF_vars(List)

-----------------------------------------------------------------------------
(* Properties *)

\* A walk over all pages returns every document that was there from the
\* start and was left alone, whatever else changes (config.go:872: "It
\* paginates through all pages to ensure no workflows are missed").
NothingMissed == walk = "done" => steady \subseteq seen

\* It returns none of them twice (repository.go:135-144 of the workflows: the
\* id breaks ties of the sort value).
NothingTwice == twice \cap steady = {}

\* Between them: what was left alone is returned once (config.go:872).
WalkIsExact == NothingMissed /\ NothingTwice

\* Every page but the last moves the cursor on, past all that came before it,
\* however the documents change their places in between: there is no walk
\* without end over a collection that stays finite (config.go:883, the loop of
\* populateWebhookRegistry over the cursors).
CursorAdvances ==
  [][List /\ walk = "next" /\ walk' = "next"
       => Beyond(cursor.order.sortOrder, cursor.value, cursor.id,
                 cursor'.value, cursor'.id)]_vars

\* The cursor separates what was returned from what was not: the inductive
\* invariant behind the two properties above.
Separates ==
  walk = "next" => \A i \in steady : i \in seen <=> ~PastCursor(cursor.order, i)
=============================================================================
