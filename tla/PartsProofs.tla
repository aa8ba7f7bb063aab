------------------------------ MODULE PartsProofs ------------------------------
(***************************************************************************)
(* Theorems about the parts of MCParts: the pages of a listing, the tokens *)
(* on requests, the test of a provider configuration, the data through     *)
(* executor nodes and the expressions of conditional nodes, each for every *)
(* value of its constants.                                                 *)
(***************************************************************************)
EXTENDS MCParts, FiniteSetTheorems, SequenceTheorems, TLAPS

(***************************************************************************)
(* Pages                                                                   *)
(***************************************************************************)

\* The requests agree on one order that the repository knows, or the cursor
\* carries it.
Consistent ==
  First.sortBy # "created_at" /\ (FromCursor \/ Following = First)

-----------------------------------------------------------------------------
(* The order of a listing *)

LEMMA BeyondIsAnOrder ==
  ASSUME NEW o, NEW u \in Nat, NEW i \in Nat, NEW v \in Nat, NEW j \in Nat,
         NEW w \in Nat, NEW k \in Nat
  PROVE  /\ ~Beyond(o, u, i, u, i)
         /\ Beyond(o, u, i, v, j) => ~Beyond(o, v, j, u, i)
         /\ Beyond(o, u, i, v, j) /\ Beyond(o, v, j, w, k) => Beyond(o, u, i, w, k)
  BY DEF Beyond

LEMMA KeyType ==
  ASSUME TypeOK, NEW r \in Requests, NEW i \in Items, docs[i].stored
  PROVE  Key(r, i) \in Nat /\ i \in Nat
  <1>1. docs[i] \in StoredDocs
    BY DEF TypeOK, Absent
  <1>2. MapSortField(r.sortBy) \in {"createdAt", "updatedAt", "name"}
    BY DEF MapSortField
  <1>3. QED
    BY <1>1, <1>2, ConstantsAssumption DEF Key, StoredDocs

\* A later page is asked for in the order of the first.
LEMMA OrderIsFirst ==
  ASSUME Consistent, walk \in {"first", "next"},
         walk = "next" => cursor.order = First
  PROVE  /\ Order = First
         /\ First \in Requests
         /\ ParsedType(First.sortBy) = StoredType(MapSortField(First.sortBy))
  <1>1. Order = First
    BY DEF Consistent, Order
  <1>2. First \in Requests
    BY ConstantsAssumption
  <1>3. First.sortBy \in {"createdAt", "updatedAt", "name"}
    BY <1>2 DEF Requests, Consistent
  <1>4. QED
    BY <1>1, <1>2, <1>3 DEF ParsedType, StoredType, MapSortField

-----------------------------------------------------------------------------
(* The inductive invariant *)

PagesInv ==
  /\ TypeOK
  /\ walk = "next" => cursor.order = First
  /\ walk = "first" => seen = {}
  /\ Separates
  /\ NothingTwice
  /\ NothingMissed

LEMMA InitPagesInv == Init => PagesInv
  BY ConstantsAssumption
     DEF Init, PagesInv, TypeOK, Cursors, Separates, NothingTwice, NothingMissed

\* A change takes its document out of those that are steady.
LEMMA ChangePagesInv ==
  ASSUME PagesInv, NEW i \in Items, NEW d \in StoredDocs \cup {Absent}, Change(i, d)
  PROVE  PagesInv'
  <1>1. TypeOK'
    BY ConstantsAssumption DEF PagesInv, Change, TypeOK
  <1>2. /\ UNCHANGED <<cursor, walk, seen, twice>>
        /\ steady' \subseteq steady
        /\ walk # "done"
    BY DEF Change
  <1>3. \A j \in steady' : docs'[j] = docs[j]
    BY DEF PagesInv, TypeOK, Change
  <1>4. Separates'
    BY <1>2, <1>3 DEF PagesInv, Separates, PastCursor, Key
  <1>5. QED
    BY <1>1, <1>2, <1>4 DEF PagesInv, NothingTwice, NothingMissed

\* What a page does, given the invariant.
LEMMA ListPagesInv ==
  ASSUME Consistent, PagesInv, List
  PROVE  PagesInv'
  <1> DEFINE r == First
             M == Matching(r)
  <1>1. /\ Order = r
        /\ r \in Requests
        /\ ParsedType(r.sortBy) = StoredType(MapSortField(r.sortBy))
    BY OrderIsFirst DEF PagesInv, List, TypeOK
  <1>2. PICK P \in SUBSET M :
          /\ IsPage(r, P)
          /\ seen' = seen \cup P
          /\ twice' = twice \cup (seen \cap P)
          /\ \/ /\ HasMore(r)
                /\ walk' = "next"
                /\ \E last \in P :
                     /\ \A i \in P \ {last} : Precedes(r, i, last)
                     /\ cursor' = [id |-> last, value |-> Key(r, last),
                                   order |-> r]
             \/ /\ ~HasMore(r)
                /\ walk' = "done"
                /\ UNCHANGED cursor
    BY <1>1 DEF List
  <1>3. UNCHANGED <<docs, steady, changes>> /\ walk \in {"first", "next"}
    BY DEF List, PagesInv, TypeOK
  <1>4. P \subseteq Items /\ \A i \in M : docs[i].stored /\ i \in Items
    BY <1>2 DEF Matching
  <1>5. \A i \in steady : i \in Items /\ docs[i].stored
    BY DEF PagesInv, TypeOK
  <1>6. \A i \in steady : i \in M <=> i \notin seen
    BY <1>1, <1>3, <1>5 DEF Matching, PagesInv, Separates
  <1>7. NothingTwice'
    BY <1>2, <1>3, <1>6 DEF PagesInv, NothingTwice
  <1>8. CASE /\ HasMore(r)
             /\ walk' = "next"
             /\ \E last \in P :
                  /\ \A i \in P \ {last} : Precedes(r, i, last)
                  /\ cursor' = [id |-> last, value |-> Key(r, last), order |-> r]
    <2>1. PICK last \in P :
            /\ \A i \in P \ {last} : Precedes(r, i, last)
            /\ cursor' = [id |-> last, value |-> Key(r, last), order |-> r]
      BY <1>8
    <2>2. /\ cursor'.id = last /\ cursor'.value = Key(r, last)
          /\ cursor'.order = r
      BY <2>1
    <2>3. last \in Items /\ docs[last].stored
      BY <1>2, <1>4, <2>1
    <2>4. Key(r, last) \in Nat /\ last \in Nat
      BY <1>1, <2>3, KeyType DEF PagesInv
    <2>5. TypeOK'
      BY <1>1, <1>2, <1>3, <1>4, <1>8, <2>1, <2>4 DEF PagesInv, TypeOK, Cursors
    <2>6. \A i \in M \ P : Precedes(r, last, i)
      BY <1>2, <1>8 DEF IsPage
    <2>7. ASSUME NEW i \in steady
          PROVE  i \in seen' <=> ~Precedes(r, last, i)
      <3>1. i \in Items /\ docs[i].stored /\ Key(r, i) \in Nat /\ i \in Nat
        BY <1>1, <1>5, KeyType DEF PagesInv
      <3>2. CASE i \in M \ P
        BY <1>2, <1>6, <2>6, <3>2
      <3>3. CASE i \in P
        BY <1>2, <2>1, <2>4, <3>1, <3>3, BeyondIsAnOrder DEF Precedes
      <3>4. CASE i \notin M
        <4>1. i \in seen
          BY <1>6, <3>4
        <4>2. walk = "next" /\ cursor.order = r
          BY <1>3, <4>1 DEF PagesInv
        <4>3. ~PastCursor(r, i) /\ PastCursor(r, last)
          BY <1>2, <2>1, <4>1, <4>2 DEF PagesInv, Separates, Matching
        <4>4. cursor.value \in Nat /\ cursor.id \in Nat
          BY DEF PagesInv, TypeOK, Cursors
        <4>5. ~Precedes(r, last, i)
          BY <2>4, <3>1, <4>3, <4>4, BeyondIsAnOrder DEF PastCursor, Precedes
        <4>6. QED
          BY <1>2, <4>1, <4>5
      <3>5. QED
        BY <3>2, <3>3, <3>4
    <2>8. Separates'
      BY <1>3, <2>2, <2>7 DEF Separates, PastCursor, Precedes, Key
    <2>9. QED
      BY <1>7, <1>8, <2>2, <2>5, <2>8 DEF PagesInv, NothingMissed
  <1>9. CASE ~HasMore(r) /\ walk' = "done" /\ UNCHANGED cursor
    <2>1. TypeOK'
      BY <1>2, <1>3, <1>4, <1>9 DEF PagesInv, TypeOK
    <2>2. P = M
      BY <1>2, <1>9 DEF IsPage
    <2>3. NothingMissed'
      BY <1>2, <1>3, <1>6, <2>2 DEF NothingMissed
    <2>4. QED
      BY <1>7, <1>9, <2>1, <2>3 DEF PagesInv, Separates
  <1>10. QED
    BY <1>2, <1>8, <1>9

LEMMA NextPagesInv == ASSUME Consistent, PagesInv, [Next]_vars PROVE PagesInv'
  <1>1. CASE List
    BY <1>1, ListPagesInv
  <1>2. ASSUME NEW i \in Items, NEW d \in StoredDocs, Enter(i, d) \/ Update(i, d)
        PROVE  PagesInv'
    BY <1>2, ChangePagesInv DEF Enter, Update
  <1>3. ASSUME NEW i \in Items, Leave(i) PROVE PagesInv'
    BY <1>3, ChangePagesInv DEF Leave
  <1>4. CASE UNCHANGED vars
    BY <1>4 DEF vars, PagesInv, TypeOK, Separates, NothingTwice, NothingMissed,
                PastCursor, Key
  <1>5. QED
    BY <1>1, <1>2, <1>3, <1>4 DEF Next

-----------------------------------------------------------------------------
(* Theorems *)

\* Pagination without the fairness of its client, which no safety needs.
Pages == Init /\ [][Next]_vars

\* Over all pages nothing is missed that was there from the start and left
\* alone (config.go:872), if the requests agree on an order or the cursor
\* carries it.
THEOREM Complete == ASSUME Consistent PROVE Pages => []NothingMissed
  <1>1. PagesInv => NothingMissed
    BY DEF PagesInv
  <1>2. PagesInv /\ [Next]_vars => PagesInv'
    BY NextPagesInv
  <1>3. QED
    BY <1>1, <1>2, InitPagesInv, PTL DEF Pages

\* And nothing of it is returned twice (List of each repository: the id is
\* part of the sort and of the cursor).
THEOREM NoRepetition == ASSUME Consistent PROVE Pages => []NothingTwice
  <1>1. PagesInv => NothingTwice
    BY DEF PagesInv
  <1>2. PagesInv /\ [Next]_vars => PagesInv'
    BY NextPagesInv
  <1>3. QED
    BY <1>1, <1>2, InitPagesInv, PTL DEF Pages

\* The cursor separates what was returned from what was not
\* (execution/repository.go:285-288).
THEOREM CursorSeparates == ASSUME Consistent PROVE Pages => []Separates
  <1>1. PagesInv => Separates
    BY DEF PagesInv
  <1>2. PagesInv /\ [Next]_vars => PagesInv'
    BY NextPagesInv
  <1>3. QED
    BY <1>1, <1>2, InitPagesInv, PTL DEF Pages

\* Every page but the last moves the cursor on (config.go:883).
THEOREM WalkAdvances == ASSUME Consistent PROVE Pages => CursorAdvances
  <1>1. ASSUME PagesInv, List, walk = "next", walk' = "next"
        PROVE  Beyond(cursor.order.sortOrder, cursor.value, cursor.id,
                      cursor'.value, cursor'.id)
    <2>1. Order = First /\ cursor.order = First
      BY <1>1, OrderIsFirst DEF PagesInv
    <2>2. PICK P \in SUBSET Matching(First) :
            \/ /\ HasMore(First)
               /\ walk' = "next"
               /\ \E last \in P :
                    cursor' = [id |-> last, value |-> Key(First, last), order |-> First]
            \/ walk' = "done"
      BY <1>1, <2>1 DEF List
    <2>3. PICK last \in Matching(First) :
            cursor' = [id |-> last, value |-> Key(First, last), order |-> First]
      BY <1>1, <2>2
    <2>4. PastCursor(First, last)
      BY <1>1, <2>3 DEF Matching
    <2>5. QED
      BY <2>1, <2>3, <2>4 DEF PastCursor
  <1>2. PagesInv /\ [Next]_vars => PagesInv'
    BY NextPagesInv
  <1>3. PagesInv /\ [Next]_vars =>
          [List /\ walk = "next" /\ walk' = "next"
             => Beyond(cursor.order.sortOrder, cursor.value, cursor.id,
                       cursor'.value, cursor'.id)]_vars
    BY <1>1
  <1>4. QED
    BY <1>2, <1>3, InitPagesInv, PTL DEF Pages, CursorAdvances

(***************************************************************************)
(* One part at a time: what the others do leaves the pages and the tokens  *)
(* alone, so that every behaviour is one of Pagination and one of Tokens   *)
(***************************************************************************)
LEMMA PartsArePages == PartsSpec => Pages
  <1>1. NoPages => Init
    <2>1. Absent \in StoredDocs \cup {Absent} /\ ~Absent.stored
      BY DEF Absent
    <2>2. QED
      BY <2>1 DEF NoPages, Init
  <1>2. PartsInit => Init
    BY <1>1 DEF PartsInit
  <1>3. [PartsNext]_allVars => [Next]_vars
    <2>1. UNCHANGED allVars => UNCHANGED vars
      BY DEF allVars
    <2>2. PartsNext => Next \/ UNCHANGED vars
      BY Zenon DEF PartsNext
    <2>3. QED
      BY <2>1, <2>2
  <1>4. QED
    BY <1>2, <1>3, PTL DEF PartsSpec, Pages

LEMMA PartsAreTokens == PartsSpec => TK!Spec
  <1>1. PartsInit => TK!Init
    BY DEF PartsInit
  <1>2. [PartsNext]_allVars => [TK!Next]_TK!vars
    <2>1. UNCHANGED allVars => UNCHANGED TK!vars
      BY DEF allVars, tokenVars, TK!vars
    <2>2. UNCHANGED tokenVars => UNCHANGED TK!vars
      BY DEF tokenVars, TK!vars
    <2>3. PartsNext => TK!Next \/ UNCHANGED tokenVars
      BY Zenon DEF PartsNext
    <2>4. QED
      BY <2>1, <2>2, <2>3
  <1>3. QED
    BY <1>1, <1>2, PTL DEF PartsSpec, TK!Spec

(***************************************************************************)
(* Tokens                                                                  *)
(***************************************************************************)
TokenRecords == [life : Lifetimes, at : 0..MaxTime, refresh : BOOLEAN]
Issued == 1..Len(tokens)

\* A call that looks into its caches has just begun and finds them empty; it
\* waits no longer than its deadline; and the token that it was given was issued
\* after it began.
CallInv ==
  \A c \in Calls :
    /\ began[c] <= now
    /\ pc[c] = "lookup" => now = began[c] /\ cache[c] = TK!Nothing
    /\ pc[c] \in TK!Waiting => now <= began[c] + Timeout
    /\ pc[c] \in {"reply", "send"} => got[c] \in Issued /\ began[c] <= tokens[got[c]].at

CacheInv == cache \in [Calls -> [token : Nat, until : Int]]

TokensInv == TK!TypeInv /\ CacheInv /\ CallInv

LEMMA InitTokensInv == TK!Init => TokensInv
  <1> SUFFICES ASSUME TK!Init PROVE TokensInv
    OBVIOUS
  <1>1. tokens = <<>> /\ Len(tokens) = 0 /\ now = 0
    BY DEF TK!Init
  <1>2. \A c \in Calls : pc[c] = "idle" /\ began[c] = 0
    BY DEF TK!Init
  <1>3. \A c \in Calls : cache[c] = TK!Nothing
    BY DEF TK!Init
  <1>4. tokens \in Seq([life : Lifetimes, at : 0..MaxTime, refresh : BOOLEAN])
    BY <1>1
  <1>5. TK!TypeInv
    BY <1>1, <1>3, <1>4, TokensAssumption
       DEF TK!Init, TK!TypeInv, TK!None, TK!NoToken, TK!Ended
  <1>6. CacheInv
    BY DEF TK!Init, CacheInv, TK!Nothing, TK!NoToken, TK!None
  <1>7. CallInv
    BY <1>1, <1>2 DEF CallInv, TK!Waiting
  <1>8. QED
    BY <1>5, <1>6, <1>7 DEF TokensInv

LEMMA IssuedType ==
  ASSUME TokensInv, NEW t \in Issued
  PROVE  tokens[t].life \in Lifetimes /\ tokens[t].life \in Nat /\ tokens[t].at \in Nat
  <1>1. tokens \in Seq(TokenRecords)
    BY Zenon DEF TokenRecords, TokensInv, TK!TypeInv
  <1>2. tokens[t] \in TokenRecords
    BY <1>1 DEF Issued
  <1>3. tokens[t].life \in Lifetimes /\ tokens[t].at \in 0..MaxTime
    BY Zenon, <1>2 DEF TokenRecords
  <1>4. (\A l \in Lifetimes : l \in Nat) /\ \A a \in 0..MaxTime : a \in Nat
    BY TokensAssumption
  <1>5. QED
    BY Zenon, <1>3, <1>4

LEMMA BeginTokensInv ==
  ASSUME TokensInv, NEW c \in Calls, TK!Begin(c)
  PROVE  TokensInv'
  <1>1. /\ UNCHANGED <<now, tokens>> /\ Issued' = Issued
        /\ pc' = [pc EXCEPT ![c] = "lookup"] /\ began' = [began EXCEPT ![c] = now]
        /\ goal' = [goal EXCEPT ![c] = "none"] /\ got' = [got EXCEPT ![c] = TK!NoToken]
        /\ doc' = [doc EXCEPT ![c] = TK!None] /\ cache' = [cache EXCEPT ![c] = TK!Nothing]
    BY DEF TK!Begin, TK!NewProvider, Issued
  <1>2. CacheInv'
    BY <1>1 DEF TokensInv, CacheInv, TK!Nothing, TK!NoToken, TK!None
  <1>3. tokens' \in Seq([life : Lifetimes, at : 0..MaxTime, refresh : BOOLEAN])
    BY Zenon, <1>1 DEF TokensInv, TK!TypeInv
  <1>4. TK!TypeInv'
    <2>1. \A d \in Calls : cache'[d] = cache[d] \/ cache'[d] = TK!Nothing
      BY <1>1 DEF TokensInv, CacheInv
    <2>2. doc' \in [Calls -> {TK!None} \cup 0..MaxTime]
      BY <1>1 DEF TokensInv, TK!TypeInv
    <2>3. /\ pc' \in [Calls -> TK!Ended \cup TK!Waiting \cup {"lookup"}]
          /\ began' \in [Calls -> 0..MaxTime]
          /\ goal' \in [Calls -> {"refresh", "grant", "none"}]
          /\ got' \in [Calls -> 0..Len(tokens)]
      BY <1>1 DEF TokensInv, TK!TypeInv, TK!NoToken
    <2>4. \A d \in Calls : cache'[d] # TK!Nothing =>
            cache'[d].token \in 1..Len(tokens) /\ cache'[d].until \in Nat
      BY <2>1 DEF TokensInv, TK!TypeInv
    <2>5. QED
      BY <1>1, <1>3, <2>2, <2>3, <2>4 DEF TokensInv, TK!TypeInv
  <1>5. CallInv'
    BY <1>1, <1>4, TokensAssumption DEF TokensInv, TK!TypeInv, CacheInv, CallInv, TK!Waiting
  <1>6. QED
    BY <1>2, <1>4, <1>5 DEF TokensInv

\* Moves that leave the tokens and the caches of tokens alone.
LEMMA MoveTokensInv ==
  ASSUME TokensInv, NEW c \in Calls,
         UNCHANGED <<now, tokens, cache, began, got>>,
         doc' \in [Calls -> {TK!None} \cup 0..MaxTime],
         NEW s \in (TK!Ended \cup TK!Waiting) \ {"reply", "send"}, NEW g \in {"refresh", "grant", "none"},
         pc' = [pc EXCEPT ![c] = s], goal' = [goal EXCEPT ![c] = g] \/ UNCHANGED goal,
         s \in TK!Waiting => pc[c] \in TK!Waiting
  PROVE  TokensInv'
  <1>1. TK!TypeInv'
    BY DEF TokensInv, TK!TypeInv, TK!Ended, TK!Waiting
  <1>2. CallInv'
    BY DEF TokensInv, TK!TypeInv, CallInv, TK!Waiting, TK!Ended, Issued
  <1>3. QED
    BY <1>1, <1>2 DEF TokensInv, CacheInv

\* A call finds nothing in its cache and asks for a grant.
LEMMA LookupTokensInv ==
  ASSUME TokensInv, NEW c \in Calls, TK!Lookup(c)
  PROVE  TokensInv'
  <1>1. cache[c] = TK!Nothing /\ pc[c] = "lookup" /\ now = began[c]
    BY DEF TK!Lookup, TokensInv, CallInv
  <1>2. /\ UNCHANGED <<now, tokens, doc, cache, began>> /\ Issued' = Issued
        /\ pc' = [pc EXCEPT ![c] = "discover"]
        /\ goal' = [goal EXCEPT ![c] = "grant"]
        /\ got' = [got EXCEPT ![c] = TK!NoToken]
    BY <1>1 DEF TK!Lookup, Issued
  <1>3. tokens' \in Seq([life : Lifetimes, at : 0..MaxTime, refresh : BOOLEAN])
    BY Zenon, <1>2 DEF TokensInv, TK!TypeInv
  <1>4. TK!TypeInv'
    BY <1>2, <1>3 DEF TokensInv, TK!TypeInv, TK!NoToken, TK!Waiting
  <1>5. CallInv'
    BY <1>1, <1>2, TokensAssumption DEF TokensInv, TK!TypeInv, CallInv, TK!Waiting
  <1>6. QED
    BY <1>2, <1>4, <1>5 DEF TokensInv, CacheInv

LEMMA RefuseTokensInv ==
  ASSUME TokensInv, NEW c \in Calls, TK!Refuse(c)
  PROVE  TokensInv'
  <1>1. doc' \in [Calls -> {TK!None} \cup 0..MaxTime]
    BY DEF TK!Refuse, TokensInv, TK!TypeInv
  <1>2. /\ UNCHANGED <<now, tokens, cache, began, got>>
        /\ pc' = [pc EXCEPT ![c] = "failed"] /\ goal' = [goal EXCEPT ![c] = "none"]
    BY DEF TK!Refuse
  <1>3. "failed" \in (TK!Ended \cup TK!Waiting) \ {"reply", "send"} /\ "failed" \notin TK!Waiting
    BY DEF TK!Ended, TK!Waiting
  <1>4. QED
    BY <1>1, <1>2, <1>3, MoveTokensInv

\* A request for a token that is refused.
LEMMA RejectedTokensInv ==
  ASSUME TokensInv, NEW c \in Calls, pc[c] \in {"discover", "ask"}, TK!Rejected(c),
         UNCHANGED <<now, tokens, doc, cache, began, got>>
  PROVE  TokensInv'
  <1>1. doc' \in [Calls -> {TK!None} \cup 0..MaxTime]
    BY DEF TokensInv, TK!TypeInv
  <1>2. /\ {"discover", "failed"} \subseteq (TK!Ended \cup TK!Waiting) \ {"reply", "send"}
        /\ pc[c] \in TK!Waiting
    BY DEF TK!Ended, TK!Waiting
  <1>3. \E s \in {"discover", "failed"} :
          pc' = [pc EXCEPT ![c] = s] /\ goal' = [goal EXCEPT ![c] = "grant"]
    BY DEF TK!Rejected, TK!Continue
  <1>4. QED
    BY <1>1, <1>2, <1>3, MoveTokensInv

LEMMA DiscoverTokensInv ==
  ASSUME TokensInv, NEW c \in Calls, TK!Discover(c)
  PROVE  TokensInv'
  <1>1. pc[c] = "discover" /\ UNCHANGED <<now, tokens, cache, began, got>>
    BY DEF TK!Discover
  <1>2. CASE TK!Rejected(c) /\ UNCHANGED doc
    BY <1>1, <1>2, RejectedTokensInv
  <1>3. CASE TK!Continue(c, "ask", goal[c]) /\ (UNCHANGED doc \/ doc' = [doc EXCEPT ![c] = now])
    <2>1. doc' \in [Calls -> {TK!None} \cup 0..MaxTime] /\ goal[c] \in {"refresh", "grant", "none"}
      BY <1>3 DEF TokensInv, TK!TypeInv
    <2>2. "ask" \in (TK!Ended \cup TK!Waiting) \ {"reply", "send"} /\ pc[c] \in TK!Waiting
      BY <1>1 DEF TK!Ended, TK!Waiting
    <2>3. QED
      BY <1>1, <1>3, <2>1, <2>2, MoveTokensInv DEF TK!Continue
  <1>4. QED
    BY <1>2, <1>3 DEF TK!Discover

LEMMA DenyTokensInv ==
  ASSUME TokensInv, NEW c \in Calls, TK!Deny(c)
  PROVE  TokensInv'
  BY RejectedTokensInv DEF TK!Deny

\* The token that is issued is the last of the sequence.
LEMMA IssueAppends ==
  ASSUME TokensInv, NEW c \in Calls, TK!Issue(c)
  PROVE  \E r \in TokenRecords :
           /\ r.at = now /\ tokens' = Append(tokens, r) /\ tokens' \in Seq(TokenRecords)
           /\ Len(tokens) \in Nat /\ Len(tokens') = Len(tokens) + 1 /\ tokens'[Len(tokens')] = r
           /\ \A t \in Issued : tokens'[t] = tokens[t]
  <1>1. PICK life \in Lifetimes, refresh \in {FALSE, Password} :
          tokens' = Append(tokens, [life |-> life, at |-> now, refresh |-> refresh])
    BY DEF TK!Issue
  <1> DEFINE r == [life |-> life, at |-> now, refresh |-> refresh]
  <1>2. refresh \in BOOLEAN
    BY Zenon, <1>1, TokensAssumption
  <1>3. r \in TokenRecords /\ r.at = now
    BY Zenon, <1>2 DEF TokenRecords, TokensInv, TK!TypeInv
  <1>4. tokens \in Seq(TokenRecords)
    BY Zenon DEF TokenRecords, TokensInv, TK!TypeInv
  <1> HIDE DEF r
  <1>5. /\ Append(tokens, r) \in Seq(TokenRecords) /\ Len(Append(tokens, r)) = Len(tokens) + 1
        /\ Append(tokens, r)[Len(tokens) + 1] = r
        /\ \A t \in Issued : Append(tokens, r)[t] = tokens[t]
        /\ Len(tokens) \in Nat
    BY <1>3, <1>4 DEF Issued
  <1>6. tokens' = Append(tokens, r)
    BY <1>1 DEF r
  <1>7. QED
    BY <1>3, <1>5, <1>6

LEMMA IssueTokensInv ==
  ASSUME TokensInv, NEW c \in Calls, TK!Issue(c)
  PROVE  TokensInv'
  <1>1. PICK r \in TokenRecords :
           /\ r.at = now /\ tokens' = Append(tokens, r) /\ tokens' \in Seq(TokenRecords)
           /\ Len(tokens) \in Nat /\ Len(tokens') = Len(tokens) + 1 /\ tokens'[Len(tokens')] = r
           /\ \A t \in Issued : tokens'[t] = tokens[t]
    BY IssueAppends
  <1>2. /\ pc[c] = "ask" /\ Len(tokens) < MaxTokens
        /\ got' = [got EXCEPT ![c] = Len(tokens')]
        /\ pc' = [pc EXCEPT ![c] = "reply"]
        /\ UNCHANGED <<now, doc, cache, began, goal>>
    BY DEF TK!Issue
  <1>3. Issued' = Issued \cup {Len(tokens')}
    BY <1>1 DEF Issued
  <1>4. tokens' \in Seq([life : Lifetimes, at : 0..MaxTime, refresh : BOOLEAN]) /\ Len(tokens') <= MaxTokens
    BY <1>1, <1>2, TokensAssumption DEF TokenRecords
  <1>5. got' \in [Calls -> 0..Len(tokens')]
    BY <1>1, <1>2 DEF TokensInv, TK!TypeInv
  <1>6. \A d \in Calls : cache'[d] # TK!Nothing =>
          cache'[d].token \in 1..Len(tokens') /\ cache'[d].until \in Nat
    BY <1>1, <1>2 DEF TokensInv, TK!TypeInv
  <1>7. TK!TypeInv'
    <2>1. pc' \in [Calls -> TK!Ended \cup TK!Waiting \cup {"lookup"}]
      BY <1>2 DEF TokensInv, TK!TypeInv, TK!Waiting
    <2>2. QED
      BY <1>2, <1>4, <1>5, <1>6, <2>1 DEF TokensInv, TK!TypeInv
  <1>8. CallInv'
    BY <1>1, <1>2, <1>3 DEF TokensInv, TK!TypeInv, CallInv, TK!Waiting
  <1>9. QED
    BY <1>2, <1>7, <1>8 DEF TokensInv, CacheInv

\* What a call was given may be cached: for nobody else, and not for later.
LEMMA ReceiveTokensInv ==
  ASSUME TokensInv, NEW c \in Calls, TK!Receive(c)
  PROVE  TokensInv'
  <1>1. /\ pc[c] = "reply" /\ TK!CacheToken(c)
        /\ pc' = [pc EXCEPT ![c] = "send"]
        /\ UNCHANGED <<now, tokens, doc, began, goal, got>> /\ Issued' = Issued
    BY DEF TK!Receive, Issued
  <1> DEFINE life == tokens[got[c]].life
             entry == [token |-> got[c], until |-> now + life]
  <1>2. got[c] \in Issued /\ life \in Nat /\ now \in Nat /\ got[c] \in Nat
    <2>1. got[c] \in Issued /\ now \in Nat
      BY <1>1 DEF TokensInv, TK!TypeInv, CallInv
    <2>2. QED
      BY <2>1, IssuedType DEF Issued
  <1>3. UNCHANGED cache \/ cache' = [cache EXCEPT ![c] = entry]
    BY <1>1 DEF TK!CacheToken
  <1>4. entry.token \in Issued /\ entry.until \in Nat /\ entry \in [token : Nat, until : Int]
    BY <1>2
  <1> HIDE DEF entry
  <1>5. cache' \in [Calls -> [token : Nat, until : Int]]
    BY <1>3, <1>4 DEF TokensInv, CacheInv
  <1>6. /\ \A d \in Calls : cache'[d] = cache[d] \/ cache'[d] = entry
        /\ \A d \in Calls \ {c} : cache'[d] = cache[d]
    BY <1>3 DEF TokensInv, CacheInv
  <1>7. TK!TypeInv'
    <2>1. \A d \in Calls : cache'[d] # TK!Nothing =>
            cache'[d].token \in 1..Len(tokens) /\ cache'[d].until \in Nat
      BY <1>4, <1>6 DEF TokensInv, TK!TypeInv, Issued
    <2>2. pc' \in [Calls -> TK!Ended \cup TK!Waiting \cup {"lookup"}]
      BY <1>1 DEF TokensInv, TK!TypeInv, TK!Waiting
    <2>3. QED
      BY <1>1, <2>1, <2>2 DEF TokensInv, TK!TypeInv
  <1>8. CallInv'
    BY <1>1, <1>6 DEF TokensInv, TK!TypeInv, CallInv, TK!Waiting
  <1>9. QED
    BY <1>5, <1>7, <1>8 DEF TokensInv, CacheInv

LEMMA SendTokensInv ==
  ASSUME TokensInv, NEW c \in Calls, TK!Send(c) \/ TK!Deadline(c)
  PROVE  TokensInv'
  <1>1. /\ doc' \in [Calls -> {TK!None} \cup 0..MaxTime]
    BY DEF TK!Send, TK!Deadline, TokensInv, TK!TypeInv
  <1>2. /\ UNCHANGED <<now, tokens, cache, began, goal, got>>
        /\ \E s \in {"done", "failed"} : pc' = [pc EXCEPT ![c] = s]
    BY DEF TK!Send, TK!Deadline
  <1>3. /\ {"done", "failed"} \subseteq (TK!Ended \cup TK!Waiting) \ {"reply", "send"}
        /\ {"done", "failed"} \cap TK!Waiting = {}
    BY DEF TK!Ended, TK!Waiting
  <1>4. QED
    BY <1>1, <1>2, <1>3, MoveTokensInv

\* No call is overtaken by its deadline: it ends at it.
LEMMA TickTokensInv == ASSUME TokensInv, TK!Tick PROVE TokensInv'
  <1>1. /\ now < MaxTime /\ now' = now + 1 /\ now \in 0..MaxTime
        /\ UNCHANGED <<tokens, doc, cache, pc, began, goal, got>> /\ Issued' = Issued
    BY DEF TK!Tick, TokensInv, TK!TypeInv, Issued
  <1>2. now' \in 0..MaxTime /\ now' \in Nat
    BY <1>1, TokensAssumption
  <1>3. ASSUME NEW c \in Calls
        PROVE  /\ began[c] <= now + 1 /\ pc[c] # "lookup"
               /\ pc[c] \in TK!Waiting => now + 1 <= began[c] + Timeout
    <2>1. began[c] \in Nat /\ began[c] <= now /\ pc[c] # "lookup" /\ (pc[c] \in TK!Waiting => ~TK!Due(c))
      BY DEF TK!Tick, TokensInv, TK!TypeInv, CallInv
    <2>2. QED
      BY <1>1, <2>1, TokensAssumption DEF TK!Due
  <1>4. TK!TypeInv'
    BY <1>1, <1>2 DEF TokensInv, TK!TypeInv
  <1>5. CallInv'
    BY <1>1, <1>3 DEF TokensInv, CallInv
  <1>6. QED
    BY <1>1, <1>4, <1>5 DEF TokensInv, CacheInv

LEMMA NextTokensInv == ASSUME TokensInv, [TK!Next]_TK!vars PROVE TokensInv'
  <1>1. CASE UNCHANGED TK!vars
    BY <1>1 DEF TK!vars, TokensInv, TK!TypeInv, CacheInv, CallInv, Issued
  <1>2. ASSUME NEW c \in Calls, TK!Step(c) PROVE TokensInv'
    BY <1>2, BeginTokensInv, RefuseTokensInv, LookupTokensInv, DiscoverTokensInv, IssueTokensInv,
       DenyTokensInv, ReceiveTokensInv, SendTokensInv DEF TK!Step
  <1>3. QED
    BY <1>1, <1>2, TickTokensInv DEF TK!Next

\* A request leaves with a live token, unless the server gave it less than the timeout of
\* the call: whatever the buffer of the cache and the lateness of the answer, since the
\* call asked for the token under its own deadline (runner.go:68, 170-176).
THEOREM TokensLive == TK!Spec => [](TK!TypeInv /\ TK!TokenIsLive)
  <1>1. TokensInv => TK!TypeInv /\ TK!TokenIsLive
    <2> SUFFICES ASSUME TokensInv, NEW c \in Calls, pc[c] = "send", tokens[got[c]].life >= Timeout
                 PROVE  now <= tokens[got[c]].at + tokens[got[c]].life
      BY DEF TokensInv, TK!TokenIsLive
    <2>1. now <= began[c] + Timeout /\ began[c] \in Nat /\ now \in Nat
      BY DEF TokensInv, TK!TypeInv, CallInv, TK!Waiting
    <2>2. got[c] \in Issued /\ began[c] <= tokens[got[c]].at
      BY DEF TokensInv, CallInv
    <2>3. tokens[got[c]].at \in Nat /\ tokens[got[c]].life \in Nat
      BY <2>2, IssuedType
    <2>4. QED
      BY <2>1, <2>2, <2>3, TokensAssumption
  <1>2. QED
    BY <1>1, InitTokensInv, NextTokensInv, PTL DEF TK!Spec

(***************************************************************************)
(* Requests                                                                *)
(***************************************************************************)
Reached == RQ!Respond({}, "base") \in {"2xx", "401", "404"}
Answer == RQ!Respond(RQ!TestHeaders, "base")

\* What the stages find while the server stays as it is.
First1 == IF Reached THEN "passed" ELSE "failed"
Second1 == IF RQ!TestHeaders = {} THEN "skipped"
           ELSE IF RQ!Authenticated(Answer) THEN "passed" ELSE "failed"
Third1 == IF Answer = "2xx" THEN "passed" ELSE "failed"

\* The results of a test whose stages are over.
Verdicts ==
  {<<"failed", "skipped", "skipped">>, <<"passed", "failed", "skipped">>} \cup
  {<<"passed", x, y>> : x \in {"passed", "skipped"}, y \in {"passed", "failed"}}

\* How far the results are at each stage.
StageInv ==
  /\ stage \in {"idle", "connectivity"} => results = <<>>
  /\ stage = "authentication" => results = <<"passed">>
  /\ stage = "end_to_end" => results \in {<<"passed", "passed">>, <<"passed", "skipped">>}
  /\ stage = "complete" => results \in Verdicts
  /\ stage # "done" => overall = "none"
  /\ stage = "done" => \/ overall = "error" /\ results = <<>>
                       \/ results \in Verdicts /\ overall = RQ!OverallStatus

\* The results agree with a server that has stayed as it is.
AgreeInv ==
  RQ!Steady =>
    /\ Len(results) >= 1 => results[1] = First1
    /\ Len(results) >= 2 /\ results[1] = "passed" => results[2] = Second1
    /\ Len(results) >= 3 /\ results[1] = "passed" /\ results[2] # "failed" => results[3] = Third1

TestInv == RQ!TypeInv /\ StageInv /\ AgreeInv

\* A server answers with a status unless it is down or failing.
LEMMA RespondType ==
  ASSUME server \in RQ!Servers, NEW h, NEW p
  PROVE  /\ RQ!Respond(h, p) \in {"2xx", "401", "404", "5xx", "no answer"}
         /\ RQ!Respond(h, p) \in {"2xx", "401", "404"} <=> server.state = "serving"
  <1>1. server.state \in {"down", "failing", "serving"}
    BY DEF RQ!Servers
  <1>2. CASE server.state = "down"
    BY <1>2 DEF RQ!Respond
  <1>3. CASE server.state = "failing"
    BY <1>3 DEF RQ!Respond
  <1>4. CASE server.state = "serving" /\ (server.secured /\ RQ!Accepted[config.provider] \notin h)
    <2>1. RQ!Respond(h, p) = "401"
      BY Zenon, <1>4 DEF RQ!Respond
    <2>2. QED
      BY <1>4, <2>1
  <1>5. CASE server.state = "serving" /\ ~(server.secured /\ RQ!Accepted[config.provider] \notin h)
    <2>1. RQ!Respond(h, p) = IF p = "base" /\ ~server.root THEN "404" ELSE "2xx"
      BY Zenon, <1>5 DEF RQ!Respond
    <2>2. QED
      BY <1>5, <2>1
  <1>6. QED
    BY <1>1, <1>2, <1>3, <1>4, <1>5

\* calculateOverallStatus of what can be its argument.
LEMMA OverallOf ==
  ASSUME results \in Verdicts
  PROVE  /\ RQ!OverallStatus \in {"passed", "failed", "partial"}
         /\ RQ!OverallStatus = "passed" <=> \A i \in 1..3 : results[i] # "failed"
         /\ RQ!OverallStatus = "failed" <=> results[1] = "failed"
  <1>1. Len(results) = 3 /\ DOMAIN results = 1..3 /\ \A i \in 1..3 : results[i] \in {"passed", "failed", "skipped"}
    BY DEF Verdicts
  <1>2. ASSUME NEW status
        PROVE  RQ!Count(status) = 0 <=> \A i \in 1..3 : results[i] # status
    <2> DEFINE S == {i \in 1..3 : results[i] = status}
    <2>1. IsFiniteSet(1..3)
      <3>1. 1 \in Int /\ 3 \in Int
        OBVIOUS
      <3>2. QED
        BY Zenon, <3>1, FS_Interval
    <2>2. S \subseteq 1..3
      BY Zenon
    <2>3. IsFiniteSet(S)
      BY Zenon, <2>1, <2>2, FS_Subset
    <2>4. Cardinality(S) = 0 <=> S = {}
      BY Zenon, <2>3, FS_EmptySet
    <2>5. RQ!Count(status) = Cardinality(S)
      BY Zenon, <1>1 DEF RQ!Count, RQ!Cardinality, Cardinality
    <2>6. S = {} <=> \A i \in 1..3 : results[i] # status
      BY Zenon
    <2> HIDE DEF S
    <2>7. QED
      BY Zenon, <2>4, <2>5, <2>6
  <1>3. (\A i \in 1..3 : results[i] # "passed") <=> results[1] = "failed"
    BY DEF Verdicts
  <1>4. results[1] = "failed" => ~\A i \in 1..3 : results[i] # "failed"
    BY <1>1
  <1>5. QED
    BY <1>2, <1>3, <1>4 DEF RQ!OverallStatus

LEMMA SameServer ==
  ASSUME UNCHANGED <<config, server>>
  PROVE  First1' = First1 /\ Second1' = Second1 /\ Third1' = Third1
  <1>1. RQ!TestHeaders' = RQ!TestHeaders
    BY Zenon DEF RQ!TestHeaders, RQ!SetAll, RQ!Bearer
  <1>2. Reached' = Reached
    BY Zenon DEF Reached, RQ!Respond, RQ!Accepted, RQ!ApiKey, RQ!Token
  <1>3. Answer' = Answer
    BY Zenon, <1>1 DEF Answer, RQ!Respond, RQ!Accepted, RQ!ApiKey, RQ!Token
  <1>4. QED
    BY Zenon, <1>1, <1>2, <1>3 DEF First1, Second1, Third1, RQ!Authenticated

LEMMA InitTestInv == RQ!Init => TestInv
  <1> SUFFICES ASSUME RQ!Init PROVE TestInv
    OBVIOUS
  <1>1. config \in TestConfigs /\ server \in RQ!Servers
    BY DEF RQ!Init
  <1>2. /\ calls = <<>> /\ stage = "idle" /\ results = <<>> /\ overall = "none"
        /\ serverChanges = 0 /\ sinceChange = 0
    BY DEF RQ!Init
  <1>3. RQ!TypeInv
    BY <1>1, <1>2, RequestsAssumption DEF RQ!TypeInv
  <1>4. StageInv /\ AgreeInv
    BY <1>2 DEF StageInv, AgreeInv
  <1>5. QED
    BY <1>3, <1>4 DEF TestInv

\* Results of a test are sequences of statuses.
Statuses == {"passed", "failed", "skipped"}

LEMMA VerdictType ==
  ASSUME NEW r \in Verdicts
  PROVE  r \in Seq(Statuses) /\ Len(r) = 3
  <1>1. \E x \in Statuses, y \in Statuses, z \in Statuses : r = <<x, y, z>>
    BY DEF Verdicts, Statuses
  <1>2. QED
    BY <1>1

\* And so are those of a test that goes on.
LEMMA PrefixType ==
  /\ <<>> \in Seq(Statuses) /\ Len(<<>>) = 0
  /\ <<"passed">> \in Seq(Statuses) /\ Len(<<"passed">>) = 1
  /\ \A x \in Statuses : <<"passed", x>> \in Seq(Statuses) /\ Len(<<"passed", x>>) = 2
  <1>1. "passed" \in Statuses
    BY DEF Statuses
  <1>2. QED
    BY <1>1

LEMMA ResultsType ==
  ASSUME NEW r, \/ r \in Verdicts \/ r = <<"passed">>
                \/ \E x \in Statuses : r = <<"passed", x>>
  PROVE  r \in Seq(Statuses) /\ Len(r) <= 3
  <1>1. CASE r \in Verdicts
    <2>1. r \in Seq(Statuses) /\ Len(r) = 3
      BY Zenon, <1>1, VerdictType
    <2>2. Len(r) = 3 => Len(r) <= 3
      OBVIOUS
    <2>3. QED
      BY Zenon, <2>1, <2>2
  <1>2. CASE r = <<"passed">>
    <2>1. r \in Seq(Statuses) /\ Len(r) = 1
      BY Zenon, <1>2, PrefixType
    <2>2. Len(r) = 1 => Len(r) <= 3
      OBVIOUS
    <2>3. QED
      BY Zenon, <2>1, <2>2
  <1>3. CASE \E x \in Statuses : r = <<"passed", x>>
    <2>1. r \in Seq(Statuses) /\ Len(r) = 2
      BY Zenon, <1>3, PrefixType
    <2>2. Len(r) = 2 => Len(r) <= 3
      OBVIOUS
    <2>3. QED
      BY Zenon, <2>1, <2>2
  <1>4. QED
    BY Zenon, <1>1, <1>2, <1>3

\* What a step does that keeps the server and the calls: the stage it goes to and
\* what it has found there.
LEMMA StageStep ==
  ASSUME TestInv, UNCHANGED <<config, server, calls, serverChanges>>,
         stage' \in {"connectivity", "authentication", "end_to_end", "complete", "done"},
         results' \in Seq(Statuses), Len(results') <= 3,
         overall' \in {"none", "passed", "failed", "partial", "error"},
         sinceChange' \in {sinceChange, serverChanges},
         StageInv', AgreeInv'
  PROVE  TestInv'
  <1>1. stage' \in {"complete", "done"} /\ overall' # "error" => Len(results') = 3
    <2>1. stage' \in {"complete", "done"} /\ overall' # "error" => results' \in Verdicts
      BY DEF StageInv
    <2>2. QED
      BY <2>1, VerdictType
  <1>2. serverChanges \in Nat /\ sinceChange' \in 0..serverChanges
    <2>1. serverChanges \in 0..MaxServerChanges /\ sinceChange \in 0..serverChanges
      BY Zenon DEF TestInv, RQ!TypeInv
    <2>2. QED
      BY <2>1, RequestsAssumption
  <1>3. RQ!TypeInv /\ results' \in Seq({"passed", "failed", "skipped"})
    BY DEF TestInv, Statuses
  <1>4. stage' \in {"idle", "connectivity", "authentication", "end_to_end", "complete", "done"}
    OBVIOUS
  <1>5. RQ!TypeInv'
    BY Zenon, <1>1, <1>2, <1>3, <1>4 DEF RQ!TypeInv
  <1>6. QED
    BY <1>5 DEF TestInv

LEMMA BeginTestInv == ASSUME TestInv, RQ!Begin \/ RQ!Refuse PROVE TestInv'
  <1>1. /\ UNCHANGED <<config, server, calls, serverChanges>>
        /\ results' = <<>> /\ sinceChange' = serverChanges
        /\ \/ stage' = "connectivity" /\ overall' = "none"
           \/ stage' = "done" /\ overall' = "error"
    BY DEF RQ!Begin, RQ!Refuse
  <1>2. StageInv'
    BY <1>1 DEF StageInv
  <1>3. AgreeInv'
    BY <1>1 DEF AgreeInv
  <1>4. QED
    BY <1>1, <1>2, <1>3, StageStep

\* A sequence is known by its length and its elements.
LEMMA IsPair ==
  ASSUME NEW S, NEW s \in Seq(S), Len(s) = 2
  PROVE  s = <<s[1], s[2]>>
  <1>1. s[1] \in S /\ s[2] \in S
    <2>1. 1 \in 1..Len(s) /\ 2 \in 1..Len(s)
      OBVIOUS
    <2>2. QED
      BY Zenon, <2>1, ElementOfSeq
  <1>2. <<s[1], s[2]>> \in Seq(S) /\ Len(<<s[1], s[2]>>) = 2
    BY <1>1
  <1>3. \A i \in 1..2 : s[i] = <<s[1], s[2]>>[i]
    OBVIOUS
  <1>4. QED
    BY <1>2, <1>3, SeqEqual

LEMMA IsTriple ==
  ASSUME NEW S, NEW s \in Seq(S), Len(s) = 3
  PROVE  s = <<s[1], s[2], s[3]>>
  <1>1. s[1] \in S /\ s[2] \in S /\ s[3] \in S
    <2>1. 1 \in 1..Len(s) /\ 2 \in 1..Len(s) /\ 3 \in 1..Len(s)
      OBVIOUS
    <2>2. QED
      BY Zenon, <2>1, ElementOfSeq
  <1>2. <<s[1], s[2], s[3]>> \in Seq(S) /\ Len(<<s[1], s[2], s[3]>>) = 3
    BY <1>1
  <1>3. \A i \in 1..3 : s[i] = <<s[1], s[2], s[3]>>[i]
    OBVIOUS
  <1>4. QED
    BY <1>2, <1>3, SeqEqual

LEMMA Appended ==
  ASSUME NEW a, NEW b, NEW c
  PROVE  /\ Append(<<a>>, b) = <<a, b>>
         /\ Append(<<a, b>>, c) = <<a, b, c>>
  <1> DEFINE S == {a, b, c}
  <1>1. a \in S /\ b \in S /\ c \in S
    OBVIOUS
  <1> HIDE DEF S
  <1>2. <<a>> \in Seq(S) /\ <<a, b>> \in Seq(S)
    BY <1>1
  <1>3. /\ Append(<<a>>, b) \in Seq(S) /\ Len(Append(<<a>>, b)) = 2
        /\ Append(<<a>>, b)[1] = a /\ Append(<<a>>, b)[2] = b
    BY <1>1, <1>2
  <1>4. /\ Append(<<a, b>>, c) \in Seq(S) /\ Len(Append(<<a, b>>, c)) = 3
        /\ Append(<<a, b>>, c)[1] = a /\ Append(<<a, b>>, c)[2] = b /\ Append(<<a, b>>, c)[3] = c
    BY <1>1, <1>2
  <1>5. Append(<<a>>, b) = <<a, b>>
    BY Zenon, <1>3, IsPair
  <1>6. Append(<<a, b>>, c) = <<a, b, c>>
    BY Zenon, <1>4, IsTriple
  <1>7. QED
    BY <1>5, <1>6

LEMMA Joined ==
  ASSUME NEW a, NEW b, NEW c
  PROVE  <<a>> \o <<b, c>> = <<a, b, c>> /\ <<a, b>> \o <<c>> = <<a, b, c>>
  <1> DEFINE S == {a, b, c}
  <1>1. a \in S /\ b \in S /\ c \in S
    OBVIOUS
  <1> HIDE DEF S
  <1>2. <<a>> \in Seq(S) /\ <<c>> \in Seq(S) /\ <<a, b>> \in Seq(S) /\ <<b, c>> \in Seq(S)
    BY <1>1
  <1>3. /\ <<a>> \o <<b, c>> \in Seq(S) /\ Len(<<a>> \o <<b, c>>) = 3
        /\ (<<a>> \o <<b, c>>)[1] = a /\ (<<a>> \o <<b, c>>)[2] = b /\ (<<a>> \o <<b, c>>)[3] = c
    BY <1>2, ConcatProperties
  <1>4. /\ <<a, b>> \o <<c>> \in Seq(S) /\ Len(<<a, b>> \o <<c>>) = 3
        /\ (<<a, b>> \o <<c>>)[1] = a /\ (<<a, b>> \o <<c>>)[2] = b /\ (<<a, b>> \o <<c>>)[3] = c
    BY <1>2, ConcatProperties
  <1>5. <<a>> \o <<b, c>> = <<a, b, c>>
    BY Zenon, <1>3, IsTriple
  <1>6. <<a, b>> \o <<c>> = <<a, b, c>>
    BY Zenon, <1>4, IsTriple
  <1>7. QED
    BY <1>5, <1>6

\* The stages that are left when the first, the second or the third has failed.
LEMMA SkippedStages ==
  /\ \A a : <<a>> \o [i \in 1..2 |-> "skipped"] = <<a, "skipped", "skipped">>
  /\ \A a, b : <<a, b>> \o [i \in 1..1 |-> "skipped"] = <<a, b, "skipped">>
  /\ \A a, b, c : <<a, b, c>> \o [i \in 1..0 |-> "skipped"] = <<a, b, c>>
  <1>1. [i \in 1..2 |-> "skipped"] = <<"skipped", "skipped">>
    OBVIOUS
  <1>2. [i \in 1..1 |-> "skipped"] = <<"skipped">>
    OBVIOUS
  <1>3. [i \in 1..0 |-> "skipped"] = <<>>
    OBVIOUS
  <1>4. /\ \A a : <<a>> \o <<"skipped", "skipped">> = <<a, "skipped", "skipped">>
        /\ \A a, b : <<a, b>> \o <<"skipped">> = <<a, b, "skipped">>
        /\ \A a, b, c : <<a, b, c>> \o <<>> = <<a, b, c>>
    <2>1. \A a, b, c : <<a, b, c>> \o <<>> = <<a, b, c>>
      OBVIOUS
    <2>2. QED
      BY Zenon, <2>1, Joined
  <1>5. \A a : <<a>> \o [i \in 1..2 |-> "skipped"] = <<a, "skipped", "skipped">>
    BY Zenon, <1>1, <1>4
  <1>6. \A a, b : <<a, b>> \o [i \in 1..1 |-> "skipped"] = <<a, b, "skipped">>
    BY Zenon, <1>2, <1>4
  <1>7. \A a, b, c : <<a, b, c>> \o [i \in 1..0 |-> "skipped"] = <<a, b, c>>
    <2> DEFINE e == [i \in 1..0 |-> "skipped"]
    <2>1. e = <<>>
      BY <1>3
    <2> HIDE DEF e
    <2>2. \A a, b, c : <<a, b, c>> \o e = <<a, b, c>>
      BY <2>1
    <2>3. QED
      BY <2>2 DEF e
  <1>8. QED
    BY Zenon, <1>5, <1>6, <1>7

\* The results that a stage appends.
LEMMA RestOf ==
  ASSUME NEW status \in {"passed", "failed", "skipped"}, NEW next, RQ!Rest(status, next)
  PROVE  /\ results = <<>> =>
              \/ status = "failed" /\ stage' = "complete" /\ results' = <<"failed", "skipped", "skipped">>
              \/ status # "failed" /\ stage' = next /\ results' = <<status>>
         /\ results = <<"passed">> =>
              \/ status = "failed" /\ stage' = "complete" /\ results' = <<"passed", "failed", "skipped">>
              \/ status # "failed" /\ stage' = next /\ results' = <<"passed", status>>
         /\ \A x : results = <<"passed", x>> =>
              \/ status = "failed" /\ stage' = "complete" /\ results' = <<"passed", x, status>>
              \/ status # "failed" /\ stage' = next /\ results' = <<"passed", x, status>>
  <1>1. CASE status = "failed"
    <2>1. /\ stage' = "complete"
          /\ results' = Append(results, status) \o [i \in 1..(2 - Len(results)) |-> "skipped"]
      BY Zenon, <1>1 DEF RQ!Rest
    <2>2. ASSUME results = <<>> PROVE results' = <<"failed", "skipped", "skipped">>
      <3>1. Append(results, status) = <<"failed">> /\ 2 - Len(results) = 2
        BY <1>1, <2>2
      <3>2. results' = <<"failed">> \o [i \in 1..2 |-> "skipped"]
        BY Zenon, <2>1, <3>1
      <3>3. QED
        BY Zenon, <3>2, SkippedStages
    <2>3. ASSUME results = <<"passed">> PROVE results' = <<"passed", "failed", "skipped">>
      <3>1. Append(results, status) = <<"passed", "failed">> /\ 2 - Len(results) = 1
        <4>1. 2 - Len(results) = 1
          BY <2>3
        <4>2. QED
          BY Zenon, <1>1, <2>3, <4>1, Appended
      <3>2. results' = <<"passed", "failed">> \o [i \in 1..1 |-> "skipped"]
        BY Zenon, <2>1, <3>1
      <3>3. QED
        BY Zenon, <3>2, SkippedStages
    <2>4. ASSUME NEW x, results = <<"passed", x>> PROVE results' = <<"passed", x, status>>
      <3>1. Append(results, status) = <<"passed", x, status>> /\ 2 - Len(results) = 0
        <4>1. 2 - Len(results) = 0
          BY <2>4
        <4>2. QED
          BY Zenon, <2>4, <4>1, Appended
      <3>2. results' = <<"passed", x, status>> \o [i \in 1..0 |-> "skipped"]
        BY Zenon, <2>1, <3>1
      <3>3. QED
        BY Zenon, <3>2, SkippedStages
    <2>5. QED
      BY Zenon, <1>1, <2>1, <2>2, <2>3, <2>4
  <1>2. CASE status # "failed"
    <2>1. stage' = next /\ results' = Append(results, status)
      BY Zenon, <1>2 DEF RQ!Rest
    <2>2. /\ results = <<>> => Append(results, status) = <<status>>
          /\ results = <<"passed">> => Append(results, status) = <<"passed", status>>
          /\ \A x : results = <<"passed", x>> => Append(results, status) = <<"passed", x, status>>
      <3>1. Append(<<>>, status) = <<status>>
        OBVIOUS
      <3>2. QED
        BY Zenon, <3>1, Appended
    <2>3. QED
      BY Zenon, <1>2, <2>1, <2>2
  <1>3. QED
    BY Zenon, <1>1, <1>2

LEMMA FirstTypes ==
  ASSUME TestInv
  PROVE  /\ First1 \in {"passed", "failed"} /\ Second1 \in {"passed", "failed", "skipped"}
         /\ Third1 \in {"passed", "failed"} /\ results \in Seq(Statuses)
  BY DEF First1, Second1, Third1, TestInv, RQ!TypeInv, Statuses

\* While the server stays as it is, a stage finds what the definitions say.
LEMMA ConnectivityTestInv == ASSUME TestInv, RQ!RunConnectivity PROVE TestInv'
  <1>1. /\ stage = "connectivity" /\ results = <<>> /\ overall = "none"
        /\ UNCHANGED <<config, server, calls, serverChanges, sinceChange, overall>>
        /\ RQ!Rest(First1, "authentication")
    BY DEF RQ!RunConnectivity, RQ!Quiet, First1, Reached, TestInv, StageInv
  <1>2. \/ First1 = "failed" /\ stage' = "complete" /\ results' = <<"failed", "skipped", "skipped">>
        \/ First1 = "passed" /\ stage' = "authentication" /\ results' = <<"passed">>
    BY <1>1, FirstTypes, RestOf
  <1>3. First1' = First1 /\ Second1' = Second1 /\ Third1' = Third1
    BY <1>1, SameServer
  <1>4. StageInv'
    BY <1>1, <1>2 DEF StageInv, Verdicts
  <1>5. AgreeInv'
    BY <1>2, <1>3 DEF AgreeInv
  <1>6. results' \in Seq(Statuses) /\ Len(results') <= 3
    <2>1. \/ results' \in Verdicts \/ results' = <<"passed">>
          \/ \E x \in Statuses : results' = <<"passed", x>>
      BY <1>2 DEF Verdicts, Statuses
    <2>2. QED
      BY Zenon, <2>1, ResultsType
  <1>7. QED
    BY <1>1, <1>2, <1>4, <1>5, <1>6, StageStep

LEMMA AuthenticationTestInv == ASSUME TestInv, RQ!RunAuthentication PROVE TestInv'
  <1>1. /\ stage = "authentication" /\ results = <<"passed">> /\ overall = "none"
        /\ UNCHANGED <<config, server, calls, serverChanges, sinceChange, overall>>
        /\ RQ!Rest(Second1, "end_to_end")
    BY DEF RQ!RunAuthentication, RQ!Quiet, Second1, Answer, TestInv, StageInv
  <1>2. \/ Second1 = "failed" /\ stage' = "complete" /\ results' = <<"passed", "failed", "skipped">>
        \/ /\ Second1 \in {"passed", "skipped"} /\ stage' = "end_to_end"
           /\ results' = <<"passed", Second1>>
    BY <1>1, FirstTypes, RestOf
  <1>3. First1' = First1 /\ Second1' = Second1 /\ Third1' = Third1
    BY <1>1, SameServer
  <1>4. StageInv'
    BY <1>1, <1>2 DEF StageInv, Verdicts
  <1>5. AgreeInv'
    <2>1. RQ!Steady' <=> RQ!Steady
      BY <1>1 DEF RQ!Steady
    <2>2. RQ!Steady => First1 = "passed"
      BY <1>1 DEF TestInv, AgreeInv
    <2>3. QED
      BY <1>2, <1>3, <2>1, <2>2 DEF AgreeInv
  <1>6. results' \in Seq(Statuses) /\ Len(results') <= 3
    <2>1. \/ results' \in Verdicts \/ results' = <<"passed">>
          \/ \E x \in Statuses : results' = <<"passed", x>>
      BY <1>2 DEF Verdicts, Statuses
    <2>2. QED
      BY Zenon, <2>1, ResultsType
  <1>7. QED
    BY <1>1, <1>2, <1>4, <1>5, <1>6, StageStep

LEMMA EndToEndTestInv == ASSUME TestInv, RQ!RunEndToEnd PROVE TestInv'
  <1>1. /\ stage = "end_to_end" /\ overall = "none"
        /\ UNCHANGED <<config, server, calls, serverChanges, sinceChange, overall>>
        /\ RQ!Rest(Third1, "complete")
    BY DEF RQ!RunEndToEnd, RQ!Quiet, Third1, Answer, TestInv, StageInv
  <1>2. PICK x \in {"passed", "skipped"} : results = <<"passed", x>>
    BY <1>1 DEF TestInv, StageInv
  <1>3. stage' = "complete" /\ results' = <<"passed", x, Third1>>
    BY <1>1, <1>2, FirstTypes, RestOf
  <1>4. First1' = First1 /\ Second1' = Second1 /\ Third1' = Third1
    BY <1>1, SameServer
  <1>5. results' \in Verdicts
    BY <1>3, FirstTypes DEF Verdicts
  <1>6. StageInv'
    BY <1>1, <1>3, <1>5 DEF StageInv
  <1>7. AgreeInv'
    <2>1. RQ!Steady' <=> RQ!Steady
      BY <1>1 DEF RQ!Steady
    <2>2. RQ!Steady => First1 = "passed" /\ Second1 = x
      BY <1>2 DEF TestInv, AgreeInv
    <2>3. QED
      BY <1>3, <1>4, <2>1, <2>2 DEF AgreeInv
  <1>8. results' \in Seq(Statuses) /\ Len(results') <= 3
    BY Zenon, <1>5, ResultsType
  <1>9. QED
    BY <1>1, <1>3, <1>6, <1>7, <1>8, StageStep

LEMMA CompleteTestInv == ASSUME TestInv, RQ!Complete PROVE TestInv'
  <1>1. /\ stage = "complete" /\ stage' = "done" /\ overall' = RQ!OverallStatus
        /\ UNCHANGED <<config, server, calls, results, serverChanges, sinceChange>>
    BY DEF RQ!Complete
  <1>2. results \in Verdicts
    BY <1>1 DEF TestInv, StageInv
  <1>3. RQ!OverallStatus' = RQ!OverallStatus
    BY <1>1 DEF RQ!OverallStatus, RQ!Count
  <1>4. First1' = First1 /\ Second1' = Second1 /\ Third1' = Third1
    BY <1>1, SameServer
  <1>5. StageInv'
    BY <1>1, <1>2, <1>3 DEF StageInv
  <1>6. AgreeInv'
    BY <1>1, <1>4 DEF TestInv, AgreeInv, RQ!Steady
  <1>7. /\ results' \in Seq(Statuses) /\ Len(results') <= 3
        /\ overall' \in {"none", "passed", "failed", "partial", "error"}
    <2>1. results' = results
      BY <1>1
    <2>2. results' \in Seq(Statuses) /\ Len(results') <= 3
      BY Zenon, <1>2, <2>1, ResultsType
    <2>3. RQ!OverallStatus \in {"passed", "failed", "partial"}
      BY Zenon, <1>2, OverallOf
    <2>4. QED
      BY <1>1, <2>2, <2>3
  <1>8. QED
    BY <1>1, <1>5, <1>6, <1>7, StageStep

\* A server that changes is not the one the test began with.
LEMMA OtherTestInv == ASSUME TestInv, RQ!CallRunner \/ RQ!Change PROVE TestInv'
  <1>1. UNCHANGED <<config, stage, results, overall, sinceChange>>
    BY DEF RQ!CallRunner, RQ!Change, RQ!testVars
  <1>2. StageInv'
    <2>1. RQ!OverallStatus' = RQ!OverallStatus
      BY <1>1 DEF RQ!OverallStatus, RQ!Count
    <2>2. QED
      BY Zenon, <1>1, <2>1 DEF TestInv, StageInv
  <1>3. serverChanges \in 0..MaxServerChanges /\ sinceChange \in 0..serverChanges
    BY Zenon DEF TestInv, RQ!TypeInv
  <1>4. CASE RQ!CallRunner
    <2>1. UNCHANGED <<server, serverChanges>>
      BY Zenon, <1>4 DEF RQ!CallRunner
    <2>2. AgreeInv'
      <3>1. First1' = First1 /\ Second1' = Second1 /\ Third1' = Third1
        BY Zenon, <1>1, <2>1, SameServer
      <3>2. QED
        BY Zenon, <1>1, <2>1, <3>1 DEF TestInv, AgreeInv, RQ!Steady
    <2>3. calls' \in Seq({"2xx", "401", "404", "5xx", "no answer", "not sent"}) /\ Len(calls') <= MaxCalls
      <3> DEFINE S == {"2xx", "401", "404", "5xx", "no answer", "not sent"}
                 r == IF RQ!RunnerInput THEN RQ!Respond(RQ!RunnerHeaders, "executor") ELSE "not sent"
      <3>1. RQ!Respond(RQ!RunnerHeaders, "executor") \in {"2xx", "401", "404", "5xx", "no answer"}
        BY Zenon, RespondType DEF TestInv, RQ!TypeInv
      <3>2. r \in S
        BY <3>1
      <3>3. Len(calls) < MaxCalls /\ calls' = Append(calls, r)
        BY Zenon, <1>4 DEF RQ!CallRunner
      <3>4. calls \in Seq(S)
        BY Zenon DEF TestInv, RQ!TypeInv
      <3> HIDE DEF S, r
      <3>5. calls' \in Seq(S) /\ Len(calls') <= MaxCalls
        BY <3>2, <3>3, <3>4, RequestsAssumption
      <3>6. QED
        BY Zenon, <3>5 DEF S
    <2>4. RQ!TypeInv'
      BY Zenon, <1>1, <2>1, <2>3 DEF TestInv, RQ!TypeInv
    <2>5. QED
      BY <1>2, <2>2, <2>4 DEF TestInv
  <1>5. CASE RQ!Change
    <2>1. /\ server' \in RQ!Servers /\ calls' = calls
          /\ serverChanges < MaxServerChanges /\ serverChanges' = serverChanges + 1
      BY <1>5 DEF RQ!Change
    <2>2. ~RQ!Steady'
      BY <1>1, <1>3, <2>1 DEF RQ!Steady
    <2>3. serverChanges' \in 0..MaxServerChanges /\ sinceChange' \in 0..serverChanges'
      BY <1>1, <1>3, <2>1, RequestsAssumption
    <2>4. RQ!TypeInv'
      BY Zenon, <1>1, <2>1, <2>3 DEF TestInv, RQ!TypeInv
    <2>5. QED
      BY <1>2, <2>2, <2>4 DEF TestInv, AgreeInv
  <1>6. QED
    BY <1>4, <1>5

LEMMA NextTestInv == TestInv /\ [RQ!Next]_RQ!vars => TestInv'
  <1>1. ASSUME TestInv, UNCHANGED RQ!vars PROVE TestInv'
    <2>1. UNCHANGED <<config, server, calls, stage, results, overall, serverChanges, sinceChange>>
      BY Zenon, <1>1 DEF RQ!vars
    <2>2. RQ!TypeInv'
      BY Zenon, <1>1, <2>1 DEF TestInv, RQ!TypeInv
    <2>3. StageInv'
      <3>1. RQ!OverallStatus' = RQ!OverallStatus
        BY <2>1 DEF RQ!OverallStatus, RQ!Count
      <3>2. QED
        BY Zenon, <1>1, <2>1, <3>1 DEF TestInv, StageInv
    <2>4. AgreeInv'
      <3>1. First1' = First1 /\ Second1' = Second1 /\ Third1' = Third1
        BY Zenon, <2>1, SameServer
      <3>2. QED
        BY Zenon, <1>1, <2>1, <3>1 DEF TestInv, AgreeInv, RQ!Steady
    <2>5. QED
      BY <2>2, <2>3, <2>4 DEF TestInv
  <1>2. QED
    BY Zenon, <1>1, BeginTestInv, ConnectivityTestInv, AuthenticationTestInv, EndToEndTestInv,
       CompleteTestInv, OtherTestInv DEF RQ!Next, RQ!Test

\* What the results say of the stages, and the verdict of the results.
LEMMA VerdictOfTest ==
  ASSUME TestInv
  PROVE  RQ!VerdictIsTrue /\ RQ!OneFailure /\ RQ!AcceptedIsAccepted
  <1> SUFFICES ASSUME RQ!Tested PROVE RQ!VerdictIsTrue /\ RQ!OneFailure /\ RQ!AcceptedIsAccepted
    BY Zenon DEF RQ!VerdictIsTrue, RQ!OneFailure, RQ!AcceptedIsAccepted
  <1>1. results \in Verdicts /\ overall = RQ!OverallStatus
    BY DEF RQ!Tested, TestInv, StageInv
  <1>2. /\ overall = "passed" <=> \A i \in 1..3 : results[i] # "failed"
        /\ overall = "failed" <=> results[1] = "failed"
    BY Zenon, <1>1, OverallOf
  <1>3. PICK x \in Statuses, y \in Statuses, z \in Statuses :
          /\ results = <<x, y, z>>
          /\ \/ x = "failed" /\ y = "skipped" /\ z = "skipped"
             \/ x = "passed" /\ y = "failed" /\ z = "skipped"
             \/ x = "passed" /\ y \in {"passed", "skipped"} /\ z \in {"passed", "failed"}
    BY <1>1 DEF Verdicts, Statuses
  <1>4. results[1] = x /\ results[2] = y /\ results[3] = z /\ DOMAIN results = 1..3 /\ Len(results) = 3
    BY <1>3
  <1>5. /\ (\A i \in 1..3 : results[i] # "failed") <=> x # "failed" /\ y # "failed" /\ z # "failed"
        /\ overall = "passed" <=> z = "passed"
    BY <1>2, <1>3, <1>4
  <1>6. RQ!OneFailure
    <2>1. \A i \in 1..3 : results[i] = "failed" => \A j \in (i + 1)..3 : results[j] = "skipped"
      BY <1>3, <1>4
    <2>2. QED
      BY Zenon, <1>2, <1>4, <1>5, <2>1 DEF RQ!OneFailure
  <1>7. ASSUME RQ!Steady
        PROVE  /\ x = First1
               /\ x = "passed" => y = Second1
               /\ x = "passed" /\ y # "failed" => z = Third1
    BY <1>4, <1>7 DEF TestInv, AgreeInv
  <1>8. server \in RQ!Servers
    BY Zenon DEF TestInv, RQ!TypeInv
  <1>9. /\ Answer \in {"2xx", "401", "404", "5xx", "no answer"}
        /\ Answer \in {"2xx", "401", "404"} <=> server.state = "serving"
        /\ Reached <=> server.state = "serving"
    BY Zenon, <1>8, RespondType DEF Answer, Reached
  <1>10. ASSUME RQ!Steady
         PROVE  /\ overall = "passed" <=> Answer = "2xx"
                /\ overall = "failed" <=> server.state # "serving"
                /\ results[2] = "passed" => Answer # "401"
    <2>1. x = "failed" <=> server.state # "serving"
      BY <1>7, <1>9, <1>10 DEF First1
    <2>2. /\ y = "failed" => Answer # "2xx"
          /\ y = "passed" => Answer # "401"
      <3>1. /\ Second1 = "failed" => ~RQ!Authenticated(Answer)
            /\ Second1 = "passed" => RQ!Authenticated(Answer)
        <4>1. CASE RQ!TestHeaders = {}
          <5>1. Second1 = "skipped"
            BY Zenon, <4>1 DEF Second1
          <5>2. QED
            BY <5>1
        <4>2. CASE RQ!TestHeaders # {}
          <5>1. Second1 = IF RQ!Authenticated(Answer) THEN "passed" ELSE "failed"
            BY Zenon, <4>2 DEF Second1
          <5>2. QED
            BY <5>1
        <4>3. QED
          BY <4>1, <4>2
      <3>2. (y = "failed" \/ y = "passed") => y = Second1
        BY <1>3, <1>7, <1>10
      <3>3. QED
        BY <3>1, <3>2 DEF RQ!Authenticated
    <2>3. z = "passed" <=> Answer = "2xx"
      BY <1>3, <1>7, <1>9, <1>10, <2>1, <2>2 DEF Third1
    <2>4. QED
      BY <1>2, <1>4, <1>5, <2>1, <2>2, <2>3
  <1>11. QED
    BY Zenon, <1>6, <1>10 DEF RQ!VerdictIsTrue, RQ!AcceptedIsAccepted, Answer

\* The test of a provider configuration takes its steps in its own behaviour.
LEMMA PartsAreTests == PartsSpec => [](part = "test" => TestInv)
  <1>1. PartsInit => (part = "test" => TestInv)
    BY InitTestInv DEF PartsInit
  <1>2. (part = "test" => TestInv) /\ [PartsNext]_allVars => (part = "test" => TestInv)'
    <2>1. ASSUME [PartsNext]_allVars
          PROVE  part' = part /\ (part = "test" => [RQ!Next]_RQ!vars)
      BY <2>1 DEF PartsNext, allVars, testVars, RQ!vars
    <2>2. QED
      BY Zenon, <2>1, NextTestInv
  <1>3. QED
    BY <1>1, <1>2, PTL DEF PartsSpec

\* While the parts run, the verdict of a test is that of its stages and true of a server
\* that stayed as it was, no refused credential is called accepted
\* (test_provider_config_connectivity.go), and no request leaves with a token that died on
\* the way (runner.go, token_fetcher.go).
THEOREM CallsHold == PartsSpec => []CallsInv
  <1>1. TK!Spec => [](TK!TypeInv /\ TK!TokenIsLive)
    BY TokensLive
  <1>2. (part = "test" => TestInv) /\ TK!TypeInv /\ TK!TokenIsLive => CallsInv
    BY Zenon, VerdictOfTest DEF CallsInv, TestInv
  <1>3. QED
    BY <1>1, <1>2, PartsAreTests, PartsAreTokens, PTL

(***************************************************************************)
(* Mapping: the cache of compiled specifications                           *)
(***************************************************************************)
\* One entry for one text.
KeysInv == \A c \in compiled, d \in compiled : c.key = d.key => c = d

\* An entry is added only where the second look, under the write lock, finds none.
LEMMA SharedCache ==
  ASSUME KeysInv, MP!Next
  PROVE  KeysInv' /\ \A c \in compiled, d \in compiled' : c.key = d.key => c = d
  <1>1. \/ UNCHANGED compiled
        \/ compiled' = {}
        \/ \E e \in Runs : MP!Cached(e) = {} /\ MP!Compile(e)
    BY Zenon DEF MP!Next, MP!ClearCache, MP!Begin, MP!Answer, MP!Enter, MP!LookUp, MP!Create, MP!Apply
  <1>2. CASE UNCHANGED compiled
    BY Zenon, <1>2 DEF KeysInv
  <1>3. CASE compiled' = {}
    BY Zenon, <1>3 DEF KeysInv
  <1>4. ASSUME NEW e \in Runs, MP!Cached(e) = {}, MP!Compile(e)
        PROVE  KeysInv' /\ \A c \in compiled, d \in compiled' : c.key = d.key => c = d
    <2> DEFINE k == MP!KeyOf(MP!MySpec(e))
               entry == [key |-> k, ops |-> MP!MySpec(e), id |-> instances + 1]
    <2>1. compiled' = {c \in compiled : c.key # entry.key} \cup {entry}
      BY Zenon, <1>4 DEF MP!Compile
    <2>2. entry.key = k
      OBVIOUS
    <2>3. \A c \in compiled : c.key # k
      BY Zenon, <1>4 DEF MP!Cached
    <2> HIDE DEF k, entry
    <2>4. \A d \in compiled' : d \in compiled \/ d = entry
      BY Zenon, <2>1
    <2>5. QED
      BY Zenon, <2>2, <2>3, <2>4 DEF KeysInv
  <1>5. QED
    BY Zenon, <1>1, <1>2, <1>3, <1>4

\* No text is compiled twice while its entry stays in the cache, however many executions
\* miss it at once (service.go, getOrCreateKazaam: the second look under the write lock).
THEOREM NoTextTwice == PartsSpec => CompiledOnce
  <1> DEFINE I == part \in {"mapping", "sharing"} => KeysInv
             A == part \in {"mapping", "sharing"} => \A c \in compiled, d \in compiled' : c.key = d.key => c = d
  <1>1. PartsInit => I
    BY Zenon DEF PartsInit, MP!Init, KeysInv
  <1>2. ASSUME [PartsNext]_allVars
        PROVE  part' = part /\ (part \in {"mapping", "sharing"} => MP!Next \/ UNCHANGED compiled)
    BY Zenon, <1>2 DEF PartsNext, allVars, mappingVars
  <1>3. I /\ [PartsNext]_allVars => I' /\ A
    <2>1. KeysInv /\ UNCHANGED compiled
             => KeysInv' /\ \A c \in compiled, d \in compiled' : c.key = d.key => c = d
      BY Zenon DEF KeysInv
    <2>2. QED
      BY Zenon, <1>2, <2>1, SharedCache
  <1>4. I /\ [PartsNext]_allVars => [A]_allVars
    BY Zenon, <1>3
  <1>5. I /\ [PartsNext]_allVars => I'
    BY Zenon, <1>3
  <1> HIDE DEF I
  <1>6. QED
    BY <1>1, <1>4, <1>5, PTL DEF PartsSpec, CompiledOnce

-----------------------------------------------------------------------------
(* Recursion *)

\* Induction on the natural numbers, which the pigeonhole principle gives: were n not in
\* T, the successor would take the numbers of T below n to those of them that are not 0,
\* which are fewer.
LEMMA SetInduction ==
  ASSUME NEW T, 0 \in T, \A n \in Nat : n \in T => n + 1 \in T
  PROVE  Nat \subseteq T
  <1> SUFFICES ASSUME NEW n \in Nat, n \notin T PROVE FALSE
    OBVIOUS
  <1> DEFINE U == {x \in 0 .. n : x \in T}
  <1>1. IsFiniteSet(0 .. n)
    BY FS_Interval
  <1>2. IsFiniteSet(U)
    BY <1>1, FS_Subset
  <1>3. 0 \in U
    OBVIOUS
  <1>4. IsFiniteSet(U \ {0}) /\ Cardinality(U \ {0}) = Cardinality(U) - 1
    BY <1>2, <1>3, FS_RemoveElement
  <1>5. Cardinality(U) \in Nat
    BY <1>2, FS_CardinalityType
  <1>6. \A x \in U : x + 1 \in U \ {0}
    <2> TAKE x \in U
    <2>1. x # n /\ x \in 0 .. n /\ x + 1 \in T
      OBVIOUS
    <2>2. QED
      BY <2>1
  <1> DEFINE f == [x \in U |-> x + 1]
  <1>7. f \in [U -> U \ {0}]
    BY <1>6, Zenon
  <1> HIDE DEF U
  <1>8. Cardinality(U \ {0}) < Cardinality(U)
    BY <1>4, <1>5
  <1> HIDE DEF f
  <1>9. PICK x \in U, y \in U : x # y /\ f[x] = f[y]
    BY <1>2, <1>4, <1>7, <1>8, FS_PigeonHole, Zenon
  <1>10. x \in Nat /\ y \in Nat /\ f[x] = x + 1 /\ f[y] = y + 1
    BY DEF U, f
  <1>11. x + 1 = y + 1
    BY Zenon, <1>9, <1>10
  <1>12. x = y
    BY <1>10, <1>11
  <1>13. QED
    BY <1>9, <1>12

\* What the recursive functions of Mapping are, one step at a time.
LEMMA OutcomesAre ==
  ASSUME NEW ops, Len(ops) \in Nat, NEW d
  PROVE  MP!OutcomesUpTo(ops, d) =
           [i \in 0 .. Len(ops) |->
              IF i = 0 THEN {MP!Ok(d)} ELSE MP!Then(MP!OutcomesUpTo(ops, d)[i - 1], ops[i])]
  <1> DEFINE Is(k, f) == f = [i \in 0 .. k |-> IF i = 0 THEN {MP!Ok(d)} ELSE MP!Then(f[i-1], ops[i])]
  <1> DEFINE T == {k \in Nat : \E f : Is(k, f)}
  <1>1. 0 \in T
    <2> DEFINE g == [i \in 0 .. 0 |-> {MP!Ok(d)}]
    <2>1. Is(0, g) OBVIOUS
    <2>2. QED BY <2>1, Zenon
  <1>2. ASSUME NEW k \in Nat, k \in T PROVE k + 1 \in T
    <2>1. PICK f : Is(k, f) BY <1>2
    <2> DEFINE g == [i \in 0 .. k+1 |-> IF i <= k THEN f[i] ELSE MP!Then(f[k], ops[k+1])]
    <2>0. \A i \in 0 .. k : f[i] = IF i = 0 THEN {MP!Ok(d)} ELSE MP!Then(f[i - 1], ops[i])
      BY Zenon, <2>1
    <2>a. f[0] = {MP!Ok(d)} /\ \A i \in 1 .. k : f[i] = MP!Then(f[i - 1], ops[i])
      BY <2>0
    <2>b. /\ \A i \in 0 .. k : g[i] = f[i]
          /\ g[k + 1] = MP!Then(f[k], ops[k + 1])
      OBVIOUS
    <2>2. ASSUME NEW i \in 0 .. k + 1
          PROVE  g[i] = IF i = 0 THEN {MP!Ok(d)} ELSE MP!Then(g[i-1], ops[i])
      <3> HIDE DEF g
      <3>1. CASE i = 0
        BY <2>a, <2>b, <3>1
      <3>2. CASE i \in 1 .. k
        <4>1. g[i] = f[i] /\ g[i - 1] = f[i - 1]
          BY <2>b, <3>2
        <4>2. QED
          BY <2>a, <3>2, <4>1
      <3>3. CASE i = k + 1
        <4>1. g[i - 1] = f[k] /\ i # 0
          BY <2>b, <3>3
        <4>2. QED
          BY <2>b, <3>3, <4>1
      <3>4. QED
        BY <3>1, <3>2, <3>3
    <2>3. Is(k+1, g)
      BY <2>2, Zenon
    <2>4. k + 1 \in Nat OBVIOUS
    <2>5. QED BY <2>3, <2>4, Zenon
  <1>3. Nat \subseteq T
    <2> HIDE DEF T
    <2> QED BY <1>1, <1>2, SetInduction, Zenon
  <1>4. \E f : Is(Len(ops), f) BY <1>3
  <1>5. QED
    BY <1>4, Zenon DEF MP!OutcomesUpTo


LEMMA FilledIs ==
  ASSUME NEW op, NEW d, NEW order, Len(order) \in Nat
  PROVE  MP!Filled(op, d, order) =
           [i \in 0 .. Len(order) |->
              IF i = 0 THEN {}
              ELSE MP!Put(MP!Filled(op, d, order)[i - 1], order[i], MP!Moved(op, d, order[i]))]
  <1> DEFINE Step(x, i) == MP!Put(x, order[i], MP!Moved(op, d, order[i]))
             Is(k, f) == f = [i \in 0 .. k |-> IF i = 0 THEN {} ELSE Step(f[i - 1], i)]
             T == {k \in Nat : \E f : Is(k, f)}
  <1>1. 0 \in T
    <2> DEFINE g == [i \in 0 .. 0 |-> {}]
    <2>1. Is(0, g)
      OBVIOUS
    <2>2. QED
      BY <2>1, Zenon
  <1>2. ASSUME NEW k \in Nat, k \in T PROVE k + 1 \in T
    <2>1. PICK f : Is(k, f)
      BY <1>2
    <2> HIDE DEF Step
    <2> DEFINE g == [i \in 0 .. k + 1 |-> IF i <= k THEN f[i] ELSE Step(f[k], k + 1)]
    <2>2. \A i \in 0 .. k : f[i] = IF i = 0 THEN {} ELSE Step(f[i - 1], i)
      BY Zenon, <2>1
    <2>3. f[0] = {} /\ \A i \in 1 .. k : f[i] = Step(f[i - 1], i)
      BY <2>2
    <2>4. (\A i \in 0 .. k : g[i] = f[i]) /\ g[k + 1] = Step(f[k], k + 1)
      OBVIOUS
    <2>5. ASSUME NEW i \in 0 .. k + 1
          PROVE  g[i] = IF i = 0 THEN {} ELSE Step(g[i - 1], i)
      <3> HIDE DEF g
      <3>1. CASE i = 0
        BY <2>3, <2>4, <3>1
      <3>2. CASE i \in 1 .. k
        <4>1. g[i] = f[i] /\ g[i - 1] = f[i - 1]
          BY <2>4, <3>2
        <4>2. QED
          BY <2>3, <3>2, <4>1
      <3>3. CASE i = k + 1
        <4>1. g[i - 1] = f[k] /\ i # 0
          BY <2>4, <3>3
        <4>2. QED
          BY <2>4, <3>3, <4>1
      <3>4. QED
        BY <3>1, <3>2, <3>3
    <2>6. Is(k + 1, g)
      BY <2>5, Zenon
    <2>7. k + 1 \in Nat
      OBVIOUS
    <2>8. QED
      BY <2>6, <2>7, Zenon
  <1>3. Nat \subseteq T
    <2> HIDE DEF T
    <2>1. QED
      BY <1>1, <1>2, SetInduction, Zenon
  <1>4. \E f : Is(Len(order), f)
    BY <1>3
  <1>5. QED
    BY <1>4, Zenon DEF MP!Filled

LEMMA TransformationsAre ==
  ASSUME NEW ms, Len(ms) \in Nat
  PROVE  MP!TransformationsUpTo(ms) =
           [i \in 0 .. Len(ms) |->
              IF i = 0 THEN <<>>
              ELSE IF MP!IsTransformed(ms[i])
              THEN Append(MP!TransformationsUpTo(ms)[i - 1], MP!Transformation(ms[i]))
              ELSE MP!TransformationsUpTo(ms)[i - 1]]
  <1> DEFINE Step(x, i) == IF MP!IsTransformed(ms[i]) THEN Append(x, MP!Transformation(ms[i])) ELSE x
             Is(k, f) == f = [i \in 0 .. k |-> IF i = 0 THEN <<>> ELSE Step(f[i - 1], i)]
             T == {k \in Nat : \E f : Is(k, f)}
  <1>1. 0 \in T
    <2> DEFINE g == [i \in 0 .. 0 |-> <<>>]
    <2>1. Is(0, g)
      OBVIOUS
    <2>2. QED
      BY <2>1, Zenon
  <1>2. ASSUME NEW k \in Nat, k \in T PROVE k + 1 \in T
    <2>1. PICK f : Is(k, f)
      BY <1>2
    <2> HIDE DEF Step
    <2> DEFINE g == [i \in 0 .. k + 1 |-> IF i <= k THEN f[i] ELSE Step(f[k], k + 1)]
    <2>2. \A i \in 0 .. k : f[i] = IF i = 0 THEN <<>> ELSE Step(f[i - 1], i)
      BY Zenon, <2>1
    <2>3. f[0] = <<>> /\ \A i \in 1 .. k : f[i] = Step(f[i - 1], i)
      BY <2>2
    <2>4. (\A i \in 0 .. k : g[i] = f[i]) /\ g[k + 1] = Step(f[k], k + 1)
      OBVIOUS
    <2>5. ASSUME NEW i \in 0 .. k + 1
          PROVE  g[i] = IF i = 0 THEN <<>> ELSE Step(g[i - 1], i)
      <3> HIDE DEF g
      <3>1. CASE i = 0
        BY <2>3, <2>4, <3>1
      <3>2. CASE i \in 1 .. k
        <4>1. g[i] = f[i] /\ g[i - 1] = f[i - 1]
          BY <2>4, <3>2
        <4>2. QED
          BY <2>3, <3>2, <4>1
      <3>3. CASE i = k + 1
        <4>1. g[i - 1] = f[k] /\ i # 0
          BY <2>4, <3>3
        <4>2. QED
          BY <2>4, <3>3, <4>1
      <3>4. QED
        BY <3>1, <3>2, <3>3
    <2>6. Is(k + 1, g)
      BY <2>5, Zenon
    <2>7. k + 1 \in Nat
      OBVIOUS
    <2>8. QED
      BY <2>6, <2>7, Zenon
  <1>3. Nat \subseteq T
    <2> HIDE DEF T
    <2>1. QED
      BY <1>1, <1>2, SetInduction, Zenon
  <1>4. \E f : Is(Len(ms), f)
    BY <1>3
  <1>5. QED
    BY <1>4, Zenon DEF MP!TransformationsUpTo

LEMMA LastOutcomes ==
  ASSUME NEW S, NEW ops \in Seq(S), NEW op \in S, NEW d
  PROVE  MP!Transform(Append(ops, op), d) = MP!Then(MP!Transform(ops, d), op)
  <1> DEFINE all == Append(ops, op)
             n == Len(ops)
             U == MP!OutcomesUpTo(ops, d)
             V == MP!OutcomesUpTo(all, d)
             T == {k \in Nat : k <= n => U[k] = V[k]}
  <1>1. n \in Nat /\ Len(all) = n + 1 /\ all[n + 1] = op /\ \A i \in 1 .. n : all[i] = ops[i]
    OBVIOUS
  <1> HIDE DEF all, n, U, V
  <1>8. Len(ops) \in Nat /\ Len(all) \in Nat
    BY <1>1 DEF n
  <1>9. /\ U = [i \in 0 .. n |-> IF i = 0 THEN {MP!Ok(d)} ELSE MP!Then(U[i - 1], ops[i])]
        /\ V = [i \in 0 .. Len(all) |-> IF i = 0 THEN {MP!Ok(d)} ELSE MP!Then(V[i - 1], all[i])]
    BY ZenonT(60), <1>8, OutcomesAre DEF U, V, n
  <1>2. /\ \A i \in 0 .. n : U[i] = IF i = 0 THEN {MP!Ok(d)} ELSE MP!Then(U[i - 1], ops[i])
        /\ \A i \in 0 .. n + 1 : V[i] = IF i = 0 THEN {MP!Ok(d)} ELSE MP!Then(V[i - 1], all[i])
    BY Zenon, <1>1, <1>9
  <1>3. 0 \in T
    <2>1. 0 \in 0 .. n /\ 0 \in 0 .. n + 1
      BY <1>1
    <2>2. U[0] = {MP!Ok(d)} /\ V[0] = {MP!Ok(d)}
      BY <1>2, <2>1
    <2>3. QED
      BY <2>2
  <1>4. ASSUME NEW k \in Nat, k \in T PROVE k + 1 \in T
    <2> SUFFICES ASSUME k + 1 <= n PROVE U[k + 1] = V[k + 1]
      OBVIOUS
    <2>1. U[k] = V[k] /\ all[k + 1] = ops[k + 1]
      BY <1>1, <1>4
    <2>2. U[k + 1] = MP!Then(U[k], ops[k + 1]) /\ V[k + 1] = MP!Then(V[k], all[k + 1])
      BY <1>1, <1>2
    <2>3. QED
      BY <2>1, <2>2
  <1>5. Nat \subseteq T
    <2> HIDE DEF T
    <2>1. QED
      BY <1>3, <1>4, SetInduction, Zenon
  <1>6. U[n] = V[n] /\ V[n + 1] = MP!Then(V[n], all[n + 1])
    BY <1>1, <1>2, <1>5
  <1>7. QED
    BY Zenon, <1>1, <1>6 DEF MP!Transform, U, V, n, all

LEMMA NoOutcomes ==
  ASSUME NEW d
  PROVE  MP!Transform(<<>>, d) = {MP!Ok(d)}
  <1>1. Len(<<>>) = 0 /\ 0 \in Nat
    OBVIOUS
  <1>2. MP!OutcomesUpTo(<<>>, d)[0] = {MP!Ok(d)}
    BY <1>1, OutcomesAre
  <1>3. QED
    BY <1>1, <1>2 DEF MP!Transform

-----------------------------------------------------------------------------
(* Paths and documents *)

LEMMA PrefixIs ==
  ASSUME NEW S, NEW p \in Seq(S), NEW q \in Seq(S)
  PROVE  MP!IsPrefix(p, q) <=> Len(p) <= Len(q) /\ \A i \in 1 .. Len(p) : p[i] = q[i]
  BY DEF MP!IsPrefix

\* A path below another is comparable with what the other is.
LEMMA ComparableBelow ==
  ASSUME NEW S, NEW t \in Seq(S), NEW u \in Seq(S), NEW q \in Seq(S), MP!Comparable(u \o q, t)
  PROVE  MP!Comparable(u, t)
  <1>1. /\ u \o q \in Seq(S) /\ Len(u \o q) = Len(u) + Len(q)
        /\ \A i \in 1 .. Len(u) : (u \o q)[i] = u[i]
        /\ Len(u) \in Nat /\ Len(t) \in Nat /\ Len(q) \in Nat
    OBVIOUS
  <1> DEFINE w == u \o q
  <1>a. w \in Seq(S) /\ MP!Comparable(w, t)
    BY <1>1
  <1> HIDE DEF w
  <1>2. \/ Len(w) <= Len(t) /\ \A i \in 1 .. Len(w) : w[i] = t[i]
        \/ Len(t) <= Len(w) /\ \A i \in 1 .. Len(t) : t[i] = w[i]
    BY <1>a, PrefixIs DEF MP!Comparable
  <1>3. \/ Len(u) <= Len(t) /\ \A i \in 1 .. Len(u) : u[i] = t[i]
        \/ Len(t) <= Len(u) /\ \A i \in 1 .. Len(t) : t[i] = u[i]
    BY <1>1, <1>2 DEF w
  <1>4. QED
    BY <1>3, PrefixIs DEF MP!Comparable

LEMMA ComparableSelf ==
  ASSUME NEW S, NEW t \in Seq(S), NEW q \in Seq(S)
  PROVE  MP!Comparable(t \o q, t)
  <1>1. /\ t \o q \in Seq(S) /\ Len(t \o q) = Len(t) + Len(q)
        /\ \A i \in 1 .. Len(t) : t[i] = (t \o q)[i]
        /\ Len(t) \in Nat /\ Len(q) \in Nat
    OBVIOUS
  <1> DEFINE w == t \o q
  <1> HIDE DEF w
  <1>2. w \in Seq(S) /\ Len(t) <= Len(w) /\ \A i \in 1 .. Len(t) : t[i] = w[i]
    BY <1>1 DEF w
  <1>3. MP!IsPrefix(t, w)
    BY <1>2, PrefixIs
  <1>4. QED
    BY <1>3 DEF MP!Comparable, w

LEMMA ComparableSymmetric ==
  ASSUME NEW p, NEW q, MP!Comparable(p, q) PROVE MP!Comparable(q, p)
  BY DEF MP!Comparable

LEMMA NothingBelow ==
  ASSUME NEW S, NEW t \in Seq(S), NEW q \in Seq(S), t \o q = t
  PROVE  q = <<>>
  <1>1. Len(t \o q) = Len(t) + Len(q) /\ Len(t) \in Nat /\ Len(q) \in Nat
    OBVIOUS
  <1>2. Len(q) = 0
    BY <1>1
  <1>3. QED
    BY <1>2

\* The leaves below a path, seen from there.
LEMMA AtType ==
  ASSUME NEW d, MP!IsDocument(d), NEW p \in MP!Paths
  PROVE  MP!At(d, p) \subseteq MP!Paths \X MP!LeafValues
  <1>1. \A l \in d : l[1] \in Seq(STRING) /\ l[2] \in MP!LeafValues
    BY DEF MP!IsDocument, MP!Paths
  <1>2. \A q \in Seq(STRING) : SubSeq(q, Len(p) + 1, Len(q)) \in Seq(STRING)
    BY DEF MP!Paths
  <1>3. ASSUME NEW x \in MP!At(d, p) PROVE x \in MP!Paths \X MP!LeafValues
    <2>1. PICK l \in d : x = <<SubSeq(l[1], Len(p) + 1, Len(l[1])), l[2]>>
      BY <1>3 DEF MP!At
    <2>2. QED
      BY <1>1, <1>2, <2>1 DEF MP!Paths
  <1>4. QED
    BY <1>3

\* Where a path ends in a leaf, there is nothing else.
LEMMA LeafIsAll ==
  ASSUME NEW d, MP!IsDocument(d), NEW p \in MP!Paths,
         NEW l \in MP!At(d, p), l[1] = <<>>
  PROVE  MP!At(d, p) = {l}
  <1>1. \A x \in d : x[1] \in Seq(STRING)
    BY DEF MP!IsDocument, MP!Paths
  <1>2. PICK x \in d : MP!IsPrefix(p, x[1]) /\ l = <<SubSeq(x[1], Len(p) + 1, Len(x[1])), x[2]>>
    BY DEF MP!At
  <1>3. Len(x[1]) = Len(p)
    <2>1. Len(p) <= Len(x[1]) /\ Len(p) \in Nat /\ Len(x[1]) \in Nat
      BY <1>1, <1>2, PrefixIs DEF MP!Paths
    <2>2. Len(SubSeq(x[1], Len(p) + 1, Len(x[1]))) = Len(x[1]) - Len(p)
      BY <1>1, <2>1
    <2>3. SubSeq(x[1], Len(p) + 1, Len(x[1])) = <<>>
      BY <1>2
    <2>4. Len(x[1]) - Len(p) = 0
      BY <2>2, <2>3
    <2>5. QED
      BY <2>1, <2>4
  <1>4. ASSUME NEW y \in d, MP!IsPrefix(p, y[1]) PROVE y = x
    <2>1. MP!IsPrefix(x[1], y[1])
      BY <1>1, <1>2, <1>3, <1>4, PrefixIs DEF MP!Paths
    <2>2. QED
      BY <2>1 DEF MP!IsDocument, MP!Comparable
  <1>5. QED
    BY <1>2, <1>4 DEF MP!At

-----------------------------------------------------------------------------
(* What is put together *)

\* Leaves moved to a path, and the leaves of several places: at T[i] those of M[i].
Placed(t, sub) == {MP!Under(t, l) : l \in sub}
Laid(D, T, M) == UNION {Placed(T[i], M[i]) : i \in D}

LEMMA LaidIs ==
  ASSUME NEW D, NEW T, NEW M, NEW x
  PROVE  x \in Laid(D, T, M) <=> \E i \in D : x \in Placed(T[i], M[i])
  BY Zenon DEF Laid

LEMMA PlacedIs ==
  ASSUME NEW t, NEW sub, NEW x
  PROVE  x \in Placed(t, sub) <=> \E l \in sub : x = MP!Under(t, l)
  BY Zenon DEF Placed

\* The place T[k] is in the way of no other.
IsFree(D, T, M, k) ==
  /\ T[k] \in MP!Paths
  /\ \A i \in D : T[i] \in MP!Paths /\ M[i] \subseteq MP!Paths \X MP!LeafValues
  /\ \A i \in D \ {k} : ~MP!Comparable(T[i], T[k])

Reset(D, T, M, k, new) == Laid(D \ {k}, T, M) \cup Placed(T[k], new)

\* Setting one of several places that are not in each other's way.
LEMMA PutInto ==
  ASSUME NEW D, NEW k, NEW T, NEW M, NEW new, IsFree(D, T, M, k)
  PROVE  MP!Put(Laid(D, T, M), T[k], new) = Reset(D, T, M, k, new)
  <1> USE DEF IsFree
  <1>1. MP!Put(Laid(D, T, M), T[k], new)
          = {x \in Laid(D, T, M) : ~MP!Comparable(x[1], T[k])} \cup Placed(T[k], new)
    BY DEF MP!Put, Placed
  <1>2. ASSUME NEW i \in D, NEW l \in M[i]
        PROVE  MP!Comparable(T[i] \o l[1], T[k]) <=> i = k
    <2>1. T[i] \in Seq(STRING) /\ l[1] \in Seq(STRING) /\ T[k] \in Seq(STRING)
      BY <1>2 DEF MP!Paths
    <2>2. CASE i = k
      BY <2>1, <2>2, ComparableSelf
    <2>3. CASE i # k
      <3>1. ~MP!Comparable(T[i], T[k])
        BY <2>3
      <3>2. QED
        BY <2>1, <2>3, <3>1, ComparableBelow
    <2>4. QED
      BY <2>2, <2>3
  <1>3. ASSUME NEW i \in D, NEW x \in Placed(T[i], M[i])
        PROVE  MP!Comparable(x[1], T[k]) <=> i = k
    <2>1. PICK l \in M[i] : x = MP!Under(T[i], l)
      BY <1>3, PlacedIs
    <2>2. x[1] = T[i] \o l[1]
      BY <2>1 DEF MP!Under
    <2>3. QED
      BY Zenon, <1>2, <2>2
  <1>6. ASSUME NEW x
        PROVE  (x \in Laid(D, T, M) /\ ~MP!Comparable(x[1], T[k])) <=> x \in Laid(D \ {k}, T, M)
    <2>1. x \in Laid(D, T, M) <=> \E i \in D : x \in Placed(T[i], M[i])
      BY LaidIs
    <2>2. x \in Laid(D \ {k}, T, M) <=> \E i \in D \ {k} : x \in Placed(T[i], M[i])
      BY LaidIs
    <2>3. QED
      BY <1>3, <2>1, <2>2
  <1>4. {x \in Laid(D, T, M) : ~MP!Comparable(x[1], T[k])} = Laid(D \ {k}, T, M)
    BY Zenon, <1>6
  <1>5. QED
    BY Zenon, <1>1, <1>4 DEF Reset

\* A shift lays each of its fields at its own place, in whatever order.
LEMMA ShiftLays ==
  ASSUME NEW op, NEW d, NEW order, Len(order) \in Nat,
         \A i \in 1 .. Len(order) :
            /\ order[i] \in MP!Paths
            /\ MP!Moved(op, d, order[i]) \subseteq MP!Paths \X MP!LeafValues
            /\ \A j \in 1 .. Len(order) : i # j => ~MP!Comparable(order[i], order[j])
  PROVE  MP!Filled(op, d, order)[Len(order)]
           = Laid(1 .. Len(order), order, [i \in 1 .. Len(order) |-> MP!Moved(op, d, order[i])])
  <1> DEFINE n == Len(order)
             F == MP!Filled(op, d, order)
             M == [i \in 1 .. n |-> MP!Moved(op, d, order[i])]
             T == {k \in Nat : k <= n => F[k] = Laid(1 .. k, order, M)}
  <1>2. \A i \in 1 .. n : M[i] = MP!Moved(op, d, order[i])
    OBVIOUS
  <1>3. n \in Nat
    OBVIOUS
  <1> HIDE DEF F, M, n
  <1>1. F = [i \in 0 .. n |-> IF i = 0 THEN {} ELSE MP!Put(F[i - 1], order[i], MP!Moved(op, d, order[i]))]
    BY FilledIs DEF F, n
  <1>4. \A i \in 0 .. n : F[i] = IF i = 0 THEN {} ELSE MP!Put(F[i - 1], order[i], MP!Moved(op, d, order[i]))
    BY Zenon, <1>1
  <1>5. 0 \in T
    <2>1. 0 \in 0 .. n /\ 1 .. 0 = {}
      BY <1>3
    <2>2. F[0] = {}
      BY <1>4, <2>1
    <2>3. Laid(1 .. 0, order, M) = {}
      BY <2>1 DEF Laid
    <2>4. QED
      BY <2>2, <2>3
  <1>6. ASSUME NEW k \in Nat, k \in T PROVE k + 1 \in T
    <2> SUFFICES ASSUME k + 1 <= n PROVE F[k + 1] = Laid(1 .. k + 1, order, M)
      OBVIOUS
    <2>1. F[k] = Laid(1 .. k, order, M)
      BY <1>3, <1>6
    <2>2. F[k + 1] = MP!Put(F[k], order[k + 1], M[k + 1])
      <3>1. k + 1 \in 0 .. n /\ k + 1 # 0 /\ k + 1 \in 1 .. n /\ k + 1 - 1 = k
        BY <1>3
      <3>2. QED
        BY <1>2, <1>4, <3>1
    <2>3. F[k + 1] = Laid((1 .. k) \ {k + 1}, order, M) \cup Placed(order[k + 1], M[k + 1])
      <3>1. k + 1 \in 1 .. n /\ \A i \in 1 .. k : i \in 1 .. n /\ i # k + 1
        BY <1>3
      <3>2. /\ order[k + 1] \in MP!Paths
            /\ \A i \in 1 .. k : order[i] \in MP!Paths /\ M[i] \subseteq MP!Paths \X MP!LeafValues
            /\ \A i \in (1 .. k) \ {k + 1} : ~MP!Comparable(order[i], order[k + 1])
        BY <1>2, <3>1 DEF n
      <3>a. IsFree(1 .. k, order, M, k + 1)
        BY Zenon, <3>2 DEF IsFree
      <3> DEFINE D == 1 .. k
                 j == k + 1
      <3>b. IsFree(D, order, M, j)
        BY <3>a
      <3> HIDE DEF D, j
      <3>c. MP!Put(Laid(D, order, M), order[j], M[j]) = Reset(D, order, M, j, M[j])
        BY <3>b, PutInto
      <3>3. MP!Put(Laid(1 .. k, order, M), order[k + 1], M[k + 1])
              = Laid((1 .. k) \ {k + 1}, order, M) \cup Placed(order[k + 1], M[k + 1])
        BY Zenon, <3>c DEF D, j, Reset
      <3>4. QED
        BY Zenon, <2>1, <2>2, <3>3
    <2>4. (1 .. k) \ {k + 1} = 1 .. k /\ 1 .. k + 1 = (1 .. k) \cup {k + 1}
      OBVIOUS
    <2>5. Laid((1 .. k) \cup {k + 1}, order, M) = Laid(1 .. k, order, M) \cup Placed(order[k + 1], M[k + 1])
      BY Zenon DEF Laid
    <2>6. QED
      BY <2>3, <2>4, <2>5
  <1>7. Nat \subseteq T
    <2> HIDE DEF T
    <2>1. QED
      BY <1>5, <1>6, SetInduction, Zenon
  <1>8. F[n] = Laid(1 .. n, order, M)
    BY <1>3, <1>7
  <1>9. QED
    BY <1>8 DEF F, n, M

\* The source of a shifted field is that of the last mapping that moves to its target.
LEMMA ShiftSource ==
  ASSUME NEW ms \in Seq(MP!FieldMappings), NEW i \in DOMAIN ms, MP!IsMoved(ms[i]),
         \A j \in i + 1 .. Len(ms) : ~(MP!IsMoved(ms[j]) /\ ms[j].target = ms[i].target)
  PROVE  ms[i].target \in DOMAIN MP!ShiftSpec(ms) /\ MP!ShiftSpec(ms)[ms[i].target] = ms[i].source
  <1> DEFINE t == ms[i].target
             Stays(k) == /\ MP!IsMoved(ms[k]) /\ ms[k].target = t
                         /\ \A j \in k + 1 .. Len(ms) : ~(MP!IsMoved(ms[j]) /\ ms[j].target = t)
  <1>1. t \in {ms[k].target : k \in {j \in DOMAIN ms : MP!IsMoved(ms[j])}}
    OBVIOUS
  <1>2. DOMAIN MP!ShiftSpec(ms) = {ms[k].target : k \in {j \in DOMAIN ms : MP!IsMoved(ms[j])}}
    BY Zenon DEF MP!ShiftSpec
  <1>3. MP!ShiftSpec(ms)[t] = ms[CHOOSE k \in DOMAIN ms : Stays(k)].source
    BY Zenon, <1>1 DEF MP!ShiftSpec
  <1>4. DOMAIN ms = 1 .. Len(ms) /\ Len(ms) \in Nat
    OBVIOUS
  <1>5. Stays(i)
    OBVIOUS
  <1>6. \A k \in DOMAIN ms : Stays(k) => k = i
    <2> SUFFICES ASSUME NEW k \in DOMAIN ms, Stays(k) PROVE k = i
      BY Zenon
    <2>1. k \in Nat /\ i \in Nat /\ k <= Len(ms) /\ i <= Len(ms)
      BY <1>4
    <2>2. ~(k < i)
      <3>1. k < i => i \in k + 1 .. Len(ms)
        BY <2>1, <1>4
      <3>2. QED
        BY Zenon, <1>5, <3>1
    <2>3. ~(i < k)
      <3>1. i < k => k \in i + 1 .. Len(ms)
        BY <2>1, <1>4
      <3>2. QED
        BY Zenon, <3>1
    <2>4. QED
      BY <2>1, <2>2, <2>3
  <1> HIDE DEF Stays
  <1>7. (CHOOSE k \in DOMAIN ms : Stays(k)) = i
    BY <1>5, <1>6
  <1>8. QED
    BY <1>1, <1>2, <1>3, <1>7

LEMMA ShiftsTargets ==
  ASSUME NEW ms \in Seq(MP!FieldMappings)
  PROVE  /\ DOMAIN MP!ShiftSpec(ms) = {ms[k].target : k \in {j \in DOMAIN ms : MP!IsMoved(ms[j])}}
         /\ IsFiniteSet(DOMAIN MP!ShiftSpec(ms))
  <1> DEFINE I == {j \in DOMAIN ms : MP!IsMoved(ms[j])}
             f == [k \in I |-> ms[k].target]
             T == {ms[k].target : k \in I}
  <1>1. DOMAIN MP!ShiftSpec(ms) = T
    BY Zenon DEF MP!ShiftSpec
  <1>2. IsFiniteSet(1 .. Len(ms)) /\ DOMAIN ms = 1 .. Len(ms)
    BY FS_Interval
  <1>3. IsFiniteSet(I)
    BY <1>2, FS_Subset
  <1>4. f \in Surjection(I, T)
    BY DEF Surjection
  <1>5. IsFiniteSet(T)
    <2> HIDE DEF f, I, T
    <2>1. QED
      BY <1>3, <1>4, FS_Surjection
  <1>6. QED
    BY <1>1, <1>5

\* Nothing but its shape can be wrong with what an operation is asked to do.
Results == {"ok", "required", "configuration", "panic"}

LEMMA StepResults ==
  ASSUME NEW op, NEW d, NEW o \in MP!Step(op, d)
  PROVE  o.result \in Results
  <1>1. \A x : MP!Ok(x).result = "ok"
    BY DEF MP!Ok
  <1>2. /\ MP!Fail("panic").result = "panic" /\ MP!Fail("required").result = "required"
        /\ MP!Fail("configuration").result = "configuration"
    BY DEF MP!Fail
  <1>3. ASSUME o \in MP!Shift(op, d) PROVE o = MP!Fail("required") \/ \E x : o = MP!Ok(x)
    BY Zenon, <1>3 DEF MP!Shift
  <1>4. ASSUME o \in MP!Custom(op, d) PROVE o = MP!Fail("configuration") \/ \E x : o = MP!Ok(x)
    BY Zenon, <1>4 DEF MP!Custom
  <1>5. \/ o = MP!Fail("panic") \/ o = MP!Fail("required") \/ o = MP!Fail("configuration")
        \/ \E x : o = MP!Ok(x)
    BY Zenon, <1>3, <1>4 DEF MP!Step
  <1>6. QED
    BY Zenon, <1>1, <1>2, <1>5 DEF Results

LEMMA TransformResults ==
  ASSUME NEW ops, Len(ops) \in Nat, NEW d, NEW o \in MP!Transform(ops, d)
  PROVE  o.result \in Results
  <1> DEFINE n == Len(ops)
             U == MP!OutcomesUpTo(ops, d)
             T == {k \in Nat : k <= n => \A x \in U[k] : x.result \in Results}
  <1> HIDE DEF n, U
  <1>1. U = [i \in 0 .. n |-> IF i = 0 THEN {MP!Ok(d)} ELSE MP!Then(U[i - 1], ops[i])]
    BY Zenon, OutcomesAre DEF U, n
  <1>2. n \in Nat
    BY DEF n
  <1>3. \A i \in 0 .. n : U[i] = IF i = 0 THEN {MP!Ok(d)} ELSE MP!Then(U[i - 1], ops[i])
    BY Zenon, <1>1
  <1>4. 0 \in T
    <2>1. U[0] = {MP!Ok(d)}
      BY <1>2, <1>3
    <2>2. MP!Ok(d).result = "ok"
      BY DEF MP!Ok
    <2>3. QED
      BY <2>1, <2>2 DEF Results
  <1>5. ASSUME NEW k \in Nat, k \in T PROVE k + 1 \in T
    <2> SUFFICES ASSUME k + 1 <= n, NEW x \in U[k + 1] PROVE x.result \in Results
      OBVIOUS
    <2>1. U[k + 1] = MP!Then(U[k], ops[k + 1]) /\ \A y \in U[k] : y.result \in Results
      <3>1. k + 1 \in 0 .. n /\ k + 1 # 0 /\ k + 1 - 1 = k /\ k <= n
        BY <1>2
      <3>2. QED
        BY <1>3, <1>5, <3>1
    <2>2. PICK y \in U[k] : x \in IF y.result = "ok" THEN MP!Step(ops[k + 1], y.doc) ELSE {y}
      BY Zenon, <2>1 DEF MP!Then
    <2>3. QED
      BY Zenon, <2>1, <2>2, StepResults
  <1>6. Nat \subseteq T
    <2> HIDE DEF T
    <2>1. QED
      BY <1>4, <1>5, SetInduction, Zenon
  <1>7. \A x \in U[n] : x.result \in Results
    BY <1>2, <1>6
  <1>8. QED
    BY Zenon, <1>7 DEF MP!Transform, U, n

\* Once an operation fails in every case, what comes after it does not run.
LEMMA FailedFirst ==
  ASSUME NEW ops, Len(ops) \in Nat, Len(ops) # 0, NEW d, NEW o, o.result # "ok",
         MP!Step(ops[1], d) = {o}
  PROVE  MP!Transform(ops, d) = {o}
  <1> DEFINE n == Len(ops)
             U == MP!OutcomesUpTo(ops, d)
             T == {k \in Nat : k + 1 <= n => U[k + 1] = {o}}
  <1> HIDE DEF n, U
  <1>1. U = [i \in 0 .. n |-> IF i = 0 THEN {MP!Ok(d)} ELSE MP!Then(U[i - 1], ops[i])]
    BY Zenon, OutcomesAre DEF U, n
  <1>2. n \in Nat /\ n # 0
    BY DEF n
  <1>3. \A i \in 0 .. n : U[i] = IF i = 0 THEN {MP!Ok(d)} ELSE MP!Then(U[i - 1], ops[i])
    BY Zenon, <1>1
  <1>4. 0 \in T
    <2>1. U[0] = {MP!Ok(d)} /\ U[1] = MP!Then(U[0], ops[1])
      <3>1. 0 \in 0 .. n /\ 1 \in 0 .. n /\ 1 # 0 /\ 1 - 1 = 0
        BY <1>2
      <3>2. U[1] = MP!Then(U[1 - 1], ops[1])
        BY Zenon, <1>3, <3>1
      <3>3. QED
        BY <1>3, <3>1, <3>2
    <2>2. MP!Ok(d).result = "ok" /\ MP!Ok(d).doc = d
      BY DEF MP!Ok
    <2>3. U[1] = {o}
      BY <2>1, <2>2 DEF MP!Then
    <2>4. QED
      BY <2>3
  <1>5. ASSUME NEW k \in Nat, k \in T PROVE k + 1 \in T
    <2> SUFFICES ASSUME k + 1 + 1 <= n PROVE U[k + 1 + 1] = {o}
      OBVIOUS
    <2>1. U[k + 1 + 1] = MP!Then(U[k + 1], ops[k + 1 + 1]) /\ U[k + 1] = {o}
      <3>1. k + 1 + 1 \in 0 .. n /\ k + 1 + 1 # 0 /\ k + 1 + 1 - 1 = k + 1 /\ k + 1 <= n
        BY <1>2
      <3>2. QED
        BY <1>3, <1>5, <3>1
    <2>2. QED
      BY <2>1 DEF MP!Then
  <1>6. Nat \subseteq T
    <2> HIDE DEF T
    <2>1. QED
      BY <1>4, <1>5, SetInduction, Zenon
  <1>7. U[n] = {o}
    <2>1. n - 1 \in Nat /\ n - 1 + 1 = n
      BY <1>2
    <2>2. QED
      BY <1>6, <2>1
  <1>8. QED
    BY Zenon, <1>7 DEF MP!Transform, U, n

Transformations(ms) == {MP!Transformation(ms[i]) : i \in DOMAIN ms}

\* What one mapping adds to the transformations of those before it.
Extended(ms, x, i) == IF MP!IsTransformed(ms[i]) THEN Append(x, MP!Transformation(ms[i])) ELSE x

LEMMA NextTransformation ==
  ASSUME NEW ms, Len(ms) \in Nat
  PROVE  /\ MP!TransformationsUpTo(ms)[0] = <<>>
         /\ \A k \in Nat : k + 1 <= Len(ms) =>
              MP!TransformationsUpTo(ms)[k + 1] = Extended(ms, MP!TransformationsUpTo(ms)[k], k + 1)
  <1> DEFINE n == Len(ms)
             U == MP!TransformationsUpTo(ms)
  <1> HIDE DEF U, n
  <1>1. U = [i \in 0 .. n |-> IF i = 0 THEN <<>>
                              ELSE IF MP!IsTransformed(ms[i])
                              THEN Append(U[i - 1], MP!Transformation(ms[i])) ELSE U[i - 1]]
    BY Zenon, TransformationsAre DEF U, n
  <1>2. \A i \in 0 .. n : U[i] = IF i = 0 THEN <<>> ELSE Extended(ms, U[i - 1], i)
    BY Zenon, <1>1 DEF Extended
  <1>3. QED
    BY <1>2 DEF U, n

LEMMA TransformationsType ==
  ASSUME NEW ms \in Seq(MP!FieldMappings), NEW k \in 0 .. Len(ms)
  PROVE  MP!TransformationsUpTo(ms)[k] \in Seq(Transformations(ms))
  <1> DEFINE n == Len(ms)
             U == MP!TransformationsUpTo(ms)
             S == Transformations(ms)
             T == {j \in Nat : j <= n => U[j] \in Seq(S)}
  <1>1. n \in Nat /\ DOMAIN ms = 1 .. n
    OBVIOUS
  <1> HIDE DEF U, n, S
  <1>2. U[0] = <<>> /\ \A j \in Nat : j + 1 <= n => U[j + 1] = Extended(ms, U[j], j + 1)
    BY <1>1, NextTransformation DEF U, n
  <1>4. 0 \in T
    <2>1. 0 \in Nat /\ <<>> \in Seq(S)
      BY EmptySeq
    <2>2. QED
      BY Zenon, <1>2, <2>1
  <1>5. ASSUME NEW j \in Nat, j \in T PROVE j + 1 \in T
    <2> SUFFICES ASSUME j + 1 <= n PROVE U[j + 1] \in Seq(S)
      <3>1. j + 1 \in Nat
        OBVIOUS
      <3>2. QED
        BY Zenon, <3>1
    <2>1. j + 1 \in DOMAIN ms /\ j <= n
      BY <1>1
    <2>2. U[j + 1] = Extended(ms, U[j], j + 1)
      BY <1>2
    <2>3. U[j] \in Seq(S)
      BY <1>5, <2>1
    <2> DEFINE t == MP!Transformation(ms[j + 1])
    <2>4. t \in S
      BY Zenon, <2>1 DEF Transformations, S
    <2>5. U[j + 1] = U[j] \/ U[j + 1] = Append(U[j], t)
      BY Zenon, <2>2 DEF Extended
    <2> HIDE DEF t
    <2>6. Append(U[j], t) \in Seq(S)
      BY Zenon, <2>3, <2>4, AppendProperties
    <2>7. QED
      BY Zenon, <2>3, <2>5, <2>6
  <1>6. Nat \subseteq T
    <2> HIDE DEF T
    <2>1. QED
      BY <1>4, <1>5, SetInduction, Zenon
  <1>7. QED
    BY <1>1, <1>6 DEF U, n, S

\* The operation that shifts all the fields comes first.
TheShift(ms) ==
  [operation |-> "shift", spec |-> "map", shift |-> MP!ShiftSpec(ms),
   require |-> MP!HasRequired(ms), path |-> <<>>, given |-> FALSE]
SpecOperations(ms) == Transformations(ms) \cup {TheShift(ms)}

LEMMA ShiftComesFirst ==
  ASSUME NEW ms \in Seq(MP!FieldMappings), DOMAIN MP!ShiftSpec(ms) # {}
  PROVE  /\ MP!ShiftOperations(ms) = <<TheShift(ms)>>
         /\ MP!BuildKazaamSpec(ms) \in Seq(SpecOperations(ms))
         /\ Len(MP!BuildKazaamSpec(ms)) # 0 /\ MP!BuildKazaamSpec(ms)[1] = TheShift(ms)
  <1>1. MP!ShiftOperations(ms) = <<TheShift(ms)>>
    BY Zenon DEF MP!ShiftOperations, TheShift
  <1>2. MP!BuildKazaamSpec(ms) = <<TheShift(ms)>> \o MP!TransformationsUpTo(ms)[Len(ms)]
    BY Zenon, <1>1 DEF MP!BuildKazaamSpec
  <1> DEFINE rest == MP!TransformationsUpTo(ms)[Len(ms)]
             S == SpecOperations(ms)
  <1>3. rest \in Seq(S)
    <2>1. Len(ms) \in 0 .. Len(ms)
      OBVIOUS
    <2>2. rest \in Seq(Transformations(ms))
      BY <2>1, TransformationsType
    <2>3. Transformations(ms) \subseteq S
      BY DEF SpecOperations
    <2> HIDE DEF rest, S
    <2>4. QED
      BY <2>2, <2>3
  <1>4. TheShift(ms) \in S
    BY DEF SpecOperations
  <1> DEFINE first == TheShift(ms)
  <1> HIDE DEF rest, S, first
  <1>5. <<first>> \o rest \in Seq(S) /\ Len(<<first>> \o rest) # 0 /\ (<<first>> \o rest)[1] = first
    BY <1>3, <1>4 DEF first
  <1>6. QED
    BY <1>1, <1>2, <1>5 DEF first, rest, S

\* A shift that has to find a field that is not there fails.
LEMMA RequiredPresent ==
  ASSUME NEW ms \in Seq(MP!FieldMappings), NEW d,
         NEW o \in MP!Transform(MP!BuildKazaamSpec(ms), d), o.result = "ok",
         NEW i \in DOMAIN ms, ms[i].required, MP!IsMoved(ms[i]),
         \A j \in i + 1 .. Len(ms) : ms[j].target # ms[i].target
  PROVE  MP!Present(ms[i], d)
  <1> SUFFICES ASSUME ~MP!Present(ms[i], d) PROVE FALSE
    OBVIOUS
  <1> DEFINE ops == MP!BuildKazaamSpec(ms)
             t == ms[i].target
             op == TheShift(ms)
  <1>1. t \in DOMAIN MP!ShiftSpec(ms) /\ MP!ShiftSpec(ms)[t] = ms[i].source
    BY ShiftSource
  <1>2. ops \in Seq(SpecOperations(ms)) /\ Len(ops) # 0 /\ ops[1] = op
    <2>1. DOMAIN MP!ShiftSpec(ms) # {}
      BY <1>1
    <2>2. QED
      BY <2>1, ShiftComesFirst
  <1>3. /\ op.operation = "shift" /\ op.spec = "map" /\ op.shift = MP!ShiftSpec(ms)
        /\ op.require = MP!HasRequired(ms)
    BY DEF TheShift
  <1>4. op.require
    BY <1>3 DEF MP!HasRequired
  <1>5. MP!At(d, op.shift[t]) = {} /\ t \in DOMAIN op.shift
    <2>1. MP!At(d, ms[i].source) = {}
      BY Zenon DEF MP!Present
    <2>2. QED
      BY <1>1, <1>3, <2>1
  <1> HIDE DEF op, t, ops
  <1>6. MP!Shift(op, d) = {MP!Fail("required")}
    BY Zenon, <1>4, <1>5 DEF MP!Shift
  <1>7. MP!Step(ops[1], d) = {MP!Fail("required")}
    <2>1. op.spec # "nil"
      BY <1>3
    <2>2. QED
      BY Zenon, <1>2, <1>3, <1>6, <2>1 DEF MP!Step
  <1>8. MP!Fail("required").result # "ok"
    BY DEF MP!Fail
  <1>9. Len(ops) \in Nat
    BY <1>2
  <1>10. MP!Transform(ops, d) = {MP!Fail("required")}
    BY <1>2, <1>7, <1>8, <1>9, FailedFirst
  <1>11. QED
    BY <1>8, <1>10 DEF ops

-----------------------------------------------------------------------------
(* What each mapping gives *)

\* A field before its transformation.
RawField(m, d) == IF MP!Present(m, d) THEN MP!At(d, m.source) ELSE {<<(<<>>), MP!Null>>}

Targets(ms) == [i \in DOMAIN ms |-> ms[i].target]
\* The fields, those of the first k mappings transformed.
Fields(ms, d, k) == [i \in DOMAIN ms |-> IF i <= k THEN MP!Field(ms[i], d) ELSE RawField(ms[i], d)]

LEMMA NullType == <<(<<>>), MP!Null>> \in MP!Paths \X MP!LeafValues
  <1>1. <<>> \in Seq(STRING)
    OBVIOUS
  <1>2. MP!Null \in MP!LeafValues
    BY Zenon DEF MP!LeafValues
  <1>3. QED
    BY <1>1, <1>2 DEF MP!Paths

LEMMA MappingType ==
  ASSUME NEW ms \in Seq(MP!FieldMappings), NEW i \in DOMAIN ms
  PROVE  /\ ms[i] \in MP!FieldMappings
         /\ ms[i].source \in MP!Paths /\ ms[i].target \in MP!Paths /\ ms[i].type \in STRING
  <1>1. ms[i] \in MP!FieldMappings
    OBVIOUS
  <1>2. QED
    BY <1>1 DEF MP!FieldMappings

LEMMA RawType ==
  ASSUME NEW m \in MP!FieldMappings, NEW d, MP!IsDocument(d)
  PROVE  RawField(m, d) \subseteq MP!Paths \X MP!LeafValues
  <1>1. m.source \in MP!Paths
    BY DEF MP!FieldMappings
  <1>2. MP!At(d, m.source) \subseteq MP!Paths \X MP!LeafValues
    BY <1>1, AtType
  <1>3. QED
    BY Zenon, <1>2, NullType DEF RawField

LEMMA FieldType ==
  ASSUME NEW m \in MP!FieldMappings, NEW d, MP!IsDocument(d)
  PROVE  MP!Field(m, d) \subseteq MP!Paths \X MP!LeafValues
  <1>1. m.source \in MP!Paths /\ m.type \in STRING
    BY DEF MP!FieldMappings
  <1>2. MP!At(d, m.source) \subseteq MP!Paths \X MP!LeafValues
    BY <1>1, AtType
  <1>3. CASE ~MP!Present(m, d)
    BY Zenon, <1>3, NullType DEF MP!Field
  <1>4. CASE MP!Present(m, d)
    <2> SUFFICES ASSUME NEW x \in MP!Field(m, d) PROVE x \in MP!Paths \X MP!LeafValues
      OBVIOUS
    <2>1. PICK l \in MP!At(d, m.source) :
             x = <<l[1], IF MP!IsTransformed(m) /\ l[1] = <<>> /\ MP!IsText(l[2])
                         THEN [l[2] EXCEPT !.by = Append(@, m.type)] ELSE l[2]>>
      BY Zenon, <1>4 DEF MP!Field
    <2>2. l[1] \in MP!Paths /\ l[2] \in MP!LeafValues
      BY <1>2
    <2>3. ASSUME MP!IsText(l[2]) PROVE [l[2] EXCEPT !.by = Append(@, m.type)] \in MP!LeafValues
      <3>1. MP!Null.of = "null"
        BY DEF MP!Null
      <3>2. l[2] \in [of : STRING, by : Seq(STRING)]
        BY <2>2, <2>3, <3>1 DEF MP!LeafValues, MP!IsText
      <3>3. Append(l[2].by, m.type) \in Seq(STRING)
        <4>1. l[2].by \in Seq(STRING)
          BY <3>2
        <4>2. QED
          BY Zenon, <1>1, <4>1, AppendProperties
      <3>4. [l[2] EXCEPT !.by = Append(@, m.type)] \in [of : STRING, by : Seq(STRING)]
        BY <3>2, <3>3
      <3>5. QED
        BY Zenon, <3>4 DEF MP!LeafValues
    <2>4. x = <<l[1], l[2]>> \/ (MP!IsText(l[2]) /\ x = <<l[1], [l[2] EXCEPT !.by = Append(@, m.type)]>>)
      BY Zenon, <2>1
    <2>5. \E v \in MP!LeafValues : x = <<l[1], v>>
      BY Zenon, <2>2, <2>3, <2>4
    <2>6. QED
      BY <2>2, <2>5
  <1>5. QED
    BY <1>3, <1>4

\* An order of a finite set visits each of its elements, once.
LEMMA AllVisited ==
  ASSUME NEW S, IsFiniteSet(S), NEW order \in MP!SetToSeqs(S)
  PROVE  /\ Len(order) \in Nat /\ order \in [1 .. Len(order) -> S]
         /\ \A i \in 1 .. Len(order), j \in 1 .. Len(order) : i # j => order[i] # order[j]
         /\ \A t \in S : \E i \in 1 .. Len(order) : order[i] = t
  <1> DEFINE n == Cardinality(S)
  <1>1. n \in Nat
    BY FS_CardinalityType
  <1>2. order \in [1 .. n -> S] /\ \A i, j \in 1 .. n : i # j => order[i] # order[j]
    <2>1. MP!Cardinality(S) = n
      BY DEF MP!Cardinality, Cardinality
    <2>2. QED
      BY Zenon, <2>1 DEF MP!SetToSeqs
  <1>3. Len(order) = n
    BY <1>1, <1>2
  <1>4. IsFiniteSet(1 .. n) /\ Cardinality(1 .. n) = n
    <2>1. IsFiniteSet(1 .. n) /\ Cardinality(1 .. n) = IF 1 > n THEN 0 ELSE n - 1 + 1
      BY FS_Interval, <1>1
    <2> HIDE DEF n
    <2>2. QED
      BY <1>1, <2>1
  <1>5. order \in Injection(1 .. n, S)
    BY Zenon, <1>2 DEF Injection, IsInjective
  <1>6. order \in Surjection(1 .. n, S)
    BY <1>4, <1>5, FS_Injection
  <1>7. \A t \in S : \E i \in 1 .. n : order[i] = t
    BY Zenon, <1>6 DEF Surjection
  <1>8. QED
    BY Zenon, <1>1, <1>2, <1>3, <1>7

LEMMA CleanApart ==
  ASSUME NEW ms \in Seq(MP!FieldMappings), MP!Clean(ms), NEW i \in DOMAIN ms, NEW j \in DOMAIN ms
  PROVE  ms[i].target = ms[j].target \/ MP!Comparable(ms[i].target, ms[j].target) => i = j
  <1>1. i # j => ~MP!Comparable(ms[i].target, ms[j].target)
    BY Zenon DEF MP!Clean
  <1>2. ms[i].target \in Seq(STRING)
    BY MappingType DEF MP!Paths
  <1>3. MP!Comparable(ms[i].target, ms[i].target)
    <2>1. MP!IsPrefix(ms[i].target, ms[i].target)
      BY <1>2, PrefixIs
    <2>2. QED
      BY <2>1 DEF MP!Comparable
  <1>4. QED
    BY Zenon, <1>1, <1>3

\* The places of clean mappings, and what comes to them, are such that each can be set
\* without the others.
LEMMA FieldsAreFree ==
  ASSUME NEW ms \in Seq(MP!FieldMappings), MP!Clean(ms), NEW d, MP!IsDocument(d),
         NEW k \in DOMAIN ms, NEW n
  PROVE  IsFree(DOMAIN ms, Targets(ms), Fields(ms, d, n), k)
  <1>1. \A i \in DOMAIN ms : Targets(ms)[i] = ms[i].target
    BY Zenon DEF Targets
  <1>2. \A i \in DOMAIN ms : Targets(ms)[i] \in MP!Paths
    BY Zenon, <1>1, MappingType
  <1>3. ASSUME NEW i \in DOMAIN ms PROVE Fields(ms, d, n)[i] \subseteq MP!Paths \X MP!LeafValues
    <2>1. Fields(ms, d, n)[i] = MP!Field(ms[i], d) \/ Fields(ms, d, n)[i] = RawField(ms[i], d)
      BY Zenon DEF Fields
    <2>2. ms[i] \in MP!FieldMappings
      BY MappingType
    <2>3. QED
      BY Zenon, <2>1, <2>2, FieldType, RawType
  <1>4. \A i \in DOMAIN ms \ {k} : ~MP!Comparable(Targets(ms)[i], Targets(ms)[k])
    BY Zenon, <1>1, CleanApart
  <1>5. QED
    BY Zenon, <1>2, <1>3, <1>4 DEF IsFree

\* Whatever the order, a shift lays each field as it was read at the target of its mapping.
LEMMA ShiftOutcome ==
  ASSUME NEW ms \in Seq(MP!FieldMappings), MP!Clean(ms), NEW d, MP!IsDocument(d),
         NEW o \in MP!Shift(TheShift(ms), d), o.result = "ok"
  PROVE  o.doc = Laid(DOMAIN ms, Targets(ms), Fields(ms, d, 0))
  <1> DEFINE op == TheShift(ms)
             D == DOMAIN op.shift
  <1>1. op.shift = MP!ShiftSpec(ms)
    BY DEF TheShift
  <1>2. D = {ms[k].target : k \in DOMAIN ms} /\ IsFiniteSet(D)
    <2>1. {j \in DOMAIN ms : MP!IsMoved(ms[j])} = DOMAIN ms
      BY Zenon DEF MP!Clean
    <2>2. QED
      BY <1>1, <2>1, ShiftsTargets
  <1>3. ASSUME NEW k \in DOMAIN ms
        PROVE  MP!Moved(op, d, ms[k].target) = RawField(ms[k], d) /\ ms[k].target \in D
    <2>1. \A j \in k + 1 .. Len(ms) : ~(MP!IsMoved(ms[j]) /\ ms[j].target = ms[k].target)
      <3>1. \A j \in k + 1 .. Len(ms) : j \in DOMAIN ms /\ j # k
        OBVIOUS
      <3>2. QED
        BY Zenon, <3>1, CleanApart
    <2>2. MP!IsMoved(ms[k])
      BY Zenon DEF MP!Clean
    <2>3. op.shift[ms[k].target] = ms[k].source /\ ms[k].target \in D
      BY <1>1, <2>1, <2>2, ShiftSource
    <2>4. QED
      BY Zenon, <2>3 DEF MP!Moved, RawField, MP!Present
  <1>4. MP!Fail("required").result # "ok"
    BY DEF MP!Fail
  <1> HIDE DEF op
  <1>5. PICK order \in MP!SetToSeqs(D) : o = MP!Ok(MP!Filled(op, d, order)[Len(order)])
    BY Zenon, <1>4 DEF MP!Shift, op
  <1> DEFINE n == Len(order)
             M == [i \in 1 .. n |-> MP!Moved(op, d, order[i])]
  <1> HIDE DEF D
  <1>6. /\ n \in Nat /\ order \in [1 .. n -> D]
        /\ \A i \in 1 .. n, j \in 1 .. n : i # j => order[i] # order[j]
        /\ \A t \in D : \E i \in 1 .. n : order[i] = t
    <2>1. IsFiniteSet(D)
      BY <1>2
    <2>2. QED
      BY <2>1, AllVisited
  <1> HIDE DEF n
  <1>7. \A i \in 1 .. n : \E k \in DOMAIN ms : order[i] = ms[k].target
    <2>1. \A i \in 1 .. n : order[i] \in D
      BY Zenon, <1>6
    <2>2. \A t \in D : \E k \in DOMAIN ms : t = ms[k].target
      BY Zenon, <1>2
    <2>3. QED
      BY Zenon, <2>1, <2>2
  <1>8. ASSUME NEW i \in 1 .. n
        PROVE  /\ order[i] \in MP!Paths
               /\ MP!Moved(op, d, order[i]) \subseteq MP!Paths \X MP!LeafValues
               /\ \A j \in 1 .. n : i # j => ~MP!Comparable(order[i], order[j])
    <2>1. PICK k \in DOMAIN ms : order[i] = ms[k].target
      BY <1>7
    <2>2. ms[k] \in MP!FieldMappings /\ ms[k].target \in MP!Paths
      BY MappingType
    <2>3. MP!Moved(op, d, order[i]) \subseteq MP!Paths \X MP!LeafValues
      BY Zenon, <1>3, <2>1, <2>2, RawType
    <2>4. ASSUME NEW j \in 1 .. n, i # j PROVE ~MP!Comparable(order[i], order[j])
      <3>1. PICK l \in DOMAIN ms : order[j] = ms[l].target
        BY <1>7
      <3>2. k # l
        BY Zenon, <1>6, <2>1, <2>4, <3>1
      <3>3. QED
        BY Zenon, <2>1, <3>1, <3>2, CleanApart
    <2>5. QED
      BY Zenon, <2>1, <2>2, <2>3, <2>4
  <1>9. MP!Filled(op, d, order)[n] = Laid(1 .. n, order, M)
    BY <1>6, <1>8, ShiftLays DEF n
  <1> DEFINE L == Laid(DOMAIN ms, Targets(ms), Fields(ms, d, 0))
  <1>10. ASSUME NEW k \in DOMAIN ms
         PROVE  Targets(ms)[k] = ms[k].target /\ Fields(ms, d, 0)[k] = RawField(ms[k], d)
    <2>1. ~(k <= 0)
      OBVIOUS
    <2>2. QED
      BY Zenon, <2>1 DEF Targets, Fields
  <1>11. ASSUME NEW x PROVE x \in Laid(1 .. n, order, M) <=> x \in L
    <2>1. x \in Laid(1 .. n, order, M) <=> \E i \in 1 .. n : x \in Placed(order[i], MP!Moved(op, d, order[i]))
      <3>1. \A i \in 1 .. n : M[i] = MP!Moved(op, d, order[i])
        BY Zenon
      <3> HIDE DEF M
      <3>2. x \in Laid(1 .. n, order, M) <=> \E i \in 1 .. n : x \in Placed(order[i], M[i])
        BY LaidIs
      <3>3. QED
        BY Zenon, <3>1, <3>2
    <2>2. x \in L <=> \E k \in DOMAIN ms : x \in Placed(ms[k].target, RawField(ms[k], d))
      <3>1. x \in L <=> \E k \in DOMAIN ms : x \in Placed(Targets(ms)[k], Fields(ms, d, 0)[k])
        BY LaidIs
      <3>2. QED
        BY Zenon, <1>10, <3>1
    <2>3. ASSUME NEW i \in 1 .. n, x \in Placed(order[i], MP!Moved(op, d, order[i]))
          PROVE  \E k \in DOMAIN ms : x \in Placed(ms[k].target, RawField(ms[k], d))
      BY Zenon, <1>3, <1>7, <2>3
    <2>4. ASSUME NEW k \in DOMAIN ms, x \in Placed(ms[k].target, RawField(ms[k], d))
          PROVE  \E i \in 1 .. n : x \in Placed(order[i], MP!Moved(op, d, order[i]))
      <3>1. PICK i \in 1 .. n : order[i] = ms[k].target
        BY Zenon, <1>3, <1>6
      <3>2. QED
        BY Zenon, <1>3, <2>4, <3>1
    <2>5. QED
      BY Zenon, <2>1, <2>2, <2>3, <2>4
  <1>12. Laid(1 .. n, order, M) = L
    BY Zenon, <1>11
  <1>13. o.doc = MP!Filled(op, d, order)[n]
    BY <1>5 DEF MP!Ok, n
  <1>14. QED
    BY Zenon, <1>9, <1>12, <1>13

LEMMA SameLaid ==
  ASSUME NEW D, NEW T, NEW M, NEW N, \A i \in D : M[i] = N[i]
  PROVE  Laid(D, T, M) = Laid(D, T, N)
  <1>1. ASSUME NEW x PROVE x \in Laid(D, T, M) <=> x \in Laid(D, T, N)
    <2>1. x \in Laid(D, T, M) <=> \E i \in D : x \in Placed(T[i], M[i])
      BY LaidIs
    <2>2. x \in Laid(D, T, N) <=> \E i \in D : x \in Placed(T[i], N[i])
      BY LaidIs
    <2>3. QED
      BY Zenon, <2>1, <2>2
  <1>2. QED
    BY Zenon, <1>1

\* Nothing here can be transformed.
NoText(field) == \A l \in field : ~(l[1] = <<>> /\ MP!IsText(l[2]))

LEMMA PairIs ==
  ASSUME NEW p, NEW v, NEW l, l = <<p, v>>
  PROVE  <<l[1], l[2]>> = l
  OBVIOUS

\* A field is as it was read where it is not to be transformed, or is no text.
LEMMA FieldIsRaw ==
  ASSUME NEW m, NEW d, ~MP!IsTransformed(m) \/ NoText(RawField(m, d))
  PROVE  MP!Field(m, d) = RawField(m, d)
  <1>1. CASE ~MP!Present(m, d)
    BY Zenon, <1>1 DEF MP!Field, RawField
  <1>2. CASE MP!Present(m, d)
    <2> DEFINE A == MP!At(d, m.source)
               g(l) == <<l[1], IF MP!IsTransformed(m) /\ l[1] = <<>> /\ MP!IsText(l[2])
                               THEN [l[2] EXCEPT !.by = Append(@, m.type)] ELSE l[2]>>
    <2>1. RawField(m, d) = A
      BY Zenon, <1>2 DEF RawField
    <2>2. MP!Field(m, d) = {g(l) : l \in A}
      BY Zenon, <1>2 DEF MP!Field
    <2>3. \A l \in A : ~(MP!IsTransformed(m) /\ l[1] = <<>> /\ MP!IsText(l[2]))
      BY Zenon, <2>1 DEF NoText
    <2>4. \A l \in A : <<l[1], l[2]>> = l
      <3>1. \A l \in A : \E p, v : l = <<p, v>>
        BY Zenon DEF MP!At
      <3> HIDE DEF A
      <3>2. QED
        BY <3>1, PairIs
    <2> HIDE DEF A
    <2>5. \A l \in A : g(l) = l
      BY Zenon, <2>3, <2>4
    <2> HIDE DEF g
    <2>6. {g(l) : l \in A} = A
      BY <2>5
    <2>7. QED
      BY Zenon, <2>1, <2>2, <2>6
  <1>3. QED
    BY Zenon, <1>1, <1>2

\* A text at the top of a field that lies at t.
IsTopText(t, field, l) == \E x \in field : x[1] = <<>> /\ MP!IsText(x[2]) /\ l = MP!Under(t, x)

\* The texts that are found where one of several fields lies are those at its own top.
LEMMA TextsAre ==
  ASSUME NEW D, NEW k \in D, NEW T, NEW M, IsFree(D, T, M, k), NEW l
  PROVE  l \in MP!GetStringAtPath(Laid(D, T, M), T[k]) <=> IsTopText(T[k], M[k], l)
  <1>0. /\ T[k] \in Seq(STRING)
        /\ \A i \in D : T[i] \in Seq(STRING) /\ \A x \in M[i] : x[1] \in Seq(STRING)
        /\ \A i \in D \ {k} : ~MP!Comparable(T[i], T[k])
    BY DEF IsFree, MP!Paths
  <1>1. ASSUME l \in MP!GetStringAtPath(Laid(D, T, M), T[k])
        PROVE  \E x \in M[k] : x[1] = <<>> /\ MP!IsText(x[2]) /\ l = MP!Under(T[k], x)
    <2>1. l \in Laid(D, T, M) /\ l[1] = T[k] /\ MP!IsText(l[2])
      BY Zenon, <1>1 DEF MP!GetStringAtPath
    <2>2. PICK i \in D : l \in Placed(T[i], M[i])
      BY <2>1, LaidIs
    <2>3. PICK x \in M[i] : l = MP!Under(T[i], x)
      BY <2>2, PlacedIs
    <2>4. l[1] = T[i] \o x[1] /\ l[2] = x[2]
      BY <2>3 DEF MP!Under
    <2>5. T[i] \in Seq(STRING) /\ x[1] \in Seq(STRING)
      BY <1>0
    <2>6. T[i] \o x[1] = T[k]
      BY Zenon, <2>1, <2>4
    <2>7. i = k
      <3>1. MP!Comparable(T[k], T[k])
        <4>1. MP!IsPrefix(T[k], T[k])
          BY <1>0, PrefixIs
        <4>2. QED
          BY <4>1 DEF MP!Comparable
      <3>2. MP!Comparable(T[i] \o x[1], T[k])
        BY Zenon, <2>6, <3>1
      <3>3. MP!Comparable(T[i], T[k])
        BY <1>0, <2>5, <3>2, ComparableBelow
      <3>4. QED
        BY <1>0, <3>3
    <2>8. x[1] = <<>>
      BY Zenon, <1>0, <2>5, <2>6, <2>7, NothingBelow
    <2>9. QED
      BY Zenon, <2>1, <2>3, <2>4, <2>7, <2>8
  <1>2. ASSUME NEW x \in M[k], x[1] = <<>>, MP!IsText(x[2]), l = MP!Under(T[k], x)
        PROVE  l \in MP!GetStringAtPath(Laid(D, T, M), T[k])
    <2>1. l \in Placed(T[k], M[k])
      BY Zenon, <1>2, PlacedIs
    <2>2. l \in Laid(D, T, M)
      BY <2>1, LaidIs
    <2>3. l = <<T[k] \o <<>>, x[2]>>
      BY Zenon, <1>2 DEF MP!Under
    <2>4. T[k] \o <<>> = T[k]
      BY Zenon, <1>0, ConcatEmptySeq
    <2>5. l[1] = T[k] /\ l[2] = x[2]
      BY <2>3, <2>4
    <2>6. QED
      BY Zenon, <1>2, <2>2, <2>5 DEF MP!GetStringAtPath
  <1>3. QED
    BY Zenon, <1>1, <1>2 DEF IsTopText

LEMMA TextIsAll ==
  ASSUME NEW m \in MP!FieldMappings, NEW d, MP!IsDocument(d), NEW x \in RawField(m, d),
         x[1] = <<>>, MP!IsText(x[2]), MP!IsTransformed(m)
  PROVE  MP!Field(m, d) = {<<(<<>>), [x[2] EXCEPT !.by = Append(@, m.type)]>>}
  <1>1. MP!Present(m, d)
    <2>1. ASSUME ~MP!Present(m, d) PROVE FALSE
      <3>1. x = <<(<<>>), MP!Null>>
        BY Zenon, <2>1 DEF RawField
      <3>2. x[2] = MP!Null
        BY <3>1
      <3>3. MP!Null.of = "null"
        BY DEF MP!Null
      <3>4. QED
        BY <3>2, <3>3 DEF MP!IsText
    <2>2. QED
      BY <2>1
  <1>2. m.source \in MP!Paths
    BY DEF MP!FieldMappings
  <1>3. MP!At(d, m.source) = {x}
    <2>1. x \in MP!At(d, m.source)
      BY Zenon, <1>1 DEF RawField
    <2>2. QED
      BY <1>2, <2>1, LeafIsAll
  <1> DEFINE g(l) == <<l[1], IF MP!IsTransformed(m) /\ l[1] = <<>> /\ MP!IsText(l[2])
                             THEN [l[2] EXCEPT !.by = Append(@, m.type)] ELSE l[2]>>
  <1>4. MP!Field(m, d) = {g(l) : l \in {x}}
    BY Zenon, <1>1, <1>3 DEF MP!Field
  <1>5. g(x) = <<(<<>>), [x[2] EXCEPT !.by = Append(@, m.type)]>>
    BY Zenon
  <1> HIDE DEF g
  <1>6. {g(l) : l \in {x}} = {g(x)}
    OBVIOUS
  <1>7. QED
    BY Zenon, <1>4, <1>5, <1>6

\* A transformation changes the field of its own mapping, where it is a text, and nothing else.
LEMMA CustomOutcome ==
  ASSUME NEW ms \in Seq(MP!FieldMappings), MP!Clean(ms), NEW d, MP!IsDocument(d),
         NEW k \in DOMAIN ms, MP!IsTransformed(ms[k]),
         NEW o \in MP!Step(MP!Transformation(ms[k]), Laid(DOMAIN ms, Targets(ms), Fields(ms, d, k - 1))),
         o.result = "ok"
  PROVE  o.doc = Laid(DOMAIN ms, Targets(ms), Fields(ms, d, k))
  <1> DEFINE D == DOMAIN ms
             T == Targets(ms)
             M == Fields(ms, d, k - 1)
             N == Fields(ms, d, k)
             whole == Laid(D, T, M)
             op == MP!Transformation(ms[k])
             m == ms[k]
  <1>1. /\ IsFree(D, T, M, k)
        /\ m \in MP!FieldMappings
    BY Zenon, FieldsAreFree, MappingType
  <1>2. T[k] = m.target
    BY Zenon DEF Targets
  <1>3. /\ \A i \in D \ {k} : M[i] = N[i]
        /\ M[k] = RawField(m, d) /\ N[k] = MP!Field(m, d)
    <2>1. \A i \in D \ {k} : i <= k - 1 <=> i <= k
      OBVIOUS
    <2>2. ~(k <= k - 1) /\ k <= k
      OBVIOUS
    <2>3. QED
      BY Zenon, <2>1, <2>2 DEF Fields
  <1>4. /\ op.operation = m.type /\ op.spec # "nil" /\ op.path = m.target /\ op.given = m.given
        /\ op.operation # "shift" /\ op.path # <<>> /\ (op.operation \in MP!Configured => op.given)
    <2>1. MP!IsMoved(m) /\ m.path = <<>> /\ m.type # "shift" /\ (m.type \in MP!Configured => m.given)
      BY Zenon DEF MP!Clean
    <2> HIDE DEF m
    <2>2. op.operation = m.type /\ op.spec = "map" /\ op.given = m.given
          /\ op.path = (IF m.path = <<>> THEN m.target ELSE m.path)
      BY DEF MP!Transformation, m
    <2>3. QED
      BY Zenon, <2>1, <2>2 DEF MP!IsMoved
  <1> HIDE DEF op, M, N, T, m, whole, D
  <1>5. o \in MP!Custom(op, whole)
    BY Zenon, <1>4 DEF MP!Step, op, whole, M, T, D
  <1> DEFINE texts == MP!GetStringAtPath(whole, op.path)
  <1>6. \A l : l \in texts <=> \E x \in M[k] : x[1] = <<>> /\ MP!IsText(x[2]) /\ l = MP!Under(T[k], x)
    <2>1. k \in D
      BY DEF D
    <2>2. op.path = T[k]
      BY <1>2, <1>4
    <2>3. IsFree(D, T, M, k)
      BY <1>1
    <2>4. \A l : l \in MP!GetStringAtPath(Laid(D, T, M), T[k]) <=> IsTopText(T[k], M[k], l)
      BY <2>1, <2>3, TextsAre
    <2>5. QED
      BY Zenon, <2>2, <2>4 DEF whole, IsTopText
  <1>7. CASE texts = {}
    <2>1. o = MP!Ok(whole)
      BY Zenon, <1>4, <1>5, <1>7 DEF MP!Custom
    <2>2. NoText(RawField(m, d))
      BY Zenon, <1>3, <1>6, <1>7 DEF NoText
    <2>3. N[k] = M[k]
      BY <1>3, <2>2, FieldIsRaw
    <2>4. \A i \in D : M[i] = N[i]
      BY Zenon, <1>3, <2>3
    <2>5. whole = Laid(D, T, N)
      BY <2>4, SameLaid DEF whole
    <2>6. o.doc = whole
      BY <2>1 DEF MP!Ok
    <2>7. QED
      BY Zenon, <2>5, <2>6 DEF D, T, N
  <1>8. CASE texts # {}
    <2>1. PICK l \in texts :
            o = MP!Ok(MP!SetStringAtPath(whole, op.path, [l[2] EXCEPT !.by = Append(@, op.operation)]))
      BY Zenon, <1>4, <1>5, <1>8 DEF MP!Custom
    <2>2. PICK x \in M[k] : x[1] = <<>> /\ MP!IsText(x[2]) /\ l = MP!Under(T[k], x)
      BY Zenon, <1>6
    <2>3. l[2] = x[2]
      BY <2>2 DEF MP!Under
    <2> DEFINE new == {<<(<<>>), [x[2] EXCEPT !.by = Append(@, m.type)]>>}
    <2>4. o = MP!Ok(MP!Put(whole, T[k], new))
      BY Zenon, <1>2, <1>4, <2>1, <2>3 DEF MP!SetStringAtPath
    <2>5. N[k] = new
      <3>1. MP!IsTransformed(m)
        BY DEF m
      <3>2. x \in RawField(m, d)
        BY <1>3
      <3>3. QED
        BY Zenon, <1>1, <1>3, <2>2, <3>1, <3>2, TextIsAll
    <2> HIDE DEF new
    <2>6. MP!Put(whole, T[k], new) = Reset(D, T, M, k, new)
      BY <1>1, PutInto DEF whole
    <2>7. Laid(D \ {k}, T, M) = Laid(D \ {k}, T, N)
      BY <1>3, SameLaid
    <2>8. Laid(D \ {k}, T, N) \cup Placed(T[k], N[k]) = Laid(D, T, N)
      BY Zenon DEF Laid, D
    <2>9. MP!Put(whole, T[k], new) = Laid(D, T, N)
      BY Zenon, <2>5, <2>6, <2>7, <2>8 DEF Reset
    <2>10. o.doc = MP!Put(whole, T[k], new)
      BY <2>4 DEF MP!Ok
    <2>11. QED
      BY Zenon, <2>9, <2>10 DEF D, T, N
  <1>9. QED
    BY <1>7, <1>8

\* An operation that changes what those before it laid together.
LEMMA ThenIs ==
  ASSUME NEW outs, NEW op, NEW o \in MP!Then(outs, op), o.result = "ok"
  PROVE  \E before \in outs : before.result = "ok" /\ o \in MP!Step(op, before.doc)
  <1>1. PICK before \in outs : o \in IF before.result = "ok" THEN MP!Step(op, before.doc) ELSE {before}
    BY Zenon DEF MP!Then
  <1>2. QED
    BY Zenon, <1>1

LEMMA FieldsGrow ==
  ASSUME NEW ms \in Seq(MP!FieldMappings), NEW d, NEW k \in Nat,
         NEW m, m = ms[k + 1], ~MP!IsTransformed(m)
  PROVE  \A i \in DOMAIN ms : Fields(ms, d, k)[i] = Fields(ms, d, k + 1)[i]
  <1>1. MP!Field(m, d) = RawField(m, d)
    BY FieldIsRaw
  <1>2. ASSUME NEW i \in DOMAIN ms PROVE Fields(ms, d, k)[i] = Fields(ms, d, k + 1)[i]
    <2>1. i = k + 1 \/ (i <= k <=> i <= k + 1)
      OBVIOUS
    <2>2. QED
      BY Zenon, <1>1, <2>1 DEF Fields
  <1>3. QED
    BY Zenon, <1>2

\* What the shift and the transformations make of a document is what the mappings mean.
LEMMA MappedOutcome ==
  ASSUME NEW ms \in Seq(MP!FieldMappings), MP!Clean(ms), NEW d, MP!IsDocument(d),
         NEW o \in MP!Transform(MP!BuildKazaamSpec(ms), d), o.result = "ok"
  PROVE  o.doc = MP!Meaning(ms, d)
  <1> DEFINE n == Len(ms)
             S == SpecOperations(ms)
             U == MP!TransformationsUpTo(ms)
             first == <<TheShift(ms)>>
             Lays(k) == Laid(DOMAIN ms, Targets(ms), Fields(ms, d, k))
             T == {k \in Nat : k <= n =>
                     \A x \in MP!Transform(first \o U[k], d) : x.result = "ok" => x.doc = Lays(k)}
  <1>1. n \in Nat /\ n # 0 /\ DOMAIN ms = 1 .. n
    <2>1. ms # <<>>
      BY Zenon DEF MP!Clean
    <2>2. QED
      BY <2>1, EmptySeq
  <1>2. DOMAIN MP!ShiftSpec(ms) # {} /\ MP!BuildKazaamSpec(ms) = first \o U[n]
    <2>1. 1 \in DOMAIN ms
      BY <1>1
    <2>2. MP!IsMoved(ms[1])
      BY Zenon, <2>1 DEF MP!Clean
    <2>3. DOMAIN MP!ShiftSpec(ms) # {}
      <3>1. DOMAIN MP!ShiftSpec(ms) = {ms[k].target : k \in {j \in DOMAIN ms : MP!IsMoved(ms[j])}}
        BY ShiftsTargets
      <3>2. QED
        BY Zenon, <2>1, <2>2, <3>1
    <2>4. MP!ShiftOperations(ms) = first
      BY <2>3, ShiftComesFirst
    <2>5. QED
      BY Zenon, <2>3, <2>4 DEF MP!BuildKazaamSpec
  <1>3. \A k \in 0 .. n : U[k] \in Seq(S)
    <2>1. Transformations(ms) \subseteq S
      BY DEF SpecOperations
    <2>2. \A k \in 0 .. n : U[k] \in Seq(Transformations(ms))
      BY TransformationsType
    <2>3. QED
      BY Zenon, <2>1, <2>2, SeqMonotonic
  <1>4. first \in Seq(S) /\ TheShift(ms) \in S
    <2>1. TheShift(ms) \in S
      BY DEF SpecOperations
    <2> DEFINE a == TheShift(ms)
    <2> HIDE DEF a, S
    <2>2. <<a>> \in Seq(S)
      BY <2>1 DEF a
    <2>3. QED
      BY <2>1, <2>2 DEF a
  <1>5. U[0] = <<>> /\ \A k \in Nat : k + 1 <= n => U[k + 1] = Extended(ms, U[k], k + 1)
    BY <1>1, NextTransformation
  <1> HIDE DEF n, U, S
  <1>6. 0 \in T
    <2> SUFFICES ASSUME NEW x \in MP!Transform(first \o U[0], d), x.result = "ok" PROVE x.doc = Lays(0)
      <3>1. 0 \in Nat
        OBVIOUS
      <3>2. QED
        BY Zenon, <3>1
    <2>1. first \o U[0] = Append(<<>>, TheShift(ms))
      <3> DEFINE a == TheShift(ms)
      <3> HIDE DEF a
      <3>1. <<a>> \o <<>> = Append(<<>>, a)
        OBVIOUS
      <3>2. QED
        BY Zenon, <1>5, <3>1 DEF a
    <2>2. MP!Transform(Append(<<>>, TheShift(ms)), d) = MP!Then({MP!Ok(d)}, TheShift(ms))
      <3>1. <<>> \in Seq(S)
        BY EmptySeq
      <3>2. MP!Transform(Append(<<>>, TheShift(ms)), d) = MP!Then(MP!Transform(<<>>, d), TheShift(ms))
        BY Zenon, <1>4, <3>1, LastOutcomes
      <3>3. QED
        BY Zenon, <3>2, NoOutcomes
    <2>3. x \in MP!Then({MP!Ok(d)}, TheShift(ms))
      BY Zenon, <2>1, <2>2
    <2> DEFINE outs == {MP!Ok(d)}
    <2>a. x \in MP!Then(outs, TheShift(ms))
      BY <2>3
    <2> HIDE DEF outs
    <2>b. \E before \in outs : before.result = "ok" /\ x \in MP!Step(TheShift(ms), before.doc)
      BY Zenon, <2>a, ThenIs
    <2>4. PICK before \in {MP!Ok(d)} : x \in MP!Step(TheShift(ms), before.doc)
      BY Zenon, <2>b DEF outs
    <2>5. before.doc = d
      BY <2>4 DEF MP!Ok
    <2>6. TheShift(ms).operation = "shift" /\ TheShift(ms).spec # "nil"
      BY DEF TheShift
    <2>7. x \in MP!Shift(TheShift(ms), d)
      BY Zenon, <2>4, <2>5, <2>6 DEF MP!Step
    <2>8. QED
      BY Zenon, <2>7, ShiftOutcome
  <1>7. ASSUME NEW k \in Nat, k \in T PROVE k + 1 \in T
    <2> SUFFICES ASSUME k + 1 <= n, NEW x \in MP!Transform(first \o U[k + 1], d), x.result = "ok"
                 PROVE  x.doc = Lays(k + 1)
      <3>1. k + 1 \in Nat
        OBVIOUS
      <3>2. QED
        BY Zenon, <3>1
    <2>1. k + 1 \in DOMAIN ms /\ k \in 0 .. n /\ k <= n /\ k + 1 - 1 = k
      BY <1>1
    <2>2. \A y \in MP!Transform(first \o U[k], d) : y.result = "ok" => y.doc = Lays(k)
      BY Zenon, <1>7, <2>1
    <2>3. U[k + 1] = Extended(ms, U[k], k + 1)
      BY <1>5
    <2> DEFINE m == ms[k + 1]
               t == MP!Transformation(m)
    <2>4. CASE ~MP!IsTransformed(m)
      <3>1. U[k + 1] = U[k]
        BY Zenon, <2>3, <2>4 DEF Extended
      <3>2. x.doc = Lays(k)
        BY Zenon, <2>2, <3>1
      <3>3. Lays(k) = Lays(k + 1)
        <4>1. \A i \in DOMAIN ms : Fields(ms, d, k)[i] = Fields(ms, d, k + 1)[i]
          BY <2>4, FieldsGrow
        <4>2. QED
          BY <4>1, SameLaid
      <3>4. QED
        BY Zenon, <3>2, <3>3
    <2>5. CASE MP!IsTransformed(m)
      <3>1. U[k + 1] = Append(U[k], t)
        BY Zenon, <2>3, <2>5 DEF Extended
      <3>2. t \in S
        BY Zenon, <2>1 DEF S, SpecOperations, Transformations
      <3>3. U[k] \in Seq(S)
        BY <1>3, <2>1
      <3> HIDE DEF t, first
      <3>4. first \o U[k] \in Seq(S)
        BY Zenon, <1>4, <3>3, ConcatProperties
      <3>5. first \o Append(U[k], t) = Append(first \o U[k], t)
        <4> DEFINE u == U[k]
        <4>1. u \in Seq(S)
          BY <3>3
        <4> HIDE DEF u
        <4>2. first \o Append(u, t) = Append(first \o u, t)
          BY <1>4, <3>2, <4>1
        <4>3. QED
          BY <4>2 DEF u
      <3>6. x \in MP!Then(MP!Transform(first \o U[k], d), t)
        <4>1. x \in MP!Transform(Append(first \o U[k], t), d)
          BY Zenon, <3>1, <3>5
        <4>2. MP!Transform(Append(first \o U[k], t), d) = MP!Then(MP!Transform(first \o U[k], d), t)
          BY Zenon, <3>2, <3>4, LastOutcomes
        <4>3. QED
          BY Zenon, <4>1, <4>2
      <3>7. PICK before \in MP!Transform(first \o U[k], d) :
               before.result = "ok" /\ x \in MP!Step(t, before.doc)
        BY Zenon, <3>6, ThenIs
      <3>8. before.doc = Lays(k)
        BY Zenon, <2>2, <3>7
      <3> DEFINE j == k + 1
      <3>a. j - 1 = k /\ m = ms[j] /\ j \in DOMAIN ms
        BY <2>1
      <3> HIDE DEF j, m
      <3>9. /\ j \in DOMAIN ms /\ MP!IsTransformed(ms[j])
            /\ x \in MP!Step(MP!Transformation(ms[j]), Laid(DOMAIN ms, Targets(ms), Fields(ms, d, j - 1)))
        BY Zenon, <2>5, <3>a, <3>7, <3>8 DEF t
      <3>10. x.doc = Laid(DOMAIN ms, Targets(ms), Fields(ms, d, j))
        BY <3>9, CustomOutcome
      <3>11. QED
        BY Zenon, <3>10 DEF j
    <2>6. QED
      BY Zenon, <2>4, <2>5
  <1>8. Nat \subseteq T
    <2> HIDE DEF T
    <2>1. QED
      BY <1>6, <1>7, SetInduction, Zenon
  <1>9. o.doc = Lays(n)
    <2>1. n \in T /\ n <= n
      BY <1>1, <1>8
    <2>2. QED
      BY Zenon, <1>2, <2>1
  <1>10. ASSUME NEW i \in DOMAIN ms
         PROVE  Placed(Targets(ms)[i], Fields(ms, d, n)[i])
                  = {MP!Under(ms[i].target, l) : l \in MP!Field(ms[i], d)}
    <2>1. i <= n
      BY <1>1
    <2>2. Targets(ms)[i] = ms[i].target /\ Fields(ms, d, n)[i] = MP!Field(ms[i], d)
      BY Zenon, <2>1 DEF Targets, Fields
    <2>3. QED
      BY Zenon, <2>2 DEF Placed
  <1>11. Lays(n) = MP!Meaning(ms, d)
    <2>1. ASSUME NEW x PROVE x \in Lays(n) <=> x \in MP!Meaning(ms, d)
      <3>1. x \in Lays(n) <=> \E i \in DOMAIN ms : x \in Placed(Targets(ms)[i], Fields(ms, d, n)[i])
        BY LaidIs
      <3>2. x \in MP!Meaning(ms, d)
              <=> \E i \in DOMAIN ms : x \in {MP!Under(ms[i].target, l) : l \in MP!Field(ms[i], d)}
        BY Zenon DEF MP!Meaning
      <3>3. QED
        BY Zenon, <1>10, <3>1, <3>2
    <2>2. QED
      BY Zenon, <2>1
  <1>12. QED
    BY Zenon, <1>9, <1>11

LEMMA SpecType ==
  ASSUME NEW ms \in Seq(MP!FieldMappings)
  PROVE  Len(MP!BuildKazaamSpec(ms)) \in Nat
  <1>1. CASE DOMAIN MP!ShiftSpec(ms) # {}
    <2>1. MP!BuildKazaamSpec(ms) \in Seq(SpecOperations(ms))
      BY <1>1, ShiftComesFirst
    <2>2. QED
      BY <2>1, LenProperties
  <1>2. CASE DOMAIN MP!ShiftSpec(ms) = {}
    <2>1. MP!BuildKazaamSpec(ms) = <<>> \o MP!TransformationsUpTo(ms)[Len(ms)]
      BY Zenon, <1>2 DEF MP!BuildKazaamSpec, MP!ShiftOperations
    <2>2. Len(ms) \in 0 .. Len(ms)
      OBVIOUS
    <2>3. MP!TransformationsUpTo(ms)[Len(ms)] \in Seq(Transformations(ms))
      BY <2>2, TransformationsType
    <2>4. MP!BuildKazaamSpec(ms) \in Seq(Transformations(ms))
      BY Zenon, <2>1, <2>3, ConcatEmptySeq
    <2>5. QED
      BY <2>4, LenProperties
  <1>3. QED
    BY <1>1, <1>2

-----------------------------------------------------------------------------
(* What runs on which document *)

\* What an ended stage has come to: one of the outcomes that its own
\* specification has on its own document, or the document as it was where the
\* node has nothing for the stage.
OwnOutcome ==
    \A e \in Runs : MP!Ended(e) =>
        IF MP!HasSpec(node[e], side[e])
        THEN out[e] \in MP!Transform(MP!SpecOf(node[e], side[e]), document[e])
        ELSE out[e] = MP!Ok(document[e])

\* The variables of executions are functions on them.
MapTypes ==
    /\ side = [e \in Runs |-> side[e]] /\ phase = [e \in Runs |-> phase[e]]
    /\ document = [e \in Runs |-> document[e]] /\ held = [e \in Runs |-> held[e]]
    /\ out = [e \in Runs |-> out[e]]

\* An entry is what its text says; a node that is running was validated; and
\* what a stage took from the cache, or compiled, is of its own node.
HeldIsOwn(e) ==
    /\ side[e] # "idle" => MP!ValidateNodeTransformations(node[e])
    /\ MP!InStage(e, "missed") \/ MP!InStage(e, "start") => MP!HasSpec(node[e], side[e])
    /\ MP!InStage(e, "compiled") =>
          MP!HasSpec(node[e], side[e]) /\ held[e].ops = MP!SpecOf(node[e], side[e])
MapInv ==
    /\ MapTypes
    /\ \A c \in compiled : c.ops = c.key
    /\ \A e \in Runs : HeldIsOwn(e)
    /\ OwnOutcome

LEMMA MapInit == ASSUME MP!Init PROVE MapInv
  <1>1. MapTypes
    BY Zenon DEF MP!Init, MapTypes
  <1>2. /\ compiled = {} /\ \A e \in Runs : side[e] = "idle"
    BY DEF MP!Init
  <1>3. QED
    BY <1>1, <1>2 DEF MapInv, HeldIsOwn, OwnOutcome, MP!InStage, MP!Ended

\* Whatever a stage runs was validated with its node.
LEMMA OwnCompiles ==
  ASSUME NEW n, NEW s, MP!ValidateNodeTransformations(n)
  PROVE  MP!Compiles(MP!SpecOf(n, s))
  BY Zenon DEF MP!ValidateNodeTransformations, MP!SpecOf

\* A step of one execution leaves what is known of the others.
LEMMA MapFrame ==
  ASSUME MapInv, MapTypes', NEW e \in Runs, UNCHANGED node,
         \A f \in Runs \ {e} :
            /\ side'[f] = side[f] /\ phase'[f] = phase[f] /\ document'[f] = document[f]
            /\ held'[f] = held[f] /\ out'[f] = out[f],
         \A c \in compiled' : c.ops = c.key,
         HeldIsOwn(e)',
         MP!Ended(e)' => IF MP!HasSpec(node[e], side'[e])
                         THEN out'[e] \in MP!Transform(MP!SpecOf(node[e], side'[e]), document'[e])
                         ELSE out'[e] = MP!Ok(document'[e])
  PROVE  MapInv'
  <1>1. ASSUME NEW f \in Runs \ {e}
        PROVE  HeldIsOwn(f)' /\ (MP!Ended(f)' =>
                 IF MP!HasSpec(node[f], side'[f])
                 THEN out'[f] \in MP!Transform(MP!SpecOf(node[f], side'[f]), document'[f])
                 ELSE out'[f] = MP!Ok(document'[f]))
    <2>1. HeldIsOwn(f) /\ (MP!Ended(f) =>
                 IF MP!HasSpec(node[f], side[f])
                 THEN out[f] \in MP!Transform(MP!SpecOf(node[f], side[f]), document[f])
                 ELSE out[f] = MP!Ok(document[f]))
      BY Zenon, <1>1 DEF MapInv, OwnOutcome
    <2>2. QED
      BY Zenon, <1>1, <2>1 DEF HeldIsOwn, MP!InStage, MP!Ended
  <1>2. \A f \in Runs : HeldIsOwn(f)'
    BY Zenon, <1>1
  <1>3. OwnOutcome'
    BY Zenon, <1>1 DEF OwnOutcome
  <1>4. QED
    BY Zenon, <1>2, <1>3 DEF MapInv

LEMMA MapEnter ==
  ASSUME MapInv, NEW e \in Runs, NEW s \in {"input", "output"}, NEW d,
         MP!ValidateNodeTransformations(node[e]), MP!Enter(e, s, d)
  PROVE  MapInv'
  <1>1. /\ UNCHANGED <<compiled, node>>
        /\ side' = [side EXCEPT ![e] = s] /\ document' = [document EXCEPT ![e] = d]
        /\ phase' = [phase EXCEPT ![e] = IF MP!HasSpec(node[e], s) THEN "start" ELSE "ended"]
        /\ out' = [out EXCEPT ![e] = IF MP!HasSpec(node[e], s) THEN MP!Fail("none") ELSE MP!Ok(d)]
        /\ held' = [held EXCEPT ![e] = MP!Nothing]
    BY Zenon DEF MP!Enter
  <1>2. /\ MapTypes' /\ side'[e] = s /\ document'[e] = d
        /\ phase'[e] = (IF MP!HasSpec(node[e], s) THEN "start" ELSE "ended")
        /\ out'[e] = (IF MP!HasSpec(node[e], s) THEN MP!Fail("none") ELSE MP!Ok(d))
        /\ \A f \in Runs \ {e} :
            /\ side'[f] = side[f] /\ phase'[f] = phase[f] /\ document'[f] = document[f]
            /\ held'[f] = held[f] /\ out'[f] = out[f]
    BY <1>1 DEF MapInv, MapTypes
  <1>3. HeldIsOwn(e)'
    BY <1>1, <1>2 DEF HeldIsOwn, MP!InStage
  <1>4. MP!Ended(e)' => ~MP!HasSpec(node[e], s)
    BY <1>2 DEF MP!Ended, MP!InStage
  <1>5. QED
    BY Zenon, <1>1, <1>2, <1>3, <1>4, MapFrame DEF MapInv

\* What is found under the text of a specification is that specification.
LEMMA MapTake ==
  ASSUME MapInv, NEW e \in Runs, MP!HasSpec(node[e], side[e]), side[e] # "idle",
         NEW c, c.ops = MP!SpecOf(node[e], side[e]), MP!Take(e, c),
         phase' = [phase EXCEPT ![e] = "compiled"], UNCHANGED <<node, side, document, out>>,
         \A x \in compiled' : x.ops = x.key
  PROVE  MapInv'
  <1>1. held' = [held EXCEPT ![e] = [id |-> c.id, ops |-> c.ops]]
    BY Zenon DEF MP!Take
  <1>2. /\ MapTypes' /\ phase'[e] = "compiled" /\ held'[e].ops = c.ops
        /\ \A f \in Runs \ {e} :
            /\ side'[f] = side[f] /\ phase'[f] = phase[f] /\ document'[f] = document[f]
            /\ held'[f] = held[f] /\ out'[f] = out[f]
    BY <1>1 DEF MapInv, MapTypes
  <1>3. HeldIsOwn(e)'
    BY <1>2 DEF HeldIsOwn, MapInv, MP!InStage
  <1>4. ~MP!Ended(e)'
    BY <1>2 DEF MP!Ended, MP!InStage
  <1>5. QED
    BY Zenon, <1>2, <1>3, <1>4, MapFrame

LEMMA MapFound ==
  ASSUME MapInv, NEW e \in Runs, NEW c \in MP!Cached(e)
  PROVE  c.ops = MP!SpecOf(node[e], side[e])
  BY Zenon DEF MapInv, MP!Cached, MP!KeyOf, MP!MySpec

LEMMA MapLookUp == ASSUME MapInv, NEW e \in Runs, MP!LookUp(e) PROVE MapInv'
  <1>1. /\ MP!HasSpec(node[e], side[e]) /\ side[e] # "idle"
        /\ UNCHANGED <<node, side, document, compiled, out>>
    BY Zenon DEF MapInv, HeldIsOwn, MP!LookUp, MP!InStage, MP!progress
  <1>2. CASE MP!Cached(e) = {}
    <2>1. phase' = [phase EXCEPT ![e] = "missed"] /\ UNCHANGED held
      BY Zenon, <1>2 DEF MP!LookUp
    <2>2. /\ MapTypes' /\ phase'[e] = "missed"
          /\ \A f \in Runs \ {e} : phase'[f] = phase[f]
      BY <1>1, <2>1 DEF MapInv, MapTypes
    <2>3. HeldIsOwn(e)' /\ ~MP!Ended(e)'
      BY <1>1, <2>2 DEF MapInv, HeldIsOwn, MP!Ended, MP!InStage
    <2>4. QED
      BY Zenon, <1>1, <2>1, <2>2, <2>3, MapFrame DEF MapInv
  <1>3. CASE MP!Cached(e) # {}
    <2>1. PICK c \in MP!Cached(e) : MP!Take(e, c)
      BY Zenon, <1>3 DEF MP!LookUp
    <2>2. phase' = [phase EXCEPT ![e] = "compiled"]
      BY Zenon, <1>3 DEF MP!LookUp
    <2>3. QED
      BY Zenon, <1>1, <2>1, <2>2, MapFound, MapTake DEF MapInv
  <1>4. QED
    BY <1>2, <1>3

\* The second look finds the own specification too, or nothing, and then it is
\* compiled: it was accepted with the node.
LEMMA MapCreate == ASSUME MapInv, NEW e \in Runs, MP!Create(e) PROVE MapInv'
  <1> DEFINE own == MP!SpecOf(node[e], side[e])
  <1>1. MP!HasSpec(node[e], side[e]) /\ side[e] # "idle" /\ MP!Compiles(own)
    <2>1. /\ MP!HasSpec(node[e], side[e]) /\ side[e] # "idle"
          /\ MP!ValidateNodeTransformations(node[e])
      BY Zenon DEF MapInv, HeldIsOwn, MP!Create, MP!InStage
    <2>2. QED
      BY Zenon, <2>1, OwnCompiles
  <1>2. CASE MP!Cached(e) # {}
    <2>1. /\ phase' = [phase EXCEPT ![e] = "compiled"]
          /\ UNCHANGED <<node, side, document, compiled, out>>
          /\ \E c \in MP!Cached(e) : MP!Take(e, c)
      BY Zenon, <1>2 DEF MP!Create, MP!progress
    <2>2. PICK c \in MP!Cached(e) : MP!Take(e, c)
      BY <2>1
    <2>3. QED
      BY Zenon, <1>1, <2>1, <2>2, MapFound, MapTake DEF MapInv
  <1>3. CASE MP!Cached(e) = {}
    <2>1. MP!Compile(e)
      BY Zenon, <1>1, <1>3 DEF MP!Create, MP!MySpec
    <2> DEFINE entry == [key |-> own, ops |-> own, id |-> instances + 1]
    <2>2. /\ compiled' = {c \in compiled : c.key # entry.key} \cup {entry}
          /\ MP!Take(e, entry) /\ phase' = [phase EXCEPT ![e] = "compiled"]
          /\ UNCHANGED <<node, side, document, out>>
      BY Zenon, <2>1 DEF MP!Compile, MP!KeyOf, MP!MySpec, MP!progress
    <2>3. entry.ops = own /\ entry.key = own
      OBVIOUS
    <2> HIDE DEF entry, own
    <2>4. \A x \in compiled' : x.ops = x.key
      BY Zenon, <2>2, <2>3 DEF MapInv
    <2>5. QED
      BY Zenon, <1>1, <2>2, <2>3, <2>4, MapTake DEF own
  <1>4. QED
    BY <1>2, <1>3

LEMMA MapApply == ASSUME MapInv, NEW e \in Runs, MP!Apply(e) PROVE MapInv'
  <1>1. /\ MP!HasSpec(node[e], side[e]) /\ side[e] # "idle"
        /\ MP!ValidateNodeTransformations(node[e])
        /\ held[e].ops = MP!SpecOf(node[e], side[e])
    BY Zenon DEF MapInv, HeldIsOwn, MP!Apply, MP!InStage
  <1>2. PICK o \in MP!Transform(held[e].ops, document[e]) : MP!End(e, o)
    BY Zenon DEF MP!Apply
  <1>3. /\ phase' = [phase EXCEPT ![e] = "ended"] /\ out' = [out EXCEPT ![e] = o]
        /\ UNCHANGED <<node, side, document, compiled, held>>
    BY Zenon, <1>2 DEF MP!End, MP!Apply, MP!progress
  <1>4. /\ MapTypes' /\ phase'[e] = "ended" /\ out'[e] = o
        /\ \A f \in Runs \ {e} : phase'[f] = phase[f] /\ out'[f] = out[f]
    BY <1>3 DEF MapInv, MapTypes
  <1>5. HeldIsOwn(e)'
    BY <1>1, <1>3, <1>4 DEF HeldIsOwn, MP!InStage
  <1>6. out'[e] \in MP!Transform(MP!SpecOf(node[e], side'[e]), document'[e])
    BY Zenon, <1>1, <1>2, <1>3, <1>4
  <1>7. QED
    BY Zenon, <1>1, <1>3, <1>4, <1>5, <1>6, MapFrame DEF MapInv

LEMMA MapNext == ASSUME MapInv, [MP!Next]_mappingVars PROVE MapInv'
  <1>1. CASE UNCHANGED mappingVars
    <2>1. UNCHANGED <<compiled, node, side, phase, document, held, out>>
      BY Zenon, <1>1 DEF mappingVars
    <2>2. QED
      BY Zenon, <2>1 DEF MapInv, MapTypes, HeldIsOwn, OwnOutcome, MP!InStage, MP!Ended
  <1>2. CASE MP!ClearCache
    <2>1. compiled' = {} /\ UNCHANGED <<node, side, phase, document, held, out>>
      BY Zenon, <1>2 DEF MP!ClearCache, MP!progress
    <2>2. QED
      BY Zenon, <2>1 DEF MapInv, MapTypes, HeldIsOwn, OwnOutcome, MP!InStage, MP!Ended
  <1>3. ASSUME NEW e \in Runs, MP!Begin(e) PROVE MapInv'
    <2>1. /\ MP!ValidateNodeTransformations(node[e])
          /\ \E d \in KnownContexts : MP!Enter(e, "input", d)
      BY Zenon, <1>3 DEF MP!Begin
    <2>2. QED
      BY <2>1, MapEnter
  <1>4. ASSUME NEW e \in Runs, MP!Answer(e) PROVE MapInv'
    <2>1. /\ side[e] = "input" /\ \E d \in KnownContexts : MP!Enter(e, "output", d)
      BY Zenon, <1>4 DEF MP!Answer
    <2>2. MP!ValidateNodeTransformations(node[e])
      BY <2>1 DEF MapInv, HeldIsOwn
    <2>3. QED
      BY <2>1, <2>2, MapEnter
  <1>5. QED
    BY Zenon, <1>1, <1>2, <1>3, <1>4, MapLookUp, MapCreate, MapApply DEF MP!Next

\* Whoever shares the cache, and whenever it is cleared: a stage of a saved node ends with
\* an outcome of its own specification on its own document, and is never refused because
\* the specification does not compile (service.go, Transform and getOrCreateKazaam;
\* workflow_validation.go).  What a specification does to a document is left open.
THEOREM StagesRunTheirOwn == PartsSpec => [](part \in {"mapping", "sharing"} => OwnOutcome)
  <1> DEFINE P == part \in {"mapping", "sharing"} => MapInv
  <1>1. PartsInit => P
    BY Zenon, MapInit DEF PartsInit
  <1>2. P /\ [PartsNext]_allVars => P'
    <2>1. ASSUME [PartsNext]_allVars
          PROVE  part' = part /\ (part \in {"mapping", "sharing"} => [MP!Next]_mappingVars)
      BY <2>1 DEF PartsNext, allVars, mappingVars, mappingVars
    <2>2. QED
      BY Zenon, <2>1, MapNext
  <1>3. P => (part \in {"mapping", "sharing"} => OwnOutcome)
    BY DEF MapInv
  <1>4. QED
    BY <1>1, <1>2, <1>3, PTL DEF PartsSpec



LEMMA KnownDocument ==
  ASSUME NEW d \in KnownContexts \cup {{}}
  PROVE  MP!IsDocument(d)
  <1>1. \A c \in KnownContexts : MP!IsDocument(c)
    BY Zenon, MappingAssumption
  <1>2. MP!IsDocument({})
    BY Zenon DEF MP!IsDocument
  <1>3. QED
    BY <1>1, <1>2

LEMMA KnownNode ==
  ASSUME NEW n \in KnownNodes
  PROVE  /\ n.input \in Seq(MP!FieldMappings) /\ n.output \in Seq(MP!FieldMappings)
         /\ Len(n.transforms) \in Nat
  <1>1. MP!IsNode(n)
    BY Zenon, MappingAssumption
  <1>2. QED
    BY <1>1 DEF MP!IsNode

LEMMA MapTypeInit == ASSUME MP!Init PROVE MP!TypeInv
  <1>1. compiled = {} /\ instances = 0 /\ clears = 0 /\ node \in [Runs -> KnownNodes]
    BY DEF MP!Init
  <1>2. side \in [Runs -> MP!Stages] /\ phase \in [Runs -> MP!Phases]
    BY DEF MP!Init, MP!Stages, MP!Phases
  <1>3. \A e \in Runs : document[e] = {} /\ held[e].id = 0 /\ phase[e] = "start"
    BY DEF MP!Init, MP!Nothing
  <1>4. 0 \in 0 .. MaxInstances /\ 0 \in 0 .. MaxClears /\ 0 \in 0 .. 0
    BY MappingAssumption
  <1>5. QED
    BY <1>1, <1>2, <1>3, <1>4 DEF MP!TypeInv

\* A step of one execution leaves the types of the others.
LEMMA MapTypeFrame ==
  ASSUME MP!TypeInv, NEW e \in Runs, MapTypes', UNCHANGED <<node, clears>>,
         instances' \in instances .. MaxInstances,
         \A c \in compiled' : c.id \in 1 .. instances' /\ MP!Compiles(c.ops),
         \A f \in Runs \ {e} :
            side'[f] = side[f] /\ phase'[f] = phase[f] /\ document'[f] = document[f] /\ held'[f] = held[f],
         side'[e] \in MP!Stages, phase'[e] \in MP!Phases, document'[e] \in KnownContexts \cup {{}},
         held'[e].id \in 0 .. instances', phase'[e] = "compiled" => held'[e].id > 0
  PROVE  MP!TypeInv'
  <1>1. instances \in Nat /\ instances' \in Nat /\ instances <= instances' /\ instances' \in 0 .. MaxInstances
    BY DEF MP!TypeInv
  <1>2. \A f \in Runs : side'[f] \in MP!Stages /\ phase'[f] \in MP!Phases
    BY Zenon DEF MP!TypeInv
  <1>3. side' \in [Runs -> MP!Stages] /\ phase' \in [Runs -> MP!Phases]
    BY <1>2 DEF MapTypes
  <1>4. \A f \in Runs : document'[f] \in KnownContexts \cup {{}} /\ (phase'[f] = "compiled" => held'[f].id > 0)
    BY Zenon DEF MP!TypeInv
  <1>5. \A f \in Runs : held'[f].id \in 0 .. instances'
    <2>1. \A f \in Runs : held[f].id \in 0 .. instances
      BY DEF MP!TypeInv
    <2>2. \A f \in Runs \ {e} : held'[f].id \in 0 .. instances'
      BY <1>1, <2>1
    <2>3. QED
      BY Zenon, <2>2
  <1>6. clears' \in 0 .. MaxClears /\ node' \in [Runs -> KnownNodes]
    BY Zenon DEF MP!TypeInv
  <1>7. QED
    BY Zenon, <1>1, <1>3, <1>4, <1>5, <1>6 DEF MP!TypeInv

\* Each phase of a stage is one that is known, and what it took has a number.
LEMMA MapTypeTake ==
  ASSUME MP!TypeInv, MapTypes, MapTypes', NEW e \in Runs, NEW c, c.id \in 1 .. instances', MP!Take(e, c),
         phase' = [phase EXCEPT ![e] = "compiled"], UNCHANGED <<node, side, document, clears>>,
         instances' \in instances .. MaxInstances,
         \A x \in compiled' : x.id \in 1 .. instances' /\ MP!Compiles(x.ops)
  PROVE  MP!TypeInv'
  <1>1. held' = [held EXCEPT ![e] = [id |-> c.id, ops |-> c.ops]]
    BY Zenon DEF MP!Take
  <1>2. /\ phase'[e] = "compiled" /\ held'[e].id = c.id
        /\ \A f \in Runs \ {e} : phase'[f] = phase[f] /\ held'[f] = held[f]
    BY <1>1 DEF MapTypes
  <1>3. c.id \in 0 .. instances' /\ c.id > 0 /\ phase'[e] \in MP!Phases
    BY <1>2 DEF MP!Phases
  <1>4. side[e] \in MP!Stages /\ document[e] \in KnownContexts \cup {{}}
    BY Zenon DEF MP!TypeInv
  <1>5. QED
    BY Zenon, <1>2, <1>3, <1>4, MapTypeFrame

\* A step that only moves a stage on, and takes nothing.
LEMMA MapTypeMove ==
  ASSUME MP!TypeInv, MapTypes, MapTypes', NEW e \in Runs, NEW p \in {"missed", "ended"},
         phase' = [phase EXCEPT ![e] = p],
         UNCHANGED <<node, side, document, clears, compiled, instances, held>>
  PROVE  MP!TypeInv'
  <1>1. phase'[e] = p /\ \A f \in Runs \ {e} : phase'[f] = phase[f]
    BY DEF MapTypes
  <1>2. phase'[e] \in MP!Phases /\ ~(phase'[e] = "compiled")
    BY <1>1 DEF MP!Phases
  <1>3. instances' \in instances .. MaxInstances
    BY MappingAssumption DEF MP!TypeInv
  <1>4. /\ side[e] \in MP!Stages /\ document[e] \in KnownContexts \cup {{}} /\ held[e].id \in 0 .. instances
        /\ \A c \in compiled : c.id \in 1 .. instances /\ MP!Compiles(c.ops)
    BY Zenon DEF MP!TypeInv
  <1>5. QED
    BY Zenon, <1>1, <1>2, <1>3, <1>4, MapTypeFrame

LEMMA MapTypeEnter ==
  ASSUME MP!TypeInv, MapTypes, MapTypes', NEW e \in Runs, NEW s \in {"input", "output"},
         NEW d \in KnownContexts, MP!Enter(e, s, d)
  PROVE  MP!TypeInv'
  <1>1. /\ UNCHANGED <<compiled, node, instances, clears>>
        /\ side' = [side EXCEPT ![e] = s] /\ document' = [document EXCEPT ![e] = d]
        /\ phase' = [phase EXCEPT ![e] = IF MP!HasSpec(node[e], s) THEN "start" ELSE "ended"]
        /\ held' = [held EXCEPT ![e] = MP!Nothing]
    BY Zenon DEF MP!Enter
  <1>2. /\ side'[e] = s /\ document'[e] = d /\ phase'[e] \in {"start", "ended"} /\ held'[e] = MP!Nothing
        /\ \A f \in Runs \ {e} :
              side'[f] = side[f] /\ phase'[f] = phase[f] /\ document'[f] = document[f] /\ held'[f] = held[f]
    BY <1>1 DEF MapTypes
  <1>3. /\ phase'[e] \in MP!Phases /\ ~(phase'[e] = "compiled") /\ side'[e] \in MP!Stages
        /\ document'[e] \in KnownContexts \cup {{}}
    BY <1>2 DEF MP!Phases, MP!Stages
  <1>4. instances' \in instances .. MaxInstances /\ held'[e].id \in 0 .. instances'
    BY <1>1, <1>2, MappingAssumption DEF MP!TypeInv, MP!Nothing
  <1>5. \A c \in compiled' : c.id \in 1 .. instances' /\ MP!Compiles(c.ops)
    BY Zenon, <1>1 DEF MP!TypeInv
  <1>6. QED
    BY Zenon, <1>1, <1>2, <1>3, <1>4, <1>5, MapTypeFrame

LEMMA MapTypeCompile ==
  ASSUME MP!TypeInv, MapTypes, MapTypes', NEW e \in Runs, MP!Compiles(MP!MySpec(e)), MP!Compile(e)
  PROVE  MP!TypeInv'
  <1> DEFINE entry == [key |-> MP!KeyOf(MP!MySpec(e)), ops |-> MP!MySpec(e), id |-> instances + 1]
  <1>1. /\ instances < MaxInstances /\ instances' = instances + 1
        /\ compiled' = {c \in compiled : c.key # entry.key} \cup {entry}
        /\ MP!Take(e, entry) /\ phase' = [phase EXCEPT ![e] = "compiled"]
        /\ UNCHANGED <<node, side, document, clears>>
    BY Zenon DEF MP!Compile, MP!progress
  <1>2. entry.ops = MP!MySpec(e) /\ entry.id = instances + 1
    OBVIOUS
  <1>3. instances \in Nat /\ instances' \in instances .. MaxInstances /\ entry.id \in 1 .. instances'
    BY <1>1, <1>2, MappingAssumption DEF MP!TypeInv
  <1> HIDE DEF entry
  <1>4. ASSUME NEW x \in compiled' PROVE x.id \in 1 .. instances' /\ MP!Compiles(x.ops)
    <2>1. CASE x = entry
      BY Zenon, <1>2, <1>3, <2>1
    <2>2. CASE x \in compiled
      <3>1. x.id \in 1 .. instances /\ MP!Compiles(x.ops)
        BY Zenon, <2>2 DEF MP!TypeInv
      <3>2. QED
        BY <1>1, <1>3, <3>1
    <2>3. QED
      BY Zenon, <1>1, <2>1, <2>2
  <1>5. QED
    BY Zenon, <1>1, <1>3, <1>4, MapTypeTake

LEMMA MapTypeFound ==
  ASSUME MP!TypeInv, MapTypes, MapTypes', NEW e \in Runs, NEW c \in MP!Cached(e), MP!Take(e, c),
         phase' = [phase EXCEPT ![e] = "compiled"],
         UNCHANGED <<node, side, document, clears, compiled, instances>>
  PROVE  MP!TypeInv'
  <1>1. \A x \in compiled : x.id \in 1 .. instances /\ MP!Compiles(x.ops)
    BY Zenon DEF MP!TypeInv
  <1>2. c \in compiled
    BY Zenon DEF MP!Cached
  <1>3. instances' \in instances .. MaxInstances
    BY MappingAssumption DEF MP!TypeInv
  <1>4. QED
    BY Zenon, <1>1, <1>2, <1>3, MapTypeTake

LEMMA MapTypeNext ==
  ASSUME MP!TypeInv, MapInv, MapInv', [MP!Next]_mappingVars
  PROVE  MP!TypeInv'
  <1>0. MapTypes /\ MapTypes'
    BY Zenon DEF MapInv
  <1>1. CASE UNCHANGED mappingVars
    <2>1. UNCHANGED <<compiled, instances, clears, node, side, phase, document, held>>
      BY Zenon, <1>1 DEF mappingVars
    <2>2. QED
      BY Zenon, <2>1 DEF MP!TypeInv
  <1>2. CASE MP!ClearCache
    <2>1. /\ clears < MaxClears /\ compiled' = {} /\ clears' = clears + 1
          /\ UNCHANGED <<instances, node, side, phase, document, held>>
      BY Zenon, <1>2 DEF MP!ClearCache, MP!progress
    <2>2. clears' \in 0 .. MaxClears
      BY <2>1, MappingAssumption DEF MP!TypeInv
    <2>3. QED
      BY Zenon, <2>1, <2>2 DEF MP!TypeInv
  <1>3. ASSUME NEW e \in Runs, MP!Begin(e) PROVE MP!TypeInv'
    <2>1. \E d \in KnownContexts : MP!Enter(e, "input", d)
      BY Zenon, <1>3 DEF MP!Begin
    <2>2. QED
      BY <1>0, <2>1, MapTypeEnter
  <1>4. ASSUME NEW e \in Runs, MP!Answer(e) PROVE MP!TypeInv'
    <2>1. \E d \in KnownContexts : MP!Enter(e, "output", d)
      BY Zenon, <1>4 DEF MP!Answer
    <2>2. QED
      BY <1>0, <2>1, MapTypeEnter
  <1>5. ASSUME NEW e \in Runs, MP!LookUp(e) PROVE MP!TypeInv'
    <2>1. UNCHANGED <<node, side, document, clears, compiled, instances>>
      BY Zenon, <1>5 DEF MP!LookUp, MP!progress
    <2>2. CASE MP!Cached(e) = {}
      <3>1. phase' = [phase EXCEPT ![e] = "missed"] /\ UNCHANGED held
        BY Zenon, <1>5, <2>2 DEF MP!LookUp
      <3>2. QED
        BY Zenon, <1>0, <2>1, <3>1, MapTypeMove
    <2>3. CASE MP!Cached(e) # {}
      <3>1. phase' = [phase EXCEPT ![e] = "compiled"] /\ \E c \in MP!Cached(e) : MP!Take(e, c)
        BY Zenon, <1>5, <2>3 DEF MP!LookUp
      <3>2. PICK c \in MP!Cached(e) : MP!Take(e, c)
        BY <3>1
      <3>3. QED
        BY Zenon, <1>0, <2>1, <3>1, <3>2, MapTypeFound
    <2>4. QED
      BY <2>2, <2>3
  <1>6. ASSUME NEW e \in Runs, MP!Create(e) PROVE MP!TypeInv'
    <2>1. CASE MP!Cached(e) # {}
      <3>1. /\ phase' = [phase EXCEPT ![e] = "compiled"] /\ \E c \in MP!Cached(e) : MP!Take(e, c)
            /\ UNCHANGED <<node, side, document, clears, compiled, instances>>
        BY Zenon, <1>6, <2>1 DEF MP!Create, MP!progress
      <3>2. PICK c \in MP!Cached(e) : MP!Take(e, c)
        BY <3>1
      <3>3. QED
        BY Zenon, <1>0, <3>1, <3>2, MapTypeFound
    <2>2. CASE MP!Cached(e) = {} /\ MP!Compiles(MP!MySpec(e))
      BY Zenon, <1>0, <1>6, <2>2, MapTypeCompile DEF MP!Create
    <2>3. CASE MP!Cached(e) = {} /\ ~MP!Compiles(MP!MySpec(e))
      <3>1. /\ phase' = [phase EXCEPT ![e] = "ended"]
            /\ UNCHANGED <<node, side, document, clears, compiled, instances, held>>
        BY Zenon, <1>6, <2>3 DEF MP!Create, MP!End, MP!progress
      <3>2. QED
        BY Zenon, <1>0, <3>1, MapTypeMove
    <2>4. QED
      BY Zenon, <2>1, <2>2, <2>3
  <1>7. ASSUME NEW e \in Runs, MP!Apply(e) PROVE MP!TypeInv'
    <2>1. /\ phase' = [phase EXCEPT ![e] = "ended"]
          /\ UNCHANGED <<node, side, document, clears, compiled, instances, held>>
      BY Zenon, <1>7 DEF MP!Apply, MP!End, MP!progress
    <2>2. QED
      BY Zenon, <1>0, <2>1, MapTypeMove
  <1>8. QED
    BY Zenon, <1>1, <1>2, <1>3, <1>4, <1>5, <1>6, <1>7 DEF MP!Next

\* What an ended stage comes to follows from what its own specification does to its document.
LEMMA EndedStages ==
  ASSUME MP!TypeInv, OwnOutcome
  PROVE  MP!MappedAsMeant /\ MP!RequiredIsThere /\ MP!AcceptedCompiles
  <1> SUFFICES ASSUME NEW e \in Runs, MP!Ended(e)
               PROVE  /\ out[e].result # "invalid"
                      /\ out[e].result = "ok" /\ MP!Clean(MP!Mappings(e))
                           => out[e].doc = MP!Meaning(MP!Mappings(e), document[e])
                      /\ out[e].result = "ok" =>
                           \A i \in DOMAIN MP!Mappings(e) :
                             (/\ MP!Mappings(e)[i].required /\ MP!IsMoved(MP!Mappings(e)[i])
                              /\ ~\E j \in i + 1 .. Len(MP!Mappings(e)) :
                                    MP!Mappings(e)[j].target = MP!Mappings(e)[i].target)
                               => MP!Present(MP!Mappings(e)[i], document[e])
    BY Zenon DEF MP!MappedAsMeant, MP!RequiredIsThere, MP!AcceptedCompiles
  <1> DEFINE ms == MP!Mappings(e)
             n == node[e]
             d == document[e]
             s == side[e]
  <1>1. /\ n \in KnownNodes /\ d \in KnownContexts \cup {{}} /\ s \in MP!Stages /\ s # "idle"
    BY Zenon DEF MP!TypeInv, MP!Ended, MP!InStage
  <1>2. /\ n.input \in Seq(MP!FieldMappings) /\ n.output \in Seq(MP!FieldMappings)
        /\ Len(n.transforms) \in Nat
    BY Zenon, <1>1, KnownNode
  <1>3. MP!IsDocument(d)
    BY <1>1, KnownDocument
  <1>4. s \in {"input", "output"}
    BY <1>1 DEF MP!Stages
  <1>5. ms = IF s = "input" THEN n.input ELSE n.output
    BY Zenon DEF MP!Mappings
  <1>6. ms \in Seq(MP!FieldMappings)
    BY Zenon, <1>2, <1>5
  <1>7. ms # <<>> => MP!HasSpec(n, s) /\ MP!SpecOf(n, s) = MP!BuildKazaamSpec(ms)
    <2>1. CASE s = "input"
      <3>1. s # "output"
        BY <2>1
      <3>2. QED
        BY Zenon, <1>5, <2>1, <3>1 DEF MP!HasSpec, MP!SpecOf
    <2>2. CASE s = "output"
      <3>1. s # "input"
        BY <2>2
      <3>2. QED
        BY Zenon, <1>5, <2>2, <3>1 DEF MP!HasSpec, MP!SpecOf
    <2>3. QED
      BY Zenon, <1>4, <2>1, <2>2
  <1>8. IF MP!HasSpec(n, s) THEN out[e] \in MP!Transform(MP!SpecOf(n, s), d) ELSE out[e] = MP!Ok(d)
    BY Zenon DEF OwnOutcome
  <1>9. ms # <<>> => out[e] \in MP!Transform(MP!BuildKazaamSpec(ms), d)
    BY Zenon, <1>7, <1>8
  <1>10. out[e].result # "invalid"
    <2>1. CASE ~MP!HasSpec(n, s)
      <3>1. out[e] = MP!Ok(d)
        BY <1>8, <2>1
      <3>2. QED
        BY <3>1 DEF MP!Ok
    <2>2. CASE MP!HasSpec(n, s)
      <3>1. Len(MP!SpecOf(n, s)) \in Nat
        BY Zenon, <1>2, SpecType DEF MP!SpecOf
      <3>2. out[e].result \in Results
        BY Zenon, <1>8, <2>2, <3>1, TransformResults
      <3>3. QED
        BY <3>2 DEF Results
    <2>3. QED
      BY <2>1, <2>2
  <1> HIDE DEF ms, d, n, s
  <1>11. out[e].result = "ok" /\ MP!Clean(ms) => out[e].doc = MP!Meaning(ms, d)
    <2>1. MP!Clean(ms) => ms # <<>>
      BY Zenon DEF MP!Clean
    <2>2. QED
      BY <1>3, <1>6, <1>9, <2>1, MappedOutcome
  <1>12. ASSUME out[e].result = "ok", NEW i \in DOMAIN ms, ms[i].required, MP!IsMoved(ms[i]),
                ~\E j \in i + 1 .. Len(ms) : ms[j].target = ms[i].target
         PROVE  MP!Present(ms[i], d)
    <2>1. ms # <<>>
      BY <1>12
    <2>2. \A j \in i + 1 .. Len(ms) : ms[j].target # ms[i].target
      BY Zenon, <1>12
    <2>3. QED
      BY <1>6, <1>9, <1>12, <2>1, <2>2, RequiredPresent
  <1>13. QED
    BY Zenon, <1>10, <1>11, <1>12 DEF ms, d

\* The data that goes through executor nodes is what their mappings mean, whatever the nodes,
\* the documents and the executions that share the cache: each target gets what its own
\* mapping says, no stage completes without a required field, and what was accepted compiles
\* (mapper.go, service.go, workflow_validation.go).
THEOREM MappingHolds ==
  PartsSpec => [](part \in {"mapping", "sharing"} =>
                    MP!TypeInv /\ MP!MappedAsMeant /\ MP!RequiredIsThere /\ MP!AcceptedCompiles)
  <1> DEFINE P == part \in {"mapping", "sharing"} => MP!TypeInv /\ MapInv
  <1>1. PartsInit => P
    BY Zenon, MapInit, MapTypeInit DEF PartsInit
  <1>2. P /\ [PartsNext]_allVars => P'
    <2>1. ASSUME [PartsNext]_allVars
          PROVE  part' = part /\ (part \in {"mapping", "sharing"} => [MP!Next]_mappingVars)
      BY <2>1 DEF PartsNext, allVars, mappingVars
    <2>2. QED
      BY Zenon, <2>1, MapNext, MapTypeNext
  <1>3. P => (part \in {"mapping", "sharing"} =>
                MP!TypeInv /\ MP!MappedAsMeant /\ MP!RequiredIsThere /\ MP!AcceptedCompiles)
    BY Zenon, EndedStages DEF MapInv
  <1> HIDE DEF P
  <1>4. QED
    BY <1>1, <1>2, <1>3, PTL DEF PartsSpec

-----------------------------------------------------------------------------
(* Expressions: what the evaluator reads of a text *)

\* A text is read one word at a time.
ReadsBySteps(e, w, f) ==
  f = [i \in 0 .. Len(e) |-> IF i = 0 THEN [parts |-> <<>>, begin |-> 1] ELSE CD!Cut(e, w, i, f[i - 1])]

\* What the recursive functions of Conditions are, one step at a time.
LEMMA SplitIs ==
  ASSUME NEW e, NEW w, Len(e) \in Nat
  PROVE  ReadsBySteps(e, w, CD!SplitUpTo(e, w))
  <1> DEFINE Step(x, i) == CD!Cut(e, w, i, x)
             Is(k, f) == f = [i \in 0 .. k |-> IF i = 0 THEN [parts |-> <<>>, begin |-> 1] ELSE Step(f[i - 1], i)]
             T == {k \in Nat : \E f : Is(k, f)}
  <1>1. 0 \in T
    <2> DEFINE g == [i \in 0 .. 0 |-> [parts |-> <<>>, begin |-> 1]]
    <2>1. Is(0, g)
      OBVIOUS
    <2>2. QED
      BY <2>1, Zenon
  <1>2. ASSUME NEW k \in Nat, k \in T PROVE k + 1 \in T
    <2>1. PICK f : Is(k, f)
      BY <1>2
    <2> HIDE DEF Step
    <2> DEFINE g == [i \in 0 .. k + 1 |-> IF i <= k THEN f[i] ELSE Step(f[k], k + 1)]
    <2>2. \A i \in 0 .. k : f[i] = IF i = 0 THEN [parts |-> <<>>, begin |-> 1] ELSE Step(f[i - 1], i)
      BY Zenon, <2>1
    <2>3. f[0] = [parts |-> <<>>, begin |-> 1] /\ \A i \in 1 .. k : f[i] = Step(f[i - 1], i)
      BY <2>2
    <2>4. (\A i \in 0 .. k : g[i] = f[i]) /\ g[k + 1] = Step(f[k], k + 1)
      OBVIOUS
    <2>5. ASSUME NEW i \in 0 .. k + 1
          PROVE  g[i] = IF i = 0 THEN [parts |-> <<>>, begin |-> 1] ELSE Step(g[i - 1], i)
      <3> HIDE DEF g
      <3>1. CASE i = 0
        BY <2>3, <2>4, <3>1
      <3>2. CASE i \in 1 .. k
        <4>1. g[i] = f[i] /\ g[i - 1] = f[i - 1]
          BY <2>4, <3>2
        <4>2. QED
          BY <2>3, <3>2, <4>1
      <3>3. CASE i = k + 1
        <4>1. g[i - 1] = f[k] /\ i # 0
          BY <2>4, <3>3
        <4>2. QED
          BY <2>4, <3>3, <4>1
      <3>4. QED
        BY <3>1, <3>2, <3>3
    <2>6. Is(k + 1, g)
      BY <2>5, Zenon
    <2>7. k + 1 \in Nat
      OBVIOUS
    <2>8. QED
      BY <2>6, <2>7, Zenon
  <1>3. Nat \subseteq T
    <2> HIDE DEF T
    <2>1. QED
      BY <1>1, <1>2, SetInduction, Zenon
  <1>4. \E f : Is(Len(e), f)
    BY <1>3
  <1>5. QED
    BY <1>4, Zenon DEF CD!SplitUpTo, ReadsBySteps

LEMMA WrittenIs ==
  ASSUME NEW f, Len(f) \in Nat
  PROVE  CD!TextUpTo(f) =
           [i \in 0 .. Len(f) |->
              IF i = 0 THEN <<>> ELSE CD!TextUpTo(f)[i - 1] \o CD!Written(f[i])]
  <1> DEFINE Step(x, i) == x \o CD!Written(f[i])
             Is(k, h) == h = [i \in 0 .. k |-> IF i = 0 THEN <<>> ELSE Step(h[i - 1], i)]
             T == {k \in Nat : \E h : Is(k, h)}
  <1>1. 0 \in T
    <2> DEFINE g == [i \in 0 .. 0 |-> <<>>]
    <2>1. Is(0, g)
      OBVIOUS
    <2>2. QED
      BY <2>1, Zenon
  <1>2. ASSUME NEW k \in Nat, k \in T PROVE k + 1 \in T
    <2>1. PICK h : Is(k, h)
      BY <1>2
    <2> HIDE DEF Step
    <2> DEFINE g == [i \in 0 .. k + 1 |-> IF i <= k THEN h[i] ELSE Step(h[k], k + 1)]
    <2>2. \A i \in 0 .. k : h[i] = IF i = 0 THEN <<>> ELSE Step(h[i - 1], i)
      BY Zenon, <2>1
    <2>3. h[0] = <<>> /\ \A i \in 1 .. k : h[i] = Step(h[i - 1], i)
      BY <2>2
    <2>4. (\A i \in 0 .. k : g[i] = h[i]) /\ g[k + 1] = Step(h[k], k + 1)
      OBVIOUS
    <2>5. ASSUME NEW i \in 0 .. k + 1
          PROVE  g[i] = IF i = 0 THEN <<>> ELSE Step(g[i - 1], i)
      <3> HIDE DEF g
      <3>1. CASE i = 0
        BY <2>3, <2>4, <3>1
      <3>2. CASE i \in 1 .. k
        <4>1. g[i] = h[i] /\ g[i - 1] = h[i - 1]
          BY <2>4, <3>2
        <4>2. QED
          BY <2>3, <3>2, <4>1
      <3>3. CASE i = k + 1
        <4>1. g[i - 1] = h[k] /\ i # 0
          BY <2>4, <3>3
        <4>2. QED
          BY <2>4, <3>3, <4>1
      <3>4. QED
        BY <3>1, <3>2, <3>3
    <2>6. Is(k + 1, g)
      BY <2>5, Zenon
    <2>7. k + 1 \in Nat
      OBVIOUS
    <2>8. QED
      BY <2>6, <2>7, Zenon
  <1>3. Nat \subseteq T
    <2> HIDE DEF T
    <2>1. QED
      BY <1>1, <1>2, SetInduction, Zenon
  <1>4. \E h : Is(Len(f), h)
    BY <1>3
  <1>5. QED
    BY <1>4, Zenon DEF CD!TextUpTo

Read(e, w, k) == CD!SplitUpTo(e, w)[k]
\* What a text is made of.
Words == STRING \cup CD!Comparisons \cup CD!Logical
Texts == Seq(Words)

\* A part of a text, word by word.
LEMMA PartIs ==
  ASSUME NEW e \in Texts, NEW a \in 1 .. Len(e), NEW k \in 0 .. Len(e)
  PROVE  /\ SubSeq(e, a, k) \in Texts
         /\ Len(SubSeq(e, a, k)) = IF a <= k THEN k - a + 1 ELSE 0
         /\ \A i \in 1 .. k - a + 1 : SubSeq(e, a, k)[i] = e[a + i - 1]
  <1>1. a \in Int /\ k \in Int /\ \A i \in a .. k : e[i] \in Words
    BY DEF Texts
  <1>2. QED
    BY <1>1, SubSeqProperties DEF Texts

\* Texts that agree have the same parts.
LEMMA SamePart ==
  ASSUME NEW e \in Texts, NEW h \in Texts, NEW a \in 1 .. Len(e), NEW k \in 0 .. Len(e),
         Len(e) <= Len(h), \A i \in 1 .. Len(e) : h[i] = e[i]
  PROVE  SubSeq(h, a, k) = SubSeq(e, a, k)
  <1>1. Len(e) \in Nat /\ Len(h) \in Nat
    BY DEF Texts
  <1>2. a \in 1 .. Len(h) /\ k \in 0 .. Len(h)
    BY <1>1
  <1> DEFINE x == SubSeq(h, a, k)
             y == SubSeq(e, a, k)
  <1>3. /\ x \in Texts /\ y \in Texts
        /\ Len(x) = IF a <= k THEN k - a + 1 ELSE 0
        /\ Len(y) = IF a <= k THEN k - a + 1 ELSE 0
        /\ \A i \in 1 .. k - a + 1 : x[i] = h[a + i - 1] /\ y[i] = e[a + i - 1]
    BY <1>2, PartIs, Zenon
  <1> HIDE DEF x, y
  <1>4. \A i \in 1 .. k - a + 1 : a + i - 1 \in 1 .. Len(e)
    BY <1>1
  <1>5. \A i \in 1 .. Len(x) : x[i] = y[i]
    <2>1. 1 .. Len(x) \subseteq 1 .. k - a + 1
      BY <1>3
    <2>2. QED
      BY <1>3, <1>4, <2>1, Zenon
  <1>6. x = y
    BY <1>3, <1>5, SeqEqual, Zenon DEF Texts
  <1>7. QED
    BY <1>6 DEF x, y

\* One word is read at a time.
LEMMA ReadAt ==
  ASSUME NEW e \in Texts, NEW w
  PROVE  /\ Read(e, w, 0) = [parts |-> <<>>, begin |-> 1]
         /\ \A k \in 1 .. Len(e) : Read(e, w, k) = CD!Cut(e, w, k, Read(e, w, k - 1))
  <1>1. Len(e) \in Nat
    BY DEF Texts
  <1>2. ReadsBySteps(e, w, CD!SplitUpTo(e, w))
    BY <1>1, SplitIs, Zenon
  <1>3. 0 \in 0 .. Len(e)
    BY <1>1
  <1>4. \A k \in 1 .. Len(e) : k \in 0 .. Len(e) /\ k # 0
    BY <1>1
  <1> DEFINE f == CD!SplitUpTo(e, w)
  <1>5. \A i \in 0 .. Len(e) :
          f[i] = IF i = 0 THEN [parts |-> <<>>, begin |-> 1] ELSE CD!Cut(e, w, i, f[i - 1])
    BY <1>2, Zenon DEF ReadsBySteps
  <1> HIDE DEF f
  <1>6. QED
    BY <1>3, <1>4, <1>5, Zenon DEF Read, f

\* What has been read of a text is its parts so far, the last of which is not empty.
LEMMA ReadType ==
  ASSUME NEW e \in Texts, e # <<>>, NEW w
  PROVE  \A k \in 0 .. Len(e) :
           /\ Read(e, w, k).begin \in 1 .. Len(e)
           /\ Read(e, w, k).parts \in Seq(Texts)
  <1> DEFINE T == {k \in Nat : k <= Len(e) => /\ Read(e, w, k).begin \in 1 .. Len(e)
                                             /\ Read(e, w, k).parts \in Seq(Texts)}
  <1>0. Len(e) \in Nat /\ Len(e) > 0
    BY EmptySeq DEF Texts
  <1>1. 0 \in T
    <2>1. <<>> \in Seq(Texts)
      OBVIOUS
    <2>2. Read(e, w, 0) = [parts |-> <<>>, begin |-> 1]
      BY ReadAt, Zenon
    <2>3. Read(e, w, 0).parts = <<>> /\ Read(e, w, 0).begin = 1
      BY <2>2
    <2>4. 1 \in 1 .. Len(e) /\ 0 \in Nat
      BY <1>0
    <2>5. QED
      BY <2>1, <2>3, <2>4, Zenon
  <1>2. ASSUME NEW k \in Nat, k \in T PROVE k + 1 \in T
    <2> SUFFICES ASSUME k + 1 <= Len(e)
                 PROVE  /\ Read(e, w, k + 1).begin \in 1 .. Len(e)
                        /\ Read(e, w, k + 1).parts \in Seq(Texts)
      OBVIOUS
    <2> DEFINE r == Read(e, w, k)
    <2>1. r.begin \in 1 .. Len(e) /\ r.parts \in Seq(Texts)
      BY <1>0, <1>2
    <2>2. k + 1 \in 1 .. Len(e) /\ (k + 1) - 1 = k
      BY <1>0
    <2>3. Read(e, w, k + 1) = CD!Cut(e, w, k + 1, r)
      <3>1. Read(e, w, k + 1) = CD!Cut(e, w, k + 1, Read(e, w, (k + 1) - 1))
        BY <2>2, ReadAt, Zenon
      <3>2. QED
        BY <2>2, <3>1, Zenon
    <2> HIDE DEF r
    <2>4. SubSeq(e, r.begin, k) \in Texts
      <3>1. k \in 0 .. Len(e)
        BY <1>0, <2>2
      <3>2. QED
        BY <2>1, <3>1, PartIs, Zenon
    <2>5. Append(r.parts, SubSeq(e, r.begin, k)) \in Seq(Texts)
      BY <2>1, <2>4, AppendProperties, Zenon
    <2>6. CASE e[k + 1] = w /\ r.begin < k + 1 /\ k + 1 < Len(e)
      <3>1. Read(e, w, k + 1) = [parts |-> Append(r.parts, SubSeq(e, r.begin, k)), begin |-> k + 2]
        BY <2>2, <2>3, <2>6 DEF CD!Cut
      <3>2. k + 2 \in 1 .. Len(e)
        BY <1>0, <2>6
      <3>3. /\ Read(e, w, k + 1).parts = Append(r.parts, SubSeq(e, r.begin, k))
            /\ Read(e, w, k + 1).begin = k + 2
        BY <3>1
      <3>4. QED
        BY <2>5, <3>2, <3>3, Zenon
    <2>7. CASE ~(e[k + 1] = w /\ r.begin < k + 1 /\ k + 1 < Len(e))
      <3>1. Read(e, w, k + 1) = r
        BY <2>3, <2>7 DEF CD!Cut
      <3>2. QED
        BY <2>1, <3>1
    <2>8. QED
      BY <2>6, <2>7
  <1>3. Nat \subseteq T
    <2> HIDE DEF T
    <2>1. QED
      BY <1>1, <1>2, SetInduction, Zenon
  <1>4. QED
    BY <1>0, <1>3

\* What is read of a text is read of a longer one.
LEMMA ReadPrefix ==
  ASSUME NEW e \in Texts, e # <<>>, NEW w, e[Len(e)] # w,
         NEW h \in Texts, Len(e) <= Len(h), \A i \in 1 .. Len(e) : h[i] = e[i]
  PROVE  \A k \in 0 .. Len(e) : Read(h, w, k) = Read(e, w, k)
  <1> DEFINE T == {k \in Nat : k <= Len(e) => Read(h, w, k) = Read(e, w, k)}
  <1>0. Len(e) \in Nat /\ Len(e) > 0 /\ Len(h) \in Nat
    BY EmptySeq DEF Texts
  <1>1. 0 \in T
    BY ReadAt
  <1>2. ASSUME NEW k \in Nat, k \in T PROVE k + 1 \in T
    <2> SUFFICES ASSUME k + 1 <= Len(e)
                 PROVE  Read(h, w, k + 1) = Read(e, w, k + 1)
      OBVIOUS
    <2> DEFINE r == Read(e, w, k)
    <2>1. r.begin \in 1 .. Len(e) /\ Read(h, w, k) = r /\ k \in 0 .. Len(e)
      BY <1>0, <1>2, ReadType
    <2>2. k + 1 \in 1 .. Len(e) /\ k + 1 \in 1 .. Len(h) /\ (k + 1) - 1 = k
      BY <1>0
    <2>3. Read(e, w, k + 1) = CD!Cut(e, w, k + 1, r)
      <3>1. Read(e, w, k + 1) = CD!Cut(e, w, k + 1, Read(e, w, (k + 1) - 1))
        BY <2>2, ReadAt, Zenon
      <3>2. QED
        BY <2>2, <3>1, Zenon
    <2>4. Read(h, w, k + 1) = CD!Cut(h, w, k + 1, r)
      <3>1. Read(h, w, k + 1) = CD!Cut(h, w, k + 1, Read(h, w, (k + 1) - 1))
        BY <2>2, ReadAt, Zenon
      <3>2. QED
        BY <2>1, <2>2, <3>1, Zenon
    <2> HIDE DEF r
    <2>5. SubSeq(h, r.begin, k) = SubSeq(e, r.begin, k)
      BY <2>1, SamePart, Zenon
    <2>6. h[k + 1] = e[k + 1]
      BY <2>2
    <2>7. (e[k + 1] = w /\ k + 1 < Len(e)) <=> (h[k + 1] = w /\ k + 1 < Len(h))
      BY <1>0, <2>2, <2>6
    <2>8. CASE e[k + 1] = w /\ r.begin < k + 1 /\ k + 1 < Len(e)
      BY <2>2, <2>3, <2>4, <2>5, <2>7, <2>8, Zenon DEF CD!Cut
    <2>9. CASE ~(e[k + 1] = w /\ r.begin < k + 1 /\ k + 1 < Len(e))
      BY <2>2, <2>3, <2>4, <2>7, <2>9, Zenon DEF CD!Cut
    <2>10. QED
      BY <2>8, <2>9
  <1>3. Nat \subseteq T
    <2> HIDE DEF T
    <2>1. QED
      BY <1>1, <1>2, SetInduction, Zenon
  <1>4. QED
    BY <1>0, <1>3

\* Where the word does not occur, nothing is cut.
LEMMA ReadStays ==
  ASSUME NEW e \in Texts, NEW w, NEW a \in 0 .. Len(e), \A i \in (a + 1) .. Len(e) : e[i] # w
  PROVE  Read(e, w, Len(e)) = Read(e, w, a)
  <1> DEFINE T == {k \in Nat : a <= k /\ k <= Len(e) => Read(e, w, k) = Read(e, w, a)}
  <1>0. Len(e) \in Nat
    BY DEF Texts
  <1>1. 0 \in T
    BY <1>0
  <1>2. ASSUME NEW k \in Nat, k \in T PROVE k + 1 \in T
    <2> SUFFICES ASSUME a <= k + 1, k + 1 <= Len(e)
                 PROVE  Read(e, w, k + 1) = Read(e, w, a)
      OBVIOUS
    <2>1. CASE a = k + 1
      BY <2>1
    <2>2. CASE a <= k
      <3>1. Read(e, w, k) = Read(e, w, a)
        BY <1>0, <1>2, <2>2
      <3>2. k + 1 \in 1 .. Len(e) /\ (k + 1) - 1 = k /\ e[k + 1] # w
        BY <1>0, <2>2
      <3>3. Read(e, w, k + 1) = CD!Cut(e, w, k + 1, Read(e, w, k))
        <4>1. Read(e, w, k + 1) = CD!Cut(e, w, k + 1, Read(e, w, (k + 1) - 1))
          BY <3>2, ReadAt, Zenon
        <4>2. QED
          BY <3>2, <4>1, Zenon
      <3>4. QED
        BY <3>1, <3>2, <3>3 DEF CD!Cut
    <2>3. QED
      BY <1>0, <2>1, <2>2
  <1>3. Nat \subseteq T
    <2> HIDE DEF T
    <2>1. QED
      BY <1>1, <1>2, SetInduction, Zenon
  <1>4. QED
    BY <1>0, <1>3

\* The parts of a text but the last, and the last.
FrontOf(e, w) == Read(e, w, Len(e)).parts
LastOf(e, w) == SubSeq(e, Read(e, w, Len(e)).begin, Len(e))
Body(u) == SubSeq(u, 2, Len(u))

\* A text has a last part, which ends it.
LEMMA SplitParts ==
  ASSUME NEW e \in Texts, e # <<>>, NEW w
  PROVE  /\ CD!SplitLogical(e, w) = Append(FrontOf(e, w), LastOf(e, w))
         /\ FrontOf(e, w) \in Seq(Texts) /\ LastOf(e, w) \in Texts
         /\ LastOf(e, w) # <<>> /\ LastOf(e, w)[Len(LastOf(e, w))] = e[Len(e)]
  <1>0. Len(e) \in Nat /\ Len(e) > 0
    BY EmptySeq DEF Texts
  <1> DEFINE r == Read(e, w, Len(e))
             y == SubSeq(e, r.begin, Len(e))
  <1>1. r.begin \in 1 .. Len(e) /\ r.parts \in Seq(Texts)
    <2>1. Len(e) \in 0 .. Len(e)
      BY <1>0
    <2>2. QED
      BY <2>1, ReadType, Zenon
  <1>2. CD!SplitLogical(e, w) = Append(r.parts, y)
    BY Zenon DEF CD!SplitLogical, Read
  <1> HIDE DEF r
  <1>3. /\ y \in Texts /\ Len(y) = Len(e) - r.begin + 1
        /\ \A i \in 1 .. Len(e) - r.begin + 1 : y[i] = e[r.begin + i - 1]
    <2>1. Len(e) \in 0 .. Len(e) /\ r.begin <= Len(e)
      BY <1>0, <1>1
    <2>2. QED
      BY <1>1, <2>1, PartIs, Zenon
  <1> HIDE DEF y
  <1>4. Len(y) \in 1 .. Len(e) - r.begin + 1 /\ r.begin + Len(y) - 1 = Len(e) /\ Len(y) > 0
    BY <1>0, <1>1, <1>3
  <1>5. y[Len(y)] = e[Len(e)]
    BY <1>3, <1>4, Zenon
  <1>6. y # <<>>
    BY <1>4
  <1>7. QED
    BY <1>1, <1>2, <1>3, <1>5, <1>6, Zenon DEF FrontOf, LastOf, r, y

\* A text without the word is its only part.
LEMMA SplitWhole ==
  ASSUME NEW b \in Texts, NEW w, \A i \in 1 .. Len(b) : b[i] # w
  PROVE  FrontOf(b, w) = <<>> /\ LastOf(b, w) = b
  <1>0. Len(b) \in Nat
    BY DEF Texts
  <1>1. Read(b, w, Len(b)) = [parts |-> <<>>, begin |-> 1]
    <2>1. 0 \in 0 .. Len(b) /\ \A i \in (0 + 1) .. Len(b) : b[i] # w
      BY <1>0
    <2>2. Read(b, w, Len(b)) = Read(b, w, 0)
      BY <2>1, ReadStays, Zenon
    <2>3. QED
      BY <2>2, ReadAt, Zenon
  <1>2. SubSeq(b, 1, Len(b)) = b
    BY DEF Texts
  <1>3. Read(b, w, Len(b)).parts = <<>> /\ Read(b, w, Len(b)).begin = 1
    BY <1>1
  <1>4. QED
    BY <1>2, <1>3, Zenon DEF FrontOf, LastOf

\* The parts of a text: those that are closed, and the last.
Parts(e, w, front, last) == FrontOf(e, w) = front /\ LastOf(e, w) = last

\* A text grows by a word and what follows it.
LEMMA SplitGrows ==
  ASSUME NEW t \in Texts, t # <<>>, NEW w, t[Len(t)] # w,
         NEW u \in Texts, Len(u) > 1, \A i \in 2 .. Len(u) : u[i] # w
  PROVE  /\ u[1] = w => Parts(t \o u, w, Append(FrontOf(t, w), LastOf(t, w)), Body(u))
         /\ u[1] # w => Parts(t \o u, w, FrontOf(t, w), LastOf(t, w) \o u)
  <1> DEFINE h == t \o u
             n == Len(t)
             m == Len(u)
             r == Read(t, w, n)
  <1>0. n \in Nat /\ n > 0 /\ m \in Nat
    BY EmptySeq DEF Texts
  <1>1. /\ h \in Texts /\ Len(h) = n + m
        /\ \A i \in 1 .. n + m : h[i] = IF i <= n THEN t[i] ELSE u[i - n]
    BY ConcatProperties, Zenon DEF Texts
  <1> HIDE DEF h, n, m
  <1>2. /\ \A i \in 1 .. n : h[i] = t[i]
        /\ \A i \in 1 .. m : h[n + i] = u[i]
    BY <1>0, <1>1
  <1>3. r.begin \in 1 .. n /\ r.parts \in Seq(Texts)
    <2>1. n \in 0 .. n
      BY <1>0
    <2>2. QED
      BY <2>1, ReadType, Zenon DEF n
  <1>4. Read(h, w, n) = r
    <2>1. n \in 0 .. n /\ n <= Len(h)
      BY <1>0, <1>1
    <2>2. QED
      BY <1>1, <1>2, <2>1, ReadPrefix, Zenon DEF n
  <1> HIDE DEF r
  <1>5. Read(h, w, n + 1) = CD!Cut(h, w, n + 1, r)
    <2>1. n + 1 \in 1 .. Len(h) /\ (n + 1) - 1 = n
      BY <1>0, <1>1 DEF m
    <2>2. Read(h, w, n + 1) = CD!Cut(h, w, n + 1, Read(h, w, (n + 1) - 1))
      BY <1>1, <2>1, ReadAt, Zenon
    <2>3. QED
      BY <1>4, <2>1, <2>2, Zenon
  <1>6. Read(h, w, Len(h)) = Read(h, w, n + 1)
    <2>1. n + 1 \in 0 .. Len(h)
      BY <1>0, <1>1 DEF m
    <2>2. ASSUME NEW i \in ((n + 1) + 1) .. Len(h) PROVE h[i] # w
      <3>1. i \in 1 .. n + m /\ ~(i <= n) /\ i - n \in 2 .. m
        BY <1>0, <1>1
      <3>2. QED
        BY <1>1, <3>1 DEF m
    <2>3. QED
      BY <1>1, <2>1, <2>2, ReadStays, Zenon
  <1>7. h[n + 1] = u[1] /\ n + 1 < Len(h) /\ (n + 1) - 1 = n /\ r.begin < n + 1
    BY <1>0, <1>1, <1>2, <1>3 DEF m
  <1>8. SubSeq(h, r.begin, n) = SubSeq(t, r.begin, n)
    <2>1. n \in 0 .. n /\ n <= Len(h)
      BY <1>0, <1>1
    <2>2. QED
      BY <1>1, <1>2, <1>3, <2>1, SamePart, Zenon DEF n
  <1>9. CASE u[1] = w
    <2>1. Read(h, w, n + 1) = [parts |-> Append(r.parts, SubSeq(h, r.begin, n)), begin |-> (n + 1) + 1]
      BY <1>5, <1>7, <1>9, Zenon DEF CD!Cut
    <2>2. /\ Read(h, w, Len(h)).parts = Append(r.parts, SubSeq(t, r.begin, n))
          /\ Read(h, w, Len(h)).begin = (n + 1) + 1
      BY <1>6, <1>8, <2>1
    <2>3. SubSeq(h, (n + 1) + 1, Len(h)) = Body(u)
      <3> DEFINE a == (n + 1) + 1
                 x == SubSeq(h, a, Len(h))
                 y == SubSeq(u, 2, m)
      <3>1. a \in 1 .. Len(h) /\ Len(h) \in 0 .. Len(h) /\ a <= Len(h) /\ 2 \in 1 .. m /\ m \in 0 .. m /\ 2 <= m
        BY <1>0, <1>1 DEF m
      <3> HIDE DEF a
      <3>2. /\ x \in Texts /\ Len(x) = Len(h) - a + 1
            /\ \A i \in 1 .. Len(h) - a + 1 : x[i] = h[a + i - 1]
        BY <1>1, <3>1, PartIs, Zenon
      <3>3. /\ y \in Texts /\ Len(y) = m - 2 + 1
            /\ \A i \in 1 .. m - 2 + 1 : y[i] = u[2 + i - 1]
        BY <3>1, PartIs, Zenon DEF m
      <3> HIDE DEF x, y
      <3>4. Len(x) = Len(y)
        BY <1>0, <1>1, <3>2, <3>3 DEF a
      <3>5. ASSUME NEW i \in 1 .. Len(x) PROVE x[i] = y[i]
        <4>1. i \in 1 .. Len(h) - a + 1 /\ i \in 1 .. m - 2 + 1
          BY <1>0, <1>1, <3>2, <3>3, <3>4 DEF a
        <4>2. a + i - 1 = n + (2 + i - 1) /\ 2 + i - 1 \in 1 .. m
          BY <1>0, <4>1 DEF a
        <4>3. QED
          BY <1>2, <3>2, <3>3, <4>1, <4>2, Zenon
      <3>6. x = y
        BY <3>2, <3>3, <3>4, <3>5, SeqEqual, Zenon DEF Texts
      <3>7. QED
        BY <3>6 DEF x, y, a, Body, m
    <2>4. QED
      BY <1>9, <2>2, <2>3, Zenon DEF Parts, FrontOf, LastOf, h, n, r
  <1>10. CASE u[1] # w
    <2>1. Read(h, w, Len(h)) = r
      BY <1>5, <1>6, <1>7, <1>10, Zenon DEF CD!Cut
    <2>2. SubSeq(h, r.begin, Len(h)) = SubSeq(t, r.begin, n) \o u
      <3> DEFINE a == r.begin
                 x == SubSeq(h, a, Len(h))
                 y == SubSeq(t, a, n)
                 z == y \o u
      <3>1. a \in 1 .. Len(h) /\ Len(h) \in 0 .. Len(h) /\ a <= Len(h) /\ a \in 1 .. n /\ n \in 0 .. n /\ a <= n
        BY <1>0, <1>1, <1>3
      <3> HIDE DEF a
      <3>2. /\ x \in Texts /\ Len(x) = Len(h) - a + 1
            /\ \A i \in 1 .. Len(h) - a + 1 : x[i] = h[a + i - 1]
        BY <1>1, <3>1, PartIs, Zenon
      <3>3. /\ y \in Texts /\ Len(y) = n - a + 1
            /\ \A i \in 1 .. n - a + 1 : y[i] = t[a + i - 1]
        BY <3>1, PartIs, Zenon DEF n
      <3> HIDE DEF x, y
      <3>4. /\ z \in Texts /\ Len(z) = Len(y) + m
            /\ \A i \in 1 .. Len(y) + m : z[i] = IF i <= Len(y) THEN y[i] ELSE u[i - Len(y)]
        BY <3>3, ConcatProperties, Zenon DEF Texts, m
      <3> HIDE DEF z
      <3>5. Len(x) = Len(z) /\ Len(y) \in Nat
        BY <1>0, <1>1, <3>1, <3>2, <3>3, <3>4
      <3>6. ASSUME NEW i \in 1 .. Len(x) PROVE x[i] = z[i]
        <4>1. x[i] = h[a + i - 1] /\ i \in 1 .. Len(y) + m
          BY <3>2, <3>4, <3>5
        <4>2. CASE i <= Len(y)
          <5>1. a + i - 1 \in 1 .. n /\ i \in 1 .. n - a + 1
            BY <1>0, <3>1, <3>3, <4>2
          <5>2. QED
            BY <1>2, <3>3, <3>4, <4>1, <4>2, <5>1, Zenon
        <4>3. CASE ~(i <= Len(y))
          <5>1. i - Len(y) \in 1 .. m /\ a + i - 1 = n + (i - Len(y))
            BY <1>0, <3>1, <3>3, <4>1, <4>3
          <5>2. QED
            BY <1>2, <3>4, <4>1, <4>3, <5>1, Zenon
        <4>4. QED
          BY <4>2, <4>3
      <3>7. x = z
        BY <3>2, <3>4, <3>5, <3>6, SeqEqual, Zenon DEF Texts
      <3>8. QED
        BY <3>7 DEF x, y, z, a
    <2>3. QED
      BY <1>10, <2>1, <2>2, Zenon DEF Parts, FrontOf, LastOf, h, n, r
  <1>11. QED
    BY <1>9, <1>10

\* A set of numbers has a least one, and CHOOSE finds it.
LEMMA LeastIs ==
  ASSUME NEW S \in SUBSET Nat, S # {}
  PROVE  \E x \in S : \A y \in S : x <= y
  <1> SUFFICES ASSUME \A x \in S : \E y \in S : ~(x <= y) PROVE FALSE
    OBVIOUS
  <1> DEFINE T == {k \in Nat : \A i \in 0 .. k : i \notin S}
  <1>1. 0 \in T
    OBVIOUS
  <1>2. ASSUME NEW k \in Nat, k \in T PROVE k + 1 \in T
    <2>1. k + 1 \notin S
      BY <1>2
    <2>2. \A i \in 0 .. k + 1 : i \in 0 .. k \/ i = k + 1
      OBVIOUS
    <2>3. QED
      BY <1>2, <2>1, <2>2
  <1>3. Nat \subseteq T
    <2> HIDE DEF T
    <2>1. QED
      BY <1>1, <1>2, SetInduction, Zenon
  <1>4. PICK x \in S : TRUE
    OBVIOUS
  <1>5. x \in T /\ x \in 0 .. x
    BY <1>3
  <1>6. QED
    BY <1>4, <1>5

\* The least number is the one chosen.
LEMMA LeastChosen ==
  ASSUME NEW S \in SUBSET Nat, NEW x \in S, \A y \in S : x <= y
  PROVE  (CHOOSE z \in S : \A y \in S : z <= y) = x
  <1> DEFINE c == CHOOSE z \in S : \A y \in S : z <= y
  <1>1. c \in S /\ \A y \in S : c <= y
    BY Zenon
  <1> HIDE DEF c
  <1>2. c <= x /\ x <= c /\ c \in Nat /\ x \in Nat
    BY <1>1
  <1>3. c = x
    BY <1>2
  <1>4. QED
    BY <1>3 DEF c

\* The first result that is not neutral, if one is not.
IsFirstNot(v, r, x) ==
  \/ x = v /\ \A i \in 1 .. Len(r) : r[i] = v
  \/ \E i \in 1 .. Len(r) : r[i] # v /\ x = r[i] /\ \A j \in 1 .. i - 1 : r[j] = v

\* FirstNot returns it.
LEMMA FirstNotIs ==
  ASSUME NEW S, NEW r \in Seq(S), NEW v
  PROVE  IsFirstNot(v, r, CD!FirstNot(v, r))
  <1> DEFINE I == {i \in 1 .. Len(r) : r[i] # v}
             at == CD!SelectInSeq(r, LAMBDA x : x # v)
  <1>1. at = IF I # {} THEN CHOOSE x \in I : \A y \in I : x =< y ELSE 0
    BY Zenon DEF CD!SelectInSeq, CD!Min
  <1>2. CD!FirstNot(v, r) = IF at = 0 THEN v ELSE r[at]
    BY Zenon DEF CD!FirstNot
  <1> HIDE DEF at
  <1>3. Len(r) \in Nat
    OBVIOUS
  <1>4. CASE I = {}
    <2>1. CD!FirstNot(v, r) = v /\ \A i \in 1 .. Len(r) : r[i] = v
      BY <1>1, <1>2, <1>4
    <2>2. QED
      BY <2>1, Zenon DEF IsFirstNot
  <1>5. CASE I # {}
    <2>1. I \in SUBSET Nat
      BY <1>3
    <2> HIDE DEF I
    <2>2. PICK x \in I : \A y \in I : x <= y
      BY <1>5, <2>1, LeastIs, Zenon
    <2>3. (CHOOSE z \in I : \A y \in I : z <= y) = x
      BY <2>1, <2>2, LeastChosen, Zenon
    <2>4. at = x
      BY <1>1, <1>5, <2>3
    <2>5. x \in 1 .. Len(r) /\ r[x] # v /\ x # 0
      BY <1>3 DEF I
    <2>6. ASSUME NEW j \in 1 .. x - 1 PROVE r[j] = v
      <3>1. j \in 1 .. Len(r) /\ ~(x <= j)
        BY <1>3, <2>5
      <3>2. QED
        BY <2>2, <3>1 DEF I
    <2>7. CD!FirstNot(v, r) = r[x]
      BY <1>2, <2>4, <2>5
    <2>8. QED
      BY <2>5, <2>6, <2>7, Zenon DEF IsFirstNot
  <1>6. QED
    BY <1>4, <1>5

\* x, unless it is neutral: then y.
Otherwise(v, x, y) == IF x # v THEN x ELSE y

\* With a result more, it is returned if those before are neutral.
LEMMA FirstNotGrows ==
  ASSUME NEW S, NEW q \in Seq(S), NEW r \in Seq(S), Len(r) = Len(q) + 1,
         \A i \in 1 .. Len(q) : r[i] = q[i], NEW v
  PROVE  CD!FirstNot(v, r) = Otherwise(v, CD!FirstNot(v, q), r[Len(r)])
  <1> DEFINE n == Len(q)
             x == CD!FirstNot(v, q)
             y == CD!FirstNot(v, r)
  <1>1. n \in Nat /\ Len(r) = n + 1
    OBVIOUS
  <1>a. IsFirstNot(v, q, x) /\ IsFirstNot(v, r, y)
    BY FirstNotIs, Zenon
  <1> HIDE DEF x, y
  <1>2. \/ x = v /\ \A i \in 1 .. n : q[i] = v
        \/ \E i \in 1 .. n : q[i] # v /\ x = q[i] /\ \A j \in 1 .. i - 1 : q[j] = v
    BY <1>a, Zenon DEF IsFirstNot, n
  <1>3. \/ y = v /\ \A i \in 1 .. Len(r) : r[i] = v
        \/ \E i \in 1 .. Len(r) : r[i] # v /\ y = r[i] /\ \A j \in 1 .. i - 1 : r[j] = v
    BY <1>a, Zenon DEF IsFirstNot, n
  <1> HIDE DEF n
  <1>4. \A i \in 1 .. n : r[i] = q[i]
    BY DEF n
  <1>5. CASE x = v /\ \A i \in 1 .. n : q[i] = v
    <2>1. \A i \in 1 .. n : r[i] = v
      BY <1>4, <1>5
    <2>2. CASE y = v /\ \A i \in 1 .. Len(r) : r[i] = v
      <3>1. n + 1 \in 1 .. Len(r)
        BY <1>1
      <3>2. r[n + 1] = v
        BY <2>2, <3>1
      <3>3. y = IF x # v THEN x ELSE r[n + 1]
        BY <1>5, <2>2, <3>2, Zenon
      <3>4. QED
        BY <1>1, <3>3, Zenon DEF x, y, Otherwise
    <2>3. CASE \E i \in 1 .. Len(r) : r[i] # v /\ y = r[i] /\ \A j \in 1 .. i - 1 : r[j] = v
      <3>1. PICK i \in 1 .. Len(r) : r[i] # v /\ y = r[i]
        BY <2>3
      <3>2. i \in 1 .. n \/ i = n + 1
        BY <1>1
      <3>3. i = n + 1
        BY <2>1, <3>1, <3>2, Zenon
      <3>4. y = IF x # v THEN x ELSE r[n + 1]
        BY <1>5, <3>1, <3>3, Zenon
      <3>5. QED
        BY <1>1, <3>4, Zenon DEF x, y, Otherwise
    <2>4. QED
      BY <1>3, <2>2, <2>3, Zenon
  <1>6. CASE \E i \in 1 .. n : q[i] # v /\ x = q[i] /\ \A j \in 1 .. i - 1 : q[j] = v
    <2>1. PICK i \in 1 .. n : q[i] # v /\ x = q[i] /\ \A j \in 1 .. i - 1 : q[j] = v
      BY <1>6
    <2>2. i \in 1 .. Len(r) /\ r[i] # v /\ x = r[i] /\ x # v
      BY <1>1, <1>4, <2>1
    <2>3. PICK k \in 1 .. Len(r) : r[k] # v /\ y = r[k] /\ \A j \in 1 .. k - 1 : r[j] = v
      BY <1>3, <2>2, Zenon
    <2>4. ~(k < i)
      <3> SUFFICES ASSUME k < i PROVE FALSE
        OBVIOUS
      <3>1. k \in 1 .. i - 1 /\ k \in 1 .. n
        BY <1>1
      <3>2. q[k] = v /\ r[k] = q[k]
        BY <1>4, <2>1, <3>1, Zenon
      <3>3. QED
        BY <2>3, <3>2, Zenon
    <2>5. ~(i < k)
      <3> SUFFICES ASSUME i < k PROVE FALSE
        OBVIOUS
      <3>1. i \in 1 .. k - 1
        BY <1>1
      <3>2. QED
        BY <2>2, <2>3, <3>1, Zenon
    <2>6. k = i
      BY <1>1, <2>4, <2>5
    <2>7. y = x
      BY <2>2, <2>3, <2>6, Zenon
    <2>8. QED
      BY <2>2, <2>7, Zenon DEF x, y, Otherwise
  <1>7. QED
    BY <1>2, <1>5, <1>6, Zenon

\* What evaluateAnd and evaluateOr make of the parts.
AndOf(P) == CD!FirstNot("true", [i \in DOMAIN P |-> CD!EvaluateComparison(P[i])])
OrOf(P) == CD!FirstNot("false", [i \in DOMAIN P |-> CD!EvaluateAnd(P[i])])

\* A part more in evaluateAnd, and in evaluateOr.
LEMMA AndParts ==
  ASSUME NEW P \in Seq(Texts), NEW b \in Texts
  PROVE  AndOf(Append(P, b)) = Otherwise("true", AndOf(P), CD!EvaluateComparison(b))
  <1> DEFINE S == {CD!EvaluateComparison(x) : x \in Texts}
             Q == Append(P, b)
             q == [i \in DOMAIN P |-> CD!EvaluateComparison(P[i])]
             r == [i \in DOMAIN Q |-> CD!EvaluateComparison(Q[i])]
             n == Len(P)
  <1>1. n \in Nat /\ DOMAIN P = 1 .. n /\ \A i \in 1 .. n : P[i] \in Texts
    BY LenProperties, ElementOfSeq, Zenon
  <1>2. /\ Q \in Seq(Texts) /\ Len(Q) = n + 1 /\ \A i \in 1 .. n : Q[i] = P[i]
        /\ Q[n + 1] = b
    BY AppendProperties
  <1> HIDE DEF Q
  <1>3. DOMAIN Q = 1 .. n + 1 /\ \A i \in 1 .. n + 1 : Q[i] \in Texts
    BY <1>2, LenProperties, ElementOfSeq, Zenon
  <1>4. q \in [1 .. n -> S] /\ r \in [1 .. n + 1 -> S]
    BY <1>1, <1>3, Zenon
  <1>5. n + 1 \in Nat
    BY <1>1
  <1>6. /\ \A i \in 1 .. n : q[i] = CD!EvaluateComparison(P[i])
        /\ \A i \in 1 .. n + 1 : r[i] = CD!EvaluateComparison(Q[i])
    BY <1>1, <1>3, Zenon
  <1>7. AndOf(P) = CD!FirstNot("true", q) /\ AndOf(Q) = CD!FirstNot("true", r)
    BY Zenon DEF AndOf
  <1> HIDE DEF S, q, r, n
  <1>8. q \in Seq(S) /\ Len(q) = n /\ r \in Seq(S) /\ Len(r) = n + 1
    BY <1>1, <1>4, <1>5
  <1>9. 1 .. n \subseteq 1 .. n + 1 /\ n + 1 \in 1 .. n + 1
    BY <1>1
  <1>10. \A i \in 1 .. Len(q) : r[i] = q[i]
    BY <1>2, <1>6, <1>8, <1>9, Zenon
  <1>11. CD!FirstNot("true", r) =
           Otherwise("true", CD!FirstNot("true", q), r[Len(r)])
    <2>1. Len(r) = Len(q) + 1
      BY <1>8
    <2>2. QED
      BY <1>8, <1>10, <2>1, FirstNotGrows, Zenon
  <1>12. r[Len(r)] = CD!EvaluateComparison(b)
    BY <1>2, <1>6, <1>8, <1>9, Zenon
  <1>13. QED
    BY <1>7, <1>11, <1>12, Zenon DEF Q

LEMMA OrParts ==
  ASSUME NEW P \in Seq(Texts), NEW b \in Texts
  PROVE  OrOf(Append(P, b)) = Otherwise("false", OrOf(P), CD!EvaluateAnd(b))
  <1> DEFINE S == {CD!EvaluateAnd(x) : x \in Texts}
             Q == Append(P, b)
             q == [i \in DOMAIN P |-> CD!EvaluateAnd(P[i])]
             r == [i \in DOMAIN Q |-> CD!EvaluateAnd(Q[i])]
             n == Len(P)
  <1>1. n \in Nat /\ DOMAIN P = 1 .. n /\ \A i \in 1 .. n : P[i] \in Texts
    BY LenProperties, ElementOfSeq, Zenon
  <1>2. /\ Q \in Seq(Texts) /\ Len(Q) = n + 1 /\ \A i \in 1 .. n : Q[i] = P[i]
        /\ Q[n + 1] = b
    BY AppendProperties
  <1> HIDE DEF Q
  <1>3. DOMAIN Q = 1 .. n + 1 /\ \A i \in 1 .. n + 1 : Q[i] \in Texts
    BY <1>2, LenProperties, ElementOfSeq, Zenon
  <1>4. q \in [1 .. n -> S] /\ r \in [1 .. n + 1 -> S]
    BY <1>1, <1>3, Zenon
  <1>5. n + 1 \in Nat
    BY <1>1
  <1>6. /\ \A i \in 1 .. n : q[i] = CD!EvaluateAnd(P[i])
        /\ \A i \in 1 .. n + 1 : r[i] = CD!EvaluateAnd(Q[i])
    BY <1>1, <1>3, Zenon
  <1>7. OrOf(P) = CD!FirstNot("false", q) /\ OrOf(Q) = CD!FirstNot("false", r)
    BY Zenon DEF OrOf
  <1> HIDE DEF S, q, r, n
  <1>8. q \in Seq(S) /\ Len(q) = n /\ r \in Seq(S) /\ Len(r) = n + 1
    BY <1>1, <1>4, <1>5
  <1>9. 1 .. n \subseteq 1 .. n + 1 /\ n + 1 \in 1 .. n + 1
    BY <1>1
  <1>10. \A i \in 1 .. Len(q) : r[i] = q[i]
    BY <1>2, <1>6, <1>8, <1>9, Zenon
  <1>11. CD!FirstNot("false", r) =
           Otherwise("false", CD!FirstNot("false", q), r[Len(r)])
    <2>1. Len(r) = Len(q) + 1
      BY <1>8
    <2>2. QED
      BY <1>8, <1>10, <2>1, FirstNotGrows, Zenon
  <1>12. r[Len(r)] = CD!EvaluateAnd(b)
    BY <1>2, <1>6, <1>8, <1>9, Zenon
  <1>13. QED
    BY <1>7, <1>11, <1>12, Zenon DEF Q

\* Where there are no parts, nothing is decided.
LEMMA NoParts == AndOf(<<>>) = "true" /\ OrOf(<<>>) = "false"
  <1> DEFINE q == [i \in DOMAIN (<<>>) |-> CD!EvaluateComparison((<<>>)[i])]
             r == [i \in DOMAIN (<<>>) |-> CD!EvaluateAnd((<<>>)[i])]
  <1>1. q = <<>> /\ r = <<>>
    OBVIOUS
  <1>2. AndOf(<<>>) = CD!FirstNot("true", q) /\ OrOf(<<>>) = CD!FirstNot("false", r)
    BY Zenon DEF AndOf, OrOf
  <1> HIDE DEF q, r
  <1>3. <<>> \in Seq(Nat) /\ Len(<<>>) = 0
    OBVIOUS
  <1>4. /\ IsFirstNot("true", <<>>, CD!FirstNot("true", <<>>))
        /\ IsFirstNot("false", <<>>, CD!FirstNot("false", <<>>))
    BY <1>3, FirstNotIs, Zenon
  <1>5. \A v, x : IsFirstNot(v, <<>>, x) => x = v
    BY DEF IsFirstNot
  <1>6. QED
    BY <1>1, <1>2, <1>4, <1>5, Zenon

\* What the runs of an expression but the last have decided, and what the last run is.
Decided(e) == OrOf(FrontOf(e, "OR"))
LastRun(e) == CD!EvaluateAnd(LastOf(e, "OR"))
NoLogicalWord(u) == \A i \in 1 .. Len(u) : u[i] \notin CD!Logical

\* evaluateOr ends with the last run, evaluateAnd with the last comparison.
LEMMA EvaluateOrIs ==
  ASSUME NEW e \in Texts, e # <<>>
  PROVE  CD!EvaluateOr(e) = Otherwise("false", Decided(e), LastRun(e))
  <1>1. CD!EvaluateOr(e) = OrOf(CD!SplitLogical(e, "OR"))
    BY Zenon DEF CD!EvaluateOr, OrOf
  <1>2. /\ CD!SplitLogical(e, "OR") = Append(FrontOf(e, "OR"), LastOf(e, "OR"))
        /\ FrontOf(e, "OR") \in Seq(Texts) /\ LastOf(e, "OR") \in Texts
    BY SplitParts, Zenon
  <1>3. QED
    BY <1>1, <1>2, OrParts, Zenon DEF Decided, LastRun

LEMMA EvaluateAndIs ==
  ASSUME NEW e \in Texts, e # <<>>
  PROVE  /\ CD!EvaluateAnd(e) = AndOf(CD!SplitLogical(e, "AND"))
         /\ CD!SplitLogical(e, "AND") = Append(FrontOf(e, "AND"), LastOf(e, "AND"))
         /\ FrontOf(e, "AND") \in Seq(Texts) /\ LastOf(e, "AND") \in Texts
  <1>1. CD!EvaluateAnd(e) = AndOf(CD!SplitLogical(e, "AND"))
    BY Zenon DEF CD!EvaluateAnd, AndOf
  <1>2. QED
    BY <1>1, SplitParts, Zenon

\* An expression without a logical word is one comparison.
LEMMA OneComparison ==
  ASSUME NEW b \in Texts, b # <<>>, NoLogicalWord(b)
  PROVE  /\ CD!EvaluateAnd(b) = CD!EvaluateComparison(b)
         /\ Decided(b) = "false" /\ LastRun(b) = CD!EvaluateComparison(b)
  <1>1. /\ \A i \in 1 .. Len(b) : b[i] # "AND"
        /\ \A i \in 1 .. Len(b) : b[i] # "OR"
    BY DEF NoLogicalWord, CD!Logical
  <1>2. /\ FrontOf(b, "AND") = <<>> /\ LastOf(b, "AND") = b
        /\ FrontOf(b, "OR") = <<>> /\ LastOf(b, "OR") = b
    BY <1>1, SplitWhole, Zenon
  <1>3. CD!EvaluateAnd(b) = AndOf(Append(<<>>, b)) /\ <<>> \in Seq(Texts)
    BY <1>2, EvaluateAndIs, Zenon
  <1>4. CD!EvaluateAnd(b) = CD!EvaluateComparison(b)
    BY <1>3, AndParts, NoParts, Zenon DEF Otherwise
  <1>5. QED
    BY <1>2, <1>4, NoParts, Zenon DEF Decided, LastRun

\* A comparison after AND is evaluated if those of its run are true.
LEMMA AndGrows ==
  ASSUME NEW t \in Texts, t # <<>>, t[Len(t)] # "AND",
         NEW u \in Texts, Len(u) > 1, u[1] = "AND", \A i \in 2 .. Len(u) : u[i] # "AND",
         Body(u) \in Texts
  PROVE  CD!EvaluateAnd(t \o u) =
           Otherwise("true", CD!EvaluateAnd(t), CD!EvaluateComparison(Body(u)))
  <1>1. t \o u \in Texts /\ t \o u # <<>>
    <2>1. t \o u \in Texts /\ Len(t \o u) = Len(t) + Len(u) /\ Len(t) \in Nat /\ Len(u) \in Nat
      BY ConcatProperties, LenProperties, Zenon DEF Texts
    <2>2. Len(t \o u) # 0
      BY <2>1
    <2>3. QED
      BY <2>1, <2>2
  <1>2. /\ FrontOf(t \o u, "AND") = Append(FrontOf(t, "AND"), LastOf(t, "AND"))
        /\ LastOf(t \o u, "AND") = Body(u)
    <2>1. Parts(t \o u, "AND", Append(FrontOf(t, "AND"), LastOf(t, "AND")), Body(u))
      BY SplitGrows, Zenon
    <2>2. QED
      BY <2>1, Zenon DEF Parts
  <1>3. CD!EvaluateAnd(t \o u) = AndOf(Append(FrontOf(t \o u, "AND"), LastOf(t \o u, "AND")))
    BY <1>1, EvaluateAndIs, Zenon
  <1>4. /\ CD!EvaluateAnd(t) = AndOf(Append(FrontOf(t, "AND"), LastOf(t, "AND")))
        /\ Append(FrontOf(t, "AND"), LastOf(t, "AND")) \in Seq(Texts)
    BY EvaluateAndIs, AppendProperties, Zenon
  <1>5. QED
    BY <1>2, <1>3, <1>4, AndParts, Zenon

\* How an expression grows by one comparison.
LEMMA ExpressionGrows ==
  ASSUME NEW t \in Texts, t # <<>>, t[Len(t)] \notin CD!Logical,
         NEW u \in Texts, Len(u) > 1, u[1] \in CD!Logical,
         Body(u) \in Texts, Body(u) # <<>>, NoLogicalWord(Body(u)),
         \A i \in 2 .. Len(u) : u[i] \notin CD!Logical
  PROVE  /\ u[1] = "AND" =>
              /\ Decided(t \o u) = Decided(t)
              /\ LastRun(t \o u) = Otherwise("true", LastRun(t), CD!EvaluateComparison(Body(u)))
         /\ u[1] = "OR" =>
              /\ Decided(t \o u) = Otherwise("false", Decided(t), LastRun(t))
              /\ LastRun(t \o u) = CD!EvaluateComparison(Body(u))
  <1>1. /\ t[Len(t)] # "AND" /\ \A i \in 2 .. Len(u) : u[i] # "AND"
        /\ t[Len(t)] # "OR" /\ \A i \in 2 .. Len(u) : u[i] # "OR"
    BY DEF CD!Logical
  <1>2. CASE u[1] = "AND"
    <2>1. FrontOf(t \o u, "OR") = FrontOf(t, "OR") /\ LastOf(t \o u, "OR") = LastOf(t, "OR") \o u
      <3>1. u[1] # "OR"
        BY <1>2
      <3>2. Parts(t \o u, "OR", FrontOf(t, "OR"), LastOf(t, "OR") \o u)
        BY <1>1, <3>1, SplitGrows, Zenon
      <3>3. QED
        BY <3>2, Zenon DEF Parts
    <2>2. /\ LastOf(t, "OR") \in Texts /\ LastOf(t, "OR") # <<>>
          /\ LastOf(t, "OR")[Len(LastOf(t, "OR"))] = t[Len(t)]
      BY SplitParts, Zenon
    <2>3. LastRun(t \o u) = Otherwise("true", LastRun(t), CD!EvaluateComparison(Body(u)))
      BY <1>1, <1>2, <2>1, <2>2, AndGrows, Zenon DEF LastRun
    <2>4. u[1] # "OR"
      BY <1>2
    <2>5. QED
      BY <2>1, <2>3, <2>4, Zenon DEF Decided
  <1>3. CASE u[1] = "OR"
    <2>1. /\ FrontOf(t \o u, "OR") = Append(FrontOf(t, "OR"), LastOf(t, "OR"))
          /\ LastOf(t \o u, "OR") = Body(u)
      <3>1. Parts(t \o u, "OR", Append(FrontOf(t, "OR"), LastOf(t, "OR")), Body(u))
        BY <1>1, <1>3, SplitGrows, Zenon
      <3>2. QED
        BY <3>1, Zenon DEF Parts
    <2>2. FrontOf(t, "OR") \in Seq(Texts) /\ LastOf(t, "OR") \in Texts
      BY SplitParts, Zenon
    <2>3. Decided(t \o u) = Otherwise("false", Decided(t), LastRun(t))
      BY <2>1, <2>2, OrParts, Zenon DEF Decided, LastRun
    <2>4. LastRun(t \o u) = CD!EvaluateComparison(Body(u))
      BY <2>1, OneComparison, Zenon DEF LastRun
    <2>5. u[1] # "AND"
      BY <1>3
    <2>6. QED
      BY <2>3, <2>4, <2>5, Zenon
  <1>4. QED
    BY <1>2, <1>3 DEF CD!Logical

-----------------------------------------------------------------------------
(* One comparison *)

IsTerm(t) ==
  /\ t.glue \in {"first", "AND", "OR"} /\ CD!IsOperand(t.left)
  /\ \/ t.op = "none"
     \/ t.op \in CD!Comparisons /\ CD!IsOperand(t.right)
Rest(t) == IF t.op = "none" THEN <<>> ELSE <<t.op>> \o t.right
BodyOf(t) == t.left \o Rest(t)

\* An operand is a text without operators.
LEMMA OperandType ==
  ASSUME NEW o, CD!IsOperand(o)
  PROVE  /\ o \in Texts /\ o # <<>> /\ Len(o) \in Nat /\ Len(o) > 0
         /\ \A i \in 1 .. Len(o) : o[i] \notin CD!Comparisons /\ o[i] \notin CD!Logical
  <1>1. o \in Seq(STRING) /\ o # <<>> /\ \A i \in DOMAIN o : o[i] \notin CD!Comparisons \cup CD!Logical
    BY DEF CD!IsOperand
  <1>2. Len(o) \in Nat /\ DOMAIN o = 1 .. Len(o)
    BY <1>1, LenProperties, Zenon
  <1>3. Len(o) > 0
    BY <1>1, <1>2, EmptySeq
  <1>4. STRING \subseteq Words
    BY Zenon DEF Words
  <1>5. o \in Texts
    BY <1>1, <1>4, SeqMonotonic, Zenon DEF Texts
  <1>6. QED
    BY <1>1, <1>2, <1>3, <1>5

\* The operators in the order in which they are tried.
Tried == CD!TwoCharacter \o CD!OneCharacter
LEMMA OrderTried ==
  /\ Len(Tried) = 6
  /\ Tried[1] = ">=" /\ Tried[2] = "<=" /\ Tried[3] = "==" /\ Tried[4] = "!="
  /\ Tried[5] = ">" /\ Tried[6] = "<"
  <1> DEFINE x == CD!TwoCharacter
             y == CD!OneCharacter
  <1>1. /\ x \in Seq(CD!Comparisons) /\ Len(x) = 4
        /\ x[1] = ">=" /\ x[2] = "<=" /\ x[3] = "==" /\ x[4] = "!="
    BY DEF CD!TwoCharacter, CD!Comparisons
  <1>2. y \in Seq(CD!Comparisons) /\ Len(y) = 2 /\ y[1] = ">" /\ y[2] = "<"
    BY DEF CD!OneCharacter, CD!Comparisons
  <1> HIDE DEF x, y
  <1>3. /\ Len(x \o y) = Len(x) + Len(y)
        /\ \A i \in 1 .. Len(x) + Len(y) : (x \o y)[i] = IF i <= Len(x) THEN x[i] ELSE y[i - Len(x)]
    BY <1>1, <1>2, ConcatProperties
  <1> DEFINE z == x \o y
  <1> HIDE DEF z
  <1>4. Len(z) = 6 /\ \A i \in 1 .. 6 : z[i] = IF i <= 4 THEN x[i] ELSE y[i - 4]
    BY <1>1, <1>2, <1>3 DEF z
  <1>5. z[1] = x[1] /\ z[2] = x[2] /\ z[3] = x[3] /\ z[4] = x[4] /\ z[5] = y[1] /\ z[6] = y[2]
    BY <1>4
  <1>6. Tried = z
    BY Zenon DEF Tried, z, x, y
  <1>7. QED
    BY <1>1, <1>2, <1>4, <1>5, <1>6, Zenon

\* A word before a text.
LEMMA Before ==
  ASSUME NEW g \in Words, NEW b \in Texts
  PROVE  /\ <<g>> \o b \in Texts /\ Len(<<g>> \o b) = Len(b) + 1
         /\ (<<g>> \o b)[1] = g /\ \A i \in 1 .. Len(b) : (<<g>> \o b)[i + 1] = b[i]
  <1> DEFINE h == <<g>>
  <1>1. h \in Texts /\ Len(h) = 1 /\ h[1] = g
    BY DEF Texts
  <1> HIDE DEF h
  <1>2. /\ h \o b \in Texts /\ Len(h \o b) = Len(h) + Len(b)
        /\ \A i \in 1 .. Len(h) + Len(b) : (h \o b)[i] = IF i <= Len(h) THEN h[i] ELSE b[i - Len(h)]
    BY <1>1, ConcatProperties, Zenon DEF Texts
  <1> DEFINE x == h \o b
  <1> HIDE DEF x
  <1>3. Len(b) \in Nat
    BY DEF Texts
  <1>4. /\ x \in Texts /\ Len(x) = Len(b) + 1
        /\ \A i \in 1 .. Len(b) + 1 : x[i] = IF i <= 1 THEN h[i] ELSE b[i - 1]
    BY <1>1, <1>2, <1>3 DEF x
  <1>5. x[1] = g /\ \A i \in 1 .. Len(b) : x[i + 1] = b[i]
    BY <1>1, <1>3, <1>4
  <1>6. QED
    BY <1>4, <1>5, Zenon DEF x, h

\* What follows the first word is the rest.
LEMMA BodyIs ==
  ASSUME NEW g \in Words, NEW b \in Texts, b # <<>>
  PROVE  Body(<<g>> \o b) = b
  <1> DEFINE h == <<g>> \o b
             n == Len(b)
             y == SubSeq(h, 2, n + 1)
  <1>1. n \in Nat /\ n > 0
    BY EmptySeq DEF Texts
  <1>2. h \in Texts /\ Len(h) = n + 1 /\ \A i \in 1 .. n : h[i + 1] = b[i]
    BY Before, Zenon
  <1> HIDE DEF h, n
  <1>3. 2 \in 1 .. Len(h) /\ n + 1 \in 0 .. Len(h) /\ 2 <= n + 1
    BY <1>1, <1>2
  <1>4. /\ y \in Texts /\ Len(y) = (n + 1) - 2 + 1
        /\ \A i \in 1 .. (n + 1) - 2 + 1 : y[i] = h[2 + i - 1]
    BY <1>2, <1>3, PartIs, Zenon
  <1> HIDE DEF y
  <1>5. Len(y) = n /\ \A i \in 1 .. n : y[i] = b[i]
    BY <1>1, <1>2, <1>4
  <1>6. y = b
    BY <1>4, <1>5, SeqEqual, Zenon DEF Texts, n
  <1>7. QED
    BY <1>2, <1>6, Zenon DEF Body, y, h

\* A comparison, word by word.
LEMMA BodyType ==
  ASSUME NEW t, IsTerm(t)
  PROVE  /\ BodyOf(t) \in Texts /\ BodyOf(t) # <<>> /\ NoLogicalWord(BodyOf(t))
         /\ \A i \in 1 .. Len(t.left) : BodyOf(t)[i] = t.left[i]
         /\ t.op = "none" => BodyOf(t) = t.left
         /\ t.op # "none" =>
              /\ Len(BodyOf(t)) = Len(t.left) + 1 + Len(t.right)
              /\ BodyOf(t)[Len(t.left) + 1] = t.op
              /\ \A i \in 1 .. Len(t.right) : BodyOf(t)[Len(t.left) + 1 + i] = t.right[i]
  <1> DEFINE l == t.left
             b == BodyOf(t)
  <1>1. /\ l \in Texts /\ l # <<>> /\ Len(l) \in Nat /\ Len(l) > 0
        /\ \A i \in 1 .. Len(l) : l[i] \notin CD!Logical
    BY OperandType, Zenon DEF IsTerm
  <1>2. CASE t.op = "none"
    <2>1. b = l
      <3>1. b = l \o <<>>
        BY <1>2, Zenon DEF BodyOf, Rest
      <3>2. QED
        BY <1>1, <3>1, ConcatEmptySeq, Zenon DEF Texts
    <2>2. QED
      BY <1>1, <1>2, <2>1, Zenon DEF NoLogicalWord
  <1>3. CASE t.op # "none"
    <2> DEFINE r == t.right
               x == <<t.op>> \o r
    <2>1. /\ r \in Texts /\ Len(r) \in Nat /\ \A i \in 1 .. Len(r) : r[i] \notin CD!Logical
          /\ t.op \in CD!Comparisons /\ t.op \in Words
      BY <1>3, OperandType, Zenon DEF IsTerm, Words
    <2>2. /\ x \in Texts /\ Len(x) = Len(r) + 1 /\ x[1] = t.op
          /\ \A i \in 1 .. Len(r) : x[i + 1] = r[i]
      BY <2>1, Before, Zenon
    <2>3. b = l \o x
      BY <1>3, Zenon DEF BodyOf, Rest
    <2> HIDE DEF x, l, r, b
    <2>4. /\ l \o x \in Texts /\ Len(l \o x) = Len(l) + Len(x)
          /\ \A i \in 1 .. Len(l) + Len(x) : (l \o x)[i] = IF i <= Len(l) THEN l[i] ELSE x[i - Len(l)]
      BY <1>1, <2>2, ConcatProperties, Zenon DEF Texts
    <2>5. /\ b \in Texts /\ Len(b) = Len(l) + 1 + Len(r)
          /\ \A i \in 1 .. Len(l) + 1 + Len(r) : b[i] = IF i <= Len(l) THEN l[i] ELSE x[i - Len(l)]
      <3>1. Len(l) + Len(x) = Len(l) + 1 + Len(r)
        BY <1>1, <2>1, <2>2
      <3>2. QED
        BY <2>3, <2>4, <3>1, Zenon
    <2>6. \A i \in 1 .. Len(l) : b[i] = l[i]
      BY <1>1, <2>1, <2>5
    <2>7. b[Len(l) + 1] = t.op
      <3>1. Len(l) + 1 \in 1 .. Len(l) + 1 + Len(r) /\ ~(Len(l) + 1 <= Len(l)) /\ (Len(l) + 1) - Len(l) = 1
        BY <1>1, <2>1
      <3>2. QED
        BY <2>2, <2>5, <3>1, Zenon
    <2>8. ASSUME NEW i \in 1 .. Len(r) PROVE b[Len(l) + 1 + i] = r[i]
      <3>1. /\ Len(l) + 1 + i \in 1 .. Len(l) + 1 + Len(r) /\ ~(Len(l) + 1 + i <= Len(l))
            /\ (Len(l) + 1 + i) - Len(l) = i + 1
        BY <1>1, <2>1
      <3>2. QED
        BY <2>2, <2>5, <3>1, Zenon
    <2>9. ASSUME NEW i \in 1 .. Len(b) PROVE b[i] \notin CD!Logical
      <3>1. CASE i \in 1 .. Len(l)
        BY <1>1, <2>6, <3>1, Zenon
      <3>2. CASE i = Len(l) + 1
        <4>1. t.op \notin CD!Logical
          BY <2>1 DEF CD!Comparisons, CD!Logical
        <4>2. QED
          BY <2>7, <3>2, <4>1, Zenon
      <3>3. CASE i - (Len(l) + 1) \in 1 .. Len(r)
        <4>1. Len(l) + 1 + (i - (Len(l) + 1)) = i
          BY <1>1, <2>5
        <4>2. QED
          BY <2>1, <2>8, <3>3, <4>1, Zenon
      <3>4. i \in 1 .. Len(l) \/ i = Len(l) + 1 \/ i - (Len(l) + 1) \in 1 .. Len(r)
        BY <1>1, <2>1, <2>5
      <3>5. QED
        BY <3>1, <3>2, <3>3, <3>4, Zenon
    <2>10. b # <<>>
      <3>1. Len(b) # 0
        BY <1>1, <2>1, <2>5
      <3>2. QED
        BY <3>1
    <2>11. QED
      BY <1>3, <2>5, <2>6, <2>7, <2>8, <2>9, <2>10, Zenon DEF NoLogicalWord, b, l, r
  <1>4. QED
    BY <1>2, <1>3, Zenon

\* The only number is the least.
LEMMA OnlyOne ==
  ASSUME NEW p \in Nat
  PROVE  (CHOOSE z \in {p} : \A y \in {p} : z <= y) = p
  <1>1. {p} \in SUBSET Nat /\ p \in {p} /\ \A y \in {p} : p <= y
    OBVIOUS
  <1> DEFINE S == {p}
  <1> HIDE DEF S
  <1>2. (CHOOSE z \in S : \A y \in S : z <= y) = p
    BY <1>1, LeastChosen, Zenon DEF S
  <1>3. QED
    BY <1>2, Zenon DEF S

\* The place p of an operator after l words and before r words of a comparison of m words.
StandsAfter(l, p, m) ==
  /\ p \in 1 .. m /\ p \in Nat /\ p > 1 /\ p # 0
  /\ 1 \in 1 .. m /\ p - 1 \in 0 .. m /\ 1 <= p - 1 /\ p - 1 - 1 + 1 = l
StandsBefore(p, r, m) ==
  p + 1 \in 1 .. m /\ m \in 0 .. m /\ p + 1 <= m /\ m - (p + 1) + 1 = r
Elsewhere(l, p, r, m) ==
  \A i \in 1 .. m : (i # p => i \in 1 .. l \/ i - p \in 1 .. r) /\ p + (i - p) = i

\* Places in a comparison of l words, an operator, and r words.
LEMMA Places ==
  ASSUME NEW l \in Nat, l > 0, NEW r \in Nat, NEW m, m = l + 1 + r
  PROVE  /\ StandsAfter(l, l + 1, m) /\ Elsewhere(l, l + 1, r, m)
         /\ r > 0 => StandsBefore(l + 1, r, m)
  BY DEF StandsAfter, StandsBefore, Elsewhere

\* No operator is found but that of the comparison, where it stands.
LEMMA OperatorIs ==
  ASSUME NEW t, IsTerm(t), NEW c \in CD!Comparisons
  PROVE  CD!OperatorAt(BodyOf(t), c) = IF t.op = c THEN Len(t.left) + 1 ELSE 0
  <1> DEFINE b == BodyOf(t)
             I == {i \in 1 .. Len(b) : CD!Occurs(b[i], c)}
             at == CD!SelectInSeq(b, LAMBDA x : CD!Occurs(x, c))
             p == Len(t.left) + 1
  <1>1. \A w : CD!Occurs(w, c) => w \in CD!Comparisons
    BY DEF CD!Occurs, CD!Comparisons
  <1>2. /\ Len(t.left) \in Nat /\ Len(t.left) > 0 /\ \A i \in 1 .. Len(t.left) : t.left[i] \notin CD!Comparisons
    BY OperandType, Zenon DEF IsTerm
  <1>3. at = IF I # {} THEN CHOOSE x \in I : \A y \in I : x =< y ELSE 0
    BY Zenon DEF CD!SelectInSeq, CD!Min
  <1>4. CD!OperatorAt(b, c) = IF at > 1 /\ b[at] = c THEN at ELSE 0
    BY Zenon DEF CD!OperatorAt
  <1>5. \A i \in 1 .. Len(t.left) : b[i] = t.left[i]
    BY BodyType, Zenon
  <1>6. \A i \in 1 .. Len(t.left) : ~CD!Occurs(b[i], c)
    BY <1>1, <1>2, <1>5, Zenon
  <1>7. CASE t.op = "none"
    <2>1. b = t.left
      BY <1>7, BodyType, Zenon
    <2>2. I = {}
      BY <1>6, <2>1, Zenon
    <2> HIDE DEF I, at, b
    <2>3. at = 0
      BY <1>3, <2>2
    <2>4. t.op # c
      BY <1>7 DEF CD!Comparisons
    <2>5. QED
      BY <1>4, <2>3, <2>4 DEF b
  <1>8. CASE t.op # "none"
    <2>1. /\ Len(b) = Len(t.left) + 1 + Len(t.right) /\ b[p] = t.op
          /\ \A i \in 1 .. Len(t.right) : b[p + i] = t.right[i]
      BY <1>8, BodyType, Zenon
    <2>2. Len(t.right) \in Nat /\ \A i \in 1 .. Len(t.right) : t.right[i] \notin CD!Comparisons
      BY <1>8, OperandType, Zenon DEF IsTerm
    <2>a. /\ Len(b) = Len(t.left) + 1 + Len(t.right) /\ Len(t.left) \in Nat /\ Len(t.left) > 0
          /\ Len(t.right) \in Nat
      BY <1>2, <2>1, <2>2, Zenon
    <2>b. StandsAfter(Len(t.left), p, Len(b)) /\ Elsewhere(Len(t.left), p, Len(t.right), Len(b))
      BY <2>a, Places, Zenon
    <2>3. ASSUME NEW i \in 1 .. Len(b), i # p PROVE ~CD!Occurs(b[i], c)
      <3>1. CASE i \in 1 .. Len(t.left)
        BY <1>6, <3>1, Zenon
      <3>2. CASE i - p \in 1 .. Len(t.right)
        <4>1. p + (i - p) = i
          BY <2>b, Zenon DEF Elsewhere
        <4>2. QED
          BY <1>1, <2>1, <2>2, <3>2, <4>1, Zenon
      <3>3. i \in 1 .. Len(t.left) \/ i - p \in 1 .. Len(t.right)
        BY <2>b, <2>3, Zenon DEF Elsewhere
      <3>4. QED
        BY <3>1, <3>2, <3>3, Zenon
    <2>4. p \in 1 .. Len(b) /\ p \in Nat /\ p > 1 /\ p # 0
      BY <2>b, Zenon DEF StandsAfter
    <2> HIDE DEF b, at, p
    <2>5. CASE t.op = c
      <3>1. CD!Occurs(b[p], c)
        BY <2>1, <2>5, Zenon DEF CD!Occurs
      <3>2. I = {p}
        BY <2>3, <2>4, <3>1, Zenon
      <3> HIDE DEF I
      <3>3. at = p
        BY <1>3, <3>2, <2>4, OnlyOne
      <3>4. QED
        BY <1>4, <2>1, <2>4, <2>5, <3>3 DEF b, p
    <2>6. CASE t.op # c
      <3>1. I = {} \/ I = {p}
        BY <2>3, <2>4, Zenon
      <3> HIDE DEF I
      <3>2. at = 0 \/ at = p
        BY <1>3, <3>1, <2>4, OnlyOne
      <3>a. ~(0 > 1)
        OBVIOUS
      <3>3. ~(at > 1 /\ b[at] = c)
        BY <2>1, <2>6, <3>2, <3>a, Zenon
      <3>4. QED
        BY <1>4, <2>6, <3>3, Zenon DEF b
    <2>7. QED
      BY <2>5, <2>6
  <1>9. QED
    BY <1>7, <1>8

\* FindOperator returns the place of the operator that was written.
LEMMA OperatorFound ==
  ASSUME NEW t, IsTerm(t)
  PROVE  CD!FindOperator(BodyOf(t)) = IF t.op = "none" THEN 0 ELSE Len(t.left) + 1
  <1> DEFINE b == BodyOf(t)
             I == {k \in 1 .. Len(Tried) : CD!OperatorAt(b, Tried[k]) > 0}
             i == CD!SelectInSeq(Tried, LAMBDA op : CD!OperatorAt(b, op) > 0)
  <1>1. i = IF I # {} THEN CHOOSE x \in I : \A y \in I : x =< y ELSE 0
    BY Zenon DEF CD!SelectInSeq, CD!Min
  <1>2. CD!FindOperator(b) = IF i = 0 THEN 0 ELSE CD!OperatorAt(b, Tried[i])
    BY Zenon DEF CD!FindOperator, Tried
  <1>3. \A k \in 1 .. 6 : Tried[k] \in CD!Comparisons
    BY OrderTried DEF CD!Comparisons
  <1>4. \A k \in 1 .. 6 : CD!OperatorAt(b, Tried[k]) = IF t.op = Tried[k] THEN Len(t.left) + 1 ELSE 0
    BY <1>3, OperatorIs, Zenon
  <1>5. Len(t.left) \in Nat
    BY OperandType, Zenon DEF IsTerm
  <1>6. I = {k \in 1 .. 6 : t.op = Tried[k]}
    <2>1. \A k \in 1 .. 6 : CD!OperatorAt(b, Tried[k]) > 0 <=> t.op = Tried[k]
      BY <1>4, <1>5
    <2>2. QED
      BY <2>1, OrderTried, Zenon
  <1> HIDE DEF b, I, i
  <1>7. CASE t.op = "none"
    <2>1. \A k \in 1 .. 6 : Tried[k] # "none"
      BY OrderTried
    <2>2. I = {}
      BY <1>6, <1>7, <2>1, Zenon
    <2>3. QED
      BY <1>1, <1>2, <1>7, <2>2 DEF b
  <1>8. CASE t.op # "none"
    <2>1. t.op \in CD!Comparisons
      BY <1>8, Zenon DEF IsTerm
    <2>2. \E k \in 1 .. 6 : I = {k}
      BY <1>6, <2>1, OrderTried DEF CD!Comparisons
    <2>3. PICK k \in 1 .. 6 : I = {k}
      BY <2>2
    <2>4. t.op = Tried[k]
      BY <1>6, <2>3, Zenon
    <2>5. i = k
      <3>1. k \in Nat
        OBVIOUS
      <3>2. QED
        BY <1>1, <2>3, <3>1, OnlyOne
    <2>6. QED
      BY <1>2, <1>4, <1>8, <2>4, <2>5 DEF b
  <1>9. QED
    BY <1>7, <1>8

\* An operand is resolved to what the author means by it.
LEMMA ValueIs ==
  ASSUME NEW o, CD!IsOperand(o)
  PROVE  CD!ResolveValue(o) = CD!Value(o)
  <1>1. /\ o \in Texts /\ o # <<>> /\ Len(o) \in Nat /\ Len(o) > 0
    BY OperandType, Zenon
  <1>2. CASE ~CD!Quoted(o)
    BY <1>2, Zenon DEF CD!Value
  <1>3. CASE CD!Quoted(o)
    <2>1. Len(o) > 1 /\ o[1] = CD!Quote /\ o[Len(o)] = CD!Quote /\ Len(o) # 1
      BY <1>1, <1>3 DEF CD!Quoted, CD!IsOperand
    <2>2. Head(o) = o[1]
      BY <1>1 DEF Texts
    <2>3. CD!Last(o) = o[Len(o)]
      BY Zenon DEF CD!Last
    <2>4. CD!ResolveValue(o) = [type |-> "text", text |-> SubSeq(o, 2, Len(o) - 1)]
      BY <1>1, <2>1, <2>2, <2>3, Zenon DEF CD!ResolveValue
    <2>5. QED
      BY <1>3, <2>4, Zenon DEF CD!Value
  <1>4. QED
    BY <1>2, <1>3

\* evaluateComparison finds a comparison that is written.
LEMMA ComparisonIs ==
  ASSUME NEW t, IsTerm(t)
  PROVE  CD!EvaluateComparison(BodyOf(t)) = CD!TermMeans(t)
  <1> DEFINE b == BodyOf(t)
             at == CD!FindOperator(b)
             p == Len(t.left) + 1
  <1>1. at = IF t.op = "none" THEN 0 ELSE p
    BY OperatorFound, Zenon
  <1>2. CD!EvaluateComparison(b) =
          IF at = 0 THEN CD!Alone(CD!ResolveValue(b))
          ELSE CD!Compare(CD!ResolveValue(SubSeq(b, 1, at - 1)), b[at],
                          CD!ResolveValue(SubSeq(b, at + 1, Len(b))))
    BY Zenon DEF CD!EvaluateComparison
  <1>3. t.left \in Texts /\ Len(t.left) \in Nat /\ Len(t.left) > 0 /\ CD!ResolveValue(t.left) = CD!Value(t.left)
    BY OperandType, ValueIs, Zenon DEF IsTerm
  <1>4. b \in Texts /\ \A i \in 1 .. Len(t.left) : b[i] = t.left[i]
    BY BodyType, Zenon
  <1>5. CASE t.op = "none"
    <2>1. b = t.left
      BY <1>5, BodyType, Zenon
    <2>2. CD!EvaluateComparison(b) = CD!Alone(CD!ResolveValue(b))
      BY <1>1, <1>2, <1>5, Zenon
    <2>3. QED
      BY <1>3, <1>5, <2>1, <2>2, Zenon DEF CD!TermMeans
  <1>6. CASE t.op # "none"
    <2>1. /\ Len(b) = Len(t.left) + 1 + Len(t.right) /\ b[p] = t.op
          /\ \A i \in 1 .. Len(t.right) : b[p + i] = t.right[i]
      BY <1>6, BodyType, Zenon
    <2>2. /\ t.right \in Texts /\ Len(t.right) \in Nat /\ Len(t.right) > 0
          /\ CD!ResolveValue(t.right) = CD!Value(t.right)
      BY <1>6, OperandType, ValueIs, Zenon DEF IsTerm
    <2>a. /\ Len(b) = Len(t.left) + 1 + Len(t.right) /\ Len(t.left) \in Nat /\ Len(t.left) > 0
          /\ Len(t.right) \in Nat /\ Len(t.right) > 0
      BY <1>3, <2>1, <2>2, Zenon
    <2>b. StandsAfter(Len(t.left), p, Len(b)) /\ StandsBefore(p, Len(t.right), Len(b))
      BY <2>a, Places, Zenon
    <2> HIDE DEF b, at
    <2>3. SubSeq(b, 1, p - 1) = t.left
      <3> DEFINE x == SubSeq(b, 1, p - 1)
      <3>1. 1 \in 1 .. Len(b) /\ p - 1 \in 0 .. Len(b) /\ 1 <= p - 1 /\ (p - 1) - 1 + 1 = Len(t.left)
        BY <2>b, Zenon DEF StandsAfter
      <3>2. /\ x \in Texts /\ Len(x) = Len(t.left) /\ \A i \in 1 .. Len(t.left) : x[i] = b[1 + i - 1]
        BY <1>4, <3>1, PartIs
      <3> HIDE DEF x
      <3>4. ASSUME NEW i \in 1 .. Len(x) PROVE x[i] = t.left[i]
        <4>1. 1 + i - 1 = i
          OBVIOUS
        <4>2. i \in 1 .. Len(t.left)
          BY <3>2
        <4>3. QED
          BY <1>4, <3>2, <4>1, <4>2, Zenon
      <3>5. QED
        BY <1>3, <3>2, <3>4, SeqEqual, Zenon DEF Texts, x
    <2>4. SubSeq(b, p + 1, Len(b)) = t.right
      <3> DEFINE a == p + 1
                 x == SubSeq(b, a, Len(b))
      <3>1. a \in 1 .. Len(b) /\ Len(b) \in 0 .. Len(b) /\ a <= Len(b) /\ Len(b) - a + 1 = Len(t.right)
        BY <2>b, Zenon DEF StandsBefore
      <3>a. \A i \in 1 .. Len(t.right) : a + i - 1 = p + i
        BY <2>a
      <3> HIDE DEF a
      <3>2. /\ x \in Texts /\ Len(x) = Len(t.right) /\ \A i \in 1 .. Len(t.right) : x[i] = b[a + i - 1]
        BY <1>4, <3>1, PartIs
      <3> HIDE DEF x
      <3>4. \A i \in 1 .. Len(x) : x[i] = t.right[i]
        BY <2>1, <3>2, <3>a, Zenon
      <3>5. QED
        BY <2>2, <3>2, <3>4, SeqEqual, Zenon DEF Texts, x, a
    <2>5. at = p /\ p # 0
      BY <1>1, <1>3, <1>6
    <2> HIDE DEF p
    <2>6. CD!EvaluateComparison(b) = CD!Compare(CD!Value(t.left), t.op, CD!Value(t.right))
      BY <1>2, <1>3, <2>1, <2>2, <2>3, <2>4, <2>5, Zenon
    <2>7. QED
      BY <1>6, <2>6, Zenon DEF CD!TermMeans, b
  <1>7. QED
    BY <1>5, <1>6

\* What joins comparisons is a logical word.
LEMMA GlueIsWord == \A g \in {"AND", "OR"} : g \in Words /\ g \in CD!Logical
  BY DEF Words, CD!Logical

\* Concatenation is associative.
LEMMA Regrouped ==
  ASSUME NEW S, NEW h \in Seq(S), NEW l \in Seq(S), NEW x \in Seq(S)
  PROVE  (h \o l) \o x = h \o (l \o x)
  BY ConcatAssociative

\* A comparison is written after the word that joins it.
LEMMA WrittenBody ==
  ASSUME NEW t, IsTerm(t)
  PROVE  /\ t.glue = "first" => CD!Written(t) = BodyOf(t)
         /\ t.glue # "first" => CD!Written(t) = <<t.glue>> \o BodyOf(t)
  <1> DEFINE l == t.left
             x == Rest(t)
             h == <<t.glue>>
  <1>1. l \in Texts
    BY OperandType, Zenon DEF IsTerm
  <1>2. x \in Texts
    <2>1. CASE t.op = "none"
      BY <2>1, EmptySeq, Zenon DEF Rest, Texts
    <2>2. CASE t.op # "none"
      <3>1. t.op \in Words /\ t.right \in Texts
        BY <2>2, OperandType, Zenon DEF IsTerm, Words
      <3>2. QED
        BY <2>2, <3>1, Before, Zenon DEF Rest
    <2>3. QED
      BY <2>1, <2>2
  <1>3. CD!Written(t) = ((IF t.glue = "first" THEN <<>> ELSE h) \o l) \o x
    BY Zenon DEF CD!Written, Rest
  <1>4. CASE t.glue = "first"
    <2>1. <<>> \o l = l
      BY <1>1, ConcatEmptySeq, Zenon DEF Texts
    <2>2. QED
      BY <1>3, <1>4, <2>1, Zenon DEF BodyOf
  <1>5. CASE t.glue # "first"
    <2>1. h \in Texts
      <3>1. t.glue \in Words
        BY <1>5, GlueIsWord DEF IsTerm
      <3>2. QED
        BY <3>1 DEF Texts
    <2> HIDE DEF h, l, x
    <2>2. (h \o l) \o x = h \o (l \o x)
      <3>1. h \in Seq(Words) /\ l \in Seq(Words) /\ x \in Seq(Words)
        BY <1>1, <1>2, <2>1, Zenon DEF Texts, l, x
      <3>2. QED
        BY <3>1, Regrouped
    <2>3. QED
      BY <1>3, <1>5, <2>2, Zenon DEF BodyOf, h, l, x
  <1>6. QED
    BY <1>4, <1>5

\* Of what is written for a comparison only the first word may be logical.
LEMMA WrittenType ==
  ASSUME NEW t, IsTerm(t)
  PROVE  /\ CD!Written(t) \in Texts /\ CD!Written(t) # <<>>
         /\ CD!Written(t)[Len(CD!Written(t))] \notin CD!Logical
         /\ t.glue # "first" =>
              /\ Len(CD!Written(t)) > 1 /\ CD!Written(t)[1] = t.glue /\ t.glue \in CD!Logical
              /\ Body(CD!Written(t)) = BodyOf(t)
              /\ \A i \in 2 .. Len(CD!Written(t)) : CD!Written(t)[i] \notin CD!Logical
  <1> DEFINE b == BodyOf(t)
             u == CD!Written(t)
  <1>1. b \in Texts /\ b # <<>> /\ \A i \in 1 .. Len(b) : b[i] \notin CD!Logical
    BY BodyType, Zenon DEF NoLogicalWord
  <1>2. Len(b) \in Nat /\ Len(b) > 0
    <2> HIDE DEF b
    <2>1. QED
      BY <1>1, EmptySeq DEF Texts
  <1>3. CASE t.glue = "first"
    <2>1. u = b
      BY <1>3, WrittenBody, Zenon
    <2>2. Len(b) \in 1 .. Len(b)
      BY <1>2
    <2>3. QED
      BY <1>1, <1>3, <2>1, <2>2, Zenon
  <1>4. CASE t.glue # "first"
    <2>1. u = <<t.glue>> \o b
      BY <1>4, WrittenBody, Zenon
    <2>2. t.glue \in Words /\ t.glue \in CD!Logical
      BY <1>4, GlueIsWord DEF IsTerm
    <2> DEFINE v == <<t.glue>> \o b
    <2> HIDE DEF b
    <2>a. /\ v \in Texts /\ Len(v) = Len(b) + 1 /\ v[1] = t.glue
          /\ \A i \in 1 .. Len(b) : v[i + 1] = b[i]
      BY <1>1, <2>2, Before, Zenon
    <2>b. u = v
      BY <2>1, Zenon DEF b
    <2> HIDE DEF v
    <2>3. /\ u \in Texts /\ Len(u) = Len(b) + 1 /\ u[1] = t.glue
          /\ \A i \in 1 .. Len(b) : u[i + 1] = b[i]
      BY <2>a, <2>b, Zenon
    <2>4. Body(u) = b
      BY <1>1, <2>2, <2>b, BodyIs, Zenon DEF v
    <2> HIDE DEF u
    <2>5. ASSUME NEW i \in 2 .. Len(u) PROVE u[i] \notin CD!Logical
      <3>1. i - 1 \in 1 .. Len(b) /\ (i - 1) + 1 = i
        BY <1>2, <2>3
      <3>2. QED
        BY <1>1, <2>3, <3>1, Zenon
    <2>6. Len(u) > 1 /\ Len(u) \in 2 .. Len(u) /\ Len(u) # 0
      BY <1>2, <2>3
    <2>7. u # <<>>
      BY <2>6
    <2>8. QED
      BY <2>2, <2>3, <2>4, <2>5, <2>6, <2>7, Zenon DEF u, b
  <1>5. QED
    BY <1>3, <1>4

-----------------------------------------------------------------------------
(* What a formula means *)

\* The text of the first k comparisons, and what a comparison means.
Upto(k) == CD!TextUpTo(formula)[k]
Means(k) == CD!TermMeans(formula[k])
ByAnd(k) == formula[k].glue = "AND"

\* The author joins every comparison but the first to those before.
WellWritten ==
  /\ Len(formula) \in Nat /\ (Len(formula) = 0 => formula = <<>>) /\ DOMAIN formula = 1 .. Len(formula)
  /\ \A k \in 1 .. Len(formula) : IsTerm(formula[k]) /\ (formula[k].glue = "first" <=> k = 1)

\* The conjuncts from s to k have the result r.
RunIs(s, k, r) ==
  \/ r = "true" /\ \A j \in s .. k : Means(j) = "true"
  \/ \E j \in s .. k : Means(j) # "true" /\ r = Means(j) /\ \A i \in s .. j - 1 : Means(i) = "true"

\* The runs that begin before s decide d.
DecidedIs(s, d) ==
  \/ d = "false" /\ \A i \in CD!Starts : i < s => CD!RunMeans(i) = "false"
  \/ \E i \in CD!Starts : /\ i < s /\ CD!RunMeans(i) # "false" /\ d = CD!RunMeans(i)
                          /\ \A j \in CD!Starts : j < i => CD!RunMeans(j) = "false"

\* s begins the run that k ends, so far.
LastStart(s, k) == s \in 1 .. k /\ ~ByAnd(s) /\ \A j \in (s + 1) .. k : ByAnd(j)

IsRead(k, s) ==
  /\ Upto(k) \in Texts /\ Upto(k) # <<>> /\ Upto(k)[Len(Upto(k))] \notin CD!Logical
  /\ LastStart(s, k) /\ RunIs(s, k, LastRun(Upto(k))) /\ DecidedIs(s, Decided(Upto(k)))

\* The text of a formula grows by its comparisons.
LEMMA TextGrows ==
  ASSUME Len(formula) \in Nat
  PROVE  /\ Upto(0) = <<>>
         /\ \A k \in 1 .. Len(formula) : Upto(k) = Upto(k - 1) \o CD!Written(formula[k])
  <1> DEFINE f == CD!TextUpTo(formula)
  <1>1. f = [i \in 0 .. Len(formula) |-> IF i = 0 THEN <<>> ELSE f[i - 1] \o CD!Written(formula[i])]
    BY WrittenIs, Zenon
  <1>2. 0 \in 0 .. Len(formula) /\ \A k \in 1 .. Len(formula) : k \in 0 .. Len(formula) /\ k # 0
    OBVIOUS
  <1>3. \A i \in 0 .. Len(formula) : f[i] = IF i = 0 THEN <<>> ELSE f[i - 1] \o CD!Written(formula[i])
    BY <1>1, Zenon
  <1> HIDE DEF f
  <1>4. QED
    BY <1>2, <1>3, Zenon DEF Upto, f

\* The meaning of a run.
LEMMA RunMeaning ==
  ASSUME NEW k \in 1 .. Len(formula), NEW s, LastStart(s, k), NEW r, RunIs(s, k, r), WellWritten,
         k = Len(formula) \/ ~ByAnd(k + 1)
  PROVE  CD!RunMeans(s) = r
  <1> DEFINE odd == {j \in CD!RunFrom(s) : CD!TermMeans(formula[j]) # "true"}
             n == Len(formula)
  <1>1. n \in Nat /\ DOMAIN formula = 1 .. n
    BY Zenon DEF WellWritten
  <1>2. CD!RunMeans(s) = IF odd = {} THEN "true"
                         ELSE CD!TermMeans(formula[CHOOSE j \in odd : \A i \in odd : j <= i])
    BY Zenon DEF CD!RunMeans
  <1>3. s \in 1 .. k /\ k \in 1 .. n /\ \A j \in (s + 1) .. k : ByAnd(j)
    BY DEF LastStart
  <1>4. CD!RunFrom(s) = {j \in 1 .. n : s <= j /\ \A i \in (s + 1) .. j : ByAnd(i)}
    BY <1>1, Zenon DEF CD!RunFrom, ByAnd
  <1> HIDE DEF n
  <1>5. ASSUME NEW j \in 1 .. n, s <= j, \A i \in (s + 1) .. j : ByAnd(i) PROVE j <= k
    <2> SUFFICES ASSUME ~(j <= k) PROVE FALSE
      OBVIOUS
    <2>1. k + 1 \in (s + 1) .. j /\ k # n
      BY <1>1, <1>3
    <2>2. ByAnd(k + 1)
      BY <1>5, <2>1
    <2>3. QED
      BY <2>1, <2>2 DEF n
  <1>6. ASSUME NEW j \in s .. k PROVE j \in CD!RunFrom(s)
    <2>1. j \in 1 .. n /\ s <= j
      BY <1>1, <1>3
    <2>2. \A i \in (s + 1) .. j : i \in (s + 1) .. k
      BY <1>3
    <2>3. QED
      BY <1>3, <1>4, <2>1, <2>2, Zenon
  <1>7. CD!RunFrom(s) = s .. k
    <2>1. ASSUME NEW j \in CD!RunFrom(s) PROVE j \in s .. k
      <3>1. j \in 1 .. n /\ s <= j /\ \A i \in (s + 1) .. j : ByAnd(i)
        BY <1>4
      <3>2. j <= k
        BY <1>5, <3>1, Zenon
      <3>3. QED
        BY <1>3, <3>1, <3>2
    <2>2. QED
      BY <1>6, <2>1
  <1>8. odd = {j \in s .. k : Means(j) # "true"}
    BY <1>7, Zenon DEF Means
  <1> HIDE DEF odd
  <1>9. CASE r = "true" /\ \A j \in s .. k : Means(j) = "true"
    <2>1. odd = {}
      BY <1>8, <1>9, Zenon
    <2>2. QED
      BY <1>2, <1>9, <2>1, Zenon
  <1>10. CASE \E j \in s .. k : Means(j) # "true" /\ r = Means(j) /\ \A i \in s .. j - 1 : Means(i) = "true"
    <2>1. PICK j \in s .. k : Means(j) # "true" /\ r = Means(j) /\ \A i \in s .. j - 1 : Means(i) = "true"
      BY <1>10
    <2>2. j \in odd
      BY <1>8, <2>1, Zenon
    <2>3. ASSUME NEW i \in odd PROVE j <= i
      <3>1. i \in s .. k /\ Means(i) # "true"
        BY <1>8
      <3>2. i \notin s .. j - 1
        BY <2>1, <3>1, Zenon
      <3>3. QED
        BY <1>3, <3>1, <3>2
    <2>4. odd \in SUBSET Nat
      BY <1>3, <1>8
    <2>5. (CHOOSE z \in odd : \A y \in odd : z <= y) = j
      BY <2>2, <2>3, <2>4, LeastChosen, Zenon
    <2>6. QED
      BY <1>2, <2>1, <2>2, <2>5, Zenon DEF Means
  <1>11. QED
    BY <1>9, <1>10, Zenon DEF RunIs

\* A run goes on.
LEMMA RunGrows ==
  ASSUME NEW s \in Nat, NEW k \in Nat, s <= k, NEW r, RunIs(s, k, r)
  PROVE  RunIs(s, k + 1, Otherwise("true", r, Means(k + 1)))
  <1>1. s .. k \subseteq s .. k + 1 /\ k + 1 \in s .. k + 1 /\ (k + 1) - 1 = k
    OBVIOUS
  <1>2. \A j \in s .. k + 1 : j \in s .. k \/ j = k + 1
    OBVIOUS
  <1>3. CASE r = "true" /\ \A j \in s .. k : Means(j) = "true"
    <2>1. Otherwise("true", r, Means(k + 1)) = Means(k + 1)
      BY <1>3, Zenon DEF Otherwise
    <2>2. CASE Means(k + 1) = "true"
      <3>1. \A j \in s .. k + 1 : Means(j) = "true"
        BY <1>2, <1>3, <2>2, Zenon
      <3>2. QED
        BY <2>1, <2>2, <3>1, Zenon DEF RunIs
    <2>3. CASE Means(k + 1) # "true"
      <3>1. \A i \in s .. (k + 1) - 1 : Means(i) = "true"
        BY <1>1, <1>3, Zenon
      <3>2. QED
        BY <1>1, <2>1, <2>3, <3>1, Zenon DEF RunIs
    <2>4. QED
      BY <2>2, <2>3
  <1>4. CASE \E j \in s .. k : Means(j) # "true" /\ r = Means(j) /\ \A i \in s .. j - 1 : Means(i) = "true"
    <2>1. Otherwise("true", r, Means(k + 1)) = r
      BY <1>4, Zenon DEF Otherwise
    <2>2. QED
      BY <1>1, <1>4, <2>1, Zenon DEF RunIs
  <1>5. QED
    BY <1>3, <1>4, Zenon DEF RunIs

\* A run begins.
LEMMA RunBegins ==
  ASSUME NEW k \in Nat
  PROVE  RunIs(k, k, Means(k))
  <1>1. k .. k = {k} /\ \A i \in k .. k - 1 : FALSE
    OBVIOUS
  <1>2. QED
    BY <1>1, Zenon DEF RunIs

\* Where runs begin.
LEMMA StartsAre ==
  ASSUME WellWritten
  PROVE  /\ CD!Starts \in SUBSET Nat
         /\ \A i : i \in CD!Starts <=> i \in 1 .. Len(formula) /\ ~ByAnd(i)
  <1>1. CD!Starts = {i \in 1 .. Len(formula) : ~ByAnd(i)}
    BY Zenon DEF WellWritten, CD!Starts, ByAnd
  <1>2. 1 .. Len(formula) \subseteq Nat
    OBVIOUS
  <1>3. QED
    BY <1>1, <1>2, Zenon

\* One more run is over.
LEMMA DecidedGrows ==
  ASSUME WellWritten, NEW s \in CD!Starts, NEW z \in Nat, s < z,
         \A i \in CD!Starts : i < z => i < s \/ i = s,
         NEW d, DecidedIs(s, d)
  PROVE  DecidedIs(z, Otherwise("false", d, CD!RunMeans(s)))
  <1> DEFINE r == CD!RunMeans(s)
  <1>1. \A i \in CD!Starts : i < s => i < z
    <2>1. CD!Starts \in SUBSET Nat
      BY StartsAre, Zenon
    <2>2. QED
      BY <2>1
  <1>2. CASE d = "false" /\ \A i \in CD!Starts : i < s => CD!RunMeans(i) = "false"
    <2>1. Otherwise("false", d, r) = r
      BY <1>2, Zenon DEF Otherwise
    <2>2. CASE r = "false"
      <3>1. \A i \in CD!Starts : i < z => CD!RunMeans(i) = "false"
        BY <1>2, <2>2, Zenon
      <3>2. QED
        BY <2>1, <2>2, <3>1, Zenon DEF DecidedIs
    <2>3. CASE r # "false"
      <3>1. QED
        BY <1>2, <2>1, <2>3, Zenon DEF DecidedIs
    <2>4. QED
      BY <2>2, <2>3
  <1>3. CASE \E i \in CD!Starts : /\ i < s /\ CD!RunMeans(i) # "false" /\ d = CD!RunMeans(i)
                                  /\ \A j \in CD!Starts : j < i => CD!RunMeans(j) = "false"
    <2>1. Otherwise("false", d, r) = d
      BY <1>3, Zenon DEF Otherwise
    <2>2. QED
      BY <1>1, <1>3, <2>1, Zenon DEF DecidedIs
  <1>4. QED
    BY <1>2, <1>3, Zenon DEF DecidedIs

\* What all runs decide, the formula means.
LEMMA MeaningDecided ==
  ASSUME WellWritten, formula # <<>>, NEW d, DecidedIs(Len(formula) + 1, d)
  PROVE  CD!Meaning = d
  <1> DEFINE odd == {i \in CD!Starts : CD!RunMeans(i) # "false"}
  <1>1. CD!Meaning = IF odd = {} THEN "false" ELSE CD!RunMeans(CHOOSE i \in odd : \A k \in odd : i <= k)
    BY Zenon DEF CD!Meaning
  <1>2. \A i \in CD!Starts : i < Len(formula) + 1 /\ i \in Nat
    BY StartsAre DEF WellWritten
  <1>3. CASE d = "false" /\ \A i \in CD!Starts : i < Len(formula) + 1 => CD!RunMeans(i) = "false"
    BY <1>1, <1>2, <1>3, Zenon
  <1>4. CASE \E i \in CD!Starts : /\ i < Len(formula) + 1 /\ CD!RunMeans(i) # "false" /\ d = CD!RunMeans(i)
                                  /\ \A j \in CD!Starts : j < i => CD!RunMeans(j) = "false"
    <2>1. PICK i \in CD!Starts : /\ CD!RunMeans(i) # "false" /\ d = CD!RunMeans(i)
                                 /\ \A j \in CD!Starts : j < i => CD!RunMeans(j) = "false"
      BY <1>4, Zenon
    <2>2. i \in odd /\ odd \in SUBSET Nat
      BY <1>2, <2>1, Zenon
    <2>3. ASSUME NEW j \in odd PROVE i <= j
      <3>1. j \in CD!Starts /\ ~(j < i)
        BY <2>1, Zenon
      <3>2. QED
        BY <1>2, <3>1
    <2> HIDE DEF odd
    <2>4. (CHOOSE x \in odd : \A y \in odd : x <= y) = i
      BY <2>2, <2>3, LeastChosen, Zenon
    <2>5. odd # {}
      BY <2>2
    <2>6. QED
      BY <1>1, <2>1, <2>4, <2>5, Zenon
  <1>5. QED
    BY <1>3, <1>4, Zenon DEF DecidedIs

\* The first comparison is read as written.
LEMMA FirstRead ==
  ASSUME WellWritten, Len(formula) > 0
  PROVE  IsRead(1, 1)
  <1> DEFINE t == formula[1]
             u == CD!Written(t)
  <1>1. 1 \in 1 .. Len(formula) /\ 1 - 1 = 0 /\ Len(formula) \in Nat
    BY DEF WellWritten
  <1>2. IsTerm(t) /\ t.glue = "first"
    BY <1>1, Zenon DEF WellWritten
  <1>3. Upto(1) = <<>> \o u
    <2>1. Upto(1) = Upto(1 - 1) \o u
      BY <1>1, TextGrows, Zenon
    <2>2. QED
      BY <1>1, <2>1, TextGrows, Zenon
  <1>4. u \in Texts /\ u # <<>> /\ u[Len(u)] \notin CD!Logical /\ u = BodyOf(t)
    BY <1>2, WrittenType, WrittenBody, Zenon
  <1>5. Upto(1) = u
    BY <1>3, <1>4, ConcatEmptySeq, Zenon DEF Texts
  <1>6. Decided(u) = "false" /\ LastRun(u) = Means(1)
    <2>1. NoLogicalWord(BodyOf(t)) /\ CD!EvaluateComparison(BodyOf(t)) = Means(1)
      BY <1>2, BodyType, ComparisonIs, Zenon DEF Means
    <2>2. QED
      BY <1>4, <2>1, OneComparison, Zenon
  <1>7. LastStart(1, 1)
    <2>1. t.glue # "AND"
      BY <1>2
    <2>2. 1 \in 1 .. 1 /\ \A j \in (1 + 1) .. 1 : FALSE
      OBVIOUS
    <2>3. QED
      BY <2>1, <2>2, Zenon DEF LastStart, ByAnd
  <1>8. RunIs(1, 1, Means(1))
    BY RunBegins
  <1>9. DecidedIs(1, "false")
    <2>1. \A i \in CD!Starts : ~(i < 1)
      BY StartsAre
    <2>2. QED
      BY <2>1, Zenon DEF DecidedIs
  <1>10. QED
    BY <1>4, <1>5, <1>6, <1>7, <1>8, <1>9, Zenon DEF IsRead

\* One comparison more is read as written.
LEMMA NextRead ==
  ASSUME WellWritten, NEW k \in 1 .. Len(formula), k + 1 <= Len(formula), NEW s, IsRead(k, s)
  PROVE  \E z : IsRead(k + 1, z)
  <1> DEFINE t == formula[k + 1]
             u == CD!Written(t)
             e == Upto(k)
             h == e \o u
  <1>1. /\ Len(formula) \in Nat /\ k \in Nat /\ k + 1 \in 1 .. Len(formula) /\ (k + 1) - 1 = k
        /\ k + 1 # 1
    <2>1. Len(formula) \in Nat
      BY Zenon DEF WellWritten
    <2>2. QED
      BY <2>1
  <1>2. IsTerm(t) /\ t.glue # "first"
    BY <1>1, Zenon DEF WellWritten
  <1>3. Upto(k + 1) = h
    <2>1. Upto(k + 1) = Upto((k + 1) - 1) \o u
      BY <1>1, TextGrows, Zenon
    <2>2. QED
      BY <1>1, <2>1, Zenon
  <1>4. /\ e \in Texts /\ e # <<>> /\ e[Len(e)] \notin CD!Logical
        /\ LastStart(s, k) /\ RunIs(s, k, LastRun(e)) /\ DecidedIs(s, Decided(e))
    BY Zenon DEF IsRead
  <1>5. /\ u \in Texts /\ u # <<>> /\ u[Len(u)] \notin CD!Logical /\ Len(u) > 1
        /\ u[1] = t.glue /\ t.glue \in CD!Logical /\ Body(u) = BodyOf(t)
        /\ \A i \in 2 .. Len(u) : u[i] \notin CD!Logical
    BY <1>2, WrittenType, Zenon
  <1>6. /\ BodyOf(t) \in Texts /\ BodyOf(t) # <<>> /\ NoLogicalWord(BodyOf(t))
        /\ CD!EvaluateComparison(BodyOf(t)) = Means(k + 1)
    BY <1>2, BodyType, ComparisonIs, Zenon DEF Means
  <1> HIDE DEF u, e
  <1>7. /\ u[1] = "AND" => /\ Decided(h) = Decided(e)
                           /\ LastRun(h) = Otherwise("true", LastRun(e), CD!EvaluateComparison(Body(u)))
        /\ u[1] = "OR" => /\ Decided(h) = Otherwise("false", Decided(e), LastRun(e))
                          /\ LastRun(h) = CD!EvaluateComparison(Body(u))
    <2>1. u[1] \in CD!Logical /\ Body(u) \in Texts /\ Body(u) # <<>> /\ NoLogicalWord(Body(u))
      BY <1>5, <1>6, Zenon
    <2>2. QED
      BY <1>4, <1>5, <2>1, ExpressionGrows, Zenon
  <1>8. h \in Texts /\ h # <<>> /\ h[Len(h)] \notin CD!Logical
    <2>1. /\ h \in Texts /\ Len(h) = Len(e) + Len(u) /\ Len(e) \in Nat /\ Len(u) \in Nat
          /\ \A i \in 1 .. Len(e) + Len(u) : h[i] = IF i <= Len(e) THEN e[i] ELSE u[i - Len(e)]
      BY <1>4, <1>5, ConcatProperties, LenProperties DEF Texts
    <2> HIDE DEF h
    <2>2. Len(h) \in 1 .. Len(e) + Len(u) /\ ~(Len(h) <= Len(e)) /\ Len(h) - Len(e) = Len(u)
      BY <1>5, <2>1
    <2>3. h[Len(h)] = u[Len(u)]
      BY <2>1, <2>2, Zenon
    <2>4. Len(h) # 0
      BY <2>2, <2>1
    <2>5. h # <<>>
      BY <2>4
    <2>6. QED
      BY <1>5, <2>1, <2>3, <2>5, Zenon
  <1> HIDE DEF h
  <1>9. s \in 1 .. k /\ ~ByAnd(s) /\ \A j \in (s + 1) .. k : ByAnd(j)
    BY <1>4, Zenon DEF LastStart
  <1>10. CASE t.glue = "AND"
    <2>1. Decided(h) = Decided(e) /\ LastRun(h) = Otherwise("true", LastRun(e), Means(k + 1))
      BY <1>5, <1>6, <1>7, <1>10, Zenon
    <2>2. ByAnd(k + 1)
      BY <1>10, Zenon DEF ByAnd
    <2>3. LastStart(s, k + 1)
      <3>1. s \in 1 .. k + 1 /\ \A j \in (s + 1) .. k + 1 : j \in (s + 1) .. k \/ j = k + 1
        BY <1>1, <1>9
      <3>2. QED
        BY <1>9, <2>2, <3>1, Zenon DEF LastStart
    <2>4. RunIs(s, k + 1, LastRun(h))
      <3>1. s \in Nat /\ k \in Nat /\ s <= k
        BY <1>9
      <3>2. QED
        BY <1>4, <2>1, <3>1, RunGrows, Zenon
    <2>5. IsRead(k + 1, s)
      BY <1>3, <1>4, <1>8, <2>1, <2>3, <2>4, Zenon DEF IsRead
    <2>6. QED
      BY <2>5, Zenon
  <1>11. CASE t.glue = "OR"
    <2>1. Decided(h) = Otherwise("false", Decided(e), LastRun(e)) /\ LastRun(h) = Means(k + 1)
      BY <1>5, <1>6, <1>7, <1>11, Zenon
    <2>2. ~ByAnd(k + 1)
      <3>1. t.glue # "AND"
        BY <1>11
      <3>2. QED
        BY <3>1, Zenon DEF ByAnd
    <2>3. CD!RunMeans(s) = LastRun(e)
      BY <1>4, <2>2, RunMeaning, Zenon
    <2>4. DecidedIs(k + 1, Decided(h))
      <3>1. s \in CD!Starts /\ k + 1 \in Nat /\ s < k + 1
        <4>1. s \in 1 .. Len(formula)
          BY <1>1, <1>9
        <4>2. s \in CD!Starts
          BY <1>9, <4>1, StartsAre, Zenon
        <4>3. k + 1 \in Nat /\ s < k + 1
          BY <1>1, <1>9
        <4>4. QED
          BY <4>2, <4>3
      <3>2. ASSUME NEW i \in CD!Starts, i < k + 1 PROVE i < s \/ i = s
        <4>1. i \in 1 .. Len(formula) /\ ~ByAnd(i)
          BY StartsAre, Zenon
        <4>2. i \notin (s + 1) .. k
          BY <1>9, <4>1, Zenon
        <4>3. QED
          BY <1>1, <1>9, <3>2, <4>1, <4>2
      <3>3. QED
        BY <1>4, <2>1, <2>3, <3>1, <3>2, DecidedGrows, Zenon
    <2>5. LastStart(k + 1, k + 1)
      <3>1. k + 1 \in 1 .. k + 1 /\ \A j \in ((k + 1) + 1) .. k + 1 : FALSE
        BY <1>1
      <3>2. QED
        BY <2>2, <3>1, Zenon DEF LastStart
    <2>6. RunIs(k + 1, k + 1, LastRun(h))
      <3>1. k + 1 \in Nat
        BY <1>1
      <3>2. QED
        BY <2>1, <3>1, RunBegins, Zenon
    <2>7. IsRead(k + 1, k + 1)
      BY <1>3, <1>8, <2>4, <2>5, <2>6, Zenon DEF IsRead
    <2>8. QED
      BY <2>7, Zenon
  <1>12. QED
    BY <1>5, <1>10, <1>11 DEF CD!Logical

\* Every comparison is.
LEMMA FormulaRead ==
  ASSUME WellWritten
  PROVE  \A k \in 1 .. Len(formula) : \E s : IsRead(k, s)
  <1> DEFINE T == {k \in Nat : k \in 1 .. Len(formula) => \E s : IsRead(k, s)}
  <1>0. Len(formula) \in Nat
    BY Zenon DEF WellWritten
  <1>1. 0 \in T
    OBVIOUS
  <1>2. ASSUME NEW k \in Nat, k \in T PROVE k + 1 \in T
    <2>1. CASE ~(k + 1 <= Len(formula))
      BY <1>0, <2>1
    <2>2. CASE k = 0 /\ k + 1 <= Len(formula)
      <3>1. Len(formula) > 0 /\ k + 1 = 1
        BY <1>0, <2>2
      <3>2. IsRead(k + 1, 1)
        BY <3>1, FirstRead, Zenon
      <3>3. k + 1 \in Nat
        OBVIOUS
      <3>4. QED
        BY <3>2, <3>3, Zenon
    <2>3. CASE k # 0 /\ k + 1 <= Len(formula)
      <3>1. k \in 1 .. Len(formula) /\ k + 1 \in Nat
        BY <1>0, <2>3
      <3>2. PICK s : IsRead(k, s)
        BY <1>2, <3>1, Zenon
      <3>3. \E z : IsRead(k + 1, z)
        BY <2>3, <3>1, <3>2, NextRead, Zenon
      <3>4. QED
        BY <3>1, <3>3, Zenon
    <2>4. QED
      BY <2>1, <2>2, <2>3
  <1>3. Nat \subseteq T
    <2> HIDE DEF T
    <2>1. QED
      BY <1>1, <1>2, SetInduction, Zenon
  <1>4. \A k \in 1 .. Len(formula) : k \in Nat
    OBVIOUS
  <1>5. QED
    BY <1>3, <1>4, Zenon

\* The text search finds the formula, of any length.
LEMMA TextIsMeant ==
  ASSUME WellWritten
  PROVE  CD!Evaluate(CD!Text) = CD!Meaning
  <1> DEFINE n == Len(formula)
             e == Upto(n)
  <1>0. n \in Nat /\ CD!Text = e
    BY Zenon DEF WellWritten, CD!Text, Upto
  <1>1. CASE formula = <<>>
    <2>1. n = 0
      BY <1>1
    <2>2. e = <<>>
      BY <1>0, <2>1, TextGrows, Zenon
    <2>3. QED
      BY <1>0, <1>1, <2>2, Zenon DEF CD!Evaluate, CD!Meaning
  <1>2. CASE n # 0
    <2>1. n \in 1 .. n /\ n + 1 \in Nat
      BY <1>0, <1>2
    <2>2. PICK s : IsRead(n, s)
      BY <2>1, FormulaRead, Zenon
    <2>3. /\ e \in Texts /\ e # <<>> /\ LastStart(s, n)
          /\ RunIs(s, n, LastRun(e)) /\ DecidedIs(s, Decided(e))
      BY <2>2, Zenon DEF IsRead
    <2>4. CD!Evaluate(e) = Otherwise("false", Decided(e), LastRun(e))
      BY <2>3, EvaluateOrIs, Zenon DEF CD!Evaluate
    <2>5. CD!RunMeans(s) = LastRun(e)
      BY <2>1, <2>3, RunMeaning, Zenon
    <2>6. s \in 1 .. n /\ ~ByAnd(s) /\ \A j \in (s + 1) .. n : ByAnd(j)
      BY <2>3, Zenon DEF LastStart
    <2>7. s \in CD!Starts
      BY <2>6, StartsAre, Zenon
    <2>8. ASSUME NEW i \in CD!Starts PROVE i < s \/ i = s
      <3>1. i \in 1 .. n /\ ~ByAnd(i)
        BY StartsAre, Zenon
      <3>2. i \notin (s + 1) .. n
        BY <2>6, <3>1, Zenon
      <3>3. QED
        BY <1>0, <2>6, <3>1, <3>2
    <2>9. s < n + 1
      BY <1>0, <2>6
    <2>10. DecidedIs(n + 1, Otherwise("false", Decided(e), LastRun(e)))
      BY <2>1, <2>3, <2>5, <2>7, <2>8, <2>9, DecidedGrows, Zenon
    <2>11. formula # <<>>
      BY <1>2
    <2>12. QED
      BY <1>0, <2>4, <2>10, <2>11, MeaningDecided, Zenon
  <1>3. formula = <<>> \/ n # 0
    BY Zenon DEF WellWritten
  <1>4. QED
    BY <1>1, <1>2, <1>3

-----------------------------------------------------------------------------
(* What the evaluator returns *)

Returned == {"true", "false", "error", "panic"}

\* A formula means true, false, an error or a panic.
LEMMA MeaningType == CD!Meaning \in Returned
  <1>1. \A p : CD!Bool(p) \in Returned
    BY DEF CD!Bool, Returned
  <1>2. \A v : CD!Failure(v) \in Returned
    BY DEF CD!Failure, Returned
  <1>3. "true" \in Returned /\ "false" \in Returned /\ "error" \in Returned
    BY DEF Returned
  <1>4. \A a, op, b : CD!Compare(a, op, b) \in Returned
    <2> TAKE a, op, b
    <2>1. CASE CD!Broken(a) \/ CD!Broken(b) \/ (CD!IsNumber(a) /\ CD!IsNumber(b))
      BY <1>1, <1>2, <2>1, Zenon DEF CD!Compare
    <2>2. CASE ~(CD!Broken(a) \/ CD!Broken(b) \/ (CD!IsNumber(a) /\ CD!IsNumber(b)))
      <3>1. CD!Compare(a, op, b) = CASE op = "==" -> CD!Bool(a.text = b.text)
                                     [] op = "!=" -> CD!Bool(a.text # b.text)
                                     [] OTHER -> "error"
        BY <2>2, Zenon DEF CD!Compare
      <3>2. QED
        BY <1>1, <1>3, <3>1
    <2>3. QED
      BY <2>1, <2>2
  <1>5. \A v : CD!Alone(v) \in Returned
    BY <1>1, <1>2, Zenon DEF CD!Alone
  <1>6. \A t : CD!TermMeans(t) \in Returned
    BY <1>4, <1>5, Zenon DEF CD!TermMeans
  <1>7. \A i : CD!RunMeans(i) \in Returned
    BY <1>3, <1>6, Zenon DEF CD!RunMeans
  <1>8. QED
    BY <1>3, <1>7, Zenon DEF CD!Meaning

\* Numbers compared by an operator and by its opposite differ, but for NaN.
LEMMA NumbersOpposed ==
  ASSUME NEW op \in CD!Comparisons, NEW l, NEW r, l # "nan", r # "nan"
  PROVE  /\ CD!Opposite[op] \in CD!Comparisons
         /\ CD!CompareNumbers(l, CD!Opposite[op], r) \in BOOLEAN
         /\ CD!CompareNumbers(l, op, r) \in BOOLEAN
         /\ CD!CompareNumbers(l, CD!Opposite[op], r) = ~CD!CompareNumbers(l, op, r)
  <1>1. /\ CD!Opposite["=="] = "!=" /\ CD!Opposite["!="] = "=="
        /\ CD!Opposite[">"] = "<=" /\ CD!Opposite["<="] = ">"
        /\ CD!Opposite["<"] = ">=" /\ CD!Opposite[">="] = "<"
    BY DEF CD!Opposite
  <1>2. CD!Number(l) \in Int /\ CD!Number(r) \in Int
    BY DEF CD!Number
  <1>3. "nan" \notin {l, r}
    OBVIOUS
  <1> DEFINE a == CD!Number(l)
             b == CD!Number(r)
  <1> HIDE DEF a, b
  <1>4. \A o : CD!CompareNumbers(l, o, r) =
           CASE o = ">" -> a > b [] o = "<" -> a < b [] o = ">=" -> a >= b
             [] o = "<=" -> a <= b [] o = "==" -> a = b [] o = "!=" -> a # b
    BY <1>3, Zenon DEF CD!CompareNumbers, a, b
  <1>5. /\ CD!CompareNumbers(l, ">", r) = (a > b) /\ CD!CompareNumbers(l, "<=", r) = (a <= b)
        /\ CD!CompareNumbers(l, "<", r) = (a < b) /\ CD!CompareNumbers(l, ">=", r) = (a >= b)
        /\ CD!CompareNumbers(l, "==", r) = (a = b) /\ CD!CompareNumbers(l, "!=", r) = (a # b)
    BY <1>4
  <1>6. a \in Int /\ b \in Int
    BY <1>2 DEF a, b
  <1>7. /\ (a <= b) = ~(a > b) /\ (a > b) = ~(a <= b) /\ (a >= b) = ~(a < b) /\ (a < b) = ~(a >= b)
        /\ (a # b) = ~(a = b) /\ (a = b) = ~(a # b)
    BY <1>6
  <1>8. /\ (a <= b) \in BOOLEAN /\ (a > b) \in BOOLEAN /\ (a >= b) \in BOOLEAN /\ (a < b) \in BOOLEAN
        /\ (a # b) \in BOOLEAN /\ (a = b) \in BOOLEAN
    BY <1>6
  <1> DEFINE Differ(x) == /\ CD!CompareNumbers(l, CD!Opposite[x], r) \in BOOLEAN
                          /\ CD!CompareNumbers(l, x, r) \in BOOLEAN
                          /\ CD!CompareNumbers(l, CD!Opposite[x], r) = ~CD!CompareNumbers(l, x, r)
  <1>a. Differ("==") /\ Differ("!=")
    BY <1>1, <1>5, <1>7, <1>8, Zenon
  <1>b. Differ(">") /\ Differ("<=")
    BY <1>1, <1>5, <1>7, <1>8, Zenon
  <1>c. Differ("<") /\ Differ(">=")
    BY <1>1, <1>5, <1>7, <1>8, Zenon
  <1>10. op \in {"==", "!=", ">", "<=", "<", ">="} /\ CD!Opposite[op] \in CD!Comparisons
    BY <1>1 DEF CD!Comparisons
  <1>d. Differ(op)
    <2> HIDE DEF Differ
    <2>1. QED
      BY <1>a, <1>b, <1>c, <1>10
  <1>11. QED
    BY <1>10, <1>d, Zenon

\* The number of an operand is not NaN, unless its text is.
LEMMA NumberHead ==
  ASSUME NEW o, CD!IsOperand(o), CD!IsNumber(CD!Value(o)), CD!Value(o).text # <<"nan">>
  PROVE  Head(CD!Value(o).text) # "nan"
  <1> DEFINE v == CD!Value(o)
  <1>1. /\ o \in Texts /\ o # <<>> /\ Len(o) \in Nat /\ Len(o) > 0
    BY OperandType, Zenon
  <1>2. CASE CD!Quoted(o)
    <2> DEFINE x == SubSeq(o, 2, Len(o) - 1)
    <2>1. v = [type |-> "text", text |-> x]
      BY <1>2, Zenon DEF CD!Value
    <2>2. v.type = "text" /\ v.text = x
      BY <2>1
    <2>3. Len(x) = 1
      BY <2>2 DEF CD!IsNumber
    <2>4. x \in Texts
      <3>1. 2 \in 1 .. Len(o) /\ Len(o) - 1 \in 0 .. Len(o)
        BY <1>1, <1>2 DEF CD!Quoted
      <3>2. QED
        BY <1>1, <3>1, PartIs, Zenon
    <2> HIDE DEF x
    <2>5. x = <<x[1]>> /\ Head(x) = x[1]
      BY <2>3, <2>4 DEF Texts
    <2>6. x # <<"nan">>
      BY <2>2
    <2>7. QED
      BY <2>2, <2>5, <2>6, Zenon
  <1>3. CASE ~CD!Quoted(o)
    <2>1. v = CD!ResolveValue(o)
      BY <1>3, Zenon DEF CD!Value
    <2>2. Len(o) = 1
      <3>1. \A n \in Nat : n > 0 /\ ~(n > 1) => n = 1
        OBVIOUS
      <3>2. QED
        BY <1>1, <1>3, <3>1, Zenon DEF CD!Quoted
    <2>3. o = <<o[1]>> /\ Head(o) = o[1]
      BY <1>1, <2>2 DEF Texts
    <2>4. v.type \in {"number", "text"}
      BY DEF CD!IsNumber
    <2>5. CASE Head(o) = CD!Quote /\ CD!Last(o) = CD!Quote
      <3>1. v = [type |-> "panic", text |-> <<>>]
        BY <1>1, <2>1, <2>2, <2>5, Zenon DEF CD!ResolveValue
      <3>2. v.type = "panic"
        BY <3>1
      <3>3. QED
        BY <2>4, <3>2
    <2>6. CASE ~(Head(o) = CD!Quote /\ CD!Last(o) = CD!Quote)
      <3>1. v = IF Head(o) \in {"true", "false"} THEN [type |-> "bool", text |-> o]
                ELSE IF Head(o) \in CD!Floats THEN [type |-> "number", text |-> o]
                ELSE CD!Context(Head(o))
        BY <1>1, <2>1, <2>2, <2>6, Zenon DEF CD!ResolveValue
      <3> HIDE DEF v
      <3>2. CASE Head(o) \in {"true", "false"}
        BY <2>4, <3>1, <3>2
      <3>3. CASE Head(o) \notin {"true", "false"} /\ Head(o) \in CD!Floats
        <4>1. v = [type |-> "number", text |-> o]
          BY <3>1, <3>3, Zenon
        <4>2. v.text = o
          BY <4>1
        <4>3. o # <<"nan">>
          BY <4>2 DEF v
        <4>4. Head(o) # "nan"
          BY <2>3, <4>3, Zenon
        <4>5. QED
          BY <4>2, <4>4, Zenon DEF v
      <3>4. CASE Head(o) \notin {"true", "false"} /\ Head(o) \notin CD!Floats
        <4>1. v = CD!Context(Head(o))
          BY <3>1, <3>4, Zenon
        <4>2. \/ v = [type |-> "number", text |-> <<"1">>]
              \/ v = [type |-> "number", text |-> <<"2">>]
              \/ v = [type |-> "text", text |-> <<"low">>]
              \/ v = [type |-> "text", text |-> <<"nan">>]
              \/ v = [type |-> "bool", text |-> <<"false">>]
              \/ v = [type |-> "missing", text |-> <<>>]
          BY <4>1 DEF CD!Context
        <4>3. v.type \in {"bool", "missing"} \/ v.text \in {<<"1">>, <<"2">>, <<"low">>, <<"nan">>}
          BY <4>2
        <4>4. v.text \in {<<"1">>, <<"2">>, <<"low">>}
          <5>1. v.text # <<"nan">>
            BY DEF v
          <5>2. QED
            BY <2>4, <4>3, <5>1
        <4>5. Head(v.text) # "nan"
          BY <4>4
        <4>6. QED
          BY <4>5 DEF v
      <3>5. QED
        BY <3>2, <3>3, <3>4
    <2>7. QED
      BY <2>5, <2>6
  <1>4. QED
    BY <1>2, <1>3

\* Values that are compared are not compared otherwise by the opposite.
LEMMA ValuesOpposed ==
  ASSUME NEW a, NEW b, NEW op \in CD!Comparisons,
         CD!IsNumber(a) => Head(a.text) # "nan", CD!IsNumber(b) => Head(b.text) # "nan",
         CD!Compare(a, op, b) \in {"true", "false"}
  PROVE  CD!Compare(a, CD!Opposite[op], b) = IF CD!Compare(a, op, b) = "true" THEN "false" ELSE "true"
  <1>1. ~CD!Broken(a) /\ ~CD!Broken(b)
    <2>1. \A v : CD!Failure(v) \notin {"true", "false"}
      BY DEF CD!Failure
    <2>2. QED
      BY <2>1, Zenon DEF CD!Compare
  <1>2. \A p, q : p \in BOOLEAN /\ q = ~p => CD!Bool(q) = IF CD!Bool(p) = "true" THEN "false" ELSE "true"
    BY DEF CD!Bool
  <1>3. CASE CD!IsNumber(a) /\ CD!IsNumber(b)
    <2> DEFINE l == Head(a.text)
               r == Head(b.text)
    <2>1. \A o : CD!Compare(a, o, b) = CD!Bool(CD!CompareNumbers(l, o, r))
      BY <1>1, <1>3, Zenon DEF CD!Compare
    <2>2. /\ CD!CompareNumbers(l, op, r) \in BOOLEAN
          /\ CD!CompareNumbers(l, CD!Opposite[op], r) = ~CD!CompareNumbers(l, op, r)
      BY <1>3, NumbersOpposed, Zenon
    <2>3. QED
      BY <1>2, <2>1, <2>2, Zenon
  <1>4. CASE ~(CD!IsNumber(a) /\ CD!IsNumber(b))
    <2> DEFINE p == a.text = b.text
    <2>1. \A o : CD!Compare(a, o, b) = CASE o = "==" -> CD!Bool(a.text = b.text)
                                         [] o = "!=" -> CD!Bool(a.text # b.text)
                                         [] OTHER -> "error"
      BY <1>1, <1>4, Zenon DEF CD!Compare
    <2>2. /\ CD!Compare(a, "==", b) = CD!Bool(a.text = b.text)
          /\ CD!Compare(a, "!=", b) = CD!Bool(a.text # b.text)
          /\ \A o : o \notin {"==", "!="} => CD!Compare(a, o, b) = "error"
      BY <2>1
    <2>3. op \in {"==", "!="}
      <3>1. "error" \notin {"true", "false"}
        OBVIOUS
      <3>2. QED
        BY <2>2, <3>1, Zenon
    <2>4. CD!Opposite["=="] = "!=" /\ CD!Opposite["!="] = "=="
      BY DEF CD!Opposite
    <2>5. /\ CD!Bool(a.text = b.text) = IF a.text = b.text THEN "true" ELSE "false"
          /\ CD!Bool(a.text # b.text) = IF a.text # b.text THEN "true" ELSE "false"
      BY Zenon DEF CD!Bool
    <2>6. CASE op = "=="
      BY <2>2, <2>4, <2>5, <2>6
    <2>7. CASE op = "!="
      BY <2>2, <2>4, <2>5, <2>7
    <2>8. QED
      BY <2>3, <2>6, <2>7
  <1>5. QED
    BY <1>3, <1>4

-----------------------------------------------------------------------------
(* What the author writes *)

CondInv ==
  /\ CD!TypeInv
  /\ \A k \in 1 .. Len(formula) : IsTerm(formula[k]) /\ (formula[k].glue = "first" <=> k = 1)
  /\ outcome # "none" => outcome = CD!Evaluate(CD!Text)

WrittenTerms == [glue : {"first", "AND", "OR"}, left : author.operands,
             op : author.operators \cup {"none"}, right : author.operands \cup {<<>>}]

\* What is written is well written.
LEMMA FormulaType ==
  ASSUME CondInv
  PROVE  WellWritten /\ formula \in Seq(WrittenTerms)
  <1>1. formula \in Seq(WrittenTerms)
    BY Zenon DEF CondInv, CD!TypeInv, WrittenTerms
  <1>2. Len(formula) \in Nat /\ DOMAIN formula = 1 .. Len(formula) /\ (Len(formula) = 0 => formula = <<>>)
    BY <1>1, LenProperties, EmptySeq
  <1>3. QED
    BY <1>1, <1>2, Zenon DEF CondInv, WellWritten

\* The invariant of Conditions.
LEMMA CondInit == ASSUME CD!Init PROVE CondInv
  <1>1. author \in Writers /\ formula = <<>> /\ outcome = "none"
    BY Zenon DEF CD!Init
  <1>2. CD!IsAuthor(author)
    BY <1>1, ConditionsAssumption, Zenon
  <1>3. author.terms \in Nat
    BY <1>2, Zenon DEF CD!IsAuthor
  <1>4. formula \in Seq(WrittenTerms) /\ Len(formula) = 0
    BY <1>1
  <1>5. \A k \in 1 .. Len(formula) : FALSE
    BY <1>4
  <1>6. Len(formula) <= author.terms
    BY <1>3, <1>4
  <1>7. outcome \in {"none", "true", "false", "error", "panic"} /\ ~(outcome # "none")
    BY <1>1
  <1>8. QED
    BY <1>1, <1>4, <1>5, <1>6, <1>7, Zenon DEF CondInv, CD!TypeInv, WrittenTerms

\* What an author adds is a comparison of operands.
LEMMA AddedTerm ==
  ASSUME CD!IsAuthor(author), NEW g \in {"first", "AND", "OR"}, NEW t \in CD!Terms(g)
  PROVE  t \in WrittenTerms /\ IsTerm(t) /\ t.glue = g
  <1>1. /\ author.operators \subseteq CD!Comparisons
        /\ \A o \in author.operands : CD!IsOperand(o)
    BY Zenon DEF CD!IsAuthor
  <1>2. CASE \E l \in author.operands : t = CD!Term(g, l, "none", <<>>)
    <2>1. PICK l \in author.operands : t = [glue |-> g, left |-> l, op |-> "none", right |-> <<>>]
      BY <1>2, Zenon DEF CD!Term
    <2>2. t.glue = g /\ t.left = l /\ t.op = "none"
      BY <2>1
    <2>3. t \in WrittenTerms
      <3>1. "none" \in author.operators \cup {"none"} /\ <<>> \in author.operands \cup {<<>>}
        BY Zenon
      <3>2. QED
        BY <2>1, <3>1, Zenon DEF WrittenTerms
    <2>4. QED
      BY <1>1, <2>2, <2>3, Zenon DEF IsTerm
  <1>3. CASE \E l \in author.operands, op \in author.operators, r \in author.operands : t = CD!Term(g, l, op, r)
    <2>1. PICK l \in author.operands, op \in author.operators, r \in author.operands :
            t = [glue |-> g, left |-> l, op |-> op, right |-> r]
      BY <1>3, Zenon DEF CD!Term
    <2>2. t.glue = g /\ t.left = l /\ t.op = op /\ t.right = r
      BY <2>1
    <2>3. t \in WrittenTerms
      <3>1. op \in author.operators \cup {"none"} /\ r \in author.operands \cup {<<>>}
        BY Zenon
      <3>2. QED
        BY <2>1, <3>1, Zenon DEF WrittenTerms
    <2>4. op \in CD!Comparisons
      BY <1>1, Zenon
    <2>5. QED
      BY <1>1, <2>2, <2>3, <2>4, Zenon DEF IsTerm
  <1>4. QED
    BY <1>2, <1>3 DEF CD!Terms

LEMMA CondWrite == ASSUME CondInv, CD!Write PROVE CondInv'
  <1> DEFINE n == Len(formula)
             S == WrittenTerms
  <1>1. /\ formula \in Seq(S) /\ n \in Nat /\ WellWritten
        /\ author \in Writers /\ CD!IsAuthor(author) /\ author.terms \in Nat
    <2>1. author \in Writers
      BY Zenon DEF CondInv, CD!TypeInv
    <2>2. CD!IsAuthor(author)
      BY <2>1, ConditionsAssumption, Zenon
    <2>3. QED
      BY <2>1, <2>2, FormulaType, Zenon DEF CD!IsAuthor, WellWritten
  <1>2. /\ n < author.terms /\ author' = author /\ outcome' = "none"
        /\ \E g \in IF formula = <<>> THEN {"first"} ELSE CD!Logical :
             \E t \in CD!Terms(g) : formula' = Append(formula, t)
    BY Zenon DEF CD!Write
  <1>3. PICK g \in IF formula = <<>> THEN {"first"} ELSE CD!Logical :
             \E t \in CD!Terms(g) : formula' = Append(formula, t)
    BY <1>2, Zenon
  <1>4. PICK t \in CD!Terms(g) : formula' = Append(formula, t)
    BY <1>3, Zenon
  <1>5. g \in {"first", "AND", "OR"} /\ (g = "first" <=> formula = <<>>)
    BY DEF CD!Logical
  <1>6. t \in S /\ IsTerm(t) /\ t.glue = g
    BY <1>1, <1>5, AddedTerm, Zenon
  <1> HIDE DEF S, n
  <1>7. /\ formula' \in Seq(S) /\ Len(formula') = n + 1 /\ formula'[n + 1] = t
        /\ \A i \in 1 .. n : formula'[i] = formula[i]
    <2>1. formula \in Seq(S)
      BY <1>1
    <2>2. /\ Append(formula, t) \in Seq(S) /\ Len(Append(formula, t)) = n + 1
          /\ Append(formula, t)[n + 1] = t
          /\ \A i \in 1 .. n : Append(formula, t)[i] = formula[i]
      BY <1>6, <2>1, AppendProperties DEF n
    <2>3. QED
      BY <1>4, <2>2, Zenon
  <1>8. ASSUME NEW k \in 1 .. Len(formula')
        PROVE  IsTerm(formula'[k]) /\ (formula'[k].glue = "first" <=> k = 1)
    <2>1. CASE k \in 1 .. n
      <3>1. formula'[k] = formula[k]
        BY <1>7, <2>1
      <3>2. IsTerm(formula[k]) /\ (formula[k].glue = "first" <=> k = 1)
        BY <2>1, Zenon DEF CondInv, n
      <3>3. QED
        BY <3>1, <3>2, Zenon
    <2>2. CASE k = n + 1
      <3>1. formula'[k] = t
        BY <1>7, <2>2
      <3>2. formula = <<>> <=> n = 0
        BY <1>1, EmptySeq DEF n, WellWritten
      <3>3. k = 1 <=> n = 0
        BY <1>1, <2>2
      <3>4. QED
        BY <1>5, <1>6, <3>1, <3>2, <3>3, Zenon
    <2>3. k \in 1 .. n \/ k = n + 1
      BY <1>1, <1>7
    <2>4. QED
      BY <2>1, <2>2, <2>3
  <1>9. Len(formula') <= author.terms
    BY <1>1, <1>2, <1>7
  <1>10. outcome' \in {"none", "true", "false", "error", "panic"} /\ ~(outcome' # "none")
    BY <1>2
  <1>11. S' = S /\ author' \in Writers /\ author' = author
    BY <1>1, <1>2, Zenon DEF S, WrittenTerms
  <1>12. CD!TypeInv'
    BY <1>7, <1>9, <1>10, <1>11, Zenon DEF CD!TypeInv, S, WrittenTerms
  <1>13. QED
    BY <1>8, <1>10, <1>12, Zenon DEF CondInv

LEMMA CondEvaluate == ASSUME CondInv, CD!EvaluateNode PROVE CondInv'
  <1>1. outcome' = CD!Evaluate(CD!Text) /\ author' = author /\ formula' = formula
    BY Zenon DEF CD!EvaluateNode
  <1>2. CD!Text' = CD!Text
    BY <1>1, Zenon DEF CD!Text
  <1>3. outcome' \in Returned
    BY <1>1, FormulaType, TextIsMeant, MeaningType, Zenon
  <1>4. outcome' \in {"none", "true", "false", "error", "panic"}
    BY <1>3 DEF Returned
  <1>5. CD!TypeInv'
    BY <1>1, <1>4, Zenon DEF CD!TypeInv, CondInv
  <1>6. QED
    BY <1>1, <1>2, <1>5, Zenon DEF CondInv

LEMMA CondNext == ASSUME CondInv, [CD!Next]_conditionVars PROVE CondInv'
  <1>1. CASE UNCHANGED conditionVars
    <2>1. author' = author /\ formula' = formula /\ outcome' = outcome
      BY <1>1, Zenon DEF conditionVars
    <2>2. CD!Text' = CD!Text
      BY <2>1, Zenon DEF CD!Text
    <2>3. QED
      BY <2>1, <2>2, Zenon DEF CondInv, CD!TypeInv
  <1>2. QED
    BY <1>1, CondWrite, CondEvaluate, Zenon DEF CD!Next

\* One comparison is evaluated as such.
LEMMA OneTerm ==
  ASSUME NEW t, IsTerm(t), t.glue = "first"
  PROVE  CD!Evaluate(CD!Written(t)) = CD!TermMeans(t)
  <1> DEFINE b == BodyOf(t)
  <1>1. CD!Written(t) = b
    BY WrittenBody, Zenon
  <1>2. b \in Texts /\ b # <<>> /\ NoLogicalWord(b) /\ CD!EvaluateComparison(b) = CD!TermMeans(t)
    BY BodyType, ComparisonIs, Zenon
  <1> HIDE DEF b
  <1>3. Decided(b) = "false" /\ LastRun(b) = CD!TermMeans(t)
    BY <1>2, OneComparison, Zenon
  <1>4. CD!Evaluate(b) = Otherwise("false", Decided(b), LastRun(b))
    BY <1>2, EvaluateOrIs, Zenon DEF CD!Evaluate
  <1>5. QED
    BY <1>1, <1>3, <1>4, Zenon DEF Otherwise

\* An operator and its opposite never agree, unless NaN is compared.
LEMMA OppositesDiffer == ASSUME CondInv PROVE CD!Opposed
  <1> DEFINE t == formula[1]
             z == [t EXCEPT !.op = CD!Opposite[@]]
  <1> SUFFICES ASSUME Len(formula) = 1, t.op # "none", CD!Plain(t), outcome \in {"true", "false"}
               PROVE  CD!Evaluate(CD!Written(z)) = IF outcome = "true" THEN "false" ELSE "true"
    BY Zenon DEF CD!Opposed
  <1>1. 1 \in 1 .. Len(formula) /\ Len(formula) > 0 /\ 1 - 1 = 0
    OBVIOUS
  <1>2. WellWritten /\ formula \in Seq(WrittenTerms)
    BY FormulaType, Zenon
  <1>3. IsTerm(t) /\ t.glue = "first" /\ t \in WrittenTerms
    BY <1>1, <1>2, ElementOfSeq, Zenon DEF CondInv
  <1>4. CD!IsOperand(t.left) /\ CD!IsOperand(t.right) /\ t.op \in CD!Comparisons
    BY <1>3, Zenon DEF IsTerm
  <1>5. CD!Text = CD!Written(t)
    <2>1. Upto(1) = Upto(1 - 1) \o CD!Written(t)
      BY <1>1, <1>2, TextGrows, Zenon DEF WellWritten
    <2>2. Upto(0) = <<>>
      BY <1>2, TextGrows, Zenon DEF WellWritten
    <2>3. CD!Written(t) \in Texts
      BY <1>3, WrittenType, Zenon
    <2>4. Upto(1) = CD!Written(t)
      BY <1>1, <2>1, <2>2, <2>3, ConcatEmptySeq, Zenon DEF Texts
    <2>5. QED
      BY <2>4, Zenon DEF CD!Text, Upto
  <1> DEFINE a == CD!Value(t.left)
             b == CD!Value(t.right)
  <1>6. outcome = CD!Compare(a, t.op, b)
    <2>1. outcome # "none"
      OBVIOUS
    <2>2. outcome = CD!Evaluate(CD!Text)
      BY <2>1, Zenon DEF CondInv
    <2>3. CD!TermMeans(t) = CD!Compare(a, t.op, b)
      BY Zenon DEF CD!TermMeans
    <2>4. QED
      BY <1>3, <1>5, <2>2, <2>3, OneTerm, Zenon
  <1>7. a.text # <<"nan">> /\ b.text # <<"nan">>
    BY Zenon DEF CD!Plain
  <1>8. /\ CD!IsNumber(a) => Head(a.text) # "nan"
        /\ CD!IsNumber(b) => Head(b.text) # "nan"
    BY <1>4, <1>7, NumberHead, Zenon
  <1>9. CD!Compare(a, CD!Opposite[t.op], b) = IF outcome = "true" THEN "false" ELSE "true"
    BY <1>4, <1>6, <1>8, ValuesOpposed, Zenon
  <1>10. CD!Opposite[t.op] \in CD!Comparisons
    <2>1. "1" # "nan"
      OBVIOUS
    <2>2. QED
      BY <1>4, <2>1, NumbersOpposed, Zenon
  <1>11. z.glue = t.glue /\ z.left = t.left /\ z.right = t.right /\ z.op = CD!Opposite[t.op]
    BY <1>3 DEF WrittenTerms
  <1> HIDE DEF z
  <1>12. z.op # "none"
    BY <1>10, <1>11 DEF CD!Comparisons
  <1>13. IsTerm(z) /\ z.glue = "first"
    BY <1>3, <1>4, <1>10, <1>11, Zenon DEF IsTerm
  <1>14. CD!Evaluate(CD!Written(z)) = CD!TermMeans(z)
    BY <1>13, OneTerm, Zenon
  <1>15. CD!TermMeans(z) = CD!Compare(a, CD!Opposite[t.op], b)
    BY <1>11, <1>12, Zenon DEF CD!TermMeans
  <1>16. QED
    BY <1>9, <1>14, <1>15, Zenon

\* Whatever authors write with, and however long the formula: the search of the text finds
\* the formula that was meant, so that AND binds stronger than OR, no operator is taken for
\* a part of another and evaluation stops at what decides; and an operator and its opposite
\* never agree, unless NaN is compared (evaluator.go, Evaluate and splitLogical).
THEOREM ConditionsHold ==
  PartsSpec => [](part = "conditions" => CD!TypeInv /\ CD!MatchesMeaning /\ CD!Opposed)
  <1> DEFINE P == part = "conditions" => CondInv
  <1>1. PartsInit => P
    BY CondInit, Zenon DEF PartsInit
  <1>2. P /\ [PartsNext]_allVars => P'
    <2>1. ASSUME [PartsNext]_allVars
          PROVE  part' = part /\ (part = "conditions" => [CD!Next]_conditionVars)
      BY <2>1 DEF PartsNext, allVars, conditionVars
    <2>2. QED
      BY <2>1, CondNext, Zenon
  <1>3. P => (part = "conditions" => CD!TypeInv /\ CD!MatchesMeaning /\ CD!Opposed)
    <2>1. ASSUME CondInv PROVE CD!TypeInv /\ CD!MatchesMeaning /\ CD!Opposed
      <3>1. CD!MatchesMeaning
        BY <2>1, FormulaType, TextIsMeant, Zenon DEF CondInv, CD!MatchesMeaning
      <3>2. QED
        BY <2>1, <3>1, OppositesDiffer, Zenon DEF CondInv
    <2>2. QED
      BY <2>1
  <1> HIDE DEF P
  <1>4. QED
    BY <1>1, <1>2, <1>3, PTL DEF PartsSpec

-----------------------------------------------------------------------------
(* The parts together *)

\* In every behaviour of the parts: the text search finds the formula that was meant and
\* opposites never agree (evaluator.go); each target gets what its own mapping says, no
\* stage completes without a required field, and what was accepted compiles (mapper.go,
\* service.go, workflow_validation.go).
THEOREM DataHold == PartsSpec => []DataInv
  BY ConditionsHold, MappingHolds, PTL DEF DataInv

\* What was left alone is returned exactly once, in every behaviour of the parts
\* (config.go:872, populateWebhookRegistry).
THEOREM PagesHold == ASSUME Consistent PROVE PartsSpec => []WalkIsExact
  <1>1. Pages => []NothingMissed
    BY Complete
  <1>2. Pages => []NothingTwice
    BY NoRepetition
  <1>3. QED
    BY <1>1, <1>2, PartsArePages, PTL DEF WalkIsExact

\* What no step of a part does: the cursor of a walk never goes back, and no text is
\* compiled twice (config.go:883, service.go).
THEOREM StepsHold ==
  ASSUME Consistent
  PROVE  PartsSpec => PartsAct
  <1>1. Pages => CursorAdvances
    BY WalkAdvances
  <1>2. QED
    BY <1>1, NoTextTwice, PartsArePages, PTL DEF PartsAct

===============================================================================
