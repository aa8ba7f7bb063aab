------------------------------- MODULE Tokens -------------------------------
(* A call of the HTTP runner and the token it carries: pkg/executors/http and *)
(* pkg/executors/http/auth.  Execute gives the whole call one deadline,       *)
(* builds an auth provider from the configuration (applyAuth) and lets it put *)
(* a token on the request: from its cache, by a refresh, or by a new grant,   *)
(* for which it asks the issuer where to.  Two caches, of tokens and of       *)
(* discovery documents, belong to the provider; since each call builds one,   *)
(* it finds them empty.                                                       *)
EXTENDS Integers, Sequences, FiniteSets

CONSTANTS
  Calls,        \* calls of the runner for one configuration; each may run again and again
  Password,     \* oidc_user, otherwise oidc_client_credentials
  CacheOn,      \* CacheCfg.Enabled
  UseRefresh,   \* CacheCfg.UseRefreshToken
  Buffer,       \* CacheCfg.RefreshBeforeExpirySeconds
  Timeout,      \* timeout_seconds, the deadline of a call
  DocTTL,       \* DiscoveryClient.cacheTTL
  Lifetimes,    \* expires_in of the tokens the server issues; 0 when it sends none
  MaxTime,      \* bound: no call starts that could outlive this moment
  MaxTokens     \* bound: tokens the server issues

VARIABLES
  now,       \* the clock
  tokens,    \* the tokens the server has issued; a token is its place in the sequence
  doc,       \* moment at which the provider of each call fetched the discovery document
  cache,     \* token and expiry that it remembers
  pc,        \* where each call is
  began,     \* moment at which it began
  goal,      \* what it asks the server for: a refresh, a grant or nothing
  got        \* token it was given

vars == <<now, tokens, doc, cache, pc, began, goal, got>>

None == -1
NoToken == 0
Nothing == [token |-> NoToken, until |-> None]

Ended == {"idle", "done", "failed"}
Waiting == {"discover", "ask", "reply", "send"}
InTime(c) == now <= began[c] + Timeout
\* At the very deadline the answer and the timer race.
Due(c) == now >= began[c] + Timeout

TypeInv ==
  /\ now \in 0..MaxTime
  /\ tokens \in Seq([life : Lifetimes, at : 0..MaxTime, refresh : BOOLEAN])
  /\ Len(tokens) <= MaxTokens
  /\ doc \in [Calls -> {None} \cup 0..MaxTime]
  /\ \A c \in Calls : cache[c] # Nothing => cache[c].token \in 1..Len(tokens) /\ cache[c].until \in Nat
  /\ pc \in [Calls -> Ended \cup Waiting \cup {"lookup"}]
  /\ began \in [Calls -> 0..MaxTime]
  /\ goal \in [Calls -> {"refresh", "grant", "none"}]
  /\ got \in [Calls -> 0..Len(tokens)]

Init ==
  /\ now = 0 /\ tokens = <<>>
  /\ doc = [c \in Calls |-> None]
  /\ cache = [c \in Calls |-> Nothing]
  /\ pc = [c \in Calls |-> "idle"]
  /\ began = [c \in Calls |-> 0]
  /\ goal = [c \in Calls |-> "none"]
  /\ got = [c \in Calls |-> NoToken]

-----------------------------------------------------------------------------
(* The call *)

\* Mutant of NewProvider: the provider of the last call is used again.
KeepProvider(c) == UNCHANGED <<doc, cache>>

\* NewFromConfig: NewOIDCClientCredentialsProvider and NewOIDCUserProvider make a
\* TokenFetcher and a DiscoveryClient of their own.
NewProvider(c) == doc' = [doc EXCEPT ![c] = None] /\ cache' = [cache EXCEPT ![c] = Nothing]

\* The call begins and NewFromConfig accepts its configuration.
Begin(c) ==
  /\ pc[c] \in Ended /\ now + Timeout <= MaxTime
  /\ pc' = [pc EXCEPT ![c] = "lookup"]
  /\ began' = [began EXCEPT ![c] = now]
  /\ goal' = [goal EXCEPT ![c] = "none"]
  /\ got' = [got EXCEPT ![c] = NoToken]
  /\ NewProvider(c)
  /\ UNCHANGED <<now, tokens>>

\* No url, a body that cannot be encoded, an unknown auth type or a missing credential.
Refuse(c) ==
  /\ pc[c] \in Ended \ {"failed"}
  /\ pc' = [pc EXCEPT ![c] = "failed"]
  /\ goal' = [goal EXCEPT ![c] = "none"]
  /\ UNCHANGED <<now, tokens, doc, cache, began, got>>

IsExpired(entry) == now + Buffer > entry.until

Renewable(entry) == Password /\ UseRefresh /\ tokens[entry.token].refresh

\* getCachedToken; tryGetCachedOrRefreshedToken up to its request.
Lookup(c) ==
  LET entry == cache[c]
      found == CacheOn /\ entry # Nothing
      fresh == found /\ ~IsExpired(entry)
      renew == found /\ ~fresh /\ Renewable(entry)
  IN /\ pc[c] = "lookup"
     /\ got' = [got EXCEPT ![c] = IF fresh \/ renew THEN entry.token ELSE NoToken]
     /\ goal' = [goal EXCEPT ![c] = IF fresh THEN "none" ELSE IF renew THEN "refresh" ELSE "grant"]
     /\ pc' = [pc EXCEPT ![c] = IF fresh THEN "send" ELSE "discover"]
     /\ UNCHANGED <<now, tokens, doc, cache, began>>

Documented(c) == doc[c] # None /\ now - doc[c] < DocTTL

Continue(c, state, aim) == pc' = [pc EXCEPT ![c] = state] /\ goal' = [goal EXCEPT ![c] = aim]

\* A refresh that fails is not an error: the grant is tried next, discovery first.
Rejected(c) ==
  IF goal[c] = "refresh" THEN Continue(c, "discover", "grant") ELSE Continue(c, "failed", "grant")

\* Discover.
Discover(c) ==
  /\ pc[c] = "discover" /\ InTime(c)
  /\ \/ /\ doc' = IF Documented(c) THEN doc ELSE [doc EXCEPT ![c] = now]
        /\ Continue(c, "ask", goal[c])
     \/ ~Documented(c) /\ Rejected(c) /\ UNCHANGED doc
  /\ UNCHANGED <<now, tokens, cache, began, got>>

\* The token endpoint issues a token.
Issue(c) ==
  /\ pc[c] = "ask" /\ InTime(c) /\ Len(tokens) < MaxTokens
  /\ \E life \in Lifetimes, refresh \in {FALSE, Password} :
       tokens' = Append(tokens, [life |-> life, at |-> now, refresh |-> refresh])
  /\ got' = [got EXCEPT ![c] = Len(tokens')]
  /\ pc' = [pc EXCEPT ![c] = "reply"]
  /\ UNCHANGED <<now, doc, cache, began, goal>>

\* It answers with anything but 200, or with what cannot be decoded.
Deny(c) ==
  /\ pc[c] = "ask" /\ InTime(c)
  /\ Rejected(c)
  /\ UNCHANGED <<now, tokens, doc, cache, began, got>>

\* cacheToken.
CacheToken(c) ==
  LET life == tokens[got[c]].life
  IN IF CacheOn /\ life > 0
     THEN cache' = [cache EXCEPT ![c] = [token |-> got[c], until |-> now + life]]
     ELSE UNCHANGED cache

\* The answer arrives: executeTokenRequest returns and the token is cached.
Receive(c) ==
  /\ pc[c] = "reply" /\ InTime(c)
  /\ CacheToken(c)
  /\ pc' = [pc EXCEPT ![c] = "send"]
  /\ UNCHANGED <<now, tokens, doc, began, goal, got>>

\* The request itself, with the token on it; a status that is no success is an error result.
Send(c) ==
  /\ pc[c] = "send" /\ InTime(c)
  /\ \E result \in {"done", "failed"} : pc' = [pc EXCEPT ![c] = result]
  /\ UNCHANGED <<now, tokens, doc, cache, began, goal, got>>

\* Mutant of Deadline: the requests for a token are outside the deadline of the call.
DeadlineOfRequest(c) ==
  /\ pc[c] = "send" /\ Due(c)
  /\ pc' = [pc EXCEPT ![c] = "failed"]
  /\ UNCHANGED <<now, tokens, doc, cache, began, goal, got>>

\* The context of the call expires: whatever it waits for fails, and what it would try next too.
Deadline(c) ==
  /\ pc[c] \in Waiting /\ Due(c)
  /\ pc' = [pc EXCEPT ![c] = "failed"]
  /\ UNCHANGED <<now, tokens, doc, cache, began, goal, got>>

\* Time passes while calls wait for the network; what needs no answer takes no time.
Tick ==
  /\ now < MaxTime
  /\ \A c \in Calls : pc[c] # "lookup" /\ (pc[c] \in Waiting => ~Due(c))
  /\ now' = now + 1
  /\ UNCHANGED <<tokens, doc, cache, pc, began, goal, got>>

Step(c) ==
  \/ Begin(c) \/ Refuse(c) \/ Lookup(c) \/ Discover(c) \/ Issue(c) \/ Deny(c)
  \/ Receive(c) \/ Send(c) \/ Deadline(c)

Next == Tick \/ \E c \in Calls : Step(c)
Spec == Init /\ [][Next]_vars

\* Time advances however often calls begin and end (hence strong fairness), and Go's
\* scheduler and timers run; no server is obliged to answer.
Fairness == SF_vars(Tick) /\ \A c \in Calls : WF_vars(Lookup(c)) /\ WF_vars(Deadline(c))
FairSpec == Spec /\ Fairness

-----------------------------------------------------------------------------
(* Properties *)

\* A request leaves with a token that is live, unless the server gave it less than the
\* timeout of the call, whatever the buffer, the lateness of the answer and earlier calls:
\* the token was issued under the deadline that the request is sent under (runner.go:68).
TokenIsLive ==
  \A c \in Calls :
    pc[c] = "send" /\ tokens[got[c]].life >= Timeout => now <= tokens[got[c]].at + tokens[got[c]].life

\* Caching saves the grant (token_fetcher.go:43): while a token that was received before a
\* call began is fresh for it, that call does not ask for another.
Remembered(c) ==
  \E d \in Calls \ {c} :
    /\ pc[d] = "done" /\ got[d] # NoToken
    /\ tokens[got[d]].at + tokens[got[d]].life >= began[c] + Buffer
    /\ began[d] + Timeout < began[c]
NoNeedlessGrant == [][\A c \in Calls : Issue(c) => ~Remembered(c)]_vars

\* The deadline covers the authentication too: a call that began ends, whatever the
\* server of the tokens does (runner.go, reqCtx).
CallsEnd == \A c \in Calls : pc[c] = "lookup" ~> pc[c] \in Ended
=============================================================================
