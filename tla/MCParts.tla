------------------------------- MODULE MCParts -------------------------------
(***************************************************************************)
(* Small instances of the parts that share no state with each other nor    *)
(* with the rest, for TLC: the pages of a listing, the expression of a     *)
(* conditional node, the data through an executor node, the token on a     *)
(* call, and the test of a provider configuration.  A behaviour is one of  *)
(* `part`, chosen at its beginning; the variables of the others stay as    *)
(* they are.                                                               *)
(***************************************************************************)
EXTENDS Pagination, TLC

\* Besides those of Pagination.
CONSTANTS
    Calls, Password, CacheOn, UseRefresh, Buffer, Timeout, DocTTL, \* of Tokens
    Lifetimes, MaxTime, MaxTokens,
    TestConfigs, MaxCalls, MaxServerChanges,     \* of Requests: Configs, MaxCalls, MaxChanges
    Writers,                                     \* of Conditions: Authors
    WrittenNodes, AnyContexts,                   \* of Mapping, where one execution runs
    Runs, SavedNodes, Contexts, MaxClears, MaxInstances \* and where the cache is shared

ASSUME TokensAssumption ==
    /\ Password \in BOOLEAN /\ CacheOn \in BOOLEAN /\ UseRefresh \in BOOLEAN
    /\ Buffer \in Nat /\ Timeout \in Nat /\ DocTTL \in Nat
    /\ Lifetimes \subseteq Nat /\ MaxTime \in Nat /\ MaxTokens \in Nat

VARIABLES
    part,                                                   \* the part that takes steps
    now, tokens, doc, cache, pc, began, goal, got,          \* of Tokens
    author, formula, outcome,                    \* of Conditions
    compiled, instances, clears, node, side, phase, document, held, out, \* of Mapping
    config, server, calls, stage, results, overall, serverChanges, sinceChange \* of Requests

conditionVars == <<author, formula, outcome>>
mappingVars == <<compiled, instances, clears, node, side, phase, document, held, out>>
testVars == <<config, server, calls, stage, results, overall, serverChanges, sinceChange>>
tokenVars == <<now, tokens, doc, cache, pc, began, goal, got>>
allVars == <<part, vars, conditionVars, mappingVars, testVars, tokenVars>>

\* Pagination: a client that sorts by the time of the last update.
ByUpdate == [sortBy |-> "updatedAt", sortOrder |-> "ASC"]

(***************************************************************************)
(* Conditions: every pair of comparisons over a number, a text, a truth    *)
(* value and a missing field with literals for each, and every formula of  *)
(* four operands that are true, false or missing.                          *)
(***************************************************************************)
CD == INSTANCE Conditions WITH Authors <- Writers

ASSUME ConditionsAssumption == \A a \in Writers : CD!IsAuthor(a)

Quoted == <<"'", "low", "'">>
TwoWriters ==
    {[operands |-> {<<"n">>, <<"s">>, <<"b">>, <<"m">>, <<"2">>, Quoted},
      operators |-> {">=", "<=", "==", "!=", ">", "<"}, terms |-> 2],
     [operands |-> {<<"true">>, <<"b">>, <<"m">>}, operators |-> {"=="}, terms |-> 4]}

(***************************************************************************)
(* Mapping: every node of one or two mappings, or of one or two raw        *)
(* operations, on every document; and three executions at once over three  *)
(* nodes, with a cache that may be cleared under them.                     *)
(***************************************************************************)
Text(s) == [of |-> s, by |-> <<>>]
Number  == [of |-> "number", by |-> <<>>]

\* Documents with the fields that are read, and one with a nested field.
TwoDocuments ==
    {   {<<<<"s">>, Text("s")>>, <<<<"t">>, Text("t")>>},
        {<<<<"t">>, Text("t")>>} }
AllDocuments == TwoDocuments \cup
    {   {<<<<"s">>, Text("s")>>, <<<<"t">>, Number>>},
        {<<<<"s", "x">>, Text("x")>>, <<<<"s", "y">>, Number>>, <<<<"t">>, Text("t")>>} }

Mapped(source, target, required, type, given, path) ==
    [source |-> source, target |-> target, required |-> required,
     type |-> type, given |-> given, path |-> path]

\* The ways a mapping is transformed: not at all, plainly, with what it needs
\* and without, at another path, by something unknown, by a shift.
Ways == { <<"", FALSE, <<>> >>, <<"to_uppercase", FALSE, <<>> >>, <<"add_prefix", TRUE, <<>> >>,
          <<"add_prefix", FALSE, <<>> >>, <<"to_lowercase", FALSE, <<"b">> >>, <<"trim", FALSE, <<>> >>,
          <<"shift", FALSE, <<>> >> }

AllMappings ==
    {Mapped(s, t, r, w[1], w[2], w[3]) :
        s \in {<<>>, <<"s">>, <<"t">>}, t \in {<<"a">>, <<"b">>, <<"a", "x">>}, r \in BOOLEAN, w \in Ways}

MappingNode(ms) == [input |-> ms, transforms |-> <<>>, output |-> <<>>]
InputNodes == {MappingNode(<<m>>) : m \in AllMappings} \cup
              {MappingNode(<<m, n>>) : m \in AllMappings, n \in AllMappings}

\* Raw operations, of which the specification may be empty or missing.
Raw(operation, spec, path) ==
    [operation |-> operation, spec |-> spec, path |-> path, given |-> FALSE, require |-> FALSE,
     shift |-> IF operation = "shift" /\ spec = "map" THEN (<<"a">> :> <<"s">>) ELSE << >>]
RawOperations == {Raw("shift", "map", <<>>), Raw("shift", "empty", <<>>),
                  Raw("to_uppercase", "map", <<"a">>), Raw("to_uppercase", "nil", <<>>)}
RawNodes == {[input |-> <<>>, transforms |-> ops, output |-> <<>>] :
                ops \in {<<o>> : o \in RawOperations} \cup (RawOperations \X RawOperations)}

AllNodes == InputNodes \cup RawNodes

\* Nodes with a way in and a way out, two of which differ only in the fields
\* that the same operations are given, and one that cannot come out.
Plainly(s, t, required, type) == Mapped(s, t, required, type, FALSE, <<>>)
SharedNodes ==
    { [input |-> <<Plainly(<<"s">>, <<"a">>, FALSE, "to_uppercase")>>, transforms |-> <<>>,
       output |-> <<Plainly(<<"t">>, <<"b">>, FALSE, "")>>],
      [input |-> <<Plainly(<<"t">>, <<"a">>, TRUE, "to_uppercase"), Plainly(<<"s">>, <<"b">>, FALSE, "")>>,
       transforms |-> <<Raw("to_uppercase", "map", <<"s">>)>>,
       output |-> <<>>],
      [input |-> <<>>, transforms |-> <<Raw("to_uppercase", "map", <<"t">>)>>,
       output |-> <<Plainly(<<"t">>, <<"b">>, FALSE, "trim")>>] }

KnownNodes == WrittenNodes \cup SavedNodes
KnownContexts == AnyContexts \cup Contexts
MP == INSTANCE Mapping WITH
    cache <- compiled, stage <- side, doc <- document, Executions <- Runs,
    Nodes <- KnownNodes, Documents <- KnownContexts

ASSUME MappingAssumption ==
    /\ MaxClears \in Nat /\ MaxInstances \in Nat
    /\ \A n \in KnownNodes : MP!IsNode(n)
    /\ \A d \in KnownContexts : MP!IsDocument(d)

\* All but one of the executions stay out, and the cache is left alone.
Lone == CHOOSE e \in Runs : TRUE
Alone == clears' = 0 /\ \A e \in Runs \ {Lone} : side'[e] = "idle"
FewContexts == \A e \in Runs : document'[e] \in Contexts \cup {{}}

(***************************************************************************)
(* Requests: what the schemas require and nothing else, and that with      *)
(* fields they do not forbid; one call and two changes of the server.      *)
(***************************************************************************)
RQ == INSTANCE Requests WITH
    changes <- serverChanges, since <- sinceChange,
    Configs <- TestConfigs, MaxChanges <- MaxServerChanges

\* The shapes of configurations do not depend on which are tested.
Shapes == INSTANCE Requests WITH
    changes <- serverChanges, since <- sinceChange,
    Configs <- {}, MaxCalls <- 0, MaxChanges <- 0
SmallConfigs ==
    {Shapes!Midaz(auth) : auth \in BOOLEAN} \cup
    {Shapes!Tracer(a, h) : a \in {"none", "api_key", "bearer"}, h \in {{}, {<<"X-API-Key", "key">>}}}

ASSUME RequestsAssumption == MaxCalls \in Nat /\ MaxServerChanges \in Nat

(***************************************************************************)
(* Tokens: two calls of one configuration, each with a provider of its own *)
(* and repeated as long as the clock lets it.                              *)
(***************************************************************************)
TK == INSTANCE Tokens

(***************************************************************************)
(* One part at a time                                                      *)
(***************************************************************************)
Off == "off"
NoPages == /\ docs = [i \in Items |-> Absent] /\ walk = "first" /\ changes = 0
           /\ cursor = [id |-> 0, value |-> 0, order |-> First]
           /\ seen = {} /\ twice = {} /\ steady = {}
NoConditions == author = Off /\ formula = Off /\ outcome = Off
NoMapping == /\ compiled = Off /\ instances = Off /\ clears = Off /\ node = Off /\ side = Off
             /\ phase = Off /\ document = Off /\ held = Off /\ out = Off
NoTest == /\ config = Off /\ server = Off /\ calls = Off /\ stage = Off /\ results = Off
          /\ overall = Off /\ serverChanges = Off /\ sinceChange = Off

PartsInit ==
    /\ TK!Init
    /\ \/ part = "pages" /\ Init /\ NoConditions /\ NoMapping /\ NoTest
       \/ part = "tokens" /\ NoPages /\ NoConditions /\ NoMapping /\ NoTest
       \/ part = "conditions" /\ CD!Init /\ NoPages /\ NoMapping /\ NoTest
       \/ part = "mapping" /\ (\E n \in WrittenNodes : node = [e \in Runs |-> n]) /\ MP!Init
          /\ NoPages /\ NoConditions /\ NoTest
       \/ part = "sharing" /\ node \in [Runs -> SavedNodes] /\ MP!Init
          /\ NoPages /\ NoConditions /\ NoTest
       \/ part = "test" /\ RQ!Init /\ NoPages /\ NoConditions /\ NoMapping

PartsNext ==
    /\ UNCHANGED part
    /\ \/ part = "pages" /\ Next /\ UNCHANGED <<tokenVars, conditionVars, mappingVars, testVars>>
       \/ part = "tokens" /\ TK!Next /\ UNCHANGED <<vars, conditionVars, mappingVars, testVars>>
       \/ part = "conditions" /\ CD!Next /\ UNCHANGED <<vars, tokenVars, mappingVars, testVars>>
       \/ part = "mapping" /\ MP!Next /\ Alone
          /\ UNCHANGED <<vars, tokenVars, conditionVars, testVars>>
       \/ part = "sharing" /\ MP!Next /\ FewContexts
          /\ UNCHANGED <<vars, tokenVars, conditionVars, testVars>>
       \/ part = "test" /\ RQ!Next /\ UNCHANGED <<vars, tokenVars, conditionVars, mappingVars>>

PartsSpec == PartsInit /\ [][PartsNext]_allVars

\* With the fairness of the calls that ask for a token.
PartsFairSpec == PartsSpec /\ (part = "tokens" => TK!Fairness)

(***************************************************************************)
(* Properties of the parts, each of which its module states; those of      *)
(* Pagination are taken as they are                                           *)
(***************************************************************************)
\* evaluator.go: the text search finds the formula that the author meant, and
\* an operator and its opposite never agree.  mapper.go and service.go: each
\* target gets what its own mapping says, from a compiled specification that
\* others share; no stage completes without a required field; and what was
\* accepted (workflow_validation.go) compiles.
DataInv ==
    /\ part = "conditions" => CD!TypeInv /\ CD!MatchesMeaning /\ CD!Opposed
    /\ part \in {"mapping", "sharing"} =>
        MP!TypeInv /\ MP!MappedAsMeant /\ MP!RequiredIsThere /\ MP!AcceptedCompiles

\* test_provider_config_connectivity.go: the verdict is that of the stages, of
\* which one fails at most; it is true of a server that stayed as it was; and a
\* credential that is refused is not called accepted.  runner.go and token_fetcher.go:
\* no request leaves with a token that died on the way.
CallsInv ==
    /\ part = "test" =>
        RQ!TypeInv /\ RQ!VerdictIsTrue /\ RQ!OneFailure /\ RQ!AcceptedIsAccepted
    /\ TK!TypeInv /\ TK!TokenIsLive

\* service.go, getOrCreateKazaam: one compiled specification for one text.
CompiledOnce ==
    [][(part \in {"mapping", "sharing"}) =>
        \A c \in compiled, d \in compiled' : c.key = d.key => c = d]_allVars

\* What no step of a part may do: the cursor of a walk never goes back
\* (config.go, populateWebhookRegistry), and no text is compiled twice
\* (service.go).
PartsAct ==
    /\ CursorAdvances
    /\ CompiledOnce

\* runner.go, reqCtx: a call ends, whatever the server of its tokens does.
CallsEnd == part = "tokens" => TK!CallsEnd
==============================================================================
