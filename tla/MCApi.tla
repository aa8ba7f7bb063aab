-------------------------------- MODULE MCApi --------------------------------
(***************************************************************************)
(* Small instances of what clients and operators meet, for TLC: requests   *)
(* on executor configurations, what the management API answers, requests   *)
(* to webhooks, the catalog with its templates, and the set-up of the      *)
(* database.  They share no state; a behaviour is one of `part`, chosen at *)
(* its beginning, and what the others have stays as it is: webhook, catalog *)
(* and set-up take turns with one set of variables.                        *)
(*                                                                         *)
(* Two requests, calls, clients or processes overlap in each part, and are *)
(* interchangeable.                                                        *)
(***************************************************************************)
EXTENDS ExecutorConfigs, Answers, Sequences, TLC

CONSTANTS
    Parts,                  \* the parts that are run
    Workflows, Open, Keys,  \* of Webhook
    NoKey, MaxVersion, MaxFaults,
    Offered,                \* of Catalog: ids of provider configurations
    MidazOnes,              \* those of Midaz; the others are of Tracer
    Defaults, MaxChanges, MaxErrors  \* of Catalog

VARIABLES
    part,                                            \* the part that takes steps
    marked,                                          \* of ExecutorConfigs: see below
    v1, v2, v3, v4, v5, v6, v7, v8, v9, v10, v11     \* of the parts that are instantiated

configVars == <<vars, marked>>
otherVars  == <<v1, v2, v3, v4, v5, v6, v7, v8, v9, v10, v11>>
apiVars    == <<part, configVars, answerVars, otherVars>>

Symmetry == Permutations(Requests)

(***************************************************************************)
(* Webhook: two webhooks, one of them without a token, whose definitions   *)
(* stay; and the one with a token, whose definition, and so its token,     *)
(* changes.                                                                *)
(***************************************************************************)
W == INSTANCE Webhook WITH
    status <- v1, version <- v2, route <- v3, command <- v4, faults <- v5,
    request <- v6, answer <- v7, executions <- v8, since <- v9

ASSUME WebhookAssumption == MaxVersion \in Nat \ {0} /\ MaxFaults \in Nat

DefinitionsStay == v2' = v2
OnlyWithToken ==
    /\ \A w \in Open : v1'[w] = v1[w] /\ v2'[w] = v2[w] /\ v3'[w] = v3[w]
    /\ \A r \in Requests : v6'[r].w \notin Open

(***************************************************************************)
(* Catalog: what RegisterDefaults registers, and what it must not leave    *)
(* half done: a provider twice, an executor that is nil, an executor of    *)
(* another provider.                                                       *)
(***************************************************************************)
Registration(provider, ids) == [provider |-> provider, executors |-> ids]
MidazAll == Registration("midaz", {"midaz.create-transaction", "midaz.get-account"})
TracerAnd(ids) == Registration("tracer", {"tracer.validate-transaction"} \cup ids)

SmallDefaults ==
    { <<MidazAll, TracerAnd({})>>, <<MidazAll, TracerAnd({}), MidazAll>>,
      <<MidazAll, TracerAnd({"nil"})>>, <<MidazAll, TracerAnd({"midaz.get-account"})>> }

ProviderOf == [id \in Offered |-> IF id \in MidazOnes THEN "midaz" ELSE "tracer"]
C == INSTANCE Catalog WITH
    Configs <- Offered, Clients <- Requests,
    defaults <- v1, phase <- v2, next <- v3, providers <- v4, executors <- v5, owners <- v6,
    active <- v7, gone <- v8, client <- v9, changes <- v10, errors <- v11

\* Ids are not the texts that are no ids.  Whatever else is registered, each
\* provider that the template uses comes with the executor that it calls, which
\* no other provider registers (pkg/executors, RegisterDefaults).
ASSUME CatalogAssumption ==
    /\ MaxChanges \in Nat /\ MaxErrors \in Nat
    /\ Offered \cap C!NotAnId = {}
    /\ \A d \in Defaults :
        /\ d \in Seq([provider : STRING, executors : SUBSET STRING])
        /\ \A n \in DOMAIN d, f \in DOMAIN C!Fields :
            C!Calls[f] \in d[n].executors <=> d[n].provider = C!Fields[f]
        /\ \A f \in DOMAIN C!Fields : \E n \in DOMAIN d : d[n].provider = C!Fields[f]

(***************************************************************************)
(* Setup: two processes, two documents, one error of the database.         *)
(***************************************************************************)
S == INSTANCE Setup WITH
    Processes <- Requests, Taken <- {"workflow_executions", "audit_entries"},
    MaxInserts <- 2, MaxErrors <- 1,
    collections <- v1, filled <- v2, built <- v3, repeated <- v4, process <- v5,
    inserts <- v6, errors <- v7

\* What SelectSeq gives, of which the provers know nothing.
ASSUME SetupAssumption ==
    /\ S!Collections \in Seq(STRING)
    /\ S!Indexes \in Seq([of : STRING, field : STRING, unique : BOOLEAN])

(***************************************************************************)
(* One part at a time                                                      *)
(***************************************************************************)
Off == "off"
NoAnswers == /\ kind = (CHOOSE k \in Kinds : TRUE) /\ indexed = FALSE /\ outages = 0
             /\ stored = [i \in Ids |-> Missing] /\ calls = [c \in Callers |-> Nobody]
Idles1 == /\ v1 = Off /\ v2 = Off /\ v3 = Off /\ v4 = Off /\ v5 = Off /\ v6 = Off /\ v7 = Off
Idles8 == v8 = Off /\ v9 = Off
Idles10 == v10 = Off /\ v11 = Off

ApiInit ==
    /\ part \in Parts /\ Init /\ marked = FALSE
    /\ \/ part = "executors" /\ NoAnswers /\ Idles1 /\ Idles8 /\ Idles10
       \/ part = "answers" /\ AnswersInit /\ Idles1 /\ Idles8 /\ Idles10
       \/ part \in {"webhook", "edits"} /\ NoAnswers /\ W!Init /\ Idles10
       \/ part = "catalog" /\ NoAnswers /\ C!Init
       \/ part = "setup" /\ NoAnswers /\ S!Init /\ Idles8 /\ Idles10

\* History: was mark_tested, which asks the executor nothing, ever asked for?
ConfigsNext ==
    /\ Next
    /\ marked' = (marked \/ \E r \in Requests :
                    request'[r].pc # "idle" /\ request'[r].op = "mark_tested")

ApiNext ==
    /\ UNCHANGED part
    /\ \/ part = "executors" /\ ConfigsNext /\ UNCHANGED <<answerVars, otherVars>>
       \/ part = "answers" /\ AnswersNext /\ UNCHANGED <<configVars, otherVars>>
       \/ /\ part = "webhook" /\ W!Next /\ DefinitionsStay
          /\ UNCHANGED <<configVars, answerVars, v10, v11>>
       \/ /\ part = "edits" /\ W!Next /\ OnlyWithToken
          /\ UNCHANGED <<configVars, answerVars, v10, v11>>
       \/ part = "catalog" /\ C!Next /\ UNCHANGED <<configVars, answerVars>>
       \/ /\ part = "setup" /\ S!Next
          /\ UNCHANGED <<configVars, answerVars, v8, v9, v10, v11>>

ApiSpec == ApiInit /\ [][ApiNext]_apiVars

(***************************************************************************)
(* Properties; those of ExecutorConfigs and Answers are taken as they are  *)
(***************************************************************************)
\* Where nobody marks a configuration as tested by hand, a tested, active or
\* disabled one answered a full request with the settings that are stored
\* (test_executor_configuration.go:92-142).
UnmarkedIsVerified == ~marked => TestedIsVerified

\* webhook/handler.go and execute_workflow.go: an execution begins only for a
\* request during which its workflow was active, and all requests with one key
\* get one.  activate_workflow.go, deactivate_workflow.go, delete_workflow.go: a
\* request that meets no command is served if its workflow is active and
\* refused if it is not, whatever commands, failures and edits came before.
WebhookInv == part \in {"webhook", "edits"} => W!WebhookInv

\* catalog.go, catalog/handler.go and create_workflow_from_template.go: what is
\* registered is linked, what a template offers is accepted, and a workflow is
\* created only with configurations that were active meanwhile.
CatalogInv == part = "catalog" => C!CatalogInv

\* collections.go and indexes.go: processes that set up the database together
\* leave nothing out and do not make each other fail.
SetupInv == part = "setup" => S!SetupInv
==============================================================================
