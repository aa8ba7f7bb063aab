----------------------------- MODULE MCWorkflows -----------------------------
(* An instance of Workflows for TLC, with a history variable that says     *)
(* whether requests were ever in flight together: what the registry and    *)
(* the definitions promise to the requests of one administrator at a time  *)
(* is more than what they keep when requests overlap.                      *)
EXTENDS Workflows

\* Two spellings of one path, and another path.
Texts == {"post hook/", "POST /hook", "POST /other"}

MCRouteKey == [t \in Texts |-> IF t = "POST /other" THEN "other" ELSE "hook"]

\* One route, the same route spelled otherwise and another one, no trigger.
AllRoutes == [one |-> <<"POST /hook">>, two |-> <<"POST /other", "post hook/">>,
              none |-> << >>]

MCRoutes == [d \in Definitions |-> AllRoutes[d]]

\* Were two requests ever in flight together, or has a write failed?
VARIABLE overlapped

mcvars == <<vars, overlapped>>

Busy == {c \in Calls : call[c].pc # "idle"}

MCInit == Init /\ overlapped = FALSE

MCNext ==
  /\ Next
  /\ overlapped' = (overlapped \/ Cardinality(Busy') > 1 \/ faults' > 0)

MCSpec == MCInit /\ [][MCNext]_mcvars

\* As long as requests come one after the other, and also after a restart,
\* every route of an active workflow resolves to it, and no two active
\* workflows declare one route: activation refuses a path that is taken
\* (registry.go:27-30 and 57-68, webhook_registry.go:12-57,
\* activate_workflow.go:139-140).
SerialRegistry == ~overlapped => ActiveIsRouted /\ RoutesAreExclusive

\* As long as requests come one after the other, the definition of an active
\* workflow does not change, "executable but not editable" (workflow.go:22),
\* and a change of status leaves the definition alone (workflow.go:313-350,
\* repository.go:219-238).
SerialDefinitions ==
  [][~overlapped' => \A w \in Workflows :
       Stored(w) /\ (db[w].status = "active" \/ db'[w].status # db[w].status)
         => db'[w].def = db[w].def]_mcvars
=============================================================================
