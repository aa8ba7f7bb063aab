-------------------------- MODULE MCProviderConfigs --------------------------
(* An instance of ProviderConfigs for TLC.                                  *)
EXTENDS ProviderConfigs, TLC

Node(p, c) == [provider |-> p, config |-> c]

\* A workflow whose two nodes use one configuration, and one whose executor is
\* of the other provider.
MCDefinitions == {<<Node("p", "c"), Node("p", "c")>>, <<Node("q", "c")>>}

\* Requests are interchangeable.
Symmetry == Permutations(Requests)
=============================================================================
