------------------------ MODULE MCNamespaceSecretSync ------------------------
(* Model values and configurations for model checking NamespaceSecretSync.   *)
EXTENDS NamespaceSecretSync, TLC

CONSTANTS k1, k2, d1, d2, a1, a2

Registry(a, ds) == [auth |-> a, domains |-> ds]

\* One registry; its AK/SK changes, a Domain is added, or the Namespace is left out.
OneRegistry ==
    {[target |-> TRUE, registries |-> (k1 :> Registry(a1, {d1}))],
     [target |-> TRUE, registries |-> (k1 :> Registry(a2, {d1, d2}))],
     [target |-> FALSE, registries |-> (k1 :> Registry(a1, {d1}))]}

\* A second registry comes or goes, and the AK/SK of the first changes with it.
TwoRegistries ==
    {[target |-> TRUE, registries |-> (k1 :> Registry(a1, {d1}))],
     [target |-> TRUE, registries |-> (k1 :> Registry(a2, {d1}) @@ k2 :> Registry(a1, {d2}))]}

\* A Domain moves to a registry whose AK/SK changes in the same edit.
MovedDomain ==
    {[target |-> TRUE, registries |-> (k1 :> Registry(a1, {d1}) @@ k2 :> Registry(a1, {d2}))],
     [target |-> TRUE, registries |-> (k2 :> Registry(a2, {d1, d2}))]}
=============================================================================
