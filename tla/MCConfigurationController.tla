---------------------- MODULE MCConfigurationController ----------------------
(* Small instances of ConfigurationController for TLC.                      *)
EXTENDS ConfigurationController

CONSTANTS b1, b2, n1, s1

\* Settings of the command line with separate worker counts.
SomeFallback ==
    [qps |-> 1, burst |-> 1, namespaceWorkers |-> 1, serviceAccountWorkers |-> 2]

\* No override at all, and overrides of the burst and the workers.
NoOverrides == [qps |-> 0, burst |-> 0, workers |-> 0]
Overrides == [qps |-> 0, burst |-> 2, workers |-> 2]

OneConfiguration == {[business |-> b1, runtime |-> NoOverrides]}
ThreeConfigurations ==
    OneConfiguration \cup {[business |-> b, runtime |-> Overrides] : b \in {b1, b2}}
=============================================================================
