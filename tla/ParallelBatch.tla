---------------------------- MODULE ParallelBatch ----------------------------
(***************************************************************************)
(* What runParallel of cmd/perf-driver promises to its callers: a batch of *)
(* independent items is worked on until the call returns, no item is       *)
(* touched afterwards, and a call that returns without error has completed *)
(* every item.                                                             *)
(***************************************************************************)
CONSTANT Items

VARIABLES requested, completed, outcome

batchVars == <<requested, completed, outcome>>

Outcomes == {"nil", "operation", "canceled"}

BatchInit ==
    /\ requested = {}
    /\ completed = {}
    /\ outcome = "nil"

Begin(batch) ==
    /\ outcome # "running"
    /\ requested' = batch
    /\ completed' = {}
    /\ outcome' = "running"

Complete(item) ==
    /\ outcome = "running"
    /\ item \in requested \ completed
    /\ completed' = completed \cup {item}
    /\ UNCHANGED <<requested, outcome>>

End(result) ==
    /\ outcome = "running"
    /\ result = "nil" => completed = requested
    /\ outcome' = result
    /\ UNCHANGED <<requested, completed>>

BatchNext ==
    \/ \E batch \in SUBSET Items : Begin(batch)
    \/ \E item \in Items : Complete(item)
    \/ \E result \in Outcomes : End(result)

BatchSpec == BatchInit /\ [][BatchNext]_batchVars
=============================================================================
