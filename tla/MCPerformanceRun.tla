-------------------------- MODULE MCPerformanceRun --------------------------
(* A small instance of PerformanceRun for TLC.                              *)
EXTENDS PerformanceRun

CONSTANTS w1, w2

Command(reuse, keep, retain, inject, namespaceOnly) ==
    [cleanupOnly |-> FALSE, reuse |-> reuse, keep |-> keep, retain |-> retain,
     inject |-> inject, namespaceOnly |-> namespaceOnly]

\* The command lines of test/performance/README.md, runs that inject only a Namespace
\* and retain or delete the dataset, one that keeps everything, and the clean-up alone.
SomeCommands ==
    {Command(FALSE, FALSE, TRUE, FALSE, FALSE), Command(TRUE, FALSE, TRUE, TRUE, FALSE),
     Command(TRUE, FALSE, TRUE, TRUE, TRUE), Command(FALSE, FALSE, FALSE, TRUE, TRUE),
     Command(TRUE, TRUE, FALSE, FALSE, FALSE),
     [Command(FALSE, FALSE, FALSE, FALSE, FALSE) EXCEPT !.cleanupOnly = TRUE]}

\* The controller may crash once, except in the two largest of these runs.
OneRestart ==
    [c \in SomeCommands |-> IF c.inject /\ ~(c.retain /\ c.namespaceOnly) THEN 0 ELSE 1]
=============================================================================
