------------------------ MODULE MCCredentialScheduler ------------------------
(* Small instances of CredentialScheduler for TLC.                          *)
EXTENDS CredentialScheduler, TLC

CONSTANTS k1, k2, w1, w2, a, b

\* Registry keys and workers are interchangeable in the safety runs.
Symmetry == Permutations(Keys) \cup Permutations(Workers)
=============================================================================
