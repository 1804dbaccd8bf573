--------------------------- MODULE MCWorkerQueue ---------------------------
(* WorkerQueue on small instances: the interchangeable sets for symmetry.   *)
EXTENDS WorkerQueue, TLC

Interchangeable == Permutations(Slots) \cup Permutations(Workers) \cup Permutations(Readings)

=============================================================================
