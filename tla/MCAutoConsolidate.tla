------------------------- MODULE MCAutoConsolidate -------------------------
(* AutoConsolidate on small instances: the interchangeable sets.            *)
EXTENDS AutoConsolidate, TLC

Interchangeable == Permutations(Funded) \cup Permutations(Dust \ Funded)
                   \cup Permutations(Coins \ (Dust \cup Funded)) \cup Permutations(Processes)

=============================================================================
