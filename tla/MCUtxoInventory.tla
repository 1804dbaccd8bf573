-------------------------- MODULE MCUtxoInventory --------------------------
(* UtxoInventory on small instances: the interchangeable sets for symmetry. *)
EXTENDS UtxoInventory, TLC

NewCoins == Coins \ Funded

Interchangeable == Permutations(Tasks) \cup Permutations(NewCoins) \cup Permutations(Funded)
                   \cup Permutations(Processes)

=============================================================================
