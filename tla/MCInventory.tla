---------------------------- MODULE MCInventory ----------------------------
(* Small instances of Inventory for TLC. *)
EXTENDS Inventory, TLC

MCDeltas == {-1, 1}

Symmetry == Permutations(Workers) \cup Permutations(Items) \cup Permutations(Orders)
=============================================================================
