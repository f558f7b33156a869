------------------------------- MODULE MCCart -------------------------------
(* Small instances of Cart for TLC. *)
EXTENDS Cart, TLC

Symmetry == Permutations(Workers) \cup Permutations(Carts) \cup Permutations(Variants)
            \cup Permutations(Customers)
=============================================================================
