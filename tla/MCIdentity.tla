----------------------------- MODULE MCIdentity -----------------------------
(* Small instances of Identity for TLC. *)
EXTENDS Identity, TLC

Symmetry == Permutations(Workers) \cup Permutations(Addresses)
              \cup Permutations(Labels) \cup Permutations(Values)
=============================================================================
