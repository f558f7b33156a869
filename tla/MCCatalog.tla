------------------------------ MODULE MCCatalog ------------------------------
(* Small instances of Catalog for TLC. *)
EXTENDS Catalog, TLC

CONSTANT k1

MCDefinitions == {[type |-> "number", required |-> TRUE],
                  [type |-> "string", required |-> FALSE]}

MCWalkDefinitions == {[type |-> "number", required |-> TRUE]}

(* A boolean is accepted as a number and refused as a string. *)
MCSent == {[Empty EXCEPT ![k1] = v] : v \in {"boolean", Null, None}}

MCWalkSent == {Empty}

Symmetry == Permutations(Categories)
=============================================================================
