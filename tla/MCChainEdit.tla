---------------------------- MODULE MCChainEdit ----------------------------
(* The small instances of ChainEdit that TLC checks. *)
EXTENDS ChainEdit

Symmetry == Permutations(Actions) \cup Permutations(Editors)
=============================================================================
