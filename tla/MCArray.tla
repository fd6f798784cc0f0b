------------------------------ MODULE MCArray ------------------------------
(* Array over a few blocks and elements, which are interchangeable.        *)
EXTENDS Array, TLC

Symmetry == Permutations(Arrays) \cup Permutations(Block) \cup Permutations(Value)
=============================================================================
