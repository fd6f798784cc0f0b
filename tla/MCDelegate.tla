----------------------------- MODULE MCDelegate -----------------------------
(* Delegate with two targets of one functor type and one of another.        *)
EXTENDS Delegate, TLC

CONSTANTS t1, t2, t3, small, large

TypeOf == (t1 :> small) @@ (t2 :> small) @@ (t3 :> large)

Symmetry == Permutations(Delegates) \cup Permutations(Functor)
=============================================================================
