------------------------------- MODULE MCHeap -------------------------------
(* Heap of four elements, two of which are equivalent but not equal.       *)
EXTENDS Heap, TLC

TwoEqual == 1 :> 0 @@ 2 :> 1 @@ 3 :> 1 @@ 4 :> 2
=============================================================================
