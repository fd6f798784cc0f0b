---------------------------- MODULE PriorityQueue ----------------------------
(***************************************************************************)
(* What a priority queue promises, however it is stored: it holds what was *)
(* pushed and not popped, every element as often as it was pushed, and     *)
(* popping removes one that no other precedes.                             *)
(***************************************************************************)
EXTENDS Naturals

CONSTANTS Value,  \* the elements
          Rank    \* their order; elements of one rank are equivalent

VARIABLE held     \* how often each element is in the queue

Init == held = [v \in Value |-> 0]

Greatest(v) == held[v] > 0 /\ \A w \in Value : held[w] > 0 => Rank[w] <= Rank[v]

Push(v) == held' = [held EXCEPT ![v] = @ + 1]
Pop(v)  == Greatest(v) /\ held' = [held EXCEPT ![v] = @ - 1]

Next == \E v \in Value : Push(v) \/ Pop(v)

Spec == Init /\ [][Next]_held
=============================================================================
