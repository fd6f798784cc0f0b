----------------------------- MODULE BoundedFifo -----------------------------
(***************************************************************************)
(* What a bounded first-in first-out buffer of elements promises, whatever *)
(* its memory looks like: at most Room elements wait, and they are removed *)
(* in the order in which they were pushed, each exactly once.              *)
(*                                                                         *)
(* Removing is the end of an element: a consumer has been given it, or it  *)
(* was dropped.  A consumer that is handed the oldest element and fails    *)
(* may have emptied it (Spoil): the element keeps its place in the queue.  *)
(***************************************************************************)
EXTENDS Naturals, Sequences

CONSTANTS Value,   \* the elements
          Hollow,  \* what is left of an element whose contents were moved out
          Room     \* how many elements the buffer holds

VARIABLES queue,    \* the elements that wait, the oldest first
          removed   \* the elements removed so far, in the order of removal

Init == queue = << >> /\ removed = << >>

Push(v) == /\ Len(queue) < Room
           /\ queue' = Append(queue, v)
           /\ UNCHANGED removed

Take == /\ queue # << >>
        /\ queue' = Tail(queue)
        /\ removed' = Append(removed, Head(queue))

Spoil == /\ queue # << >>
         /\ queue' = [queue EXCEPT ![1] = Hollow]
         /\ UNCHANGED removed

Next == (\E v \in Value : Push(v)) \/ Take \/ Spoil

Spec == Init /\ [][Next]_<<queue, removed>>
=============================================================================
