-------------------------------- MODULE Heap --------------------------------
(***************************************************************************)
(* xme::Heap (container/heap.hpp): a binary heap in an array.  The element *)
(* at i precedes those at 2i + 1 and 2i + 2.  push() and pop() put one     *)
(* element in the wrong place and let it rise or sink, one swap a step.    *)
(*                                                                         *)
(* The comparison is a strict weak order: std::less of the elements' rank. *)
(* A heap is built from a range by pushing its elements one by one, so the *)
(* constructors are sequences of Push.                                     *)
(***************************************************************************)
EXTENDS Integers, Sequences, FiniteSets

CONSTANTS Value,    \* the elements
          Rank,     \* their order
          MaxSize   \* bound: how many elements the heap is given

ASSUME RankAssumption == Rank \in [Value -> Nat]
ASSUME MaxSizeAssumption == MaxSize \in Nat

VARIABLES m_array,      \* the elements
          op,           \* the loop that is running: heapfy_up, heapfy_down, or none
          index,        \* where its element is
          parent_heap,  \* heapfy_up: the position above
          reach         \* history: 2 to the power of the swaps of the last call
vars == <<m_array, op, index, parent_heap, reach>>

m_compare(a, b) == Rank[a] < Rank[b]

\* Positions count from 0, those of a sequence from 1.
Size  == Len(m_array)
at(i) == m_array[i + 1]
Swapped(i, j) == [m_array EXCEPT ![i + 1] = at(j), ![j + 1] = at(i)]

ParentHalved(i) == i \div 2   \* mutant
parent(i) == IF i = 0 THEN 0 ELSE (i - 1) \div 2   \* C++ division truncates
LeftChildAhead(i) == 2 * i + 2   \* mutant
left_child(i)  == 2 * i + 1
right_child(i) == 2 * i + 2

Init == /\ m_array = << >>
        /\ op = "none" /\ index = 0 /\ parent_heap = 0
        /\ reach = 1

PushPastEnd(v) ==   \* mutant: heapfy_up(m_array.size())
  /\ op = "none" /\ Size < MaxSize
  /\ m_array' = Append(m_array, v)
  /\ op' = "up"
  /\ index' = Size + 1
  /\ parent_heap' = parent(Size + 1)
  /\ reach' = 1
\* push() and emplace().  When push_back throws the heap is as it was.
Push(v) ==
  /\ op = "none" /\ Size < MaxSize
  /\ m_array' = Append(m_array, v)
  /\ op' = "up"
  /\ index' = Size
  /\ parent_heap' = parent(Size)
  /\ reach' = 1

Rises == index # 0 /\ m_compare(at(parent_heap), at(index))

HeapfyUp ==
  /\ op = "up" /\ Rises
  /\ m_array' = Swapped(parent_heap, index)
  /\ index' = parent_heap
  /\ parent_heap' = parent(parent_heap)
  /\ reach' = 2 * reach
  /\ UNCHANGED op

PopDropsLast ==   \* mutant: removes the last element instead of the front
  /\ op = "none" /\ Size > 0
  /\ m_array' = SubSeq(m_array, 1, Size - 1)
  /\ op' = "down"
  /\ index' = 0
  /\ parent_heap' = 0
  /\ reach' = 1
Pop ==
  /\ op = "none" /\ Size > 0
  /\ m_array' = SubSeq(Swapped(0, Size - 1), 1, Size - 1)
  /\ op' = "down"
  /\ index' = 0
  /\ parent_heap' = 0
  /\ reach' = 1

\* The child heapfy_down swaps with, or the position itself.
SwapIndexLeftOnly ==   \* mutant: a greater right child is overlooked
  IF left_child(index) < Size /\ m_compare(at(index), at(left_child(index)))
  THEN left_child(index) ELSE index
swap_index ==
  LET lidx == left_child(index)
      ridx == right_child(index)
      larger == IF lidx < Size /\ m_compare(at(index), at(lidx)) THEN lidx ELSE index
  IN  IF ridx < Size /\ m_compare(at(larger), at(ridx)) THEN ridx ELSE larger

HeapfyDown ==
  /\ op = "down" /\ swap_index # index
  /\ m_array' = Swapped(index, swap_index)
  /\ index' = swap_index
  /\ reach' = 2 * reach
  /\ UNCHANGED <<op, parent_heap>>

\* The loop ends; its locals go out of scope.
Settle ==
  /\ \/ op = "up" /\ ~Rises
     \/ op = "down" /\ swap_index = index
  /\ op' = "none" /\ index' = 0 /\ parent_heap' = 0
  /\ UNCHANGED <<m_array, reach>>

Next == (\E v \in Value : Push(v)) \/ HeapfyUp \/ Pop \/ HeapfyDown \/ Settle

Spec == Init /\ [][Next]_vars

-----------------------------------------------------------------------------
(* Type invariant: among other things the loops never leave the array.     *)
TypeOK ==
  /\ m_array \in Seq(Value) /\ Size <= MaxSize
  /\ op \in {"none", "up", "down"}
  /\ index \in 0 .. Size /\ (op = "up" => index < Size)
  /\ parent_heap \in 0 .. Size /\ (op = "up" => parent_heap < Size)
  /\ reach \in Nat \ {0}

\* Position i, not the root, keeps the heap order with the one above it.
Ordered(i) == ~m_compare(at(parent(i)), at(i))

(* What holds of the array in every iteration: only the element that rises *)
(* may precede the one above it, only the element that sinks may be        *)
(* preceded by those below it, and what is above it precedes both of them. *)
(* So when the loop ends the order is whole.                               *)
SiftInvariant ==
  /\ op = "none" => index = 0
  /\ op = "up" => parent_heap = parent(index)
  /\ \A i \in 1 .. Size - 1 :
       /\ \/ Ordered(i)
          \/ op = "up" /\ i = index
          \/ op = "down" /\ parent(i) = index
       /\ op # "none" /\ index # 0 /\ parent(i) = index =>
            ~m_compare(at(parent(index)), at(i))

(* Between calls the front is an element that none precedes: front() of    *)
(* the priority queue heap.hpp promises.                                   *)
FrontIsGreatest ==
  op = "none" => \A i \in 0 .. Size - 1 : ~m_compare(at(0), at(i))

(* Pushing and popping is O(log(N)) (heap.hpp:8): k swaps need 2^k         *)
(* elements.                                                               *)
Logarithmic == reach > 1 => reach <= Size

(* The heap implements the priority queue: no swap loses or duplicates an  *)
(* element, and what pop() removes is a greatest one.                      *)
Places(v) == {i \in 1 .. Size : m_array[i] = v}
Held == [v \in Value |-> Cardinality(Places(v))]

Queue == INSTANCE PriorityQueue WITH held <- Held

ImplementsPriorityQueue == Queue!Spec
=============================================================================
