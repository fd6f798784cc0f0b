----------------------------- MODULE HeapProofs -----------------------------
(***************************************************************************)
(* The heap order of Heap, what it means for the front, the bound on the   *)
(* swaps, and that the heap implements PriorityQueue: for every set of     *)
(* elements, every rank and every size.                                    *)
(***************************************************************************)
EXTENDS Heap, FiniteSetTheorems, FunctionTheorems, WellFoundedInduction, TLAPS

(* The type invariant holds: the loops stay inside the array.              *)
THEOREM TypeCorrect == Spec => []TypeOK
<1>1. Init => TypeOK
  BY MaxSizeAssumption DEF Init, TypeOK, Size
<1>2. TypeOK /\ [Next]_vars => TypeOK'
  <2> SUFFICES ASSUME TypeOK, [Next]_vars PROVE TypeOK'
    OBVIOUS
  <2> USE MaxSizeAssumption
  <2>1. ASSUME NEW v \in Value, Push(v) PROVE TypeOK'
    BY <2>1 DEF TypeOK, Push, Size, parent
  <2>2. CASE HeapfyUp
    BY <2>2 DEF TypeOK, HeapfyUp, Rises, Swapped, at, Size, parent
  <2>3. CASE Pop
    BY <2>3 DEF TypeOK, Pop, Swapped, at, Size
  <2>4. CASE HeapfyDown
    <3>1. swap_index \in 0 .. Size - 1
      BY <2>4 DEF TypeOK, HeapfyDown, swap_index, left_child, right_child, Size
    <3>2. index \in 0 .. Size - 1
      BY <2>4, <3>1 DEF TypeOK, HeapfyDown, swap_index, left_child, right_child, Size
    <3> QED BY <2>4, <3>1, <3>2 DEF TypeOK, HeapfyDown, Swapped, at, Size
  <2>5. CASE Settle
    BY <2>5 DEF TypeOK, Settle, Size
  <2>6. CASE UNCHANGED vars
    BY <2>6 DEF TypeOK, vars, Size
  <2> QED BY <2>1, <2>2, <2>3, <2>4, <2>5, <2>6 DEF Next
<1> QED BY <1>1, <1>2, PTL DEF Spec

(* The positions above and below each other.                               *)
LEMMA Above ==
  ASSUME NEW i \in Nat \ {0}
  PROVE  parent(i) \in 0 .. i - 1
  BY DEF parent

(* The positions below j are its two children.                             *)
LEMMA Below ==
  ASSUME NEW i \in Nat \ {0}, NEW j \in Nat
  PROVE  parent(i) = j <=> i = left_child(j) \/ i = right_child(j)
<1> DEFINE q == (i - 1) \div 2
<1>1. q \in Nat /\ (i - 1 = 2 * q \/ i - 1 = 2 * q + 1)
  OBVIOUS
<1>2. parent(i) = q
  BY DEF parent
<1> HIDE DEF q
<1> QED BY <1>1, <1>2 DEF left_child, right_child

(* What a swap does to the elements.                                       *)
LEMMA SwapElements ==
  ASSUME TypeOK, NEW p \in 0 .. Size - 1, NEW x \in 0 .. Size - 1,
         m_array' = Swapped(p, x)
  PROVE  /\ Size' = Size
         /\ at(p)' = at(x) /\ at(x)' = at(p)
         /\ \A i \in 0 .. Size - 1 : i # p /\ i # x => at(i)' = at(i)
<1>1. m_array \in Seq(Value)
  BY DEF TypeOK
<1>2. /\ Len(m_array') = Len(m_array)
      /\ \A k \in 1 .. Len(m_array) :
           m_array'[k] = IF k = x + 1 THEN at(p) ELSE IF k = p + 1 THEN at(x) ELSE m_array[k]
  BY <1>1 DEF Swapped, Size
<1>3. Size' = Size
  BY <1>2 DEF Size
<1>4. at(p)' = at(x) /\ at(x)' = at(p)
  BY <1>2 DEF at, Size
<1>5. ASSUME NEW i \in 0 .. Size - 1, i # p, i # x
      PROVE  at(i)' = at(i)
  BY <1>2, <1>5 DEF at, Size
<1> QED BY <1>3, <1>4, <1>5

(* Every position of the array holds an element with a rank.               *)
LEMMA Ranks ==
  ASSUME TypeOK, NEW i \in 0 .. Size - 1
  PROVE  Rank[at(i)] \in Nat
<1>1. at(i) \in Value
  BY DEF TypeOK, at, Size
<1> QED BY <1>1, RankAssumption

(* heapfy_up: the element that was above is now below the risen one, and   *)
(* above both of its former children.                                      *)
LEMMA RisingKeeps ==
  ASSUME TypeOK, SiftInvariant, HeapfyUp
  PROVE  SiftInvariant'
<1> PICK x \in Nat, p \in Nat : x = index /\ p = parent_heap
  BY DEF TypeOK
<1>1. /\ x \in 1 .. Size - 1 /\ p = parent(x) /\ p \in 0 .. x - 1
      /\ Rank[at(p)] < Rank[at(x)]
      /\ m_array' = Swapped(p, x) /\ index' = p /\ parent_heap' = parent(p)
      /\ op = "up" /\ op' = "up"
  BY Above DEF TypeOK, SiftInvariant, HeapfyUp, Rises, m_compare, Size
<1>2. /\ Size' = Size /\ Size \in Nat
      /\ at(p)' = at(x) /\ at(x)' = at(p)
      /\ \A i \in 0 .. Size - 1 : i # p /\ i # x => at(i)' = at(i)
  BY <1>1, SwapElements DEF TypeOK, Size
<1>3. \A i \in 0 .. Size - 1 : Rank[at(i)] \in Nat
  BY Ranks
<1>4. \A i \in 1 .. Size - 1 : /\ i # x => ~(Rank[at(parent(i))] < Rank[at(i)])
                               /\ parent(i) = x => ~(Rank[at(p)] < Rank[at(i)])
  BY <1>1 DEF SiftInvariant, Ordered, m_compare
<1>5. \A i \in 1 .. Size - 1 : parent(i) \in 0 .. i - 1
  BY Above
<1>6. ASSUME NEW i \in 1 .. Size - 1
      PROVE  i = p \/ ~(Rank[at(parent(i))'] < Rank[at(i)'])
  <2>1. CASE i = x
    BY <1>1, <1>2, <1>3, <2>1
  <2>2. CASE parent(i) = x
    BY <1>1, <1>2, <1>3, <1>4, <1>5, <2>2
  <2>3. CASE parent(i) = p /\ i # x
    BY <1>1, <1>2, <1>3, <1>4, <1>5, <2>3
  <2>4. CASE i # x /\ i # p /\ parent(i) # x /\ parent(i) # p
    <3>1. at(i)' = at(i) /\ at(parent(i))' = at(parent(i))
      BY <1>2, <1>5, <2>4
    <3> QED BY <1>4, <2>4, <3>1
  <2> QED BY <2>1, <2>2, <2>3, <2>4
<1>7. ASSUME NEW i \in 1 .. Size - 1, p # 0, parent(i) = p
      PROVE  ~(Rank[at(parent(p))'] < Rank[at(i)'])
  <2>1. parent(p) \in 0 .. p - 1 /\ p \in 1 .. Size - 1
    <3>1. p \in 1 .. Size - 1
      BY <1>1, <1>2, <1>7
    <3> QED BY <1>5, <3>1
  <2>2. at(parent(p))' = at(parent(p)) /\ ~(Rank[at(parent(p))] < Rank[at(p)])
    BY <1>1, <1>2, <1>4, <2>1
  <2>3. CASE i = x
    BY <1>2, <2>2, <2>3
  <2>4. CASE i # x
    <3>1. at(i)' = at(i) /\ ~(Rank[at(p)] < Rank[at(i)])
      BY <1>1, <1>2, <1>4, <1>5, <1>7, <2>4
    <3>2. /\ Rank[at(i)] \in Nat /\ Rank[at(p)] \in Nat
          /\ Rank[at(parent(p))] \in Nat
      BY <1>2, <1>3, <2>1
    <3> QED BY <2>2, <3>1, <3>2
  <2> QED BY <2>3, <2>4
<1> QED BY <1>1, <1>2, <1>6, <1>7 DEF SiftInvariant, Ordered, m_compare, Size, at

(* pop: only the pairs below the root can be out of order.                 *)
LEMMA PoppingKeeps ==
  ASSUME TypeOK, SiftInvariant, Pop
  PROVE  SiftInvariant'
<1> DEFINE n == Size - 1
<1>1. n \in Nat /\ op = "none" /\ index = 0 /\ op' = "down" /\ index' = 0
  BY DEF TypeOK, SiftInvariant, Pop, Size
<1>2. Size' = n /\ \A i \in 1 .. n - 1 : at(i)' = at(i)
  <2> DEFINE swapped == Swapped(0, n)
  <2>1. m_array \in Seq(Value) /\ Len(m_array) = n + 1 /\ m_array' = SubSeq(swapped, 1, n)
    BY DEF TypeOK, Pop, Size
  <2>2. /\ swapped \in Seq(Value) /\ Len(swapped) = n + 1
        /\ \A k \in 2 .. n : swapped[k] = m_array[k]
    BY <1>1, <2>1 DEF Swapped, at
  <2> HIDE DEF swapped, n
  <2>3. Len(m_array') = n /\ \A k \in 1 .. n : m_array'[k] = swapped[k]
    BY <1>1, <2>1, <2>2
  <2> QED BY <1>1, <2>2, <2>3 DEF Size, at
<1>3. \A i \in 1 .. Size - 1 : Ordered(i)
  BY <1>1 DEF SiftInvariant
<1>4. ASSUME NEW i \in 1 .. n - 1, parent(i) # 0
      PROVE  Ordered(i)'
  <2>1. parent(i) \in 1 .. n - 1 /\ i \in 1 .. Size - 1
    BY <1>1, <1>4, Above
  <2>2. at(i)' = at(i) /\ at(parent(i))' = at(parent(i))
    BY <1>2, <2>1
  <2> QED BY <1>3, <2>1, <2>2 DEF Ordered, m_compare
<1> HIDE DEF n
<1> QED BY <1>1, <1>2, <1>4 DEF SiftInvariant

(* heapfy_down swaps with a child, and with a greatest one.                *)
LEMMA SwapIndexIsChild ==
  ASSUME TypeOK, index \in Nat, swap_index # index
  PROVE  /\ swap_index \in index + 1 .. Size - 1 /\ parent(swap_index) = index
         /\ Rank[at(index)] < Rank[at(swap_index)]
         /\ \A i \in 1 .. Size - 1 :
              parent(i) = index => ~(Rank[at(swap_index)] < Rank[at(i)])
<1> DEFINE l == left_child(index)
           r == right_child(index)
           s == swap_index
<1>1. l \in index + 1 .. r /\ r \in Nat /\ Size \in Nat /\ index \in Nat
  BY DEF left_child, right_child, TypeOK, Size
<1>2. \A i \in 0 .. Size - 1 : Rank[at(i)] \in Nat
  BY Ranks
<1>3. s = LET larger == IF l < Size /\ Rank[at(index)] < Rank[at(l)] THEN l ELSE index
          IN  IF r < Size /\ Rank[at(larger)] < Rank[at(r)] THEN r ELSE larger
  BY DEF swap_index, m_compare
<1>4. parent(l) = index /\ parent(r) = index
  BY <1>1, Below
<1>5. \A i \in 1 .. Size - 1 : parent(i) = index => i = l \/ i = r
  BY <1>1, Below
<1>6. s # index
  OBVIOUS
<1> HIDE DEF l, r, s
<1>7. s \in {l, r} /\ s < Size
  BY <1>3, <1>6
<1>8. s \in index + 1 .. Size - 1
  BY <1>1, <1>7
<1>9. Rank[at(index)] < Rank[at(s)]
  BY <1>1, <1>2, <1>3, <1>6, <1>8
<1>10. ASSUME NEW i \in 1 .. Size - 1, i = l \/ i = r
       PROVE  ~(Rank[at(s)] < Rank[at(i)])
  BY <1>1, <1>2, <1>3, <1>8, <1>9, <1>10
<1> QED BY <1>4, <1>5, <1>7, <1>8, <1>9, <1>10 DEF s

(* When heapfy_down does not swap, the element is in its place.            *)
LEMMA NoSwapIsOrdered ==
  ASSUME TypeOK, index \in Nat, swap_index = index,
         NEW i \in 1 .. Size - 1, parent(i) = index
  PROVE  Ordered(i)
<1>1. i = left_child(index) \/ i = right_child(index)
  BY Below
<1>2. index \in 0 .. i - 1
  BY Above
<1>3. left_child(index) # index /\ right_child(index) # index
      /\ left_child(index) # right_child(index)
  BY DEF left_child, right_child
<1> QED BY <1>1, <1>2, <1>3 DEF Ordered, swap_index, TypeOK, Size

(* heapfy_down: the child that took the place precedes what is below it.   *)
LEMMA SinkingKeeps ==
  ASSUME TypeOK, SiftInvariant, HeapfyDown
  PROVE  SiftInvariant'
<1> PICK x, s : x = index /\ s = swap_index
  OBVIOUS
<1>1. /\ s \in x + 1 .. Size - 1 /\ parent(s) = x /\ x \in Nat
      /\ Rank[at(x)] < Rank[at(s)]
      /\ \A i \in 1 .. Size - 1 : parent(i) = x => ~(Rank[at(s)] < Rank[at(i)])
      /\ m_array' = Swapped(x, s) /\ index' = s
      /\ op = "down" /\ op' = "down"
  BY SwapIndexIsChild DEF HeapfyDown, TypeOK
<1>2. /\ Size' = Size /\ Size \in Nat
      /\ at(x)' = at(s) /\ at(s)' = at(x)
      /\ \A i \in 0 .. Size - 1 : i # x /\ i # s => at(i)' = at(i)
  BY <1>1, SwapElements DEF TypeOK, Size
<1>3. \A i \in 0 .. Size - 1 : Rank[at(i)] \in Nat
  BY Ranks
<1>4. \A i \in 1 .. Size - 1 :
        /\ parent(i) # x => ~(Rank[at(parent(i))] < Rank[at(i)])
        /\ x # 0 /\ parent(i) = x => ~(Rank[at(parent(x))] < Rank[at(i)])
  BY <1>1 DEF SiftInvariant, Ordered, m_compare
<1>5. \A i \in 1 .. Size - 1 : parent(i) \in 0 .. i - 1
  BY Above
<1>6. ASSUME NEW i \in 1 .. Size - 1
      PROVE  parent(i) = s \/ ~(Rank[at(parent(i))'] < Rank[at(i)'])
  <2>1. CASE i = s
    BY <1>1, <1>2, <1>3, <2>1
  <2>2. CASE parent(i) = x /\ i # s
    <3>1. at(i)' = at(i) /\ ~(Rank[at(s)] < Rank[at(i)])
      BY <1>1, <1>2, <1>5, <2>2
    <3> QED BY <1>2, <2>2, <3>1
  <2>3. CASE i = x
    <3>1. /\ parent(x) \in 0 .. x - 1
          /\ at(parent(x))' = at(parent(x))
          /\ ~(Rank[at(parent(x))] < Rank[at(s)])
      BY <1>1, <1>2, <1>4, <1>5, <2>3
    <3> QED BY <1>2, <2>3, <3>1
  <2>4. CASE i # s /\ i # x /\ parent(i) # x /\ parent(i) # s
    <3>1. at(i)' = at(i) /\ at(parent(i))' = at(parent(i))
      BY <1>2, <1>5, <2>4
    <3> QED BY <1>4, <2>4, <3>1
  <2> QED BY <2>1, <2>2, <2>3, <2>4
<1>7. ASSUME NEW i \in 1 .. Size - 1, parent(i) = s
      PROVE  ~(Rank[at(parent(s))'] < Rank[at(i)'])
  <2>1. i # x /\ i # s /\ s # x
    BY <1>1, <1>5, <1>7
  <2>2. at(i)' = at(i) /\ ~(Rank[at(s)] < Rank[at(i)])
    BY <1>2, <1>4, <1>7, <2>1
  <2> QED BY <1>1, <1>2, <2>2
<1> QED BY <1>1, <1>2, <1>6, <1>7 DEF SiftInvariant, Ordered, m_compare, Size, at

(* The heap order up to the element that is out of place holds through     *)
(* every step of both loops, and is whole when they end.                   *)
THEOREM SiftCorrect == Spec => []SiftInvariant
<1>1. Init => SiftInvariant
  BY DEF Init, SiftInvariant, Size
<1>2. TypeOK /\ SiftInvariant /\ [Next]_vars => SiftInvariant'
  <2> SUFFICES ASSUME TypeOK, SiftInvariant, [Next]_vars PROVE SiftInvariant'
    OBVIOUS
  <2> USE RankAssumption, MaxSizeAssumption
  <2>1. ASSUME NEW v \in Value, Push(v) PROVE SiftInvariant'
    BY <2>1, Above DEF TypeOK, SiftInvariant, Push, Size, parent, Ordered, m_compare, at
  <2>2. CASE HeapfyUp
    BY <2>2, RisingKeeps
  <2>3. CASE Pop
    BY <2>3, PoppingKeeps
  <2>4. CASE HeapfyDown
    BY <2>4, SinkingKeeps
  <2>5. CASE Settle
    BY <2>5, NoSwapIsOrdered
    DEF TypeOK, SiftInvariant, Settle, Rises, at, Size, Ordered, m_compare, parent
  <2>6. CASE UNCHANGED vars
    BY <2>6 DEF SiftInvariant, vars, Size, Ordered, m_compare, at, parent
  <2> QED BY <2>1, <2>2, <2>3, <2>4, <2>5, <2>6 DEF Next
<1> QED BY <1>1, <1>2, TypeCorrect, PTL DEF Spec

(* A set of naturals has a least element: what takes the place of          *)
(* induction below.                                                        *)
LEMMA LeastNatural ==
  ASSUME NEW T \in SUBSET Nat, T # {}
  PROVE  \E m \in T : \A k \in T : m <= k
<1> DEFINE R == {pair \in Nat \X Nat : pair[1] < pair[2]}
<1>1. IsWellFoundedOn(R, Nat)
  BY NatLessThanWellFounded DEF OpToRel
<1>2. PICK m \in T : \A k \in T : ~ (<<k, m>> \in R)
  BY <1>1, WFMin
<1>3. ASSUME NEW k \in T PROVE m <= k
  <2>1. <<k, m>> \in Nat \X Nat
    OBVIOUS
  <2>2. ~ (k < m)
    BY <1>2, <2>1
  <2> QED BY <2>2
<1> QED BY <1>3

(* A heap has its greatest element in front: of the positions that hold a  *)
(* greater one, the least would be out of order with the one above it.     *)
LEMMA OrderedHasFront ==
  ASSUME TypeOK, \A i \in 1 .. Size - 1 : Ordered(i)
  PROVE  \A i \in 0 .. Size - 1 : ~m_compare(at(0), at(i))
<1> DEFINE T == {i \in 0 .. Size - 1 : m_compare(at(0), at(i))}
<1>1. Size \in Nat
  BY DEF TypeOK, Size
<1>2. SUFFICES ASSUME T # {} PROVE FALSE
  OBVIOUS
<1>3. PICK m \in T : \A k \in T : m <= k
  <2>1. T \in SUBSET Nat
    BY <1>1
  <2> QED BY <1>2, <2>1, LeastNatural
<1>4. m \in 1 .. Size - 1 /\ parent(m) \in 0 .. m - 1
  <2>1. 0 \in 0 .. Size - 1
    BY <1>1, <1>3
  <2>2. m # 0
    BY <1>3, <2>1, Ranks DEF m_compare
  <2>3. m \in 1 .. Size - 1
    BY <1>1, <1>3, <2>2
  <2> QED BY <2>3, Above
<1>5. parent(m) \in 0 .. Size - 1 /\ parent(m) \notin T
  BY <1>1, <1>3, <1>4
<1>6. /\ Rank[at(0)] \in Nat /\ Rank[at(m)] \in Nat /\ Rank[at(parent(m))] \in Nat
  BY <1>1, <1>4, <1>5, Ranks
<1>7. ~(Rank[at(0)] < Rank[at(parent(m))]) /\ Rank[at(0)] < Rank[at(m)]
  BY <1>3, <1>5 DEF m_compare
<1>8. ~(Rank[at(parent(m))] < Rank[at(m)])
  BY <1>4 DEF Ordered, m_compare
<1> QED BY <1>6, <1>7, <1>8

(* Between calls the front is an element that none precedes.               *)
THEOREM FrontCorrect == Spec => []FrontIsGreatest
<1>1. TypeOK /\ SiftInvariant => FrontIsGreatest
  <2> SUFFICES ASSUME TypeOK, SiftInvariant, op = "none" PROVE FrontIsGreatest
    BY DEF FrontIsGreatest
  <2>1. \A i \in 1 .. Size - 1 : Ordered(i)
    BY DEF SiftInvariant
  <2> QED BY <2>1, OrderedHasFront DEF FrontIsGreatest
<1> QED BY <1>1, TypeCorrect, SiftCorrect, PTL

(* Every swap takes the rising element to a position at most half as far,  *)
(* the sinking one to a position at least twice as far.                    *)
ReachBound ==
  /\ op = "up" => (index + 1) * reach <= Size
  /\ op = "down" => reach <= index + 1 /\ (index = 0 \/ index < Size)
  /\ Logarithmic

(* Pushing and popping takes a logarithmic number of swaps.                *)
THEOREM LogarithmicCorrect == Spec => []Logarithmic
<1>1. Init => ReachBound
  BY DEF Init, ReachBound, Logarithmic
<1>2. TypeOK /\ TypeOK' /\ SiftInvariant /\ ReachBound /\ [Next]_vars => ReachBound'
  <2> SUFFICES ASSUME TypeOK, TypeOK', SiftInvariant, ReachBound, [Next]_vars
               PROVE  ReachBound'
    OBVIOUS
  <2>1. ASSUME NEW v \in Value, Push(v) PROVE ReachBound'
    BY <2>1 DEF TypeOK, Push, ReachBound, Logarithmic, Size
  <2>2. CASE HeapfyUp
    <3>1. index \in 1 .. Size - 1 /\ parent_heap = parent(index) /\ reach \in Nat \ {0}
      BY <2>2 DEF TypeOK, SiftInvariant, HeapfyUp, Rises, Size
    <3>2. parent_heap \in Nat /\ 2 * (parent_heap + 1) <= index + 1
      BY <3>1 DEF parent
    <3>3. (parent_heap + 1) * (2 * reach) <= (index + 1) * reach
      <4>1. (2 * (parent_heap + 1)) * reach <= (index + 1) * reach
        BY <3>1, <3>2
      <4> QED BY <3>1, <3>2, <4>1
    <3>4. Size \in Nat /\ (index + 1) * reach <= Size
      BY <2>2 DEF HeapfyUp, ReachBound, TypeOK, Size
    <3>5. (parent_heap + 1) * (2 * reach) <= Size
      BY <3>1, <3>2, <3>3, <3>4
    <3>6. 2 * reach <= (parent_heap + 1) * (2 * reach)
      BY <3>1, <3>2
    <3>7. Size' = Size
      BY <2>2 DEF HeapfyUp, TypeOK, Swapped, Size
    <3>8. 2 * reach <= Size
      BY <3>1, <3>2, <3>4, <3>5, <3>6
    <3> QED BY <2>2, <3>5, <3>7, <3>8 DEF HeapfyUp, ReachBound, Logarithmic
  <2>3. CASE Pop
    BY <2>3 DEF Pop, ReachBound, Logarithmic
  <2>4. CASE HeapfyDown
    <3>1. /\ swap_index \in index + 1 .. Size - 1 /\ parent(swap_index) = index
          /\ index \in Nat /\ reach \in Nat /\ Size \in Nat
      BY <2>4, SwapIndexIsChild DEF HeapfyDown, TypeOK, Size
    <3>2. swap_index = left_child(index) \/ swap_index = right_child(index)
      BY <3>1, Below
    <3>3. reach <= index + 1
      BY <2>4 DEF HeapfyDown, ReachBound
    <3>4. 2 * reach <= swap_index + 1 /\ 2 * reach <= Size
      BY <3>1, <3>2, <3>3 DEF left_child, right_child
    <3>5. Size' = Size
      BY <2>4 DEF HeapfyDown, TypeOK, Swapped, Size
    <3> QED BY <2>4, <3>1, <3>4, <3>5 DEF HeapfyDown, ReachBound, Logarithmic
  <2>5. CASE Settle
    BY <2>5 DEF Settle, ReachBound, Logarithmic, Size
  <2>6. CASE UNCHANGED vars
    BY <2>6 DEF ReachBound, Logarithmic, vars, Size
  <2> QED BY <2>1, <2>2, <2>3, <2>4, <2>5, <2>6 DEF Next
<1>3. ReachBound => Logarithmic
  BY DEF ReachBound
<1> QED BY <1>1, <1>2, <1>3, TypeCorrect, SiftCorrect, PTL DEF Spec

(* The places of an element are finitely many.                             *)
LEMMA PlacesFinite ==
  ASSUME TypeOK, NEW v
  PROVE  IsFiniteSet(Places(v)) /\ Cardinality(Places(v)) \in Nat
<1>1. Size \in Nat
  BY DEF TypeOK, Size
<1>2. IsFiniteSet(1 .. Size) /\ Places(v) \in SUBSET (1 .. Size)
  BY <1>1, FS_Interval DEF Places
<1>3. IsFiniteSet(Places(v))
  BY <1>2, FS_Subset
<1> QED BY <1>3, FS_CardinalityType

(* A swap moves the places of an element, and keeps their number.          *)
LEMMA SwapCounts ==
  ASSUME TypeOK, NEW p \in 0 .. Size - 1, NEW x \in 0 .. Size - 1, NEW v
  PROVE  LET swapped == {i \in 1 .. Size : Swapped(p, x)[i] = v}
         IN  IsFiniteSet(swapped) /\ Cardinality(swapped) = Cardinality(Places(v))
<1> DEFINE S == {i \in 1 .. Size : Swapped(p, x)[i] = v}
           move(i) == IF i = p + 1 THEN x + 1 ELSE IF i = x + 1 THEN p + 1 ELSE i
           f == [i \in Places(v) |-> move(i)]
<1>1. Size \in Nat /\ m_array \in Seq(Value) /\ Size = Len(m_array)
  BY DEF TypeOK, Size
<1>2. \A i \in 1 .. Size : /\ move(i) \in 1 .. Size /\ move(move(i)) = i
                           /\ Swapped(p, x)[move(i)] = m_array[i]
                           /\ Swapped(p, x)[i] = m_array[move(i)]
  BY <1>1 DEF Swapped, at
<1>3. Places(v) \subseteq 1 .. Size /\ \A i \in 1 .. Size : i \in Places(v) <=> m_array[i] = v
  BY DEF Places
<1>4. S \subseteq 1 .. Size /\ \A i \in 1 .. Size : i \in S <=> Swapped(p, x)[i] = v
  OBVIOUS
<1> HIDE DEF S, move
<1>5. \A i \in Places(v) : f[i] \in S
  BY <1>2, <1>3, <1>4
<1>6. \A i, j \in Places(v) : f[i] = f[j] => i = j
  BY <1>2, <1>3
<1>7. \A j \in S : \E i \in Places(v) : f[i] = j
  <2> TAKE j \in S
  <2>1. move(j) \in Places(v) /\ move(move(j)) = j
    BY <1>2, <1>3, <1>4
  <2> QED BY <2>1
<1>8. f \in Bijection(Places(v), S)
  BY <1>5, <1>6, <1>7, Fun_IsBij
<1>9. ExistsBijection(Places(v), S)
  BY <1>8 DEF ExistsBijection
<1>10. IsFiniteSet(S) /\ Cardinality(S) = Cardinality(Places(v))
  BY <1>9, PlacesFinite, FS_Bijection
<1> QED BY <1>10 DEF S

(* A swap leaves the queue as it is.                                       *)
LEMMA SwapIsStutter ==
  ASSUME TypeOK, NEW p \in 0 .. Size - 1, NEW x \in 0 .. Size - 1,
         m_array' = Swapped(p, x)
  PROVE  Held' = Held
<1>1. Size' = Size
  BY DEF TypeOK, Swapped, Size
<1>2. ASSUME NEW v \in Value PROVE Cardinality(Places(v))' = Cardinality(Places(v))
  <2>1. Places(v)' = {i \in 1 .. Size : Swapped(p, x)[i] = v}
    BY <1>1 DEF Places
  <2> QED BY <2>1, SwapCounts
<1> QED BY <1>2 DEF Held

(* Appending an element is a push of it.                                   *)
LEMMA PushImplements ==
  ASSUME TypeOK, NEW v \in Value, Push(v)
  PROVE  Queue!Push(v)
<1>1. /\ m_array \in Seq(Value) /\ Size = Len(m_array) /\ Size \in Nat
      /\ m_array' = Append(m_array, v)
  BY DEF TypeOK, Push, Size
<1>2. Size' = Size + 1 /\ \A i \in 1 .. Size : m_array'[i] = m_array[i]
      /\ m_array'[Size + 1] = v
  BY <1>1 DEF Size
<1>3. Places(v)' = Places(v) \cup {Size + 1} /\ Size + 1 \notin Places(v)
  BY <1>1, <1>2 DEF Places
<1>4. \A w \in Value : w # v => Places(w)' = Places(w)
  BY <1>1, <1>2 DEF Places
<1>5. Cardinality(Places(v)') = Cardinality(Places(v)) + 1
  BY <1>3, PlacesFinite, FS_AddElement
<1>6. ASSUME NEW w \in Value
      PROVE  Held'[w] = [Held EXCEPT ![v] = @ + 1][w]
  BY <1>4, <1>5 DEF Held
<1> QED BY <1>6 DEF Queue!Push, Held

(* Swapping the front to the end and dropping it is a pop of it, and no    *)
(* element precedes it.                                                    *)
LEMMA PopImplements ==
  ASSUME TypeOK, FrontIsGreatest, Pop
  PROVE  Queue!Pop(at(0))
<1>1. /\ m_array \in Seq(Value) /\ Size = Len(m_array) /\ Size \in Nat \ {0}
      /\ at(0) \in Value /\ at(0) = m_array[1]
      /\ m_array' = SubSeq(Swapped(0, Size - 1), 1, Size - 1)
  BY DEF TypeOK, Pop, Size, at
<1>2. /\ Swapped(0, Size - 1) \in Seq(Value) /\ Len(Swapped(0, Size - 1)) = Size
      /\ Swapped(0, Size - 1)[Size] = at(0)
  BY <1>1 DEF Swapped, at
<1>3. /\ Size' = Size - 1
      /\ \A i \in 1 .. Size - 1 : m_array'[i] = Swapped(0, Size - 1)[i]
  BY <1>1, <1>2 DEF Size
<1> DEFINE P(v) == {i \in 1 .. Size : Swapped(0, Size - 1)[i] = v}
<1>4. \A v \in Value : /\ IsFiniteSet(P(v))
                       /\ Cardinality(P(v)) = Cardinality(Places(v))
                       /\ Cardinality(Places(v)) \in Nat
  <2>1. 0 \in 0 .. Size - 1 /\ Size - 1 \in 0 .. Size - 1
    BY <1>1
  <2> SUFFICES ASSUME NEW v \in Value
               PROVE  /\ IsFiniteSet(P(v)) /\ Cardinality(P(v)) = Cardinality(Places(v))
                      /\ Cardinality(Places(v)) \in Nat
    OBVIOUS
  <2>2. IsFiniteSet(P(v)) /\ Cardinality(P(v)) = Cardinality(Places(v))
    BY <2>1, SwapCounts
  <2> QED
    BY <2>2, PlacesFinite
<1>5. \A v \in Value : Places(v)' = P(v) \ {Size}
  BY <1>1, <1>3 DEF Places
<1>6. \A v \in Value : Size \in P(v) <=> v = at(0)
  BY <1>1, <1>2
<1> HIDE DEF P
<1>7. ASSUME NEW v \in Value
      PROVE  Cardinality(Places(v)') =
               IF v = at(0) THEN Cardinality(Places(v)) - 1 ELSE Cardinality(Places(v))
  BY <1>4, <1>5, <1>6, FS_RemoveElement
<1>8. Held[at(0)] > 0
  <2>1. 1 \in Places(at(0))
    BY <1>1 DEF Places
  <2>2. Cardinality(Places(at(0))) # 0
    BY <2>1, PlacesFinite, FS_EmptySet
  <2> QED BY <1>1, <1>4, <2>2 DEF Held
<1>9. ASSUME NEW w \in Value, Held[w] > 0
      PROVE  Rank[w] <= Rank[at(0)]
  <2>1. Places(w) # {}
    BY <1>9, FS_EmptySet DEF Held
  <2>2. PICK i \in 0 .. Size - 1 : at(i) = w
    <3>1. PICK k \in 1 .. Size : m_array[k] = w
      BY <2>1 DEF Places
    <3>2. k - 1 \in 0 .. Size - 1 /\ at(k - 1) = w
      BY <1>1, <3>1 DEF at
    <3> QED BY <3>2
  <2>3. ~(Rank[at(0)] < Rank[w])
    BY <2>2 DEF FrontIsGreatest, Pop, m_compare
  <2> QED BY <1>1, <2>3, RankAssumption
<1>10. ASSUME NEW w \in Value
       PROVE  Held'[w] = [Held EXCEPT ![at(0)] = @ - 1][w]
  BY <1>1, <1>7 DEF Held
<1>11. Held' = [Held EXCEPT ![at(0)] = @ - 1]
  BY <1>10 DEF Held
<1> QED BY <1>8, <1>9, <1>11 DEF Queue!Pop, Queue!Greatest

(* The heap implements the priority queue: every call is one step of it,   *)
(* and the swaps that follow leave it as it is.                            *)
THEOREM HeapCorrect == Spec => ImplementsPriorityQueue
<1>1. Init => Queue!Init
  <2> SUFFICES ASSUME Init PROVE Queue!Init
    OBVIOUS
  <2>1. \A v : Places(v) = {}
    BY DEF Init, Places, Size
  <2> QED BY <2>1, FS_EmptySet DEF Queue!Init, Held
<1>2. TypeOK /\ SiftInvariant /\ FrontIsGreatest /\ [Next]_vars => [Queue!Next]_Held
  <2> SUFFICES ASSUME TypeOK, SiftInvariant, FrontIsGreatest, [Next]_vars
               PROVE  Queue!Next \/ Held' = Held
    OBVIOUS
  <2>1. ASSUME NEW v \in Value, Push(v) PROVE Queue!Next
    BY <2>1, PushImplements DEF Queue!Next
  <2>2. CASE HeapfyUp
    BY <2>2, SwapIsStutter DEF HeapfyUp, TypeOK, Size
  <2>3. CASE Pop
    <3>1. at(0) \in Value
      BY <2>3 DEF TypeOK, Pop, Size, at
    <3> QED BY <2>3, <3>1, PopImplements DEF Queue!Next
  <2>4. CASE HeapfyDown
    <3>1. index \in 0 .. Size - 1 /\ swap_index \in 0 .. Size - 1
      BY <2>4, SwapIndexIsChild DEF HeapfyDown, TypeOK, Size
    <3> QED BY <2>4, <3>1, SwapIsStutter DEF HeapfyDown
  <2>5. CASE Settle
    BY <2>5 DEF Settle, Held, Places, Size
  <2>6. CASE UNCHANGED vars
    BY <2>6 DEF vars, Held, Places, Size
  <2> QED BY <2>1, <2>2, <2>3, <2>4, <2>5, <2>6 DEF Next
<1> QED BY <1>1, <1>2, TypeCorrect, SiftCorrect, FrontCorrect, PTL
        DEF Spec, ImplementsPriorityQueue, Queue!Spec
=============================================================================
