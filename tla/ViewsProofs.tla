----------------------------- MODULE ViewsProofs -----------------------------
(***************************************************************************)
(* Views and the iterators over them, for an array of any length and views *)
(* nested as deep as one likes.                                            *)
(***************************************************************************)
EXTENDS Views, TLAPS

Interval == [data : Nat, size : Nat]

\* The iterators are as far from where they started as they have stepped.
IteratorsInStep ==
  /\ back \in 0 .. View.size /\ backward = end(View) - back
  /\ forth \in 0 .. View.size /\ forward = begin(View) + forth

IInv == /\ views \in Seq(Interval) /\ views # <<>>
        /\ ViewsNested
        /\ IteratorsInStep

-----------------------------------------------------------------------------
LEMMA ViewIsLast ==
  ASSUME IInv
  PROVE  /\ Len(views) \in Nat \ {0} /\ View \in Interval
         /\ View.data \in 0 .. Length /\ View.size \in 0 .. Length - View.data
<1>1. Len(views) \in Nat \ {0} /\ Len(views) \in DOMAIN views
  BY DEF IInv
<1>2. View \in Interval
  BY <1>1 DEF IInv, View
<1> QED
  BY <1>1, <1>2 DEF IInv, ViewsNested, View

\* A view inside the last one continues the chain, and both iterators start
\* at its ends.
LEMMA TakenKeeps ==
  ASSUME IInv, NEW v \in Interval, Taken(v),
         begin(View) <= begin(v), end(v) <= end(View)
  PROVE  IInv' /\ View' = v
<1> DEFINE n == Len(views)
<1>1. /\ n \in Nat \ {0} /\ View \in Interval
      /\ View.data \in 0 .. Length /\ View.size \in 0 .. Length - View.data
  BY ViewIsLast
<1>2. views' = Append(views, v)
  BY DEF Taken, Walks
<1>3. /\ views' \in Seq(Interval) /\ Len(views') = n + 1
      /\ views'[n + 1] = v
      /\ \A k \in 1 .. n : views'[k] = views[k]
  BY <1>2 DEF IInv
<1>4. View' = v
  BY <1>3 DEF View
<1>5. v.data \in 0 .. Length /\ v.size \in 0 .. Length - v.data
  BY <1>1, ConstantsAssumption DEF Interval, begin, end
<1>6. ViewsNested'
  <2>1. ASSUME NEW k \in DOMAIN views'
        PROVE  views'[k].data \in 0 .. Length /\ views'[k].size \in 0 .. Length - views'[k].data
    <3>1. k \in 1 .. n \/ k = n + 1
      BY <1>1, <1>3
    <3> QED
      BY <1>3, <1>5, <3>1 DEF IInv, ViewsNested
  <2>2. ASSUME NEW k \in 1 .. Len(views') - 1
        PROVE  begin(views'[k]) <= begin(views'[k + 1]) /\ end(views'[k + 1]) <= end(views'[k])
    <3>1. CASE k < n
      <4>1. k \in 1 .. n - 1 /\ k \in 1 .. n /\ k + 1 \in 1 .. n
        BY <1>1, <1>3, <3>1
      <4> QED
        BY <1>3, <4>1 DEF IInv, ViewsNested
    <3>2. CASE k = n
      <4>1. views'[k] = View /\ views'[k + 1] = v
        BY <1>1, <1>3, <3>2 DEF View
      <4> QED
        BY <4>1
    <3> QED
      BY <1>1, <1>3, <3>1, <3>2
  <2> QED
    BY <2>1, <2>2 DEF ViewsNested, begin, end
<1>7. IteratorsInStep'
  <2>1. /\ backward' = rbegin(v) /\ back' = 0
        /\ forward' = begin(v) /\ forth' = 0
    <3>1. Append(views, v)[Len(Append(views, v))] = v
      BY <1>2, <1>3
    <3> QED
      BY <3>1 DEF Taken, Walks
  <2> QED
    BY <1>4, <2>1 DEF IteratorsInStep, Interval, rbegin, begin, end
<1> QED
  BY <1>3, <1>4, <1>6, <1>7 DEF IInv

\* What the assertions let through lies inside the view.
LEMMA PartsInside ==
  ASSUME IInv, NEW count \in Nat, NEW offset \in Nat
  PROVE  /\ Subview(offset, count) =>
              /\ count + offset <= View.size
              /\ IInv' /\ View' = [data |-> View.data + offset, size |-> count]
         /\ First(count) =>
              count <= View.size /\ IInv' /\ View' = [data |-> View.data, size |-> count]
         /\ Last(count) =>
              /\ count <= View.size
              /\ IInv' /\ View' = [data |-> View.data + (View.size - count), size |-> count]
<1>1. View.data \in Nat /\ View.size \in Nat
  BY ViewIsLast DEF Interval
<1>2. ASSUME Subview(offset, count)
      PROVE  /\ count + offset <= View.size
             /\ IInv' /\ View' = [data |-> View.data + offset, size |-> count]
  <2>1. (count + offset) % SizeMod = count + offset
    BY <1>2, ConstantsAssumption DEF Subview
  <2>2. count + offset <= View.size /\ Taken(subview(View, offset, count))
    BY <1>2, <2>1 DEF Subview
  <2>3. /\ subview(View, offset, count) \in Interval
        /\ begin(View) <= begin(subview(View, offset, count))
        /\ end(subview(View, offset, count)) <= end(View)
    BY <1>1, <2>2 DEF subview, Interval, begin, end
  <2> QED
    BY <2>2, <2>3, TakenKeeps DEF subview
<1>3. ASSUME First(count)
      PROVE  count <= View.size /\ IInv' /\ View' = [data |-> View.data, size |-> count]
  <2>1. /\ first(View, count) \in Interval
        /\ begin(View) <= begin(first(View, count))
        /\ end(first(View, count)) <= end(View)
    BY <1>1, <1>3 DEF First, first, Interval, begin, end
  <2> QED
    BY <1>3, <2>1, TakenKeeps DEF First, first
<1>4. ASSUME Last(count)
      PROVE  /\ count <= View.size
             /\ IInv' /\ View' = [data |-> View.data + (View.size - count), size |-> count]
  <2>1. /\ last(View, count) \in Interval
        /\ begin(View) <= begin(last(View, count))
        /\ end(last(View, count)) <= end(View)
    BY <1>1, <1>4 DEF Last, last, Interval, begin, end
  <2> QED
    BY <1>4, <2>1, TakenKeeps DEF Last, last
<1> QED
  BY <1>2, <1>3, <1>4

-----------------------------------------------------------------------------
LEMMA InitInStep == Init => IInv
<1> SUFFICES ASSUME NEW i \in 0 .. Length, NEW j \in i .. Length,
                    /\ views = <<[data |-> i, size |-> j - i]>>
                    /\ backward = j /\ back = 0
                    /\ forward = i /\ forth = 0
             PROVE  IInv
  BY DEF Init
<1>1. views \in Seq(Interval) /\ Len(views) = 1 /\ views[1] = [data |-> i, size |-> j - i]
  BY ConstantsAssumption DEF Interval
<1>2. ViewsNested
  BY <1>1, ConstantsAssumption DEF ViewsNested
<1>3. IteratorsInStep
  BY <1>1, ConstantsAssumption DEF IteratorsInStep, View, begin, end
<1> QED
  BY <1>1, <1>2, <1>3 DEF IInv

\* Stepping moves one iterator and counts it; taking a view starts both anew.
LEMMA NextInStep == IInv /\ [Next]_vars => IInv'
<1> SUFFICES ASSUME IInv, [Next]_vars PROVE IInv'
  OBVIOUS
<1> USE ConstantsAssumption
<1>1. ASSUME NEW count \in 0 .. SizeMod - 1, NEW offset \in 0 .. SizeMod - 1, Subview(offset, count)
      PROVE  IInv'
  <2>1. count \in Nat /\ offset \in Nat
    OBVIOUS
  <2> QED
    BY <1>1, <2>1, PartsInside
<1>2. ASSUME NEW count \in 0 .. SizeMod - 1, First(count) \/ Last(count)
      PROVE  IInv'
  BY <1>2, PartsInside
<1>3. ASSUME NEW n \in -Length .. Length, StepBackward(n)
      PROVE  IInv'
  <2>1. View' = View /\ ViewsNested'
    BY <1>3 DEF StepBackward, View, ViewsNested, IInv
  <2> QED
    BY <1>3, <2>1, ViewIsLast DEF IInv, IteratorsInStep, StepBackward, reverse_plus, begin, end
<1>4. ASSUME NEW n \in -Length .. Length, StepForward(n)
      PROVE  IInv'
  <2>1. View' = View /\ ViewsNested'
    BY <1>4 DEF StepForward, View, ViewsNested, IInv
  <2>2. IteratorsInStep'
    <3>1. View.data \in Nat /\ View.size \in Nat
      BY ViewIsLast DEF Interval
    <3>2. /\ forth' = forth + n /\ forward' = forward + n /\ back' = back /\ backward' = backward
          /\ forward' \in View.data .. View.data + View.size
      BY <1>4 DEF StepForward, const_plus, begin, end
    <3> QED
      BY <2>1, <3>1, <3>2 DEF IInv, IteratorsInStep, begin, end
  <2> QED
    BY <1>4, <2>1, <2>2 DEF IInv, StepForward
<1>5. ASSUME UNCHANGED vars
      PROVE  IInv'
  BY <1>5 DEF vars, IInv, ViewsNested, IteratorsInStep, View
<1> QED
  BY <1>1, <1>2, <1>3, <1>4, <1>5 DEF Next

LEMMA InvariantCorrect == Spec => []IInv
<1> QED
  BY InitInStep, NextInStep, PTL DEF Spec

(* However often a view of a view is taken, it shows a part of every view   *)
(* before it and nothing outside the array (array_view.hpp:261-309).        *)
THEOREM NestedCorrect == Spec => []ViewsNested
<1>1. IInv => ViewsNested
  BY DEF IInv
<1> QED
  BY <1>1, InvariantCorrect, PTL

(* A backward walk mirrors the forward one over views of any size, at their *)
(* ends and over empty ones too (reverse_iterator.hpp, const_iterator.hpp). *)
THEOREM MirrorCorrect == Spec => []WalksMirror
<1>1. IInv => WalksMirror
  <2> SUFFICES ASSUME IInv PROVE WalksMirror
    OBVIOUS
  <2> DEFINE n == View.size
  <2>1. /\ View.data \in Nat /\ n \in Nat
        /\ back \in 0 .. n /\ backward = View.data + n - back
        /\ forth \in 0 .. n /\ forward = View.data + forth
    BY ViewIsLast DEF IInv, IteratorsInStep, Interval, begin, end
  <2>2. \A k \in 1 .. n : Contents(View)[k] = View.data + k - 1
    BY DEF Contents
  <2>3. ASSUME NEW k \in -back .. n - 1 - back
        PROVE  reverse_subscript(backward, k) = Contents(View)[n - back - k]
    <3>1. n - back - k \in 1 .. n
      BY <2>1
    <3> QED
      BY <2>1, <2>2, <3>1 DEF reverse_subscript, reverse_dereference, reverse_plus
  <2>4. back < n => reverse_dereference(backward) = Contents(View)[n - back]
    <3>1. back < n => n - back \in 1 .. n
      BY <2>1
    <3> QED
      BY <2>1, <2>2, <3>1 DEF reverse_dereference
  <2>5. ASSUME NEW k \in -forth .. n - 1 - forth
        PROVE  const_subscript(forward, k) = Contents(View)[forth + 1 + k]
    <3>1. forth + 1 + k \in 1 .. n
      BY <2>1
    <3> QED
      BY <2>1, <2>2, <3>1 DEF const_subscript
  <2>6. forth < n => const_dereference(forward) = Contents(View)[forth + 1]
    <3>1. forth < n => forth + 1 \in 1 .. n
      BY <2>1
    <3> QED
      BY <2>1, <2>2, <3>1 DEF const_dereference
  <2>7. /\ reverse_difference(backward, rbegin(View)) = back
        /\ reverse_difference(rend(View), backward) = n - back
        /\ const_difference(forward, begin(View)) = forth
        /\ backward = rend(View) <=> back = n
        /\ forward = end(View) <=> forth = n
        /\ back + forth = n <=> backward = forward
    <3>1. /\ rbegin(View) = View.data + n /\ rend(View) = View.data
          /\ begin(View) = View.data /\ end(View) = View.data + n
      BY DEF rbegin, rend, begin, end
    <3> HIDE DEF n
    <3> QED
      BY <2>1, <3>1 DEF reverse_difference, const_difference
  <2> QED
    BY <2>3, <2>4, <2>5, <2>6, <2>7 DEF WalksMirror
<1> QED
  BY <1>1, InvariantCorrect, PTL

LEMMA ContentsInOrder ==
  ASSUME NEW v, v.data \in Nat, v.size \in Nat
  PROVE  /\ Contents(v) \in Seq(Nat) /\ Len(Contents(v)) = v.size
         /\ \A k \in 1 .. v.size : Contents(v)[k] = v.data + k - 1
<1> DEFINE n == v.size
<1>1. Contents(v) \in [1 .. n -> Nat]
  BY DEF Contents
<1>2. \A k \in 1 .. n : Contents(v)[k] = v.data + k - 1
  BY DEF Contents
<1>3. n \in Nat
  OBVIOUS
<1> HIDE DEF n
<1>4. Contents(v) \in Seq(Nat) /\ Len(Contents(v)) = n
  BY <1>1, <1>3
<1> QED
  BY <1>2, <1>4 DEF n

(* subview, first and last show the elements they name (array_view.hpp).    *)
THEOREM PartsCorrect == Spec => PartsPromised
<1> DEFINE Part(v, from, to) == SubSeq(Contents(v), from, to)
           Step == \A count \in 0 .. View.size :
                     /\ \A offset \in 0 .. View.size - count :
                          Subview(offset, count) => Contents(View)' = Part(View, offset + 1, offset + count)
                     /\ First(count) => Contents(View)' = Part(View, 1, count)
                     /\ Last(count) => Contents(View)' = Part(View, View.size - count + 1, View.size)
<1>1. ASSUME IInv PROVE Step
  <2>1. View.data \in Nat /\ View.size \in Nat
    BY <1>1, ViewIsLast DEF Interval
  <2>2. ASSUME NEW count \in 0 .. View.size, NEW offset \in 0 .. View.size - count,
               View' = [data |-> View.data + offset, size |-> count]
        PROVE  Contents(View)' = Part(View, offset + 1, offset + count)
    <3>1. Contents(View)' = [k \in 1 .. count |-> View.data + offset + k - 1]
      BY <2>2 DEF Contents
    <3>2. Part(View, offset + 1, offset + count) = [k \in 1 .. count |-> View.data + offset + k - 1]
      <4>1. /\ Contents(View) \in Seq(Nat) /\ Len(Contents(View)) = View.size
            /\ \A k \in 1 .. View.size : Contents(View)[k] = View.data + k - 1
        BY <2>1, ContentsInOrder
      <4> DEFINE part == SubSeq(Contents(View), offset + 1, offset + count)
      <4>2. part = [k \in 1 .. count |-> Contents(View)[offset + k]]
        BY <2>1, <4>1
      <4>3. ASSUME NEW k \in 1 .. count
            PROVE  Contents(View)[offset + k] = View.data + offset + k - 1
        <5>1. offset + k \in 1 .. View.size
          BY <2>1
        <5>2. Contents(View)[offset + k] = View.data + (offset + k) - 1
          BY <4>1, <5>1
        <5> QED
          BY <2>1, <5>2
      <4> QED
        BY <4>2, <4>3
    <3> QED
      BY <3>1, <3>2
  <2>3. ASSUME NEW count \in 0 .. View.size
        PROVE  /\ First(count) => Contents(View)' = Part(View, 1, count)
               /\ Last(count) => Contents(View)' = Part(View, View.size - count + 1, View.size)
    <3>1. ASSUME First(count) PROVE Contents(View)' = Part(View, 1, count)
      BY <1>1, <2>1, <2>2, <3>1, PartsInside
    <3>2. ASSUME Last(count)
          PROVE  Contents(View)' = Part(View, View.size - count + 1, View.size)
      <4> DEFINE offset == View.size - count
      <4>1. offset \in 0 .. View.size - count /\ offset + count = View.size
        BY <2>1
      <4>2. View' = [data |-> View.data + offset, size |-> count]
        BY <1>1, <3>2, PartsInside
      <4> HIDE DEF offset
      <4>3. Contents(View)' = Part(View, offset + 1, offset + count)
        BY <2>2, <4>1, <4>2
      <4> QED
        BY <4>1, <4>3 DEF offset
    <3> QED
      BY <3>1, <3>2
  <2>4. ASSUME NEW count \in 0 .. View.size, NEW offset \in 0 .. View.size - count,
               Subview(offset, count)
        PROVE  Contents(View)' = Part(View, offset + 1, offset + count)
    BY <1>1, <2>1, <2>2, <2>4, PartsInside
  <2> QED
    BY <2>3, <2>4
<1>2. IInv => [Step]_vars
  BY <1>1
<1> QED
  BY <1>2, InvariantCorrect, PTL DEF PartsPromised
=============================================================================
