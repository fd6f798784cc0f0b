-------------------------------- MODULE Views --------------------------------
(***************************************************************************)
(* ArrayView, a pointer and a size, and the two iterator adaptors walking  *)
(* it: ReverseIterator, which stands one element behind the one it is at,  *)
(* and ConstIterator.  Pointers are offsets into an array of Length        *)
(* elements, so that an offset also names the element that is there.       *)
(*                                                                         *)
(* A client takes views of views, and of each new view an iterator to walk *)
(* it forwards and one to walk it backwards.  It keeps the iterators in    *)
(* the range of the view, as all pointers must be.                         *)
(***************************************************************************)
EXTENDS Integers, Sequences

CONSTANTS Length,     \* the elements of the array
          SizeMod,    \* 2^w for a w-bit size_t
          MaxNesting  \* bound: how often a view of a view is taken

ASSUME ConstantsAssumption ==
  /\ Length \in Nat /\ MaxNesting \in Nat
  /\ SizeMod \in Nat /\ Length < SizeMod

VARIABLES views,     \* the views, each a part of the one before it
          backward,  \* m_current of the ReverseIterator over the last view
          forward,   \* m_current of the ConstIterator over it
          back,      \* the steps the one is away from rbegin()
          forth      \* and the other from begin()
vars == <<views, backward, forward, back, forth>>

-----------------------------------------------------------------------------
(* ArrayView.  An iterator is the pointer it wraps.                        *)

begin(v)  == v.data
end(v)    == v.data + v.size
rbegin(v) == end(v)
rend(v)   == begin(v)

subview(v, offset, count) == [data |-> v.data + offset, size |-> count]
first(v, count) == [data |-> v.data, size |-> count]
LastMeasured(v, count) == [data |-> v.data + count, size |-> count]   \* mutant: from the front
last(v, count)  == [data |-> v.data + (v.size - count), size |-> count]

(* ReverseIterator. *)
DereferenceAt(i) == i   \* mutant: the element it stands at
reverse_dereference(i)   == i - 1
reverse_plus(i, n)       == i - n
reverse_difference(l, r) == r - l
reverse_subscript(i, n)  == reverse_dereference(reverse_plus(i, n))
reverse_less(l, r)       == l < r

(* ConstIterator. *)
const_dereference(i)   == i
const_plus(i, n)       == i + n
const_difference(l, r) == l - r
const_subscript(i, n)  == i + n

-----------------------------------------------------------------------------
View == views[Len(views)]

\* The client starts on a view v, which it adds to those it has.
Walks(vs) == LET v == vs[Len(vs)]
             IN  /\ views' = vs
                 /\ backward' = rbegin(v) /\ back' = 0
                 /\ forward' = begin(v) /\ forth' = 0

\* A view of consecutive elements: of a pointer and a size, of two iterators,
\* or of all the elements of a range.
Init == \E i \in 0 .. Length : \E j \in i .. Length :
          /\ views = <<[data |-> i, size |-> j - i]>>
          /\ backward = j /\ back = 0
          /\ forward = i /\ forth = 0

Taken(v) == Len(views) <= MaxNesting /\ Walks(Append(views, v))

\* The sum in the assertion wraps; the client's does not.
SubviewUnchecked(offset, count) ==   \* mutant: the assertion forgets the offset
  count <= View.size /\ Taken(subview(View, offset, count))
Subview(offset, count) ==
  /\ count + offset < SizeMod
  /\ (count + offset) % SizeMod <= View.size
  /\ Taken(subview(View, offset, count))

First(count) == count <= View.size /\ Taken(first(View, count))
Last(count)  == count <= View.size /\ Taken(last(View, count))

\* n steps at once, or back when n is negative: ++, --, += and -=, and the
\* iterators + and - return.
StepBackward(n) ==
  /\ reverse_plus(backward, n) \in begin(View) .. end(View)
  /\ backward' = reverse_plus(backward, n)
  /\ back' = back + n
  /\ UNCHANGED <<views, forward, forth>>

StepForward(n) ==
  /\ const_plus(forward, n) \in begin(View) .. end(View)
  /\ forward' = const_plus(forward, n)
  /\ forth' = forth + n
  /\ UNCHANGED <<views, backward, back>>

Next ==
  \/ \E count \in 0 .. SizeMod - 1 :
       \/ \E offset \in 0 .. SizeMod - 1 : Subview(offset, count)
       \/ First(count)
       \/ Last(count)
  \/ \E n \in -Length .. Length : StepBackward(n) \/ StepForward(n)

Spec == Init /\ [][Next]_vars

-----------------------------------------------------------------------------
(* The elements a view shows, in order.                                    *)
Contents(v) == [k \in 1 .. v.size |-> v.data + k - 1]

(* Every view shows a part of the view it was taken of, all of it elements  *)
(* of the array, however many views were taken on the way.                  *)
ViewsNested ==
  /\ \A v \in {views[k] : k \in DOMAIN views} :
       v.data \in 0 .. Length /\ v.size \in 0 .. Length - v.data
  /\ \A k \in 1 .. Len(views) - 1 :
       begin(views[k]) <= begin(views[k + 1]) /\ end(views[k + 1]) <= end(views[k])

(* The part is the one that was asked for: the elements from an offset on,  *)
(* the first, or the last ones.                                             *)
PartsPromised ==
  [][\A count \in 0 .. View.size :
      /\ \A offset \in 0 .. View.size - count :
           Subview(offset, count) => Contents(View)' = SubSeq(Contents(View), offset + 1, offset + count)
      /\ First(count) => Contents(View)' = SubSeq(Contents(View), 1, count)
      /\ Last(count) => Contents(View)' = SubSeq(Contents(View), View.size - count + 1, View.size)]_vars

(* Walking backwards is walking forwards from the other end: after as many  *)
(* steps either is at the element as far from its end, by *, [] and ->, the *)
(* distances to the ends are the steps made and the steps left, and a walk  *)
(* has ended after as many steps as there are elements, not before.         *)
WalksMirror ==
  LET n == View.size
  IN  /\ \A k \in -back .. n - 1 - back :
           reverse_subscript(backward, k) = Contents(View)[n - back - k]
      /\ back < n => reverse_dereference(backward) = Contents(View)[n - back]
      /\ \A k \in -forth .. n - 1 - forth :
           const_subscript(forward, k) = Contents(View)[forth + 1 + k]
      /\ forth < n => const_dereference(forward) = Contents(View)[forth + 1]
      /\ reverse_difference(backward, rbegin(View)) = back
      /\ reverse_difference(rend(View), backward) = n - back
      /\ const_difference(forward, begin(View)) = forth
      /\ backward = rend(View) <=> back = n
      /\ forward = end(View) <=> forth = n
      /\ back + forth = n <=> backward = forward

(* A reverse iterator is a random access iterator, the test says            *)
(* (tests/core/iterators.cpp:61), so it is less than those it comes before. *)
EarlierIsLess ==
  \A i \in begin(View) .. end(View) :
    reverse_less(backward, i) <=> reverse_difference(i, backward) > 0
=============================================================================
