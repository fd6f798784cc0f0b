-------------------------------- MODULE Tuples --------------------------------
(***************************************************************************)
(* Pair, Tuple and the callables of bind_front and bind_back, which are a  *)
(* Tuple of bound arguments and a function, with elements that tell how    *)
(* they are passed on: a SharedLibrary can only be moved, a text (as a     *)
(* std::string) is copied or moved, and is empty when it was moved from.   *)
(* The i-th element of an object is at the place <<object, i>>.            *)
(* A client may open and close the libraries among them at any time.       *)
(***************************************************************************)
EXTENDS SharedLibrary, Sequences, SequencesExt, FiniteSets

CONSTANTS Object,    \* the variables that may hold an object
          Text,
          Classes,   \* the instantiations, [template |-> ..., of |-> <<element types>>]
          temp,      \* the place of a temporary or of a parameter
          MaxArguments,  \* bound: the elements that are passed to make or to tie
          MaxElements,   \* bound: the elements there are
          MaxOwed        \* bound: how far a library is owed, either way

Element == {"library", "text"}
Template == {"Pair", "Tuple", "BindFront", "BindBack"}

ASSUME ClassesAssumption ==
  /\ \A k \in Classes : /\ k.template \in Template /\ k.of \in Seq(Element)
                        /\ k.template = "Pair" => Len(k.of) = 2
  /\ \E longest \in Classes : \A k \in Classes : Len(k.of) <= Len(longest.of)
ASSUME ValuesAssumption ==
  /\ Library \cap Text = {} /\ null \notin Library \cup Text \cup Classes
  /\ temp \notin Object \X Nat

MaxSize == CHOOSE n \in {Len(k.of) : k \in Classes} : \A k \in Classes : Len(k.of) <= n
Place == Object \X (1 .. MaxSize)

VARIABLES class,   \* of every object, null: there is none
          held,    \* what the elements are: a handle, a text or null
          loads,   \* by the loader
          owed,    \* history: the opens less the closes that clients forgot
          seen     \* what the function called last got
vars == <<class, held, loads, owed, seen>>

World == [held |-> held, loads |-> loads]
Becomes(w) == held' = w.held /\ loads' = w.loads

-----------------------------------------------------------------------------
(* Access. *)

PairAt(o, i) == IF i = 1 THEN <<o, 1>> ELSE <<o, 2>>   \* first, second
TupleAt(o, i) == <<o, i>>
get(o, i) == IF class[o].template = "Pair" THEN PairAt(o, i) ELSE TupleAt(o, i)

Alive == {o \in Object : class[o] # null}
Size(o) == Len(class[o].of)
Places(o) == [i \in 1 .. Size(o) |-> get(o, i)]
Value(o) == [i \in 1 .. Size(o) |-> held[<<o, i>>]]
Type(p) == class[p[1]].of[p[2]]
IsElement(p) == class[p[1]] # null /\ p[2] \in 1 .. Size(p[1])
Elements == {p \in Place : IsElement(p)}

TupleLike == {o \in Alive : class[o].template \in {"Pair", "Tuple"}}
AreElements(places) == \A i \in DOMAIN places : places[i] \in Elements
Copyable(ts) == \A i \in DOMAIN ts : ts[i] = "text"

-----------------------------------------------------------------------------
(* One element at a time. *)

Constructed(w, to, from, by) ==
  IF by = "move" THEN LibraryMoved(w, to, from) ELSE [w EXCEPT !.held[to] = w.held[from]]

Assigned(w, to, from, by) ==
  IF by = "move" /\ Type(from) = "library" THEN LibraryAssigned(w, to, from)
                                           ELSE Constructed(w, to, from, by)

\* std::ranges::swap: of libraries by way of a temporary.
Swapped(w, p, q) ==
  IF Type(p) = "library"
  THEN LET w1 == LibraryMoved(w, temp, p)
           w2 == LibraryAssigned(w1, p, q)
           w3 == LibraryAssigned(w2, q, temp)
       IN  LibraryDestroyed(w3, temp)
  ELSE [w EXCEPT !.held[p] = w.held[q], !.held[q] = w.held[p]]

ElementDestroyed(w, p) ==
  IF Type(p) = "library" THEN LibraryDestroyed(w, p) ELSE [w EXCEPT !.held[p] = null]

\* A new element: a library opened by its constructor, or a text.
Begun(w, p, type, value) ==
  IF type = "library" THEN open(w, p, value) ELSE [w EXCEPT !.held[p] = value]

\* Moved to a parameter that ends with the call.
Consumed(w, p) ==
  LET w1 == LibraryMoved(w, temp, p)
  IN  IF Type(p) = "library" THEN LibraryDestroyed(w1, temp) ELSE [w1 EXCEPT !.held[temp] = null]

-----------------------------------------------------------------------------
(* Element by element, from the first to the last. *)

Each(step(_, _), w, n) ==
  LET after[i \in 0 .. n] == IF i = 0 THEN w ELSE step(after[i - 1], i) IN after[n]

AllBegun(w, o, k, values) ==
  Each(LAMBDA x, i : Begun(x, <<o, i>>, k.of[i], values[i]), w, Len(k.of))
AllConstructed(w, to, from, by) ==
  Each(LAMBDA x, i : Constructed(x, to[i], from[i], by), w, Len(to))

AllConsumed(w, o) == Each(LAMBDA x, i : Consumed(x, get(o, i)), w, Size(o))
\* In the opposite order.
AllDestroyed(w, o) ==
  Each(LAMBDA x, i : ElementDestroyed(x, get(o, Size(o) + 1 - i)), w, Size(o))

PairAssignedCrossed(w, to, from, by) ==   \* mutant: the elements are mixed up
  Assigned(Assigned(w, to[1], from[2], by), to[2], from[1], by)
PairAssigned(w, to, from, by) ==
  Assigned(Assigned(w, to[1], from[1], by), to[2], from[2], by)
TupleAssigned(w, to, from, by) ==
  Each(LAMBDA x, i : Assigned(x, to[i], from[i], by), w, Len(to))

PairSwapped(w, p, q) == Swapped(Swapped(w, p[1], q[1]), p[2], q[2])
TupleSwapped(w, p, q) ==
  Each(LAMBDA x, i : Swapped(x, p[i], q[i]), w, Len(p))

\* TupleCat: of every element of the result the index in its tuple and the tuple.
OuterIndices(parts) ==
  Each(LAMBDA idx, next : idx \o [i \in 1 .. Size(parts[next]) |-> i], <<>>, Len(parts))
InnerIndices(parts) ==
  Each(LAMBDA idx, next : idx \o [i \in 1 .. Size(parts[next]) |-> next], <<>>, Len(parts))

CatPlacesAhead(parts) ==   \* mutant: the last tuple comes first
  LET outer == OuterIndices(parts)
      inner == InnerIndices(parts)
  IN  [j \in DOMAIN outer |-> get(parts[Len(parts) + 1 - inner[j]], outer[j])]
CatPlaces(parts) ==
  LET outer == OuterIndices(parts)
      inner == InnerIndices(parts)
  IN  [j \in DOMAIN outer |-> get(parts[inner[j]], outer[j])]

-----------------------------------------------------------------------------
Init == /\ class = [o \in Object |-> null]
        /\ held = [p \in Place \cup {temp} |-> null]
        /\ loads = [l \in Library |-> 0]
        /\ owed = [l \in Library |-> 0] /\ seen = <<>>

Quiet == seen' = <<>> /\ UNCHANGED owed
Begins(o, k) == /\ class' = [class EXCEPT ![o] = k]
                /\ o \notin Alive /\ Cardinality(Elements) + Len(k.of) <= MaxElements

\* Of new elements.
MakeNew(o, k, values) ==
  /\ Begins(o, k) /\ Quiet
  /\ Becomes(AllBegun(World, o, k, values))

\* make_pair, make_tuple, bind_front and bind_back of elements of objects.
Make(o, k, from, by) ==
  /\ Begins(o, k) /\ AreElements(from) /\ Quiet
  /\ k.of = [i \in DOMAIN from |-> Type(from[i])]
  /\ IF by = "copy" THEN Copyable(k.of) ELSE IsInjective(from)
  /\ Becomes(AllConstructed(World, [i \in DOMAIN from |-> <<o, i>>], from, by))

\* The constructors that copy and move.
Construct(o, from, by) == Make(o, class[from], Places(from), by)

\* Tuple::operator U copies, also from a tuple that may be moved from.
Convert(o, k, from) ==
  /\ class[from].template = "Tuple"
  /\ k.template \in {"Pair", "Tuple"} /\ k # class[from]
  /\ Make(o, k, Places(from), "copy")

ObjectAssigned(to, from, by) ==
  IF class[to].template = "Pair" THEN PairAssigned(World, Places(to), Places(from), by)
                                 ELSE TupleAssigned(World, Places(to), Places(from), by)

\* A self-move is left out, which a std::string need not survive.
Assign(to, from, by) ==
  /\ class[to].of = class[from].of
  /\ IF by = "copy" THEN Copyable(class[from].of) ELSE to # from
  /\ Quiet /\ UNCHANGED class
  /\ \/ class[to] = class[from]
     \/ {to, from} \subseteq TupleLike
  /\ Becomes(ObjectAssigned(to, from, by))

\* tie of elements at the places to, assigned to.
TieAssign(to, from, by) ==
  /\ class[from].of = [i \in DOMAIN to |-> Type(to[i])]
  /\ IF by = "copy" THEN Copyable(class[from].of)
                    ELSE \A i \in DOMAIN to : to[i] # get(from, i)
  /\ Quiet /\ UNCHANGED class
  /\ from \in TupleLike /\ AreElements(to)
  /\ Becomes(TupleAssigned(World, to, Places(from), by))

ObjectsSwapped(o1, o2) ==
  IF class[o1].template = "Pair" THEN PairSwapped(World, Places(o1), Places(o2))
                                 ELSE TupleSwapped(World, Places(o1), Places(o2))

Swap(o1, o2) ==
  /\ class[o1] = class[o2] /\ o1 \in TupleLike
  /\ Quiet /\ UNCHANGED class
  /\ Becomes(ObjectsSwapped(o1, o2))

\* tuple_cat of lvalues.
Concatenate(o, k, parts) ==
  /\ k.template = "Tuple"
  /\ \A j \in DOMAIN parts : parts[j] \in TupleLike
  /\ Make(o, k, CatPlaces(parts), "copy")

\* A call with elements or bound arguments: by reference, or moved to the
\* parameters of the function.
Call(o, by, args) ==
  /\ UNCHANGED <<class, owed>>
  /\ seen' = args
  /\ Becomes(IF by = "move" THEN AllConsumed(World, o) ELSE World)

apply(o, by) == o \in TupleLike /\ Call(o, by, Value(o))
CallFront(o, by, args) == class[o].template = "BindFront" /\ Call(o, by, Value(o) \o args)
CallBack(o, by, args) == class[o].template = "BindBack" /\ Call(o, by, args \o Value(o))

Destroy(o) ==
  /\ Quiet
  /\ class' = [class EXCEPT ![o] = null]
  /\ Becomes(AllDestroyed(World, o))

-----------------------------------------------------------------------------
(* What a client does with a library that is an element.                    *)

Owes(l, n) == owed' = [owed EXCEPT ![l] = n] /\ n \in (0 - MaxOwed) .. MaxOwed

\* The handle stays, so that the destructor closes it again.
Close(p) ==
  /\ Type(p) = "library" /\ is_open(World, p)
  /\ Becomes(close(World, p)) /\ Owes(held[p], owed[held[p]] - 1)
  /\ seen' = <<>> /\ UNCHANGED class

\* A handle that is open is overwritten, and nobody closes it any more.
Open(p, handle) ==
  /\ Type(p) = "library"
  /\ Becomes(open(World, p, handle))
  /\ IF is_open(World, p) THEN Owes(held[p], owed[held[p]] + 1) ELSE UNCHANGED owed
  /\ seen' = <<>> /\ UNCHANGED class

-----------------------------------------------------------------------------
Initial(k) ==
  {v \in [DOMAIN k.of -> Library \cup Text \cup {null}] :
     \A i \in DOMAIN v : v[i] \in IF k.of[i] = "library" THEN Library \cup {null} ELSE Text}

Ways == {"copy", "move"}

Begin(o) ==
  \/ \E k \in Classes : \E values \in Initial(k) : MakeNew(o, k, values)
  \/ \E k \in Classes :
       /\ Len(k.of) <= MaxArguments
       /\ \E from \in [DOMAIN k.of -> Elements], by \in Ways : Make(o, k, from, by)
  \/ \E from \in Alive, by \in Ways : Construct(o, from, by)
  \/ \E from \in Alive, k \in Classes : Convert(o, k, from)
  \/ \E k \in Classes, n \in 2 .. 3 : \E parts \in [1 .. n -> TupleLike] : Concatenate(o, k, parts)

Change(o) ==
  \/ \E from \in Alive, by \in Ways : Assign(o, from, by)
  \/ \E other \in Alive : Swap(o, other)
  \/ \E by \in Ways :
       /\ Size(o) <= MaxArguments
       /\ \E to \in [1 .. Size(o) -> Elements] : TieAssign(to, o, by)
  \/ \E by \in {"reference", "move"} :
       \/ apply(o, by)
       \/ \E args \in {<<>>} \cup {<<t>> : t \in Text} : CallFront(o, by, args) \/ CallBack(o, by, args)
  \/ Destroy(o)

Next ==
  \/ \E o \in Object \ Alive : Begin(o)
  \/ \E o \in Alive : Change(o)
  \/ \E p \in Elements : \/ Close(p)
                         \/ \E handle \in Library \cup {null} : Open(p, handle)

Spec == Init /\ [][Next]_vars

-----------------------------------------------------------------------------
(* The constructor that opens, the moves, swaps, calls and destructors keep *)
(* the loader's count: a library is loaded as often as elements hold it,    *)
(* but for what clients owe.  They owe one close fewer for every open of    *)
(* what is open (shared_library.hpp:43 loses the load) and one more for     *)
(* every close (line 50 keeps the handle and lines 30-33 close it again),   *)
(* wherever the handle was moved, swapped, passed and dropped since.        *)
Balanced ==
  /\ \A l \in Library : loads[l] = Cardinality({p \in Elements : held[p] = l}) + owed[l]
  /\ \A p \in (Place \cup {temp}) \ Elements : held[p] = null
  /\ \A p \in Elements : held[p] \in {null} \cup IF Type(p) = "library" THEN Library ELSE Text

OthersKeep(os) == \A o \in Alive \ os : Value(o)' = Value(o)

\* An object is what it was assigned or swapped with.  One that was moved from
\* has the libraries of the other, which it closes, and its texts are empty.
MovesKeep ==
  \A to \in Alive, from \in Alive :
    /\ Assign(to, from, "copy") => Value(to)' = Value(from) /\ OthersKeep({to})
    /\ Assign(to, from, "move") =>
         /\ Value(to)' = Value(from) /\ OthersKeep({to, from})
         /\ Value(from)' =
              [i \in 1 .. Size(to) |-> IF class[to].of[i] = "library" THEN Value(to)[i] ELSE null]
    /\ Swap(to, from) =>
         Value(to)' = Value(from) /\ Value(from)' = Value(to) /\ OthersKeep({to, from})

\* References to different elements of other objects get those of the tuple.
TiesKeep ==
  \A from \in TupleLike : \A to \in [1 .. Size(from) -> {p \in Elements : p[1] # from}] :
    /\ IsInjective(to)
    /\ TieAssign(to, from, "copy")
    => Value(from)' = Value(from) /\ \A i \in DOMAIN to : held'[to[i]] = Value(from)[i]

\* The elements of the tuples one after the other, which keep them.
CatsJoin ==
  \A o \in Object \ Alive, k \in Classes, n \in 2 .. 3 : \A parts \in [1 .. n -> TupleLike] :
    Concatenate(o, k, parts) =>
      Value(o)' = FlattenSeq([j \in 1 .. n |-> Value(parts[j])]) /\ OthersKeep({})

\* A function gets the bound arguments before or after the others, again and
\* again, until it was called as an rvalue, which leaves nothing of them.
CallsPass ==
  \A o \in Alive, args \in {<<>>} \cup {<<t>> : t \in Text} :
    /\ CallFront(o, "reference", args) => seen' = Value(o) \o args /\ Value(o)' = Value(o)
    /\ CallBack(o, "reference", args) => seen' = args \o Value(o) /\ Value(o)' = Value(o)
    /\ CallFront(o, "move", args) \/ CallBack(o, "move", args) =>
         Value(o)' = [i \in 1 .. Size(o) |-> null]

\* What is done element by element does it to whole objects (pair.hpp,
\* tuple.hpp, bind.hpp): assignment, swap, tie, tuple_cat and the calls.
Promised ==
  [][IF class' # class THEN CatsJoin ELSE MovesKeep /\ TiesKeep /\ CallsPass]_vars
=============================================================================
