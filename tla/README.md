# A formal model of the XME library

XME is a C++20 utility library: containers, callables and iterators, vector and
matrix mathematics, and a thin layer over the platform. Most of it is header
code without I/O. This directory holds TLA+ modules that model its parts with
state worth checking, TLC configurations that check them on small instances,
and theorems that TLAPS proves for every instance.

    tlc -config SPSCQueue.cfg MCSPSCQueue.tla             # a run of PROJECT.json
    tlapm SPSCQueueProofs.tla                             # the proofs of a module

`PROJECT.json` lists the components, the runs, for every property a mutant of
the model that breaks it, the source lines each definition stands for, the
hazards of the code and the theorems.

## The parts of the library

| Component | Source | State it keeps | Operations that change it | What is hard, and what makes it correct |
|---|---|---|---|---|
| SPSCQueue | `private/container/spsc_queue_base.hpp`, `container/spsc_queue.hpp` | two atomic indexes, a ring of slots | `emplace`/`push` (producer), `pop`, `consume`, `clear` (consumer), destructor | two threads, no lock, acquire/release only: no slot access races, every element lives once, FIFO, wait-free |
| LinkedList | `container/linked_list.hpp`, `private/container/linked_list_base.hpp` | head and nodes linked by `next`, from an allocator | constructors, `insert_after`, `emplace_after`, `erase_after`, `assign`, copy and move, `reverse`, `clear`, destructor | exceptions in the middle of pointer surgery: chains whole and disjoint, every node owned, loops end |
| Heap | `container/heap.hpp` | an array in heap order | `push`, `emplace`, `pop` | the loops restore the order after one element was put in the wrong place; the front is greatest; O(log N) |
| Array | `container/array.hpp` | a block, its size and capacity, the objects in it | insertion, growth, erasure, `resize`, `shrink_to_fit`, copy and move | lifetimes of the objects in raw memory, aliasing of arguments, throws |
| ranges | `ranges/uninitialized.hpp`, `ranges/destroy.hpp` | none; objects in the caller's memory | copy, move, fill, value-construct, destroy | what is destroyed when a constructor throws |
| Delegate | `core/functional/delegate.hpp` | a callable inside the object or on the heap, its manager | construct, copy, move, swap, reset, call | ownership of the callable |
| SharedLibrary | `hal/shared_library.hpp` | the loader's handle | `open`, `close`, move, destructor | each opening closed once; but `close` keeps the handle and `open` overwrites it |
| ScopedDelegate | `core/functional/scoped_delegate.hpp` | a callable | destructor calls it | nothing to interleave |
| ReverseIterator, ConstIterator | `core/iterators/*` | a base iterator | stepping, comparing | one position off; the order |
| ArrayView | `container/array_view.hpp` | pointer and extent | subviews | bounds |
| bind_front, bind_back | `core/functional/bind.hpp` | a callable, a `Tuple` of bound arguments | copy and move, call (an rvalue's moves the arguments out) | the order of the arguments; what is bound is passed on once |
| Pair, Tuple | `container/pair.hpp`, `tuple.hpp`, `private/container/tuple_base.hpp` | their members | construct, convert, assign, swap, `tie`, `tuple_cat`, `apply` | element by element must do it to the whole, with elements that can only be moved |
| AlignedData, policies, concepts | `container/aligned_data.hpp`, `container/container*.hpp`, `core/concepts/*`, ... | none | none | compile-time only |
| Vectors, matrices | `math/vector.hpp`, `math/matrix.hpp`, `math/vectors/*`, `math/matrices/*` | components | arithmetic, in place and not; products, transformations | specialisations written out by hand agree with their templates; the laws of linear algebra |
| Perspective, quaternion, scalars | `math/*` | components | projections, products | signs and places; trigonometry is floating point |
| Platform, SIMD detection, module wrappers | `hal/*`, `modules/*` | none | none | macros, re-exports |

How they interact: `Heap` keeps its elements in an `Array` and calls its
`push_back`, `pop_back` and indexing; `Array` builds and tears down blocks with
`ranges`, as `LinkedList` does its nodes one at a time through an allocator;
`SPSCQueue` is a thread-safe front over raw slots (`AlignedData` or allocated)
and calls back into user code in `consume`; `ReverseIterator` and
`ConstIterator` wrap the iterators of `Array`, `ArrayView` and `LinkedList`;
`BindFront` and `BindBack` hold a `Tuple`, whose elements may be move-only, as a
`SharedLibrary` is. The specialisations of `Vector` and `Matrix` replace the
templates, and the functions on them are written for either. `Delegate` stands
alone. Elements are the user's: their
constructors, assignments and callbacks may throw wherever the code lets them.
The only component used by more than one thread is the queue.

## Modules

| Module | What it is |
|---|---|
| `BoundedFifo` | abstract: at most `Room` elements wait, removed in the order of their pushing |
| `SPSCQueue` | the queue under the C++ memory model; refines `BoundedFifo` |
| `MCSPSCQueue` | the mask of the processor, for TLC |
| `SPSCQueueProofs` | the theorems about the queue, and about the remainders that address its ring |
| `LinkedList` | the lists, loop iteration by loop iteration |
| `LinkedListProofs` | the theorems about lists |
| `Array`, `MCArray` | the array and its blocks of memory, an operation a step |
| `PriorityQueue` | abstract: a bag from which a greatest element is removed |
| `Heap`, `MCHeap` | the heap, swap by swap; refines `PriorityQueue` |
| `HeapProofs` | the theorems about the heap |
| `Delegate`, `MCDelegate` | delegates and the functors they own |
| `DelegateProofs` | the theorems about delegates |
| `Views` | views of views of an array, and the iterators that walk them |
| `ArrayProofs` | the theorems about arrays |
| `ViewsProofs` | the theorems about views |
| `SharedLibrary` | the handle of a library, as operators on what places hold |
| `Tuples`, `MCTuples` | pairs, tuples and bound arguments of libraries and texts |
| `TuplesProofs` | the theorems about them |
| `Vectors`, `Matrices`, `Quaternions`, `Projections` | the operations of `xme::math`, over any arithmetic |
| `Algebra`, `MCAlgebra` | a program that computes with them, in the templates and in the specialisations at once |
| `AlgebraProofs` | the theorems about the specialisations, for any arithmetic, and about the laws, for an exact one |

### SPSCQueue

Both storages (`StaticSPSCQueue`, whose slots are inside the object, and
`DynamicSPSCQueue`, whose slots are allocated) share the code of
`SPSCQueueBase`; the model is that code.

*Memory model.* An interleaving of the two threads would be a stronger machine
than C++ promises. Each atomic index is therefore the sequence of the stores
made to it, its modification order. A thread reads its own index exactly, and of
the other index any store not older than the last it read (coherence); the
choice is the parameter `m` of the actions. A release store carries `rel`, the
number of slot accesses its thread had finished; an acquire load raises what
the reader knows (`pknows`, `cknows`) to it, a relaxed load does not. Every slot
has a `stamp`, the number of the construction or destruction that last changed
it. An access to a slot whose last change the thread does not know of would be a
data race: that is `RaceFree`. The orders are the code's: `Acquire` for lines 33,
43, 60, 69 and 78, `Relaxed` for the loads of the other side's index by
`read_available` (asked by the producer) and `write_available` (asked by the
consumer), `Release` for 63, 72 and 82. The default, sequentially consistent
operations of `clear` are modelled as acquire and release, which allows more.

| Code | Actions |
|---|---|
| `emplace`, 56-65 | `EmplaceFull`, or `EmplaceBegin`, then `EmplaceConstruct` or `EmplaceThrow`, then `EmplacePublish` |
| `pop`, 67-73 | `Pop`, `Destroy`, `Advance` |
| `consume`, 75-83 | `Consume`, `InvokeReturns` or `InvokeThrows`, `Destroy`, `Advance` |
| `clear`, 18-23 | `Clear`, then `ClearLoop`, `Destroy`, `Advance` in turn |
| `read_available`, `write_available` | `ReadAvailable`, `WriteAvailable` by the thread they are meant for, `ProducerReadAvailable`, `ConsumerWriteAvailable` by the other |
| the destructors, 106-111 and 161-167 | `BeginDestroy`, `DrainOne`, `Deallocate` |

`pop` and `consume` on an empty queue break their precondition, which is an
assertion. The model's consumer spends what `read_available` returned to it
(`avail`), the way the worker of `tests/container/spsc.cpp` does; that this is
enough is `PromisesKept`. The load inside the assertion is made or not, as the
build with or without `NDEBUG` has it: every property holds of both.

`next_index` masks with `max_size - 1`; the model takes the remainder, so that
it can be proved about, and `MaskAssumption` of `MCSPSCQueue`, which TLC
evaluates, says that they are the same for powers of two. The subtraction of
`write_available` wraps modulo 2^w in the model as in the code.

### LinkedList

`next` holds the pointer of every list head and node; `allocated`, `alive`,
`value` say what exists. `op` is the operation in progress with its loop
variables, and each iteration of a loop is a step, so that the properties are
looked at between any two of them, and after a throw. `create_node` is
`Allocate` followed by `Link` (construction of the element and the assignments
of its caller) or by `CreateThrows`. `emplace_after`, `push_front` and
`emplace_front` insert a range of one element; `pop_front` erases after
`before_begin()`; `clear` erases all; the copy constructor and copy assignment
are `Construct` and `assign` of another list's contents. `erase_after` of a
range, the destructor and move assignment share their loop (`EraseNext`,
`Erased`). The iterators' walk is `Walk` along given pointers, `After`
along the pointers there are. Two list objects share the allocator,
so that moves, copies and the destruction of both are seen together.

### Heap

`op`, `index` and `parent_heap` are the locals of `heapfy_up` and
`heapfy_down`, one swap a step. The comparison is `std::less` on ranks, so
distinct elements may be equivalent. `reach` doubles with every swap of a call:
it is how the promise of O(log N) is stated without a logarithm. The array is a
sequence; a `push_back` that throws leaves the heap as it was. The constructors
from ranges and lists push one element after another.

### Array

`m_data` is the triple of pointers of every array, with `end` and `storage_end`
as offsets; `memory` holds the cells of every block. A cell has the bytes in it
and whether an object lives there: `construct` and the destructors change the
second, assignment (what `std::ranges::move` and `std::move_backward` do) writes
bytes only. The tests of the repository use trivially copyable elements, for
which bytes are all there is; for the others the lives count. So the model states
the two apart, and one of them holds: `Promised` and `BlocksOwned` are about bytes
and blocks, `ElementsAlive` about lives.

An operation is one step; throwing constructors of elements give it more
outcomes (`Throw`). After a throw while a range is inserted in place the
comment of the code leaves the contents open, and so does `Promised`, but the
blocks must still be owned. The algorithms of `ranges/` are the cells
`Constructed` and `Destroyed` by an operation.

The handler of a copy that fails (`uninitialized.hpp:22`) destroys from where it
is in the input up to where it is in the output: not what it constructed, but the
rest of the source's block and all that lies between it and the new one. That is
`Overrun`; which blocks lie between is open (`between`), as addresses are. What
is left out: memory between them that is no array's, and that the walk never ends
if the new block lies first. `Promised` lets these steps change the lives of other
arrays' elements and nothing else do so; `OthersKept` does not, and is violated
(`array_throws`). When an element throws that is inserted into a full array, the
handler (`array.hpp:418-422`) calls the destructor of what was never constructed
and gives the new block back (`ReallocThrows`); the array is as it was. What a
destructor does with memory where no object lives is left out. An
array assigned to itself keeps its block: the code returns early, or moves it to
a temporary and back.

A write behind the end of a block makes its sequence of cells longer than
`storage_end`, so that `BlocksOwned` notices it.

`OwnSpec` has callers that insert an element of the array itself: the reference
is read when the code reads it, from the freed block (any value) or from the
cells that were moved.

### Delegate

`delegate` has the three members of every delegate, and `functors` says what
each functor object does, if there is one. A small functor lies in the storage,
a large one on the heap with its pointer in the storage; either way the code
moves and swaps the bytes, so in the model the storage is the functor's
identity, whichever it is. What is checked is who owns it. (A small functor that
keeps a pointer into itself would not survive that; the code takes it for
granted that there is none.) `Type` maps what a functor does to its C++ type:
`callable` and `manager` are functions for one type, and calling a functor of
another is `undefined`. An assignment is one step, with the temporary it swaps
with and destroys. A functor that throws while it is copied leaves no delegate
behind (a stutter), or, in an assignment, which is `noexcept`, ends the program
(`AssignThrows`).

### Views

Pointers are offsets into one array, an `ArrayView` is an offset and a size, and
the sizes of the template (`ArrayView<T, N>`) are sizes like any other.
`views` is a chain, each taken of the one before by `subview`, `first` or `last`
under their assertions; the client asks for an offset and a count whose sum does
not wrap. A `ReverseIterator` and a `ConstIterator`, which are the base pointers
they hold, walk the last view by any steps that stay in it; `back` and `forth`
count the steps, so that where the iterators are can be compared with the walk.
The post-increments, `+=` and `-=` and the iterators that `+` and `-` return
are steps of `n`.

### SharedLibrary and Tuples

`SharedLibrary` states the members of the class as operators on a world `w`:
`w.held` is what the places hold, the handle or `null`, and `w.loads`, of each
library, the opens less the closes that the loader was asked for. Move assignment swaps the handles, `close`
keeps the handle. (Its functions are `constexpr` and call the loader, which
C++20 refuses and C++23 lets pass; the model is of what they do at run time.)

`Tuples` puts them where such an object lives in this library: in a `Pair`, in
a `Tuple`, and in the bound arguments of `bind_front` and `bind_back`, which are
a `Tuple`, together with texts, which can be copied too and which are empty once
they were moved from, as a `std::string` is. What the code does in a fold over an
index sequence is done here element after element (`Each`), so that the order counts:
`PairAssigned`, `TupleAssigned`, `PairSwapped`, `TupleSwapped`, `AllBegun`,
`AllConstructed`, `AllConsumed`, and `AllDestroyed` from the last to the first;
`CatPlaces` has both index sequences of `TupleCat`. `Make` covers `make_pair`, `make_tuple`,
`bind_front` and `bind_back` of elements of other objects, `Construct` the
constructors that copy and move, `Convert` the `operator U` of `Tuple`, which
copies even from a tuple that may be moved from. A call of an rvalue moves the
elements to parameters that end with it (`Consumed`).

A client opens and closes the libraries at any time (`Open`, `Close`). `close`
keeps the handle (50), so that the destructor closes the library once more
(30-33), and `open` overwrites a handle that is open (43), whose load nobody
undoes. The code does this, and no text of it says what it should do instead; so
`Balanced` states exactly how wrong the loader's count then is. `owed` remembers
one close too many for every call of `close` and one load too many for every
`open` of what is open, from when it is called; nothing else may take the count
away from the number of owners, however the handle travels before the second
close comes. In particular `loads` may be negative: the loader was asked to close
what is not open. `close` of an object without a handle is left out.

### Vectors, Matrices, Quaternions, Projections and Algebra

These state what every operation returns. `Scalar` and `Arith` are the type of
the components and its four operations, whatever they are: rounding, wrapping,
or exact. The templates (`VecOp`, `MatMat`, ...) are functions over the indices, as their loops are;
the specialisations, which the code writes out by hand for 2, 3 and 4 components
and for 4 by 4 matrices, are records and tuples written out (`Vec4Op`,
`Mat4Mat`, ...), line by line from the code. An in-place operation (`VecSelfOp`)
and the operation that returns a new vector are stated apart, as in the code.
Sine, cosine and tangent are arguments, and `static_cast` is left out.

`Algebra` is a program that holds one vector, matrix or quaternion and calls the operations
on it one after another. It holds it twice: `general`, computed by the
template, and `special`, computed by the specialisation; that they stay equal is
`Agree`. `VectorCompute` and `MatrixCompute` are the functions of
`vectors/geometry.hpp`, `vectors/functions.hpp`, `matrices/functions.hpp`,
`matrices/transformation.hpp` and `matrices/perspective.hpp`, which there are
once for both.

Some formulas of the code are not what one expects of them. The properties state
what they do, and so would break if they were put right:

* `frustum_lh` and `frustum_rh` divide the shift of the width by `right - near`
  (`perspective.hpp:59, 74`), where the page that line 6 refers to
  (http://www.songho.ca/opengl/gl_projectionmatrix.html) divides by
  `right - left`. `ProjectionsFill` says that near, far, top and bottom are at the
  faces of the clip space and that left and right miss them by the difference of
  the two quotients (`Missed`), which is nothing for a volume that is even.
* `ortho_lh` and `ortho_rh` write `result[1][1]` twice and put the shifts into the
  third column (99-102, 114-117), so that they are multiplied by z, and the height
  is scaled as the depth should be. `Spreads` says where the corners go.
* Built with `XME_MATH_CLIP_LH`, which no build file defines, `perspective` calls
  `perspective_rh` with far and near exchanged, while `frustum` and `ortho` call
  their `_lh`. The calls are made of both builds (`clip_lh`).
* Of `faceforward` the comment says "If the dot product between `i` and `n` is
  positive, return `-v`, otherwise return `v`." (`geometry.hpp:59`). Where the
  product is 0 the code returns `-v` (67): here the code and the comment differ,
  and `VectorLaws` says what the code does.

## What the runs check

| Run | Bounds | What it shows |
|---|---|---|
| `spsc` | 4 slots, 5 pushes, 2 elements | with every stale load, with and without the loads that `NDEBUG` removes: no race, lifetimes, the promises of the availabilities, one-sided estimates, exact counts, the invariant of the proofs; refinement of the bounded FIFO of `max_size - 1` elements; each thread ends its call by its own steps alone; under `Fairness` every element is removed and the producer gets all in through a ring that is full again and again |
| `list` | 4 nodes, 2 lists, 2 elements, ranges to 2 | chains whole and disjoint, nodes owned, cursors live, between any two steps and after every throw; an operation that returns has done what it promised and touched no other list; every operation returns |
| `heap` | 8 elements of 4, two of them equivalent | the loops restore the order in logarithmically many swaps; refinement of the priority queue |
| `array` | one array with blocks to 4 cells, and two with blocks to 2; ranges to 2, 2 elements | every operation does what its comment says, in its block, also after throws, but for what a failed copy destroys elsewhere; copying, moving and swapping leak no block, share none and give none back twice |
| `array_throws` | 1 array, blocks to 2 cells | **violated**: a copy that throws destroys elements of the array it was to copy |
| `array_lives` | 1 array, nothing throws | **violated**: an element that has been moved to a grown block is not an object, and `pop_back` will destroy it |
| `array_own` | 1 array, callers insert its own elements | **violated**: another value may be inserted |
| `delegate` | 3 delegates, 4 functors, 3 targets of 2 types | every functor has one owner, is used as its own type and destroyed once; a call does what was put in; self-assignment keeps the callable |
| `views` | 5 elements, 4 views of views, 3-bit sizes | a view shows the part asked for; the backward walk mirrors the forward one, its distances and subscripts with it |
| `algebra` | the field of 7 elements, 7 vectors, 2 matrices, 3 quaternions, 2 calls | the specialisations compute what the templates do; cross, reflect and lerp, product, transpose and determinant, the transformations, and the quaternions obey the laws of exact arithmetic; where the projections map the corners of their volume |
| `tuples` | 3 objects of 1 to 3 elements, 4 elements in all, 2 libraries, each owed one open or close at most (`MaxOwed`), 2 texts, 8 types | the loader is asked for as many opens and closes as there are owners, but for the second close after `close` and the load that `open` overwrites; assignment, swap, tie, tuple_cat and calls do to whole objects what they are for |
| `views_order` | the same as `views` | **violated**: a reverse iterator is not less than those it comes before |

Four findings come of the violated runs; they are in `PROJECT.json` with the
comments and the test they contradict. Those of the arrays do not show with elements that are
trivially copyable, never throw, and are inserted from elsewhere; the tests of the iterators
compare for equality only.

Why the bounds are enough. Four slots and five pushes take both indexes past the
end of the ring and back over slots used before, with the ring full, empty and
in between; a slot is used a second time, which is where a missing order would
race. For anything larger there are the proofs. Four
nodes suffice for a list with nodes before, inside and after an erased range,
and the allocator runs out in the middle of operations; lists grow to four and ranges
to two, so that `assign` meets longer, shorter and equal lists. Eight elements make four levels of a heap, where
the last level has a single node. Four cells let an array grow three times, and
leave room for elements before, inside and behind whatever is inserted or erased.
Three delegates and one functor more make room for a temporary while all
are full. In five elements a view can leave out some at both ends twice.
Three objects are two to swap and one to be left alone, or two to concatenate and their result;
four elements are two pairs, or two parts and what is made of them. A library that is owed one
close or one open more than there are owners is enough to see it lost or doubled on its way.
In the field of 7 elements every sum, product and quotient of the formulas is exact, and a
law that held of it by accident would have to hold of all the vectors and
matrices given and of all that two calls make of them; for `Agree`, which is about which
component goes where, there is the proof.

The runs of liveness properties use no symmetry.

*Fairness.* `ProducerFairness` and `ConsumerFairness` say that both threads are
scheduled and keep using the queue, that a store becomes visible in finite time
(C++ asks as much of implementations: a load cannot be stale for ever), and
that a constructor or a callback that is tried again and again does not throw
every time. The strong fairness is on the actions that a throw or another call of the same thread
competes with. `WaitFree` needs less: it
assumes only that the one thread takes steps, and says so in its own formula,
so that its run's specification, `Spec`, has no fairness at all;
`EveryPushIsRemoved` and `ProducerGetsThrough` assume `Fairness`, which is both
of them, in theirs. For `LinkedList`,
`WF_vars(Step)` is a single thread that goes on executing.

No run disables the deadlock check. A queue that has been destroyed stutters
(`Terminated`), as does a ring of one slot, in which no operation succeeds
(`rejected`).

## What is proved

From `SizeAssumption` (any number of slots, and a `size_t` at least twice as
large), `ValueAssumption` and `ParameterAssumption`, for every ring, any number
of elements, with and without the loads in the assertions:

* `TypeCorrect`, and `InvariantCorrect`: the inductive invariant `IInv`. None of
  the properties is inductive. `IInv` says what they rest on: the k-th store to
  an index is k modulo the ring and carries k accesses (`StoresInOrder`);
  neither thread knows more than has happened, and what it knows leaves the
  other at most `max_size - 1` behind or ahead (`ProducerBehind`,
  `ConsumerBehind`); in the window of `max_size` elements from the oldest, the
  slot of the k-th holds an object if k was constructed, and is raw with the
  stamp of its previous destruction if not (`SlotsInStep`).
* `RaceFreeCorrect`, `LifetimesCorrect`, `PromisesCorrect`, `EstimatesCorrect`
  follow from it state by state.
* `FifoCorrect`: the queue refines `BoundedFifo`. A publication is a `Push`, a
  destruction a `Take`, a throw in `consume` a `Spoil` or a stutter, and all
  else stutters.

They need facts about remainders (two numbers less than a ring apart share a slot
only if they are equal), which are proved first, from the definition of division.

* `CountsCorrect`: `read_available` and `write_available` are exact of the indexes
  as they are, through every wrap of the subtraction, for every size of the ring
  and width of `size_t`.

From `RankAssumption` and `MaxSizeAssumption`, for every set of elements and
every size of the heap:

* `TypeCorrect` (the loops stay inside the array), `SiftCorrect` (only the
  element on its way breaks the order, and what is above it precedes what is
  below it: this second half is what makes it inductive).
* `FrontCorrect`: no element precedes the front. Its usual argument is an
  induction along the path to the root; here a least position that does precede
  the front is shown not to exist, by the well-foundedness of the naturals.
* `LogarithmicCorrect`: an element that rose from the end of an array of n, or
  sank from its root, in k swaps has `2^k <= n`.
* `HeapCorrect`: the heap refines `PriorityQueue`. A swap is a bijection between the
  places of each element before and after, so that the bag does not change.

From `ConstantsAssumption` of `Delegate`, for any number of delegates, functors,
targets and types:

* `TypeCorrect` and `OwnedCorrect`. `FunctorsOwned` with the types is inductive:
  no operation but those that the delegate's manager performs makes or destroys
  a functor, and no two delegates with a manager share their storage.
* `PromisedCorrect`, the action property, from the same invariant: what a
  delegate does changes only with its own functor.

From `ConstantsAssumption` of `Array`, for any number of arrays, blocks and
elements and blocks of any size:

* `TypeCorrect` and `OwnedCorrect`, which are inductive together (`IInv`) and about blocks, not
  about what handlers destroy in them: an operation goes on in the block of its array (`InPlaceKeeps`), replaces it
  (`ReplacedKeeps`) or gives it back (`ReleasedCells`), and what it constructs
  and assigns ends inside the block because of how its capacity was computed.
* `PromisedCorrect`, the action property, from the same invariant, element by element.
  `ConstructionOverwrites` and `AssignmentOverwrites` say which bytes a write leaves where it
  ends in the block, which `IInv` and the arithmetic of the capacities guarantee;
  every operation is then a block with the elements before a place, a range, and the
  elements behind another place, which `SplicedFromBytes` turns into the
  concatenation that is promised. An array whose pointers stay keeps its elements
  alive as they were (`NextKept`) because no other array has its block; except in a copy that
  throws (`CopyFails`), for which the run `array_throws` shows that the code breaks it.

From `NodeAssumption`, `NullAssumption` and `MaxLenAssumption` of `LinkedList`, for
any number of lists, nodes and elements, and ranges of any length:

* `TypeCorrect`, `ChainsCorrect`, `OwnedCorrect` and `CursorsCorrect`, from the
  inductive invariant `IInv`. The properties are about what a walk finds, which
  a step of pointer surgery changes beyond anything local, so `IInv` says that there
  is a sequence `c[l]` of nodes for every list `l`, and one, `c[null]`, for the nodes an erasure
  has not come to, to which the pointers lead (`Chains`), that every allocated
  node is in exactly one of them, in the hands of `create_node` or lost (`Owned`),
  and at which place of which chain the operation is (`Doing`). The step lemmas
  (`LinkKeeps`, `EraseNextKeeps`, `ErasedKeeps`, `ReverseNextKeeps`, ...) give the chains after the
  step: a node spliced in, taken out, raised to the front, two chains joined.
  `WalkFindsChain` relates them to `Walk`: its recursion has a solution
  (`AllLevels`) and finds the chain, both by an induction over the numbers whose principle
  (`Induction`) is derived from their well-foundedness for sets in place of operators.
* `GoalsCorrect`: an operation of several steps that ends without a throw has reached its goal, and no step
  changes a list it was not called for. `Doing` says for this that what the
  operation has done and what is still to do make up the goal: the elements
  before its place, those to come, and those behind it; for `reverse`, the
  reversal of what is behind `tail` and then what is before it.

From `ConstantsAssumption` of `Views`, for an array of any length and views of
views as deep as one likes:

* `NestedCorrect`, `MirrorCorrect` and `PartsCorrect`, from the invariant that
  both iterators are as far from where they started as they have stepped
  (`IteratorsInStep`). The assertion of `subview` is enough because the sum does
  not wrap.

From `ClassesAssumption` (some type has the most elements) and `ValuesAssumption` of
`Tuples`, for any number of objects, libraries and texts and element types of any length:

* `BalancedCorrect`, from the inductive invariant `IInv`: the classes, what is owed and the
  world are `Sound`, that is, what each place holds is of its type and the loads are
  those of the places that hold a library and what is owed (`Counted`). Each
  operation on one or two elements keeps a world `Good` (`MovedGood`, `ExchangedGood`,
  `DroppedGood`, ...), or adds to what is owed (`ClosedGood`, `ForgottenGood`), also while
  a temporary or a parameter has the handle (`Lent`). An operation on n elements is n steps, whose results are a recursive
  function: it has a solution (`RunExists`) and ends where its steps lead
  (`RunLeads`), by the same derived `Induction` as for lists; on the way the places of an
  object that is being made are still empty (`Filling`), those of one that ends
  already so (`Emptying`).
* `PromisedCorrect`, an action property, from the same invariant: after i of its
  steps an operation has had its `Effect`, that is, the places written so far hold what
  they shall and all others what they held, which a further step keeps
  because no step writes where another does (`Apart`). A library is swapped by way of a
  temporary that is empty before, so its destructor does not close anything
  (`SwappedHolds`). For `tuple_cat`, both index sequences and the values they stand
  for grow together, part by part (`Located`); `FlattenIs` and `IndicesAre` relate them to
  the recursions of `FlattenSeq` and of `OuterIndices` and `InnerIndices`.

From `OperandsAssumption` of `Algebra`, and nothing about `Arith`:

* `SpecialisationsAgree`: the specialisations compute what the templates do, over
  any sequence of calls and for every arithmetic, floating point with all its
  rounding among them. What has to be known beside `Agree` is how many
  components there are (`Shape`).
* `TypesCorrect`: a program that starts from components never computes anything else.

The laws of linear algebra are theorems about an exact arithmetic, because they do
not hold where a sum or a product is rounded. Their hypotheses are definitions of
`Algebra`: `ExactArithmetic` (the components stand for integers, and their sum,
difference and product for that of the integers: the integers themselves, or
residues, as the wrapping integers of the machine are), and, where a law needs
them, `UnitAxes` (an axis or a normal has length 1, for which the formulas of `reflect` and of turns are made), `UnitAngles` (a sine and a
cosine have squares that add up to 1), `Signed`, and for the projections `Divides` (a
quotient times the divisor is what was divided, as with residues of a prime),
`ProperCameras` and `ProperBoxes` (the code divides by nothing that is 0).
`FieldAssumption` of `MCAlgebra` has TLC evaluate all of them for the field that the run computes in.

* `VectorLawsHold`, `MatrixLawsHold`, `QuaternionsTurnHolds`: the invariants of
  the run, for every vector, matrix or quaternion that any number of calls makes. An
  operator of the model is shown to be a value of the same formula in integers
  (`OfDot3`, `OfDet4`, `OfRotation`, ...), and the law is then an identity of
  polynomials, expanded in steps small enough for the prover (`EulerFourSquares`,
  `Det4OfProduct`, `TurnIdentities`).
* `TransformsComposeHolds`: every step of `translate`, `scale` and `rotate`
  composes, for axes of any length; the law is about the matrix before and after the step,
  which `TypesCorrect` has to say are matrices of components.
* `ProjectionsFillHolds`: every step of a perspective, a frustum or `ortho`, of both hands and
  both builds, for any volume. Equations between quotients are multiplied by what they
  divide by (`SameQuotient`) and this is cancelled at the end (`SameCancels`). The shift of a
  frustum that the code divides by `right - near` does not cancel: it is the difference to the
  page's quotient that remains (`FrustumMisses`); for `ortho`, `OrthoMaps` and `SpreadIs`.

Only model-checked: everything about bits,
`ElementsAlive`, `InsertsValue` and `OthersKept` of `Array` and `EarlierIsLess` of `Views`, which the
code breaks, and all liveness (`WaitFree`, `EveryPushIsRemoved`, `ProducerGetsThrough`, `OperationsEnd`).
TLAPS cannot prove liveness under fairness or reason about ENABLED, and modules that
reach `RECURSIVE` or `Bitwise` have no proofs, which is why the mask is stated in
`MCSPSCQueue`. The library's induction theorems take an operator as a parameter, which
its provers cannot instantiate; the proofs above use an induction for sets instead.

## What is not modelled, and why

* `clear` of a trivially destructible element (`spsc_queue_base.hpp:25-28`)
  writes the producer's index from the consumer's thread. It is not reachable
  through `xme::SPSCQueue`, which inherits privately and does not expose
  `clear`, and nothing in the repository calls it.
* A capacity that is no power of two; `pop` or `consume` of an empty queue; erasing after
  the last node of a list, popping an empty list or heap: preconditions.
* Inserting a range of a list into the same list, or of an array into the same array.
* `close` of a library that has no handle.
* What a destructor does with memory where no object lives (`array.hpp:419`, `uninitialized.hpp:22`);
  what the latter destroys in memory that is no array's, and its walk that never ends; the
  addresses of blocks.
* What happens to objects in a block of an array that was given back: the model forgets them.
* Moves and assignments of elements that throw: the code's comments leave the state open.
* What a user's callback does with the container it is called from.
* The comparisons of pairs, tuples, vectors and matrices, which the compiler
  writes; of iterators of different types; `as_bytes`.
* `length`, `distance`, `normalize` and trigonometry, which need roots and series of
  floating point numbers; the constants; the `static_cast`s, among them the one of `1 - c` to the
  component type of the axis (`transformation.hpp:44`), and the `bool` branch of `lerp`.
* `tuple_cat` of rvalues, which does not compile (it binds an rvalue to an lvalue);
  `bindFront` and `bindBack`, which are compiled only where
  `__cpp_explicit_this_parameter` is defined and call `forwardLike`, which the
  library names `forward_like`; `bindBack` there passes what is bound first.
* `proc_address`, `handle` of a delegate and the other functions that change nothing.
* Components marked `not_modelled` in `PROJECT.json`, each with its reason: compile-time
  code, macros, and `ScopedDelegate`, whose destructor makes one call.

## Plan

Modelled, in this order, because the queue is the only concurrent component,
the lists are the component with the most intricate state, the heap the one whose
algorithm is least obvious: `SPSCQueue`, `LinkedList`, `Heap`, and `Array`, on which
the heap stands; then `Delegate`, the other owner of memory, `Views`, `Algebra`, and
`SharedLibrary` in `Tuples`.

What could follow:

1. Theorems: the laws of `Algebra` with a bound on the error where the arithmetic rounds.
2. Ranges of a list or an array inserted into itself, as violated runs, once
   the repository says what they should do.
3. The comparisons of iterators of different types; `as_bytes`.
