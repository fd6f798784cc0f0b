-------------------------------- MODULE Array --------------------------------
(***************************************************************************)
(* xme::Array (container/array.hpp): elements one after another in a block *)
(* of memory that is replaced when it gets too small.                      *)
(*                                                                         *)
(* A cell of a block has the bytes in it (val) and whether an object lives *)
(* there (live).  Constructors begin the life of an object and destructors *)
(* end it; an assignment, which is what the std::ranges::move of the code  *)
(* does, only writes.  For elements that are trivially copyable, as in the *)
(* tests, the bytes are all there is.  The two views are stated apart:     *)
(* Promised is about the bytes, ElementsAlive about the lives.             *)
(*                                                                         *)
(* An array is used by one thread and calls nobody back, so an operation   *)
(* is one step, with the outcomes of an element whose construction throws. *)
(* Moving does not throw, as the comments of the code recommend.  What a   *)
(* destructor does with memory where no object lives is left out.          *)
(***************************************************************************)
EXTENDS Integers, Sequences
LOCAL INSTANCE FiniteSetsExt

CONSTANTS Arrays,       \* the array objects
          Block,        \* the memory the allocator hands out
          Value,        \* the elements
          Junk,         \* bytes nobody has written
          null,         \* nullptr
          MaxCapacity,  \* bound: the cells of a block
          MaxCells,     \* bound: the cells of all blocks
          MaxRange      \* bound: the length of a range given to an operation

ASSUME ConstantsAssumption ==
  /\ Junk \notin Value /\ null \notin Block
  /\ {MaxCapacity, MaxCells, MaxRange} \subseteq Nat

VARIABLES m_data,     \* begin, end and storage_end of every array
          allocated,  \* the blocks not given back to the allocator
          memory      \* their cells
vars == <<m_data, allocated, memory>>

\* A default-constructed array, also what is left of one that was destroyed
\* or moved from.  end and storage_end are offsets from begin.
Empty == [begin |-> null, end |-> 0, storage_end |-> 0]

Init == /\ m_data = [a \in Arrays |-> Empty]
        /\ allocated = {}
        /\ memory = [b \in Block |-> << >>]

size(a)     == m_data[a].end
capacity(a) == m_data[a].storage_end
Cells(a)    == IF m_data[a].begin = null THEN << >> ELSE memory[m_data[a].begin]

Larger(m, n) == IF m > n THEN m ELSE n
Ranges == UNION {[1 .. n -> Value] : n \in 0 .. MaxRange}

-----------------------------------------------------------------------------
(* Cells: what is constructed, assigned and destroyed from an offset on.   *)
(* A write past the end of a block makes it longer than it was allocated.  *)

Raw(n) == [i \in 1 .. n |-> [val |-> Junk, live |-> FALSE]]

Written(cells, from, new) ==
  [i \in 1 .. Larger(Len(cells), from + Len(new)) |->
     IF i - from \in DOMAIN new THEN new[i - from] ELSE cells[i]]

Constructed(cells, from, vals) ==
  Written(cells, from, [k \in DOMAIN vals |-> [val |-> vals[k], live |-> TRUE]])

Assigned(cells, from, vals) ==
  Written(cells, from,
    [k \in DOMAIN vals |-> [val |-> vals[k],
                            live |-> from + k \in DOMAIN cells /\ cells[from + k].live]])

Destroyed(cells, first, last) ==
  [i \in DOMAIN cells |->
     IF i \in first + 1 .. last THEN [cells[i] EXCEPT !.live = FALSE] ELSE cells[i]]

\* The bytes of the cells between two offsets, and of all elements.
Bytes(cells, first, last) == [k \in 1 .. last - first |-> cells[first + k].val]
Contents(a) == Bytes(Cells(a), 0, size(a))

\* The array goes on in its block, or in a block b of n cells; the block it
\* had is given back.
InPlace(a, cells, end) ==
  /\ m_data' = [m_data EXCEPT ![a].end = end]
  /\ UNCHANGED allocated
  /\ memory' = [x \in Block |-> IF x = m_data[a].begin THEN cells ELSE memory[x]]

HeldBeside(a) == MapThenSumSet(capacity, Arrays \ {a})

Replaced(a, b, n, cells, end) ==
  /\ b \in Block \ allocated
  /\ n <= MaxCapacity /\ n + HeldBeside(a) <= MaxCells
  /\ m_data' = [m_data EXCEPT ![a] = [begin |-> b, end |-> end, storage_end |-> n]]
  /\ allocated' = (allocated \ {m_data[a].begin}) \cup {b}
  /\ memory' = [x \in Block |-> IF x = b THEN cells
                                ELSE IF x = m_data[a].begin THEN << >> ELSE memory[x]]

-----------------------------------------------------------------------------
(* Construction, assignment and destruction of arrays.  Assignments make a *)
(* temporary, swap with it and destroy it.                                 *)

\* From a range, a list or n equal values.  When an element throws nothing
\* is left.
assign(a, b, r) == Replaced(a, b, Len(r), Constructed(Raw(Len(r)), 0, r), Len(r))

Copy(a, b, c) == assign(a, b, Contents(c))

(* When an element throws while a range is copied, uninitialized_copy_a    *)
(* does not destroy what it constructed: it destroys from where it is in   *)
(* the input up to where it is in the output.  That is, of the source, the *)
(* cells from element i on, the raw ones behind its elements too, and then *)
(* whatever lies before the new block, which is given back: any blocks of  *)
(* other arrays.  Memory that is no array's, and a walk that never meets   *)
(* its end because the new block comes first, are left out: they do not    *)
(* come back.                                                              *)
Overrun(first) ==   \* the offset from which each block it goes through is hit
  /\ memory' = [x \in Block |-> IF x \in DOMAIN first
                                THEN Destroyed(memory[x], first[x], Len(memory[x]))
                                ELSE memory[x]]
  /\ UNCHANGED <<m_data, allocated>>

CopyThrows(c, i, between) ==
  /\ i \in 1 .. size(c)
  /\ Overrun([x \in between \cup {m_data[c].begin} |->
                IF x = m_data[c].begin THEN i - 1 ELSE 0])

\* The same of a list, or another range, that lies in no array's block.
ListThrows(between) == Overrun([x \in between |-> 0])

Released(a) == /\ memory' = [x \in Block |-> IF x = m_data[a].begin THEN << >> ELSE memory[x]]
               /\ allocated' = allocated \ {m_data[a].begin}

Destroy(a) == Released(a) /\ m_data' = [m_data EXCEPT ![a] = Empty]

MoveShares(a, c) ==   \* mutant: the source keeps its pointers
  \/ a = c /\ UNCHANGED vars
  \/ a # c /\ Released(a) /\ m_data' = [m_data EXCEPT ![a] = m_data[c]]
\* An array moved to itself gives its block to the temporary and gets it back.
Move(a, c) ==
  \/ a = c /\ UNCHANGED vars
  \/ a # c /\ Released(a) /\ m_data' = [m_data EXCEPT ![a] = m_data[c], ![c] = Empty]

swap(a, c) == /\ m_data' = [m_data EXCEPT ![a] = m_data[c], ![c] = m_data[a]]
              /\ UNCHANGED <<allocated, memory>>

-----------------------------------------------------------------------------
(* Capacity. *)

Grown(a, n) == Assigned(Raw(n), 0, Contents(a))

\* reserve(), and resize() upwards; Array(n) when the array has no block.
reserve(a, b, n) == /\ n > capacity(a) \/ m_data[a] = Empty
                    /\ Replaced(a, b, n, Grown(a, n), size(a))

\* resize() downwards.
shrink_storage(a, b, n) ==
  /\ n < capacity(a)
  /\ LET kept == IF size(a) < n THEN size(a) ELSE n
     IN  Replaced(a, b, n, Assigned(Raw(n), 0, Bytes(Cells(a), 0, kept)), kept)

\* A full array doubles.
Doubled(a) == size(a) + Larger(size(a), 1)

-----------------------------------------------------------------------------
(* Appending. *)

emplace_back(a, b, v) ==
  IF size(a) = capacity(a)
  THEN Replaced(a, b, Doubled(a), Constructed(Grown(a, Doubled(a)), size(a), <<v>>), size(a) + 1)
  ELSE InPlace(a, Constructed(Cells(a), size(a), <<v>>), size(a) + 1)

\* The element throws, after the array has grown.
EmplaceThrows(a, b) == /\ size(a) = capacity(a)
                       /\ Replaced(a, b, Doubled(a), Grown(a, Doubled(a)), size(a))

\* The first k elements of a range; the next one, if there is one, throws.
push_back(a, b, r, k) ==
  LET n    == size(a) + Len(r)
      done == SubSeq(r, 1, k)
  IN  IF n > capacity(a)
      THEN Replaced(a, b, n, Constructed(Grown(a, n), size(a), done), size(a) + k)
      ELSE InPlace(a, Constructed(Cells(a), size(a), done), size(a) + k)

-----------------------------------------------------------------------------
(* Inserting before offset pos. *)

\* The cells with a gap of n between the elements before pos and the rest.
Before(a, pos) == Bytes(Cells(a), 0, pos)
Behind(a, pos) == Bytes(Cells(a), pos, size(a))

OpenedForwards(a, pos) ==   \* mutant: the elements are not moved from the back
  LET c == Constructed(Cells(a), size(a), Bytes(Cells(a), size(a) - 1, size(a)))
  IN  Assigned(c, pos + 1, [k \in 1 .. size(a) - 1 - pos |-> c[pos + 1].val])
Opened(a, pos) ==   \* one cell wide, the last element constructed at the end
  Assigned(Constructed(Cells(a), size(a), Bytes(Cells(a), size(a) - 1, size(a))),
           pos + 1, Bytes(Cells(a), pos, size(a) - 1))

insert_in_place(a, pos, v) ==
  /\ pos < size(a) /\ size(a) < capacity(a)
  /\ InPlace(a, Assigned(Opened(a, pos), pos, <<v>>), size(a) + 1)

realloc_insert(a, b, pos, v) ==
  /\ pos < size(a) /\ size(a) = capacity(a)
  /\ LET n == Doubled(a)
         c == Assigned(Constructed(Raw(n), pos, <<v>>), 0, Before(a, pos))
     IN  Replaced(a, b, n, Assigned(c, pos + 1, Behind(a, pos)), size(a) + 1)

\* The element throws.  The handler calls the destructor of what was never
\* constructed, gives the new block back and leaves the array as it was.
ReallocThrows(a, pos) == /\ pos < size(a) /\ size(a) = capacity(a)
                         /\ UNCHANGED vars

insert(a, b, pos, v) == \/ pos = size(a) /\ emplace_back(a, b, v)
                        \/ insert_in_place(a, pos, v)
                        \/ realloc_insert(a, b, pos, v)

\* mutant: the new capacity does not count the elements there are
InsertRangeSmall(a, b, pos, r) ==
  /\ size(a) + Len(r) > capacity(a)
  /\ LET n == IF capacity(a) > Len(r) THEN capacity(a) ELSE Len(r)
         c == Assigned(Constructed(Raw(n), pos, r), 0, Before(a, pos))
     IN  Replaced(a, b, n, Assigned(c, pos + Len(r), Behind(a, pos)), size(a) + Len(r))
\* A range that does not fit.  When an element throws the array is as it was.
insert_range_grow(a, b, pos, r) ==
  /\ size(a) + Len(r) > capacity(a)
  /\ LET n == capacity(a) + Len(r)
         c == Assigned(Constructed(Raw(n), pos, r), 0, Before(a, pos))
     IN  Replaced(a, b, n, Assigned(c, pos + Len(r), Behind(a, pos)), size(a) + Len(r))

\* A range that fits: of its elements the first k are constructed.
insert_range(a, pos, r, k) ==
  /\ size(a) + Len(r) <= capacity(a)
  /\ InPlace(a, Constructed(Assigned(Cells(a), pos + Len(r), Behind(a, pos)),
                            pos, SubSeq(r, 1, k)),
             size(a) + Len(r))

(* The same of an element of the array: what the reference refers to when  *)
(* it is read, in the block that is gone or in the cells that were moved.  *)

emplace_back_own(a, b, i) ==
  IF size(a) = capacity(a)
  THEN \E v \in Value \cup {Junk} : emplace_back(a, b, v)
  ELSE emplace_back(a, b, Contents(a)[i])

insert_own(a, b, pos, i) ==
  \/ pos = size(a) /\ emplace_back_own(a, b, i)
  \/ insert_in_place(a, pos, Opened(a, pos)[i].val)
  \/ realloc_insert(a, b, pos, Contents(a)[i])

-----------------------------------------------------------------------------
(* Erasing. *)

PopBackUnchecked(a) ==   \* mutant: no assertion that there is an element
  InPlace(a, Destroyed(Cells(a), size(a) - 1, size(a)), size(a) - 1)
pop_back(a) ==
  /\ size(a) > 0
  /\ InPlace(a, Destroyed(Cells(a), size(a) - 1, size(a)), size(a) - 1)

EraseLeavesGap(a, first, last) ==   \* mutant: what is behind stays where it is
  InPlace(a, Destroyed(Cells(a), first, last), size(a) - (last - first))
erase(a, first, last) ==
  InPlace(a, Assigned(Destroyed(Cells(a), first, last), first, Behind(a, last)),
          size(a) - (last - first))

clear(a) == InPlace(a, Destroyed(Cells(a), 0, size(a)), 0)

-----------------------------------------------------------------------------
Lifecycle(a, b) ==
  \/ \E r \in Ranges : assign(a, b, r)
  \/ \E c \in Arrays : Copy(a, b, c) \/ Move(a, c) \/ swap(a, c)
  \/ Destroy(a)
  \/ \E n \in 0 .. MaxCapacity : reserve(a, b, n) \/ shrink_storage(a, b, n)

Insertion(a, b) ==
  \/ \E v \in Value, pos \in 0 .. size(a) : insert(a, b, pos, v)
  \/ \E r \in Ranges :
       \/ push_back(a, b, r, Len(r))
       \/ \E pos \in 0 .. size(a) : \/ insert_range_grow(a, b, pos, r)
                                    \/ insert_range(a, pos, r, Len(r))

Erasure(a) ==
  \/ pop_back(a)
  \/ \E first \in 0 .. size(a) : \E last \in first .. size(a) : erase(a, first, last)
  \/ clear(a)

Throw(a, b) ==
  \/ \E between \in SUBSET allocated :
       ListThrows(between) \/ \E i \in 1 .. size(a) : CopyThrows(a, i, between)
  \/ EmplaceThrows(a, b)
  \/ \E pos \in 0 .. size(a) : ReallocThrows(a, pos)
  \/ \E r \in Ranges : \E k \in 0 .. Len(r) - 1 :
       \/ push_back(a, b, r, k)
       \/ \E pos \in 0 .. size(a) : insert_range(a, pos, r, k)

NextQuiet == \E a \in Arrays, b \in Block \ allocated :
               Lifecycle(a, b) \/ Insertion(a, b) \/ Erasure(a)
Next == NextQuiet \/ \E a \in Arrays, b \in Block \ allocated : Throw(a, b)

Spec == Init /\ [][Next]_vars

\* Elements that never throw; and callers that insert the array's own.
QuietSpec == Init /\ [][NextQuiet]_vars
OwnSpec ==
  Init /\ [][\E a \in Arrays, b \in Block \ allocated :
              \/ Lifecycle(a, b)
              \/ \E i \in 1 .. size(a), pos \in 0 .. size(a) : insert_own(a, b, pos, i)]_vars

-----------------------------------------------------------------------------
(* Type invariant. *)
Cell == [val : Value \cup {Junk}, live : BOOLEAN]
TypeOK ==
  /\ m_data \in [Arrays -> [begin : Block \cup {null}, end : Nat, storage_end : Nat]]
  /\ allocated \subseteq Block
  /\ memory \in [Block -> Seq(Cell)]

(* Every block that is allocated belongs to exactly one array, which knows  *)
(* its size: none leaks, none is given back twice or with another size than *)
(* it was allocated with, and no operation writes behind its end, whichever *)
(* threw in between.  It is about blocks: what handlers destroy in them, and *)
(* behind them, is not its concern (OthersKept).                            *)
BlocksOwned ==
  /\ allocated = {m_data[a].begin : a \in Arrays} \ {null}
  /\ \A a, c \in Arrays : a # c /\ m_data[a].begin = m_data[c].begin => m_data[a].begin = null
  /\ \A a \in Arrays : size(a) <= capacity(a) /\ capacity(a) = Len(Cells(a))

(* What the array holds after an operation is what its comment says: the    *)
(* values inserted at the place asked for, in order, what was erased gone,  *)
(* everything else in its order; a failed insertion that must grow leaves   *)
(* the array unbroken (array.hpp:285); and an array that keeps its pointers *)
(* keeps its elements, alive or not as they were, so that no other array    *)
(* changes - unless a copy fails, which destroys what is not its own.  That *)
(* exception is the code's fault, and OthersKept is without it.             *)
Spliced(a, first, last, r) ==
  Contents(a)' = SubSeq(Contents(a), 1, first) \o r \o SubSeq(Contents(a), last + 1, size(a))

PromisedWith(a, b) ==   \* b is the block, if the step took a new one
  /\ EmplaceThrows(a, b) => Spliced(a, 0, 0, << >>)
  /\ \A n \in 0 .. MaxCapacity :
       /\ reserve(a, b, n) => Spliced(a, 0, 0, << >>) /\ capacity(a)' = n
       /\ shrink_storage(a, b, n) => Spliced(a, IF n < size(a) THEN n ELSE size(a), size(a), << >>)
  /\ \A r \in Ranges :
       /\ assign(a, b, r) => Spliced(a, 0, size(a), r)
       /\ \A k \in 0 .. Len(r) : push_back(a, b, r, k) =>
            Spliced(a, size(a), size(a), SubSeq(r, 1, k))
       /\ \A pos \in 0 .. size(a) :
            (insert_range_grow(a, b, pos, r) \/ insert_range(a, pos, r, Len(r))) =>
              Spliced(a, pos, pos, r)
  /\ \A v \in Value, pos \in 0 .. size(a) : insert(a, b, pos, v) => Spliced(a, pos, pos, <<v>>)
  /\ \A c \in Arrays : Copy(a, b, c) => Contents(a)' = Contents(c)

\* The elements with their lives, and a step in which copying one throws.
Elements(a) == [i \in 1 .. size(a) |-> Cells(a)[i]]
CopyFails == \E between \in SUBSET allocated :
               \/ ListThrows(between)
               \/ \E c \in Arrays : \E i \in 1 .. size(c) : CopyThrows(c, i, between)

PromisedOf(a) ==
  /\ PromisedWith(a, m_data'[a].begin)
  /\ pop_back(a) => Spliced(a, size(a) - 1, size(a), << >>)
  /\ \A first \in 0 .. size(a) : \A last \in first .. size(a) :
       erase(a, first, last) => Spliced(a, first, last, << >>)
  /\ \A c \in Arrays : /\ (Move(a, c) \/ swap(a, c)) => Contents(a)' = Contents(c)
                       /\ c # a /\ Move(c, a) => Contents(a)' = << >>
  /\ m_data'[a] = m_data[a] => Elements(a)' = Elements(a) \/ CopyFails

Promised == [][\A a \in Arrays : PromisedOf(a)]_vars

(* An operation on one array, successful or not, leaves the elements of all *)
(* others as they were: Array(const Array& other) takes its source as const *)
(* (array.hpp:44).                                                          *)
OthersKept ==
  [][\A a \in Arrays : m_data'[a] = m_data[a] => Elements(a)' = Elements(a)]_vars

(* pop_back destroys the last element in the array (array.hpp:342): what is *)
(* there to be destroyed must be an object.                                 *)
ElementsAlive ==
  \A a \in Arrays : \A i \in 1 .. size(a) : Cells(a)[i].live

(* insert inserts value in a specified position (array.hpp:252), also when  *)
(* value is an element of the array.                                        *)
InsertsValue ==
  [][\A a \in Arrays, b \in Block : \A i \in 1 .. size(a), pos \in 0 .. size(a) :
      insert_own(a, b, pos, i) => Spliced(a, pos, pos, <<Contents(a)[i]>>)]_vars
=============================================================================
