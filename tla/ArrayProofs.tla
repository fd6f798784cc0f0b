----------------------------- MODULE ArrayProofs -----------------------------
(***************************************************************************)
(* Who owns the blocks of arrays and what is in them, for any number of    *)
(* arrays, blocks and elements and blocks of any size.                     *)
(***************************************************************************)
EXTENDS Array, SequenceTheorems, TLAPS

Byte == Value \cup {Junk}

IInv == TypeOK /\ BlocksOwned

-----------------------------------------------------------------------------
(* Cells.  Nothing is written past the end when what is written ends in    *)
(* the block.                                                              *)

LEMMA LargerOfTwo ==
  ASSUME NEW m \in Nat, NEW n \in Nat
  PROVE  /\ Larger(m, n) \in Nat /\ Larger(m, n) >= m /\ Larger(m, n) >= n
         /\ n <= m => Larger(m, n) = m
BY DEF Larger

LEMMA WrittenInside ==
  ASSUME NEW cells \in Seq(Cell), NEW new \in Seq(Cell), NEW from \in Nat,
         from + Len(new) <= Len(cells)
  PROVE  Written(cells, from, new) \in Seq(Cell) /\ Len(Written(cells, from, new)) = Len(cells)
<1> DEFINE n == Len(cells)
<1>1. n \in Nat /\ Larger(n, from + Len(new)) = n
  BY LargerOfTwo
<1>2. \A i \in 1 .. n : cells[i] \in Cell
  OBVIOUS
<1>3. \A i \in 1 .. n : i - from \in DOMAIN new => new[i - from] \in Cell
  OBVIOUS
<1>4. Written(cells, from, new) = [i \in 1 .. n |-> IF i - from \in DOMAIN new THEN new[i - from]
                                                    ELSE cells[i]]
  BY <1>1 DEF Written
<1> HIDE DEF n
<1>5. Written(cells, from, new) \in [1 .. n -> Cell]
  BY <1>2, <1>3, <1>4
<1> QED
  BY <1>1, <1>5 DEF n

LEMMA ConstructedInside ==
  ASSUME NEW cells \in Seq(Cell), NEW vals \in Seq(Byte), NEW from \in Nat,
         from + Len(vals) <= Len(cells)
  PROVE  /\ Constructed(cells, from, vals) \in Seq(Cell)
         /\ Len(Constructed(cells, from, vals)) = Len(cells)
<1> DEFINE n == Len(vals)
           new == [k \in DOMAIN vals |-> [val |-> vals[k], live |-> TRUE]]
<1>1. n \in Nat /\ DOMAIN vals = 1 .. n /\ \A k \in 1 .. n : vals[k] \in Byte
  OBVIOUS
<1>2. new \in [1 .. n -> Cell]
  BY <1>1 DEF Cell, Byte
<1> HIDE DEF new, n
<1>3. new \in Seq(Cell) /\ Len(new) = n
  BY <1>1, <1>2
<1> QED
  BY <1>3, WrittenInside DEF Constructed, new, n

LEMMA AssignedInside ==
  ASSUME NEW cells \in Seq(Cell), NEW vals \in Seq(Byte), NEW from \in Nat,
         from + Len(vals) <= Len(cells)
  PROVE  /\ Assigned(cells, from, vals) \in Seq(Cell)
         /\ Len(Assigned(cells, from, vals)) = Len(cells)
<1> DEFINE n == Len(vals)
           lives(k) == from + k \in DOMAIN cells /\ cells[from + k].live
           new == [k \in DOMAIN vals |-> [val |-> vals[k], live |-> lives(k)]]
<1>1. n \in Nat /\ DOMAIN vals = 1 .. n /\ \A k \in 1 .. n : vals[k] \in Byte
  OBVIOUS
<1>2. \A k \in 1 .. n : lives(k) \in BOOLEAN
  BY DEF Cell
<1> HIDE DEF lives
<1>3. new \in [1 .. n -> Cell]
  BY <1>1, <1>2 DEF Cell, Byte
<1> HIDE DEF new, n
<1>4. new \in Seq(Cell) /\ Len(new) = n
  BY <1>1, <1>3
<1>5. Assigned(cells, from, vals) = Written(cells, from, new)
  BY DEF Assigned, new, lives
<1> QED
  BY <1>4, <1>5, WrittenInside DEF n

LEMMA DestroyedInside ==
  ASSUME NEW cells \in Seq(Cell), NEW first \in Int, NEW last \in Int
  PROVE  /\ Destroyed(cells, first, last) \in Seq(Cell)
         /\ Len(Destroyed(cells, first, last)) = Len(cells)
<1> DEFINE n == Len(cells)
<1>1. n \in Nat /\ DOMAIN cells = 1 .. n /\ \A i \in 1 .. n : cells[i] \in Cell
  OBVIOUS
<1>2. \A i \in 1 .. n : [cells[i] EXCEPT !.live = FALSE] \in Cell
  BY <1>1 DEF Cell
<1>3. Destroyed(cells, first, last) \in [1 .. n -> Cell]
  BY <1>1, <1>2 DEF Destroyed
<1> HIDE DEF n
<1> QED
  BY <1>1, <1>3 DEF n

LEMMA RawCells ==
  ASSUME NEW n \in Nat
  PROVE  Raw(n) \in Seq(Cell) /\ Len(Raw(n)) = n
<1>1. Raw(n) \in [1 .. n -> Cell]
  BY DEF Raw, Cell
<1> HIDE DEF Raw
<1> QED
  BY <1>1

LEMMA BytesOfCells ==
  ASSUME NEW cells \in Seq(Cell), NEW first \in Nat, NEW last \in Nat,
         first <= last, last <= Len(cells)
  PROVE  Bytes(cells, first, last) \in Seq(Byte) /\ Len(Bytes(cells, first, last)) = last - first
<1> DEFINE n == last - first
<1>1. n \in Nat /\ \A k \in 1 .. n : first + k \in DOMAIN cells
  OBVIOUS
<1>2. ASSUME NEW k \in 1 .. n PROVE cells[first + k].val \in Byte
  <2>1. cells[first + k] \in Cell
    BY <1>1
  <2> QED
    BY <2>1 DEF Cell, Byte
<1>3. Bytes(cells, first, last) \in [1 .. n -> Byte]
  BY <1>2 DEF Bytes
<1> HIDE DEF n
<1> QED
  BY <1>1, <1>3 DEF n

\* A range given to an operation, and what was done of it before a throw.
LEMMA RangePrefix ==
  ASSUME NEW r \in Ranges, NEW k \in 0 .. Len(r)
  PROVE  /\ r \in Seq(Byte) /\ Len(r) \in Nat
         /\ SubSeq(r, 1, k) \in Seq(Byte) /\ Len(SubSeq(r, 1, k)) = k
<1>1. PICK n \in 0 .. MaxRange : r \in [1 .. n -> Value]
  BY DEF Ranges
<1>2. n \in Nat
  BY ConstantsAssumption
<1>3. r \in Seq(Byte)
  BY <1>1, <1>2 DEF Byte
<1> QED
  BY <1>3

\* The cells and the contents of an array.
LEMMA CellsOfArray ==
  ASSUME IInv, NEW a \in Arrays
  PROVE  /\ Cells(a) \in Seq(Cell) /\ Len(Cells(a)) = capacity(a)
         /\ size(a) \in Nat /\ capacity(a) \in Nat /\ size(a) <= capacity(a)
         /\ m_data[a].begin \in Block \cup {null}
         /\ Contents(a) \in Seq(Byte) /\ Len(Contents(a)) = size(a)
<1>1. /\ Cells(a) \in Seq(Cell) /\ Len(Cells(a)) = capacity(a)
      /\ size(a) \in Nat /\ capacity(a) \in Nat /\ size(a) <= capacity(a)
      /\ m_data[a].begin \in Block \cup {null}
  BY DEF IInv, TypeOK, BlocksOwned, Cells, size, capacity
<1> QED
  BY <1>1, BytesOfCells DEF Contents

\* The elements between two offsets, and those on the two sides of one.
LEMMA SliceOfArray ==
  ASSUME IInv, NEW a \in Arrays, NEW first \in Nat, NEW last \in Nat,
         first <= last, last <= size(a)
  PROVE  /\ Bytes(Cells(a), first, last) \in Seq(Byte)
         /\ Len(Bytes(Cells(a), first, last)) = last - first
<1>1. /\ Cells(a) \in Seq(Cell) /\ Len(Cells(a)) = capacity(a)
      /\ size(a) \in Nat /\ capacity(a) \in Nat /\ size(a) <= capacity(a)
  BY CellsOfArray
<1> DEFINE cells == Cells(a)
           n     == size(a)
<1> HIDE DEF cells, n
<1>2. cells \in Seq(Cell) /\ n \in Nat /\ n <= Len(cells) /\ last <= n
  BY <1>1 DEF cells, n
<1>3. last <= Len(cells)
  <2>1. Len(cells) \in Nat
    BY <1>2
  <2> QED
    BY <1>2, <2>1
<1> QED
  BY <1>2, <1>3, BytesOfCells DEF cells

LEMMA AroundOffset ==
  ASSUME IInv, NEW a \in Arrays, NEW pos \in 0 .. size(a)
  PROVE  /\ Before(a, pos) \in Seq(Byte) /\ Len(Before(a, pos)) = pos
         /\ Behind(a, pos) \in Seq(Byte) /\ Len(Behind(a, pos)) = size(a) - pos
<1>1. size(a) \in Nat
  BY CellsOfArray
<1> DEFINE n == size(a)
<1>2. n \in Nat /\ pos \in Nat /\ 0 <= pos /\ pos <= n /\ n <= n /\ 0 \in Nat /\ pos - 0 = pos
  BY <1>1
<1>3. Before(a, pos) \in Seq(Byte) /\ Len(Before(a, pos)) = pos - 0
  BY <1>2, SliceOfArray DEF Before
<1>4. Behind(a, pos) \in Seq(Byte) /\ Len(Behind(a, pos)) = size(a) - pos
  BY <1>2, SliceOfArray DEF Behind
<1> QED
  BY <1>2, <1>3, <1>4

-----------------------------------------------------------------------------
(* Steps.  An operation goes on in the block of its array, or replaces it,  *)
(* or gives it back.                                                        *)

LEMMA InPlaceKeeps ==
  ASSUME IInv, NEW a \in Arrays, NEW cells, NEW end, InPlace(a, cells, end),
         cells \in Seq(Cell), Len(cells) = capacity(a), end \in Nat, end <= capacity(a)
  PROVE  IInv'
<1> DEFINE block == m_data[a].begin
<1>1. /\ m_data' \in [Arrays -> [begin : Block \cup {null}, end : Nat, storage_end : Nat]]
      /\ \A x \in Arrays : /\ m_data'[x].begin = m_data[x].begin
                           /\ m_data'[x].storage_end = m_data[x].storage_end
      /\ m_data'[a].end = end
      /\ \A x \in Arrays \ {a} : m_data'[x] = m_data[x]
  BY DEF InPlace, IInv, TypeOK
<1>2. /\ memory' \in [Block -> Seq(Cell)]
      /\ block # null => memory'[block] = cells
      /\ \A x \in Block \ {block} : memory'[x] = memory[x]
  BY CellsOfArray DEF InPlace, IInv, TypeOK
<1>3. TypeOK'
  BY <1>1, <1>2 DEF TypeOK, IInv, InPlace
<1>4. ASSUME NEW x \in Arrays
      PROVE  size(x)' <= capacity(x)' /\ capacity(x)' = Len(Cells(x))'
  <2>1. CASE x = a
    BY <1>1, <1>2, <2>1, CellsOfArray DEF size, capacity, Cells
  <2>2. CASE x # a
    <3>1. m_data'[x] = m_data[x] /\ (m_data[x].begin # null => m_data[x].begin # block)
      BY <1>1, <2>2 DEF IInv, BlocksOwned
    <3>2. Cells(x)' = Cells(x)
      BY <1>2, <3>1, CellsOfArray DEF Cells
    <3> QED
      BY <3>1, <3>2, CellsOfArray DEF size, capacity
  <2> QED
    BY <2>1, <2>2
<1>5. BlocksOwned'
  BY <1>1, <1>4 DEF IInv, BlocksOwned, InPlace
<1> QED
  BY <1>3, <1>5 DEF IInv

LEMMA ReplacedKeeps ==
  ASSUME IInv, NEW a \in Arrays, NEW b, NEW n, NEW cells, NEW end, Replaced(a, b, n, cells, end),
         cells \in Seq(Cell), n \in Nat, Len(cells) = n, end \in Nat, end <= n
  PROVE  IInv'
<1> DEFINE block == m_data[a].begin
           new == [begin |-> b, end |-> end, storage_end |-> n]
<1>1. /\ b \in Block \ allocated
      /\ m_data' = [m_data EXCEPT ![a] = new]
      /\ allocated' = (allocated \ {block}) \cup {b}
      /\ memory' = [x \in Block |-> IF x = b THEN cells ELSE IF x = block THEN << >> ELSE memory[x]]
  BY DEF Replaced
<1>2. b # null /\ b # block /\ \A x \in Arrays : m_data[x].begin # b
  BY <1>1, ConstantsAssumption DEF IInv, BlocksOwned
<1>3. /\ m_data'[a] = new
      /\ \A x \in Arrays \ {a} : m_data'[x] = m_data[x]
      /\ m_data' \in [Arrays -> [begin : Block \cup {null}, end : Nat, storage_end : Nat]]
  BY <1>1 DEF IInv, TypeOK
<1>4. << >> \in Seq(Cell)
  OBVIOUS
<1>5. memory' \in [Block -> Seq(Cell)]
  BY <1>1, <1>4 DEF IInv, TypeOK
<1>6. TypeOK'
  BY <1>1, <1>3, <1>5 DEF IInv, TypeOK
<1>7. ASSUME NEW x \in Arrays
      PROVE  size(x)' <= capacity(x)' /\ capacity(x)' = Len(Cells(x))'
  <2>1. CASE x = a
    BY <1>1, <1>2, <1>3, <2>1 DEF size, capacity, Cells
  <2>2. CASE x # a
    <3>1. m_data'[x] = m_data[x] /\ (m_data[x].begin # null => m_data[x].begin # block)
      BY <1>3, <2>2 DEF IInv, BlocksOwned
    <3>2. Cells(x)' = Cells(x)
      BY <1>1, <1>2, <3>1, CellsOfArray DEF Cells
    <3> QED
      BY <3>1, <3>2, CellsOfArray DEF size, capacity
  <2> QED
    BY <2>1, <2>2
<1>8. /\ allocated' = {m_data'[x].begin : x \in Arrays} \ {null}
      /\ \A x, c \in Arrays : x # c /\ m_data'[x].begin = m_data'[c].begin => m_data'[x].begin = null
  <2>1. ASSUME NEW x \in Arrays, NEW c \in Arrays, x # c, m_data'[x].begin = m_data'[c].begin
        PROVE  m_data'[x].begin = null
    <3>1. x # a /\ c # a
      BY <1>2, <1>3, <2>1
    <3> QED
      BY <1>3, <2>1, <3>1 DEF IInv, BlocksOwned
  <2>2. ASSUME NEW y PROVE y \in allocated' <=> y # null /\ \E x \in Arrays : y = m_data'[x].begin
    <3>1. CASE y = b
      BY <1>1, <1>2, <1>3, <3>1
    <3>2. CASE y # b
      <4>1. y \in allocated' <=> y \in allocated /\ y # block
        BY <1>1, <3>2
      <4>2. y \in allocated <=> y # null /\ \E x \in Arrays : y = m_data[x].begin
        BY DEF IInv, BlocksOwned
      <4>3. y # null /\ y # block => \A x \in Arrays : y = m_data[x].begin <=> y = m_data'[x].begin
        BY <1>3, <3>2
      <4>4. y = block /\ y # null => \A x \in Arrays : y # m_data'[x].begin
        BY <1>3, <3>2 DEF IInv, BlocksOwned
      <4> QED
        BY <4>1, <4>2, <4>3, <4>4
    <3> QED
      BY <3>1, <3>2
  <2> QED
    BY <2>1, <2>2
<1>9. BlocksOwned'
  BY <1>7, <1>8 DEF BlocksOwned
<1> QED
  BY <1>6, <1>9 DEF IInv

\* What another array had is whole, and was not in the block given back.
LEMMA ReleasedCells ==
  ASSUME IInv, NEW a \in Arrays, Released(a)
  PROVE  /\ memory' \in [Block -> Seq(Cell)]
         /\ allocated' \subseteq Block
         /\ \A y : y \in allocated' <=> y # null /\ \E c \in Arrays \ {a} : y = m_data[c].begin
         /\ \A x \in Arrays, c \in Arrays \ {a} :
              m_data'[x] = m_data[c] => size(x)' <= capacity(x)' /\ capacity(x)' = Len(Cells(x))'
         /\ \A x \in Arrays :
              m_data'[x] = Empty => size(x)' <= capacity(x)' /\ capacity(x)' = Len(Cells(x))'
<1> DEFINE block == m_data[a].begin
<1>1. /\ memory' = [x \in Block |-> IF x = block THEN << >> ELSE memory[x]]
      /\ allocated' = allocated \ {block}
  BY DEF Released
<1>2. << >> \in Seq(Cell)
  OBVIOUS
<1>3. memory' \in [Block -> Seq(Cell)] /\ allocated' \subseteq Block
  BY <1>1, <1>2 DEF IInv, TypeOK
<1>4. \A y : y \in allocated' <=> y # null /\ \E c \in Arrays \ {a} : y = m_data[c].begin
  BY <1>1 DEF IInv, BlocksOwned
<1>5. ASSUME NEW x \in Arrays, NEW c \in Arrays \ {a}, m_data'[x] = m_data[c]
      PROVE  size(x)' <= capacity(x)' /\ capacity(x)' = Len(Cells(x))'
  <2>1. m_data[c].begin # null => m_data[c].begin # block
    BY DEF IInv, BlocksOwned
  <2>2. Cells(x)' = Cells(c)
    BY <1>1, <1>5, <2>1, CellsOfArray DEF Cells
  <2> QED
    BY <1>5, <2>2, CellsOfArray DEF size, capacity
<1>6. ASSUME NEW x \in Arrays, m_data'[x] = Empty
      PROVE  size(x)' <= capacity(x)' /\ capacity(x)' = Len(Cells(x))'
  BY <1>6 DEF Empty, size, capacity, Cells
<1> QED
  BY <1>3, <1>4, <1>5, <1>6

LEMMA StutterKeeps ==
  ASSUME IInv, UNCHANGED vars
  PROVE  IInv'
BY DEF vars, IInv, TypeOK, BlocksOwned, size, capacity, Cells

\* The handler of a copy that fails destroys, in whatever blocks, but keeps
\* to their cells.
LEMMA OverrunKeeps ==
  ASSUME IInv, NEW first, \A x \in DOMAIN first : first[x] \in Int, Overrun(first)
  PROVE  IInv'
<1>1. /\ m_data' = m_data /\ allocated' = allocated
      /\ memory' = [x \in Block |-> IF x \in DOMAIN first
                                    THEN Destroyed(memory[x], first[x], Len(memory[x]))
                                    ELSE memory[x]]
  BY DEF Overrun
<1>2. ASSUME NEW x \in Block
      PROVE  memory'[x] \in Seq(Cell) /\ Len(memory'[x]) = Len(memory[x])
  <2>1. memory[x] \in Seq(Cell) /\ Len(memory[x]) \in Int
    BY DEF IInv, TypeOK
  <2>2. CASE x \in DOMAIN first
    <3>1. memory'[x] = Destroyed(memory[x], first[x], Len(memory[x])) /\ first[x] \in Int
      BY <1>1, <2>2
    <3> QED
      BY <2>1, <3>1, DestroyedInside
  <2>3. CASE x \notin DOMAIN first
    BY <1>1, <2>1, <2>3
  <2> QED
    BY <2>2, <2>3
<1>3. memory' \in [Block -> Seq(Cell)]
  <2>1. memory' = [x \in Block |-> memory'[x]]
    BY <1>1
  <2> QED
    BY <1>2, <2>1
<1>4. TypeOK'
  BY <1>1, <1>3 DEF IInv, TypeOK
<1>5. ASSUME NEW a \in Arrays
      PROVE  size(a)' <= capacity(a)' /\ capacity(a)' = Len(Cells(a))'
  <2>1. size(a)' = size(a) /\ capacity(a)' = capacity(a)
    BY <1>1 DEF size, capacity
  <2>2. Len(Cells(a))' = Len(Cells(a))
    BY <1>1, <1>2, CellsOfArray DEF Cells
  <2> QED
    BY <2>1, <2>2, CellsOfArray
<1>6. BlocksOwned'
  BY <1>1, <1>5 DEF IInv, BlocksOwned
<1> QED
  BY <1>4, <1>6 DEF IInv

LEMMA DestroyKeeps ==
  ASSUME IInv, NEW a \in Arrays, Destroy(a)
  PROVE  IInv'
<1>1. /\ m_data'[a] = Empty
      /\ \A x \in Arrays \ {a} : m_data'[x] = m_data[x]
      /\ m_data' \in [Arrays -> [begin : Block \cup {null}, end : Nat, storage_end : Nat]]
      /\ Released(a)
  BY DEF Destroy, Empty, IInv, TypeOK
<1>2. \A x \in Arrays : size(x)' <= capacity(x)' /\ capacity(x)' = Len(Cells(x))'
  BY <1>1, ReleasedCells
<1>3. ASSUME NEW x \in Arrays, NEW y \in Arrays, x # y, m_data'[x].begin = m_data'[y].begin
      PROVE  m_data'[x].begin = null
  <2>1. CASE x = a \/ y = a
    BY <1>1, <1>3, <2>1 DEF Empty
  <2>2. CASE x # a /\ y # a
    BY <1>1, <1>3, <2>2 DEF IInv, BlocksOwned
  <2> QED
    BY <2>1, <2>2
<1>4. ASSUME NEW y
      PROVE  y \in allocated' <=> y # null /\ \E x \in Arrays : y = m_data'[x].begin
  <2>1. y \in allocated' <=> y # null /\ \E c \in Arrays \ {a} : y = m_data[c].begin
    BY <1>1, ReleasedCells
  <2>2. (y # null /\ \E x \in Arrays : y = m_data'[x].begin)
          <=> (y # null /\ \E c \in Arrays \ {a} : y = m_data[c].begin)
    BY <1>1 DEF Empty
  <2> QED
    BY <2>1, <2>2
<1>5. BlocksOwned'
  BY <1>2, <1>3, <1>4 DEF BlocksOwned
<1> QED
  BY <1>1, <1>5, ReleasedCells DEF IInv, TypeOK

LEMMA MoveKeeps ==
  ASSUME IInv, NEW a \in Arrays, NEW c \in Arrays, Move(a, c)
  PROVE  IInv'
<1>0. CASE a = c
  BY <1>0, StutterKeeps DEF Move
<1> SUFFICES ASSUME a # c PROVE IInv'
  BY <1>0
<1>1. /\ m_data'[a] = m_data[c] /\ m_data'[c] = Empty
      /\ \A x \in Arrays \ {a, c} : m_data'[x] = m_data[x]
      /\ Released(a)
  BY DEF Move, IInv, TypeOK
<1>2. m_data' \in [Arrays -> [begin : Block \cup {null}, end : Nat, storage_end : Nat]]
  <2>1. m_data' = [m_data EXCEPT ![a] = m_data[c], ![c] = Empty]
    BY DEF Move
  <2>2. Empty \in [begin : Block \cup {null}, end : Nat, storage_end : Nat]
    BY DEF Empty
  <2>3. /\ m_data \in [Arrays -> [begin : Block \cup {null}, end : Nat, storage_end : Nat]]
        /\ m_data[c] \in [begin : Block \cup {null}, end : Nat, storage_end : Nat]
    BY DEF IInv, TypeOK
  <2> QED
    BY <2>1, <2>2, <2>3
<1>3. ASSUME NEW x \in Arrays
      PROVE  size(x)' <= capacity(x)' /\ capacity(x)' = Len(Cells(x))'
  <2>1. CASE x = c
    BY <1>1, <2>1, ReleasedCells
  <2>2. CASE x # c
    <3>1. PICK y \in Arrays \ {a} : m_data'[x] = m_data[y]
      BY <1>1, <2>2
    <3> QED
      BY <1>1, <3>1, ReleasedCells
  <2> QED
    BY <2>1, <2>2
<1>4. ASSUME NEW x \in Arrays, NEW y \in Arrays, x # y, m_data'[x].begin = m_data'[y].begin
      PROVE  m_data'[x].begin = null
  <2>1. CASE x = c \/ y = c
    BY <1>1, <1>4, <2>1 DEF Empty
  <2>2. CASE x # c /\ y # c
    <3> DEFINE from(z) == IF z = a THEN c ELSE z
    <3>1. /\ m_data'[x] = m_data[from(x)] /\ m_data'[y] = m_data[from(y)]
          /\ from(x) \in Arrays /\ from(y) \in Arrays /\ from(x) # from(y)
      BY <1>1, <1>4, <2>2
    <3> HIDE DEF from
    <3> QED
      BY <1>4, <3>1 DEF IInv, BlocksOwned
  <2> QED
    BY <2>1, <2>2
<1>5. ASSUME NEW y
      PROVE  y \in allocated' <=> y # null /\ \E x \in Arrays : y = m_data'[x].begin
  <2>1. ASSUME NEW d \in Arrays \ {a}, y = m_data[d].begin
        PROVE  \E x \in Arrays : y = m_data'[x].begin
    <3>1. CASE d = c
      BY <1>1, <2>1, <3>1
    <3>2. CASE d # c
      BY <1>1, <2>1, <3>2
    <3> QED
      BY <3>1, <3>2
  <2>2. ASSUME NEW x \in Arrays, y = m_data'[x].begin, y # null
        PROVE  \E d \in Arrays \ {a} : y = m_data[d].begin
    <3>1. CASE x = a
      BY <1>1, <2>2, <3>1
    <3>2. CASE x = c
      BY <1>1, <2>2, <3>2 DEF Empty
    <3>3. CASE x # a /\ x # c
      BY <1>1, <2>2, <3>3
    <3> QED
      BY <3>1, <3>2, <3>3
  <2> QED
    BY <1>1, <2>1, <2>2, ReleasedCells
<1>6. BlocksOwned'
  BY <1>3, <1>4, <1>5 DEF BlocksOwned
<1> QED
  BY <1>1, <1>2, <1>6, ReleasedCells DEF IInv, TypeOK

LEMMA SwapKeeps ==
  ASSUME IInv, NEW a \in Arrays, NEW c \in Arrays, swap(a, c)
  PROVE  IInv'
<1>1. /\ m_data'[a] = m_data[c] /\ m_data'[c] = m_data[a]
      /\ \A x \in Arrays \ {a, c} : m_data'[x] = m_data[x]
      /\ m_data' \in [Arrays -> [begin : Block \cup {null}, end : Nat, storage_end : Nat]]
      /\ allocated' = allocated /\ memory' = memory
  BY DEF swap, IInv, TypeOK
<1>2. TypeOK'
  BY <1>1 DEF IInv, TypeOK
<1>3. ASSUME NEW x \in Arrays
      PROVE  size(x)' <= capacity(x)' /\ capacity(x)' = Len(Cells(x))'
  <2>1. PICK y \in Arrays : m_data'[x] = m_data[y]
    BY <1>1
  <2>2. Cells(x)' = Cells(y)
    BY <1>1, <2>1 DEF Cells
  <2> QED
    BY <2>1, <2>2, CellsOfArray DEF size, capacity
<1>4. ASSUME NEW x \in Arrays, NEW y \in Arrays, x # y, m_data'[x].begin = m_data'[y].begin
      PROVE  m_data'[x].begin = null
  <2> DEFINE from(z) == IF z = a THEN c ELSE IF z = c THEN a ELSE z
  <2>1. /\ m_data'[x] = m_data[from(x)] /\ m_data'[y] = m_data[from(y)]
        /\ from(x) \in Arrays /\ from(y) \in Arrays /\ from(x) # from(y)
    BY <1>1, <1>4
  <2> HIDE DEF from
  <2> QED
    BY <1>4, <2>1 DEF IInv, BlocksOwned
<1>5. {m_data'[x].begin : x \in Arrays} = {m_data[x].begin : x \in Arrays}
  BY <1>1
<1> QED
  BY <1>1, <1>2, <1>3, <1>4, <1>5 DEF IInv, BlocksOwned

-----------------------------------------------------------------------------
(* The operations.                                                          *)

\* A block that has grown holds the elements, with room behind them.
LEMMA GrownCells ==
  ASSUME IInv, NEW a \in Arrays, NEW n \in Nat, size(a) <= n
  PROVE  Grown(a, n) \in Seq(Cell) /\ Len(Grown(a, n)) = n
<1>1. /\ Raw(n) \in Seq(Cell) /\ Len(Raw(n)) = n
      /\ Contents(a) \in Seq(Byte) /\ Len(Contents(a)) = size(a)
  BY RawCells, CellsOfArray
<1> QED
  BY <1>1, AssignedInside DEF Grown

LEMMA DoubledRoom ==
  ASSUME IInv, NEW a \in Arrays
  PROVE  Doubled(a) \in Nat /\ size(a) + 1 <= Doubled(a)
<1>1. size(a) \in Nat /\ 1 \in Nat
  BY CellsOfArray
<1>2. Larger(size(a), 1) \in Nat /\ Larger(size(a), 1) >= 1
  BY <1>1, LargerOfTwo
<1> QED
  BY <1>1, <1>2 DEF Doubled

LEMMA LifecycleKeeps ==
  ASSUME IInv, NEW a \in Arrays, NEW b \in Block, Lifecycle(a, b)
  PROVE  IInv'
<1>1. ASSUME NEW r \in Seq(Byte), assign(a, b, r) PROVE IInv'
  <2> DEFINE n == Len(r)
  <2>1. n \in Nat /\ Raw(n) \in Seq(Cell) /\ Len(Raw(n)) = n
    BY RawCells
  <2>2. Constructed(Raw(n), 0, r) \in Seq(Cell) /\ Len(Constructed(Raw(n), 0, r)) = n
    BY <2>1, ConstructedInside
  <2> QED
    BY <1>1, <2>1, <2>2, ReplacedKeeps DEF assign
<1>2. ASSUME NEW r \in Ranges, assign(a, b, r) PROVE IInv'
  <2>1. 0 \in 0 .. Len(r)
    BY DEF Ranges
  <2> QED
    BY <1>1, <1>2, <2>1, RangePrefix
<1>3. ASSUME NEW c \in Arrays, Copy(a, b, c) PROVE IInv'
  BY <1>1, <1>3, CellsOfArray DEF Copy
<1>4. ASSUME NEW n \in 0 .. MaxCapacity, reserve(a, b, n) PROVE IInv'
  <2>1. n \in Nat /\ size(a) <= n /\ size(a) \in Nat
    BY <1>4, CellsOfArray, ConstantsAssumption DEF reserve, Empty, size
  <2>2. Grown(a, n) \in Seq(Cell) /\ Len(Grown(a, n)) = n
    BY <2>1, GrownCells
  <2> QED
    BY <1>4, <2>1, <2>2, ReplacedKeeps DEF reserve
<1>5. ASSUME NEW n \in 0 .. MaxCapacity, shrink_storage(a, b, n) PROVE IInv'
  <2> DEFINE kept == IF size(a) < n THEN size(a) ELSE n
             cells == Assigned(Raw(n), 0, Bytes(Cells(a), 0, kept))
  <2>1. n \in Nat /\ kept \in Nat /\ kept <= n /\ kept <= Len(Cells(a)) /\ Cells(a) \in Seq(Cell)
    BY CellsOfArray, ConstantsAssumption
  <2>2. Replaced(a, b, n, cells, kept)
    BY <1>5 DEF shrink_storage
  <2> HIDE DEF kept
  <2>3. /\ Bytes(Cells(a), 0, kept) \in Seq(Byte) /\ Len(Bytes(Cells(a), 0, kept)) = kept
        /\ Raw(n) \in Seq(Cell) /\ Len(Raw(n)) = n
    BY <2>1, BytesOfCells, RawCells
  <2>4. cells \in Seq(Cell) /\ Len(cells) = n
    BY <2>1, <2>3, AssignedInside
  <2> HIDE DEF cells
  <2> QED
    BY <2>1, <2>2, <2>4, ReplacedKeeps
<1> QED
  BY <1>2, <1>3, <1>4, <1>5, DestroyKeeps, MoveKeeps, SwapKeeps DEF Lifecycle

\* Also the first k elements of a range alone, of which the next throws.
LEMMA AppendingKeeps ==
  ASSUME IInv, NEW a \in Arrays, NEW b \in Block, NEW r \in Ranges, NEW k \in 0 .. Len(r),
         push_back(a, b, r, k)
  PROVE  IInv'
<1> DEFINE n    == size(a) + Len(r)
           done == SubSeq(r, 1, k)
<1>1. /\ size(a) \in Nat /\ capacity(a) \in Nat /\ size(a) <= capacity(a)
      /\ Cells(a) \in Seq(Cell) /\ Len(Cells(a)) = capacity(a)
      /\ Len(r) \in Nat /\ done \in Seq(Byte) /\ Len(done) = k
      /\ n \in Nat /\ size(a) + k \in Nat /\ size(a) + k <= n /\ size(a) <= n
  BY CellsOfArray, RangePrefix
<1>2. CASE n > capacity(a)
  <2> DEFINE cells == Constructed(Grown(a, n), size(a), done)
  <2>1. Replaced(a, b, n, cells, size(a) + k)
    BY <1>2 DEF push_back
  <2> HIDE DEF done, n
  <2>2. cells \in Seq(Cell) /\ Len(cells) = n
    BY <1>1, GrownCells, ConstructedInside
  <2> HIDE DEF cells
  <2> QED
    BY <1>1, <2>1, <2>2, ReplacedKeeps
<1>3. CASE ~(n > capacity(a))
  <2> DEFINE cells == Constructed(Cells(a), size(a), done)
  <2>1. InPlace(a, cells, size(a) + k)
    BY <1>3 DEF push_back
  <2>2. size(a) + k <= capacity(a)
    BY <1>1, <1>3
  <2> HIDE DEF done, n
  <2>3. cells \in Seq(Cell) /\ Len(cells) = capacity(a)
    BY <1>1, <2>2, ConstructedInside
  <2> HIDE DEF cells
  <2> QED
    BY <1>1, <2>1, <2>2, <2>3, InPlaceKeeps
<1> QED
  BY <1>2, <1>3

\* The value may be an element of the array (Byte).
LEMMA EmplacingKeeps ==
  ASSUME IInv, NEW a \in Arrays, NEW b \in Block, NEW v \in Byte,
         emplace_back(a, b, v) \/ EmplaceThrows(a, b)
  PROVE  IInv'
<1> DEFINE n == Doubled(a)
<1>1. /\ size(a) \in Nat /\ capacity(a) \in Nat /\ size(a) <= capacity(a)
      /\ Cells(a) \in Seq(Cell) /\ Len(Cells(a)) = capacity(a)
      /\ n \in Nat /\ size(a) + 1 <= n /\ size(a) <= n /\ size(a) + 1 \in Nat
      /\ <<v>> \in Seq(Byte) /\ Len(<<v>>) = 1
  BY CellsOfArray, DoubledRoom
<1>2. Grown(a, n) \in Seq(Cell) /\ Len(Grown(a, n)) = n
  BY <1>1, GrownCells
<1>3. CASE EmplaceThrows(a, b)
  BY <1>1, <1>2, <1>3, ReplacedKeeps DEF EmplaceThrows
<1>4. CASE emplace_back(a, b, v) /\ size(a) = capacity(a)
  <2> DEFINE cells == Constructed(Grown(a, n), size(a), <<v>>)
  <2>1. Replaced(a, b, n, cells, size(a) + 1)
    BY <1>4 DEF emplace_back
  <2>2. cells \in Seq(Cell) /\ Len(cells) = n
    BY <1>1, <1>2, ConstructedInside
  <2> HIDE DEF cells
  <2> QED
    BY <1>1, <2>1, <2>2, ReplacedKeeps
<1>5. CASE emplace_back(a, b, v) /\ size(a) # capacity(a)
  <2> DEFINE cells == Constructed(Cells(a), size(a), <<v>>)
  <2>1. InPlace(a, cells, size(a) + 1) /\ size(a) + 1 <= capacity(a)
    BY <1>1, <1>5 DEF emplace_back
  <2>2. cells \in Seq(Cell) /\ Len(cells) = capacity(a)
    BY <1>1, <2>1, ConstructedInside
  <2> HIDE DEF cells
  <2> QED
    BY <1>1, <2>1, <2>2, InPlaceKeeps
<1> QED
  BY <1>3, <1>4, <1>5

LEMMA InsertInPlaceKeeps ==
  ASSUME IInv, NEW a \in Arrays, NEW pos \in 0 .. size(a), NEW v \in Byte, insert_in_place(a, pos, v)
  PROVE  IInv'
<1> DEFINE n    == size(a)
           last == Bytes(Cells(a), n - 1, n)
           rest == Bytes(Cells(a), pos, n - 1)
<1>1. /\ n \in Nat /\ n - 1 \in Nat /\ pos \in Nat /\ pos <= n - 1 /\ n + 1 <= capacity(a)
      /\ capacity(a) \in Nat /\ Cells(a) \in Seq(Cell) /\ Len(Cells(a)) = capacity(a)
      /\ InPlace(a, Assigned(Opened(a, pos), pos, <<v>>), n + 1)
  BY CellsOfArray DEF insert_in_place
<1>2. /\ last \in Seq(Byte) /\ Len(last) = 1
      /\ rest \in Seq(Byte) /\ Len(rest) = n - 1 - pos
  <2>1. n - 1 <= n /\ n <= n /\ n - (n - 1) = 1
    BY <1>1
  <2>2. last \in Seq(Byte) /\ Len(last) = n - (n - 1)
    BY <1>1, <2>1, SliceOfArray
  <2>3. rest \in Seq(Byte) /\ Len(rest) = n - 1 - pos
    BY <1>1, <2>1, SliceOfArray
  <2> QED
    BY <2>1, <2>2, <2>3
<1>3. Opened(a, pos) = Assigned(Constructed(Cells(a), n, last), pos + 1, rest)
  BY DEF Opened
<1> HIDE DEF last, rest, n
<1>4. /\ Constructed(Cells(a), n, last) \in Seq(Cell)
      /\ Len(Constructed(Cells(a), n, last)) = capacity(a)
  BY <1>1, <1>2, ConstructedInside
<1>5. Opened(a, pos) \in Seq(Cell) /\ Len(Opened(a, pos)) = capacity(a)
  BY <1>1, <1>2, <1>3, <1>4, AssignedInside
<1>6. <<v>> \in Seq(Byte) /\ Len(<<v>>) = 1
  OBVIOUS
<1> DEFINE gap   == Opened(a, pos)
           cells == Assigned(gap, pos, <<v>>)
<1>7. InPlace(a, cells, n + 1) /\ gap \in Seq(Cell) /\ Len(gap) = capacity(a)
  BY <1>1, <1>5
<1> HIDE DEF gap
<1>8. cells \in Seq(Cell) /\ Len(cells) = capacity(a)
  <2>1. pos + 1 <= capacity(a)
    BY <1>1
  <2>2. pos + Len(<<v>>) <= Len(gap)
    BY <1>6, <1>7, <2>1
  <2> QED
    BY <1>1, <1>6, <1>7, <2>2, AssignedInside
<1> HIDE DEF cells
<1> QED
  BY <1>1, <1>7, <1>8, InPlaceKeeps

\* Around a new range the elements before it and behind it, in a new block.
LEMMA RegroupedKeeps ==
  ASSUME IInv, NEW a \in Arrays, NEW b \in Block, NEW pos \in 0 .. size(a), NEW r \in Seq(Byte),
         NEW n \in Nat, size(a) + Len(r) <= n,
         Replaced(a, b, n,
                  Assigned(Assigned(Constructed(Raw(n), pos, r), 0, Before(a, pos)),
                           pos + Len(r), Behind(a, pos)),
                  size(a) + Len(r))
  PROVE  IInv'
<1> DEFINE middle == Constructed(Raw(n), pos, r)
           front  == Assigned(middle, 0, Before(a, pos))
           cells  == Assigned(front, pos + Len(r), Behind(a, pos))
<1>1. /\ size(a) \in Nat /\ pos \in Nat /\ pos <= size(a) /\ Len(r) \in Nat
      /\ size(a) <= Len(Cells(a)) /\ Cells(a) \in Seq(Cell)
      /\ Raw(n) \in Seq(Cell) /\ Len(Raw(n)) = n
  BY CellsOfArray, RawCells
<1>2. /\ Before(a, pos) \in Seq(Byte) /\ Len(Before(a, pos)) = pos
      /\ Behind(a, pos) \in Seq(Byte) /\ Len(Behind(a, pos)) = size(a) - pos
  BY AroundOffset
<1>3. middle \in Seq(Cell) /\ Len(middle) = n
  BY <1>1, ConstructedInside
<1>4. front \in Seq(Cell) /\ Len(front) = n
  <2> HIDE DEF middle
  <2> QED
    BY <1>1, <1>2, <1>3, AssignedInside
<1>5. cells \in Seq(Cell) /\ Len(cells) = n
  <2> HIDE DEF front
  <2> QED
    BY <1>1, <1>2, <1>4, AssignedInside
<1>6. Replaced(a, b, n, cells, size(a) + Len(r))
  OBVIOUS
<1> HIDE DEF cells
<1> QED
  BY <1>1, <1>5, <1>6, ReplacedKeeps

\* Also of a range of which only the first k elements were constructed.
LEMMA InsertRangeKeeps ==
  ASSUME IInv, NEW a \in Arrays, NEW pos \in 0 .. size(a), NEW r \in Ranges, NEW k \in 0 .. Len(r),
         insert_range(a, pos, r, k)
  PROVE  IInv'
<1> DEFINE done  == SubSeq(r, 1, k)
           moved == Assigned(Cells(a), pos + Len(r), Behind(a, pos))
           cells == Constructed(moved, pos, done)
<1>1. /\ size(a) \in Nat /\ pos \in Nat /\ pos <= size(a) /\ Len(r) \in Nat
      /\ capacity(a) \in Nat /\ Len(Cells(a)) = capacity(a) /\ Cells(a) \in Seq(Cell)
      /\ size(a) + Len(r) <= capacity(a) /\ done \in Seq(Byte) /\ Len(done) = k /\ k <= Len(r)
      /\ size(a) + Len(r) \in Nat
  BY CellsOfArray, RangePrefix DEF insert_range
<1>2. Behind(a, pos) \in Seq(Byte) /\ Len(Behind(a, pos)) = size(a) - pos
  BY AroundOffset
<1>3. moved \in Seq(Cell) /\ Len(moved) = capacity(a)
  BY <1>1, <1>2, AssignedInside
<1>4. InPlace(a, cells, size(a) + Len(r))
  BY DEF insert_range
<1> HIDE DEF moved, done
<1>5. cells \in Seq(Cell) /\ Len(cells) = capacity(a)
  BY <1>1, <1>3, ConstructedInside
<1> HIDE DEF cells
<1> QED
  BY <1>1, <1>4, <1>5, InPlaceKeeps

LEMMA InsertKeeps ==
  ASSUME IInv, NEW a \in Arrays, NEW b \in Block, NEW pos \in 0 .. size(a), NEW v \in Byte,
         insert(a, b, pos, v)
  PROVE  IInv'
<1>1. CASE pos = size(a) /\ emplace_back(a, b, v)
  BY <1>1, EmplacingKeeps
<1>2. CASE insert_in_place(a, pos, v)
  BY <1>2, InsertInPlaceKeeps
<1>3. CASE realloc_insert(a, b, pos, v)
  <2>1. <<v>> \in Seq(Byte) /\ Len(<<v>>) = 1
    OBVIOUS
  <2>2. Doubled(a) \in Nat /\ size(a) + 1 <= Doubled(a)
    BY DoubledRoom
  <2> QED
    BY <1>3, <2>1, <2>2, RegroupedKeeps DEF realloc_insert
<1> QED
  BY <1>1, <1>2, <1>3 DEF insert

LEMMA InsertionKeeps ==
  ASSUME IInv, NEW a \in Arrays, NEW b \in Block, Insertion(a, b)
  PROVE  IInv'
<1>1. ASSUME NEW v \in Value, NEW pos \in 0 .. size(a), insert(a, b, pos, v) PROVE IInv'
  BY <1>1, InsertKeeps DEF Byte
<1>2. ASSUME NEW r \in Ranges PROVE Len(r) \in 0 .. Len(r) /\ r \in Seq(Byte) /\ Len(r) \in Nat
  <2>1. 0 \in 0 .. Len(r) /\ Len(r) \in Nat
    BY DEF Ranges
  <2> QED
    BY <2>1, RangePrefix
<1>3. ASSUME NEW r \in Ranges, push_back(a, b, r, Len(r)) PROVE IInv'
  BY <1>2, <1>3, AppendingKeeps
<1>4. ASSUME NEW r \in Ranges, NEW pos \in 0 .. size(a), insert_range_grow(a, b, pos, r) PROVE IInv'
  <2>1. capacity(a) + Len(r) \in Nat /\ size(a) + Len(r) <= capacity(a) + Len(r)
    BY <1>2, CellsOfArray
  <2> QED
    BY <1>2, <1>4, <2>1, RegroupedKeeps DEF insert_range_grow
<1>5. ASSUME NEW r \in Ranges, NEW pos \in 0 .. size(a), insert_range(a, pos, r, Len(r)) PROVE IInv'
  BY <1>2, <1>5, InsertRangeKeeps
<1> QED
  BY <1>1, <1>3, <1>4, <1>5 DEF Insertion

LEMMA ErasureKeeps ==
  ASSUME IInv, NEW a \in Arrays, Erasure(a)
  PROVE  IInv'
<1>1. /\ size(a) \in Nat /\ capacity(a) \in Nat /\ size(a) <= capacity(a)
      /\ Cells(a) \in Seq(Cell) /\ Len(Cells(a)) = capacity(a)
  BY CellsOfArray
<1>2. CASE pop_back(a)
  BY <1>1, <1>2, DestroyedInside, InPlaceKeeps DEF pop_back
<1>3. CASE clear(a)
  BY <1>1, <1>3, DestroyedInside, InPlaceKeeps DEF clear
<1>4. ASSUME NEW first \in 0 .. size(a), NEW last \in first .. size(a), erase(a, first, last)
      PROVE  IInv'
  <2> DEFINE gone  == Destroyed(Cells(a), first, last)
             cells == Assigned(gone, first, Behind(a, last))
  <2>1. /\ first \in Nat /\ last \in Nat /\ first <= last /\ last <= size(a)
        /\ gone \in Seq(Cell) /\ Len(gone) = capacity(a)
    BY <1>1, DestroyedInside
  <2>2. Behind(a, last) \in Seq(Byte) /\ Len(Behind(a, last)) = size(a) - last
    BY <1>1, <2>1, BytesOfCells DEF Behind
  <2>3. InPlace(a, cells, size(a) - (last - first))
    BY <1>4 DEF erase
  <2> HIDE DEF gone
  <2>4. cells \in Seq(Cell) /\ Len(cells) = capacity(a)
    BY <1>1, <2>1, <2>2, AssignedInside
  <2> HIDE DEF cells
  <2>5. size(a) - (last - first) \in Nat /\ size(a) - (last - first) <= capacity(a)
    BY <1>1, <2>1
  <2> QED
    BY <2>3, <2>4, <2>5, InPlaceKeeps
<1> QED
  BY <1>2, <1>3, <1>4 DEF Erasure

LEMMA ThrowKeeps ==
  ASSUME IInv, NEW a \in Arrays, NEW b \in Block, Throw(a, b)
  PROVE  IInv'
<1>1. ASSUME NEW between, NEW i \in 1 .. size(a), CopyThrows(a, i, between) PROVE IInv'
  <2>1. i - 1 \in Int
    BY CellsOfArray
  <2>2. PICK first : /\ first = [x \in between \cup {m_data[a].begin} |->
                                   IF x = m_data[a].begin THEN i - 1 ELSE 0]
    OBVIOUS
  <2>3. Overrun(first)
    BY <1>1, <2>2 DEF CopyThrows
  <2>4. \A x \in DOMAIN first : first[x] \in Int
    BY <2>1, <2>2
  <2> QED
    BY <2>3, <2>4, OverrunKeeps
<1>6. ASSUME NEW between, ListThrows(between) PROVE IInv'
  <2>1. PICK first : first = [x \in between |-> 0]
    OBVIOUS
  <2> QED
    BY <1>6, <2>1, OverrunKeeps DEF ListThrows
<1>7. ASSUME NEW pos, ReallocThrows(a, pos) PROVE IInv'
  BY <1>7, StutterKeeps DEF ReallocThrows
<1>2. CASE EmplaceThrows(a, b)
  BY <1>2, EmplacingKeeps DEF Byte
<1>3. ASSUME NEW r \in Ranges, NEW k \in 0 .. Len(r) - 1 PROVE k \in 0 .. Len(r)
  <2>1. 0 \in 0 .. Len(r) /\ Len(r) \in Nat
    BY DEF Ranges
  <2> QED
    BY <2>1
<1>4. ASSUME NEW r \in Ranges, NEW k \in 0 .. Len(r) - 1, push_back(a, b, r, k) PROVE IInv'
  BY <1>3, <1>4, AppendingKeeps
<1>5. ASSUME NEW r \in Ranges, NEW k \in 0 .. Len(r) - 1, NEW pos \in 0 .. size(a),
             insert_range(a, pos, r, k)
      PROVE  IInv'
  BY <1>3, <1>5, InsertRangeKeeps
<1> QED
  BY <1>1, <1>2, <1>4, <1>5, <1>6, <1>7 DEF Throw

-----------------------------------------------------------------------------
(* What the elements are after a step.                                      *)

\* The bytes of the cells after a construction, an assignment, a destruction.
LEMMA WrittenCells ==
  ASSUME NEW cells \in Seq(Cell), NEW new \in Seq(Cell), NEW from \in Nat,
         from + Len(new) <= Len(cells)
  PROVE  \A i \in 1 .. Len(cells) :
           Written(cells, from, new)[i] = IF i - from \in 1 .. Len(new) THEN new[i - from] ELSE cells[i]
<1>1. Larger(Len(cells), from + Len(new)) = Len(cells)
  BY LargerOfTwo
<1>2. DOMAIN new = 1 .. Len(new)
  OBVIOUS
<1> QED
  BY <1>1, <1>2 DEF Written

LEMMA ConstructedBytes ==
  ASSUME NEW cells \in Seq(Cell), NEW vals \in Seq(Byte), NEW from \in Nat,
         from + Len(vals) <= Len(cells)
  PROVE  \A i \in 1 .. Len(cells) :
           Constructed(cells, from, vals)[i].val =
             IF i - from \in 1 .. Len(vals) THEN vals[i - from] ELSE cells[i].val
<1> DEFINE n == Len(vals)
           new == [k \in DOMAIN vals |-> [val |-> vals[k], live |-> TRUE]]
<1>1. n \in Nat /\ DOMAIN vals = 1 .. n /\ \A k \in 1 .. n : vals[k] \in Byte
  OBVIOUS
<1>2. new \in [1 .. n -> Cell] /\ \A k \in 1 .. n : new[k].val = vals[k]
  BY <1>1 DEF Cell, Byte
<1>3. Constructed(cells, from, vals) = Written(cells, from, new)
  BY DEF Constructed
<1> HIDE DEF new, n
<1>4. new \in Seq(Cell) /\ Len(new) = n
  BY <1>1, <1>2
<1>5. \A i \in 1 .. Len(cells) :
        Written(cells, from, new)[i] = IF i - from \in 1 .. n THEN new[i - from] ELSE cells[i]
  BY <1>4, WrittenCells DEF n
<1> QED
  BY <1>2, <1>3, <1>5 DEF n

LEMMA AssignedBytes ==
  ASSUME NEW cells \in Seq(Cell), NEW vals \in Seq(Byte), NEW from \in Nat,
         from + Len(vals) <= Len(cells)
  PROVE  \A i \in 1 .. Len(cells) :
           Assigned(cells, from, vals)[i].val =
             IF i - from \in 1 .. Len(vals) THEN vals[i - from] ELSE cells[i].val
<1> DEFINE n == Len(vals)
           lives(k) == from + k \in DOMAIN cells /\ cells[from + k].live
           new == [k \in DOMAIN vals |-> [val |-> vals[k], live |-> lives(k)]]
<1>1. n \in Nat /\ DOMAIN vals = 1 .. n /\ \A k \in 1 .. n : vals[k] \in Byte
  OBVIOUS
<1>2. \A k \in 1 .. n : lives(k) \in BOOLEAN
  BY DEF Cell
<1>3. Assigned(cells, from, vals) = Written(cells, from, new)
  BY DEF Assigned
<1> HIDE DEF lives
<1>4. new \in [1 .. n -> Cell] /\ \A k \in 1 .. n : new[k].val = vals[k]
  BY <1>1, <1>2 DEF Cell, Byte
<1> HIDE DEF new, n
<1>5. new \in Seq(Cell) /\ Len(new) = n
  BY <1>1, <1>4
<1>6. \A i \in 1 .. Len(cells) :
        Written(cells, from, new)[i] = IF i - from \in 1 .. n THEN new[i - from] ELSE cells[i]
  BY <1>5, WrittenCells DEF n
<1> QED
  BY <1>3, <1>4, <1>6 DEF n

\* A construction and an assignment in full.
Overwritten(after, cells, from, vals) ==
  /\ after \in Seq(Cell) /\ Len(after) = Len(cells)
  /\ \A i \in 1 .. Len(cells) :
       after[i].val = IF i - from \in 1 .. Len(vals) THEN vals[i - from] ELSE cells[i].val

LEMMA ConstructionOverwrites ==
  ASSUME NEW cells \in Seq(Cell), NEW vals \in Seq(Byte), NEW from \in Nat,
         from + Len(vals) <= Len(cells)
  PROVE  Overwritten(Constructed(cells, from, vals), cells, from, vals)
BY ConstructedInside, ConstructedBytes DEF Overwritten

LEMMA AssignmentOverwrites ==
  ASSUME NEW cells \in Seq(Cell), NEW vals \in Seq(Byte), NEW from \in Nat,
         from + Len(vals) <= Len(cells)
  PROVE  Overwritten(Assigned(cells, from, vals), cells, from, vals)
BY AssignedInside, AssignedBytes DEF Overwritten

LEMMA DestroyedBytes ==
  ASSUME NEW cells \in Seq(Cell), NEW first \in Int, NEW last \in Int
  PROVE  \A i \in 1 .. Len(cells) : Destroyed(cells, first, last)[i].val = cells[i].val
<1>1. DOMAIN cells = 1 .. Len(cells) /\ \A i \in 1 .. Len(cells) : cells[i] \in Cell
  OBVIOUS
<1> QED
  BY <1>1 DEF Destroyed, Cell

\* Their lives, where nothing is constructed and nothing destroyed.
LEMMA ConstructedNothing ==
  ASSUME NEW cells \in Seq(Cell), NEW vals \in Seq(Byte), Len(vals) = 0, NEW from \in Nat,
         from <= Len(cells)
  PROVE  \A i \in 1 .. Len(cells) : Constructed(cells, from, vals)[i] = cells[i]
<1>1. PICK new : new = [k \in DOMAIN vals |-> [val |-> vals[k], live |-> TRUE]]
  OBVIOUS
<1>2. DOMAIN new = {} /\ Constructed(cells, from, vals) = Written(cells, from, new)
  BY <1>1 DEF Constructed
<1>3. Len(new) = 0 /\ new \in Seq(Cell)
  <2>1. vals = << >> /\ new = << >>
    BY <1>1
  <2> QED
    BY <2>1
<1>4. from + Len(new) <= Len(cells) /\ \A i \in 1 .. Len(cells) : i - from \notin 1 .. Len(new)
  BY <1>3
<1>5. \A i \in 1 .. Len(cells) :
        Written(cells, from, new)[i] = IF i - from \in 1 .. Len(new) THEN new[i - from] ELSE cells[i]
  BY <1>3, <1>4, WrittenCells
<1> QED
  BY <1>2, <1>4, <1>5

LEMMA AssignedLives ==
  ASSUME NEW cells \in Seq(Cell), NEW vals \in Seq(Byte), NEW from \in Nat,
         from + Len(vals) <= Len(cells)
  PROVE  \A i \in 1 .. Len(cells) : Assigned(cells, from, vals)[i].live = cells[i].live
<1> DEFINE n == Len(vals)
           lives(k) == from + k \in DOMAIN cells /\ cells[from + k].live
           new == [k \in DOMAIN vals |-> [val |-> vals[k], live |-> lives(k)]]
<1>1. n \in Nat /\ DOMAIN vals = 1 .. n /\ \A k \in 1 .. n : vals[k] \in Byte
  OBVIOUS
<1>2. \A k \in 1 .. n : lives(k) \in BOOLEAN
  BY DEF Cell
<1>3. \A k \in 1 .. n : lives(k) = cells[from + k].live
  <2>1. \A k \in 1 .. n : from + k \in DOMAIN cells /\ cells[from + k] \in Cell
    BY <1>1
  <2>2. \A k \in 1 .. n : cells[from + k].live \in BOOLEAN
    BY <2>1 DEF Cell
  <2> QED
    BY <2>1, <2>2
<1>4. Assigned(cells, from, vals) = Written(cells, from, new)
  BY DEF Assigned
<1> HIDE DEF lives
<1>5. new \in [1 .. n -> Cell] /\ \A k \in 1 .. n : new[k].live = lives(k)
  BY <1>1, <1>2 DEF Cell, Byte
<1> HIDE DEF new, n
<1>6. new \in Seq(Cell) /\ Len(new) = n
  BY <1>1, <1>5
<1>7. \A i \in 1 .. Len(cells) :
        Written(cells, from, new)[i] = IF i - from \in 1 .. n THEN new[i - from] ELSE cells[i]
  BY <1>6, WrittenCells DEF n
<1>8. ASSUME NEW i \in 1 .. Len(cells), i - from \in 1 .. n PROVE new[i - from].live = cells[i].live
  <2>1. PICK k : k = i - from
    OBVIOUS
  <2>2. k \in 1 .. n /\ from + k = i
    BY <1>8, <2>1
  <2> QED
    BY <1>3, <1>5, <2>1, <2>2
<1> QED
  BY <1>4, <1>7, <1>8

LEMMA DestroyedNothing ==
  ASSUME NEW cells \in Seq(Cell), NEW first \in Int
  PROVE  Destroyed(cells, first, first) = cells
<1>1. \A i \in DOMAIN cells : i \notin first + 1 .. first
  OBVIOUS
<1> QED
  BY <1>1 DEF Destroyed

LEMMA SameCell ==
  ASSUME NEW x \in Cell, NEW y \in Cell, x.val = y.val, x.live = y.live
  PROVE  x = y
BY DEF Cell

\* The bytes of the elements of an array, and of the parts of it.
LEMMA ElementsAt ==
  ASSUME IInv, NEW a \in Arrays
  PROVE  /\ \A k \in 1 .. size(a) : Contents(a)[k] = Cells(a)[k].val
         /\ \A pos \in 0 .. size(a) :
              /\ \A k \in 1 .. pos : Before(a, pos)[k] = Cells(a)[k].val
              /\ \A k \in 1 .. size(a) - pos : Behind(a, pos)[k] = Cells(a)[pos + k].val
BY CellsOfArray DEF Contents, Before, Behind, Bytes

LEMMA InPlaceContents ==
  ASSUME IInv, NEW a \in Arrays, NEW cells, NEW end \in Nat, InPlace(a, cells, end),
         end <= capacity(a)
  PROVE  Contents(a)' = Bytes(cells, 0, end)
<1>1. m_data[a].begin \in Block \cup {null} /\ (m_data[a].begin = null => capacity(a) = 0)
  BY CellsOfArray DEF Cells
<1>2. m_data'[a].begin = m_data[a].begin /\ m_data'[a].end = end
  BY DEF InPlace, IInv, TypeOK
<1>3. CASE m_data[a].begin # null
  BY <1>1, <1>2, <1>3 DEF InPlace, Contents, Cells, size
<1>4. CASE m_data[a].begin = null
  <2>1. end = 0
    BY <1>1, <1>4
  <2> QED
    BY <1>2, <2>1 DEF Contents, Bytes, size
<1> QED
  BY <1>3, <1>4

LEMMA ReplacedContents ==
  ASSUME IInv, NEW a \in Arrays, NEW b, NEW n, NEW cells, NEW end, Replaced(a, b, n, cells, end)
  PROVE  Contents(a)' = Bytes(cells, 0, end) /\ capacity(a)' = n
<1>1. b \in Block /\ b # null
  BY ConstantsAssumption DEF Replaced
<1>2. m_data'[a] = [begin |-> b, end |-> end, storage_end |-> n] /\ memory'[b] = cells
  BY <1>1 DEF Replaced, IInv, TypeOK
<1> QED
  BY <1>1, <1>2 DEF Contents, Cells, size, capacity

LEMMA Joined ==
  ASSUME NEW s \in Seq(Byte), NEW r \in Seq(Byte)
  PROVE  /\ s \o r \in Seq(Byte) /\ Len(s \o r) = Len(s) + Len(r)
         /\ \A i \in 1 .. Len(s) + Len(r) : (s \o r)[i] = IF i <= Len(s) THEN s[i] ELSE r[i - Len(s)]
BY ConcatProperties

\* Cells with the elements before first, the range r and the elements behind last.
LEMMA SplicedFromBytes ==
  ASSUME IInv, NEW a \in Arrays, NEW first \in Nat, NEW last \in Nat, first <= last, last <= size(a),
         NEW r \in Seq(Byte), NEW cells, NEW end,
         end = size(a) - (last - first) + Len(r),
         \A i \in 1 .. first : cells[i].val = Cells(a)[i].val,
         \A i \in 1 .. Len(r) : cells[first + i].val = r[i],
         \A i \in 1 .. size(a) - last : cells[first + Len(r) + i].val = Cells(a)[last + i].val,
         Contents(a)' = Bytes(cells, 0, end)
  PROVE  Spliced(a, first, last, r)
<1>1. PICK s, n, m : s = Contents(a) /\ n = size(a) /\ m = Len(r)
  OBVIOUS
<1>2. /\ n \in Nat /\ m \in Nat /\ s \in Seq(Byte) /\ Len(s) = n
      /\ \A k \in 1 .. n : s[k] = Cells(a)[k].val
  BY <1>1, CellsOfArray, ElementsAt
<1>3. PICK p, q : p = SubSeq(s, 1, first) /\ q = SubSeq(s, last + 1, n)
  OBVIOUS
<1>4. p \in Seq(Byte) /\ Len(p) = first /\ \A i \in 1 .. first : p[i] = s[i]
  <2>1. \A i \in 1 .. first : s[i] \in Byte
    BY <1>1, <1>2
  <2>2. /\ p \in Seq(Byte) /\ Len(p) = IF 1 <= first THEN first - 1 + 1 ELSE 0
        /\ \A i \in 1 .. first - 1 + 1 : p[i] = s[1 + i - 1]
    BY <1>3, <2>1, SubSeqProperties
  <2> QED
    BY <2>2
<1>5. q \in Seq(Byte) /\ Len(q) = n - last /\ \A i \in 1 .. n - last : q[i] = s[last + i]
  <2>1. last + 1 \in Int /\ \A i \in last + 1 .. n : s[i] \in Byte
    BY <1>1, <1>2
  <2>2. /\ q \in Seq(Byte) /\ Len(q) = IF last + 1 <= n THEN n - (last + 1) + 1 ELSE 0
        /\ \A i \in 1 .. n - (last + 1) + 1 : q[i] = s[last + 1 + i - 1]
    BY <1>2, <1>3, <2>1, SubSeqProperties
  <2>3. /\ n - (last + 1) + 1 = n - last
        /\ \A i \in Int : last + 1 + i - 1 = last + i
    BY <1>2
  <2> QED
    BY <1>1, <1>2, <2>2, <2>3
<1>6. PICK u, t : u = p \o r /\ t = u \o q
  OBVIOUS
<1>7. /\ u \in Seq(Byte) /\ Len(u) = first + m
      /\ \A i \in 1 .. first + m : u[i] = IF i <= first THEN p[i] ELSE r[i - first]
  <2>1. /\ u \in Seq(Byte) /\ Len(u) = Len(p) + Len(r)
        /\ \A i \in 1 .. Len(p) + Len(r) : u[i] = IF i <= Len(p) THEN p[i] ELSE r[i - Len(p)]
    BY <1>4, <1>6, Joined
  <2> QED
    BY <1>1, <1>4, <2>1
<1>8. /\ t \in Seq(Byte) /\ Len(t) = end /\ end \in Nat
      /\ \A i \in 1 .. end : t[i] = IF i <= first + m THEN u[i] ELSE q[i - (first + m)]
  <2>1. /\ t \in Seq(Byte) /\ Len(t) = Len(u) + Len(q)
        /\ \A i \in 1 .. Len(u) + Len(q) : t[i] = IF i <= Len(u) THEN u[i] ELSE q[i - Len(u)]
    BY <1>5, <1>6, <1>7, Joined
  <2>2. Len(u) + Len(q) = end /\ end \in Nat
    BY <1>1, <1>2, <1>5, <1>7
  <2> QED
    BY <1>7, <2>1, <2>2
<1>9. ASSUME NEW i \in 1 .. end PROVE t[i] = cells[i].val
  <2>1. CASE i <= first
    <3>1. i \in 1 .. first /\ i \in 1 .. n /\ i \in 1 .. first + m /\ i <= first + m
      BY <1>1, <1>2, <2>1
    <3>2. t[i] = u[i] /\ u[i] = p[i]
      BY <1>7, <1>8, <2>1, <3>1
    <3>3. p[i] = s[i] /\ s[i] = Cells(a)[i].val
      BY <1>2, <1>4, <3>1
    <3> QED
      BY <3>1, <3>2, <3>3
  <2>2. CASE i > first /\ i <= first + m
    <3>1. PICK j : j = i - first
      OBVIOUS
    <3>2. j \in 1 .. m /\ first + j = i /\ i \in 1 .. first + m /\ ~ (i <= first)
      BY <1>2, <2>2, <3>1
    <3> QED
      BY <1>1, <1>7, <1>8, <3>1, <3>2
  <2>3. CASE i > first + m
    <3>1. PICK j : j = i - (first + m)
      OBVIOUS
    <3>2. /\ j \in 1 .. n - last /\ first + m + j = i /\ last + j \in 1 .. n
          /\ ~ (i <= first + m)
      BY <1>1, <1>2, <2>3, <3>1
    <3>3. t[i] = q[j] /\ q[j] = s[last + j]
      BY <1>5, <1>8, <3>1, <3>2
    <3> QED
      BY <1>1, <1>2, <3>2, <3>3
  <2> QED
    BY <1>2, <2>1, <2>2, <2>3
<1>10. Contents(a)' = [i \in 1 .. end |-> cells[i].val]
  BY <1>8 DEF Bytes
<1>11. t = [i \in 1 .. end |-> t[i]]
  BY <1>8
<1>12. Contents(a)' = t
  BY <1>9, <1>10, <1>11
<1> QED
  BY <1>1, <1>3, <1>6, <1>12 DEF Spliced

\* Nothing in place of the elements from first to last.
LEMMA CutFromBytes ==
  ASSUME IInv, NEW a \in Arrays, NEW first \in Nat, NEW last \in Nat, first <= last, last <= size(a),
         NEW cells, NEW end, end = size(a) - (last - first),
         \A i \in 1 .. first : cells[i].val = Cells(a)[i].val,
         \A i \in 1 .. size(a) - last : cells[first + i].val = Cells(a)[last + i].val,
         Contents(a)' = Bytes(cells, 0, end)
  PROVE  Spliced(a, first, last, << >>)
<1>1. PICK r : r = << >>
  OBVIOUS
<1>2. r \in Seq(Byte) /\ Len(r) = 0 /\ first + Len(r) = first /\ size(a) \in Nat
  BY <1>1, CellsOfArray
<1>3. end = size(a) - (last - first) + Len(r)
  BY <1>2
<1>4. \A i \in 1 .. Len(r) : cells[first + i].val = r[i]
  BY <1>2
<1>5. \A i \in 1 .. size(a) - last : cells[first + Len(r) + i].val = Cells(a)[last + i].val
  BY <1>2
<1>6. Spliced(a, first, last, r)
  BY <1>2, <1>3, <1>4, <1>5, SplicedFromBytes
<1> QED
  BY <1>1, <1>6

\* All elements as they were.
LEMMA KeptFromBytes ==
  ASSUME IInv, NEW a \in Arrays, NEW cells,
         \A i \in 1 .. size(a) : cells[i].val = Cells(a)[i].val,
         Contents(a)' = Bytes(cells, 0, size(a))
  PROVE  Spliced(a, 0, 0, << >>)
<1>1. size(a) \in Nat /\ size(a) - (0 - 0) = size(a) /\ size(a) - 0 = size(a)
  BY CellsOfArray
<1>2. \A i \in 1 .. size(a) - 0 : cells[0 + i].val = Cells(a)[0 + i].val
  BY <1>1
<1>3. \A i \in 1 .. 0 : cells[i].val = Cells(a)[i].val
  OBVIOUS
<1>4. PICK zero, end : zero = 0 /\ end = size(a)
  OBVIOUS
<1>5. Spliced(a, zero, zero, << >>)
  BY <1>1, <1>2, <1>3, <1>4, CutFromBytes
<1> QED
  BY <1>4, <1>5

\* A block that has grown holds the elements.
LEMMA GrownBytes ==
  ASSUME IInv, NEW a \in Arrays, NEW n \in Nat, size(a) <= n
  PROVE  \A i \in 1 .. size(a) : Grown(a, n)[i].val = Cells(a)[i].val
<1>1. /\ Raw(n) \in Seq(Cell) /\ Len(Raw(n)) = n /\ size(a) \in Nat
      /\ Contents(a) \in Seq(Byte) /\ Len(Contents(a)) = size(a)
  BY RawCells, CellsOfArray
<1>2. PICK s, old, raw, grown : s = size(a) /\ old = Contents(a) /\ raw = Raw(n) /\ grown = Grown(a, n)
  OBVIOUS
<1>3. Overwritten(grown, raw, 0, old)
  <2>1. 0 \in Nat /\ 0 + Len(old) <= Len(raw)
    BY <1>1, <1>2
  <2> QED
    BY <1>1, <1>2, <2>1, AssignmentOverwrites DEF Grown
<1>4. \A i \in 1 .. s : i \in 1 .. n /\ i - 0 = i
  BY <1>1, <1>2
<1>5. \A i \in 1 .. s : grown[i].val = old[i]
  BY <1>1, <1>2, <1>3, <1>4 DEF Overwritten
<1>6. \A i \in 1 .. s : old[i] = Cells(a)[i].val
  BY <1>2, ElementsAt
<1> QED
  BY <1>2, <1>5, <1>6

\* A range in place of all elements.
LEMMA AssignContents ==
  ASSUME IInv, NEW a \in Arrays, NEW b, NEW r \in Seq(Byte), assign(a, b, r)
  PROVE  Contents(a)' = r
<1>1. PICK n, cells : n = Len(r) /\ cells = Constructed(Raw(n), 0, r)
  OBVIOUS
<1>2. n \in Nat /\ Raw(n) \in Seq(Cell) /\ Len(Raw(n)) = n /\ 0 + n <= n
  BY <1>1, RawCells
<1>3. \A i \in 1 .. n : cells[i].val = r[i]
  <2>1. \A i \in 1 .. n : cells[i].val = IF i - 0 \in 1 .. n THEN r[i - 0] ELSE Raw(n)[i].val
    BY <1>1, <1>2, ConstructedBytes
  <2> QED
    BY <1>2, <2>1
<1>4. Contents(a)' = Bytes(cells, 0, n)
  BY <1>1, ReplacedContents DEF assign
<1>5. Bytes(cells, 0, n) = [i \in 1 .. n |-> r[i]]
  BY <1>2, <1>3 DEF Bytes
<1> QED
  BY <1>1, <1>4, <1>5

LEMMA SplicedWhole ==
  ASSUME IInv, NEW a \in Arrays, NEW r \in Seq(Byte), Contents(a)' = r
  PROVE  Spliced(a, 0, size(a), r)
<1>1. size(a) \in Nat /\ size(a) + 1 \in Int /\ 1 \in Int /\ 0 \in Int
  BY CellsOfArray
<1>2. SubSeq(Contents(a), 1, 0) = << >> /\ SubSeq(Contents(a), size(a) + 1, size(a)) = << >>
  BY <1>1, SubSeqEmpty
<1>3. << >> \o r \o << >> = r
  <2>1. << >> \o r = r
    BY ConcatEmptySeq
  <2>2. r \o << >> = r
    BY ConcatEmptySeq
  <2> QED
    BY <2>1, <2>2
<1> QED
  BY <1>2, <1>3 DEF Spliced

LEMMA ReserveSplices ==
  ASSUME IInv, NEW a \in Arrays, NEW b, NEW n \in 0 .. MaxCapacity, reserve(a, b, n)
  PROVE  Spliced(a, 0, 0, << >>) /\ capacity(a)' = n
<1>1. n \in Nat /\ size(a) <= n /\ size(a) \in Nat /\ << >> \in Seq(Byte) /\ Len(<< >>) = 0
  BY CellsOfArray, ConstantsAssumption DEF reserve, Empty, size
<1>2. Contents(a)' = Bytes(Grown(a, n), 0, size(a)) /\ capacity(a)' = n
  BY ReplacedContents DEF reserve
<1>3. \A i \in 1 .. size(a) : Grown(a, n)[i].val = Cells(a)[i].val
  BY <1>1, GrownBytes
<1>4. Spliced(a, 0, 0, << >>)
  BY <1>2, <1>3, KeptFromBytes
<1> QED
  BY <1>2, <1>4

LEMMA ShrinkSplices ==
  ASSUME IInv, NEW a \in Arrays, NEW b, NEW n \in 0 .. MaxCapacity, shrink_storage(a, b, n)
  PROVE  Spliced(a, IF n < size(a) THEN n ELSE size(a), size(a), << >>)
<1>1. PICK kept, cells : /\ kept = IF size(a) < n THEN size(a) ELSE n
                         /\ cells = Assigned(Raw(n), 0, Bytes(Cells(a), 0, kept))
  OBVIOUS
<1>2. /\ n \in Nat /\ size(a) \in Nat /\ kept \in Nat /\ kept <= n /\ kept <= size(a)
      /\ kept <= Len(Cells(a)) /\ Cells(a) \in Seq(Cell)
      /\ kept = IF n < size(a) THEN n ELSE size(a)
  BY <1>1, CellsOfArray, ConstantsAssumption
<1>3. /\ Bytes(Cells(a), 0, kept) \in Seq(Byte) /\ Len(Bytes(Cells(a), 0, kept)) = kept
      /\ Raw(n) \in Seq(Cell) /\ Len(Raw(n)) = n
  <2>1. 0 \in Nat /\ 0 <= kept /\ kept - 0 = kept
    BY <1>2
  <2>2. Bytes(Cells(a), 0, kept) \in Seq(Byte) /\ Len(Bytes(Cells(a), 0, kept)) = kept - 0
    BY <1>2, <2>1, SliceOfArray
  <2> QED
    BY <1>2, <2>1, <2>2, RawCells
<1>4. \A i \in 1 .. kept : cells[i].val = Cells(a)[i].val
  <2>1. \A i \in 1 .. n : cells[i].val = IF i - 0 \in 1 .. kept THEN Bytes(Cells(a), 0, kept)[i - 0]
                                         ELSE Raw(n)[i].val
    BY <1>1, <1>2, <1>3, AssignedBytes
  <2>2. \A i \in 1 .. kept : Bytes(Cells(a), 0, kept)[i] = Cells(a)[i].val
    BY <1>2 DEF Bytes
  <2> QED
    BY <1>2, <2>1, <2>2
<1>5. Contents(a)' = Bytes(cells, 0, kept)
  BY <1>1, ReplacedContents DEF shrink_storage
<1>6. kept = size(a) - (size(a) - kept) /\ size(a) <= size(a)
  BY <1>2
<1>7. \A i \in 1 .. size(a) - size(a) : cells[kept + i].val = Cells(a)[size(a) + i].val
  BY <1>2
<1>8. PICK n1 : n1 = size(a)
  OBVIOUS
<1>9. Spliced(a, kept, n1, << >>)
  BY <1>2, <1>4, <1>5, <1>6, <1>7, <1>8, CutFromBytes
<1> QED
  BY <1>2, <1>8, <1>9

\* r behind the elements, constructed in their block or in a larger one.
LEMMA AppendedSplices ==
  ASSUME IInv, NEW a \in Arrays, NEW r \in Seq(Byte), NEW cells \in Seq(Cell),
         size(a) + Len(r) <= Len(cells),
         \A i \in 1 .. size(a) : cells[i].val = Cells(a)[i].val,
         Contents(a)' = Bytes(Constructed(cells, size(a), r), 0, size(a) + Len(r))
  PROVE  Spliced(a, size(a), size(a), r)
<1>1. PICK n, m, new : n = size(a) /\ m = Len(r) /\ new = Constructed(cells, n, r)
  OBVIOUS
<1>2. n \in Nat /\ m \in Nat /\ Len(cells) \in Nat /\ n + m <= Len(cells)
  BY <1>1, CellsOfArray
<1>3. \A i \in 1 .. Len(cells) : new[i].val = IF i - n \in 1 .. m THEN r[i - n] ELSE cells[i].val
  <2>1. n + Len(r) <= Len(cells)
    BY <1>1, <1>2
  <2>2. \A i \in 1 .. Len(cells) :
          Constructed(cells, n, r)[i].val = IF i - n \in 1 .. Len(r) THEN r[i - n] ELSE cells[i].val
    BY <1>2, <2>1, ConstructedBytes
  <2> QED
    BY <1>1, <2>2
<1>4. ASSUME NEW i \in 1 .. n PROVE new[i].val = Cells(a)[i].val
  <2>1. i \in 1 .. Len(cells) /\ i - n \notin 1 .. m
    BY <1>2
  <2> QED
    BY <1>1, <1>3, <2>1
<1>5. ASSUME NEW i \in 1 .. m PROVE new[n + i].val = r[i]
  <2>1. PICK j : j = n + i
    OBVIOUS
  <2>2. j \in 1 .. Len(cells) /\ j - n = i
    BY <1>2, <2>1
  <2> QED
    BY <1>3, <2>1, <2>2
<1>6. PICK end : end = n + m
  OBVIOUS
<1>7. end = size(a) - (n - n) + Len(r) /\ n <= n /\ n <= size(a)
  BY <1>1, <1>2, <1>6
<1>8. \A i \in 1 .. size(a) - n : new[n + Len(r) + i].val = Cells(a)[n + i].val
  BY <1>1, <1>2
<1>9. Contents(a)' = Bytes(new, 0, end)
  BY <1>1, <1>6
<1>10. \A i \in 1 .. Len(r) : new[n + i].val = r[i]
  BY <1>1, <1>5
<1>11. Spliced(a, n, n, r)
  BY <1>2, <1>4, <1>7, <1>8, <1>9, <1>10, SplicedFromBytes
<1> QED
  BY <1>1, <1>11

LEMMA AppendingSplices ==
  ASSUME IInv, NEW a \in Arrays, NEW b, NEW r \in Ranges, NEW k \in 0 .. Len(r), push_back(a, b, r, k)
  PROVE  Spliced(a, size(a), size(a), SubSeq(r, 1, k))
<1>1. PICK n, done : n = size(a) + Len(r) /\ done = SubSeq(r, 1, k)
  OBVIOUS
<1>2. /\ size(a) \in Nat /\ capacity(a) \in Nat /\ size(a) <= capacity(a)
      /\ Cells(a) \in Seq(Cell) /\ Len(Cells(a)) = capacity(a)
      /\ Len(r) \in Nat /\ done \in Seq(Byte) /\ Len(done) = k
      /\ n \in Nat /\ size(a) + k \in Nat /\ size(a) + k <= n /\ size(a) <= n
  BY <1>1, CellsOfArray, RangePrefix
<1>3. CASE n > capacity(a)
  <2>1. Replaced(a, b, n, Constructed(Grown(a, n), size(a), done), size(a) + k)
    BY <1>1, <1>3 DEF push_back
  <2>2. Contents(a)' = Bytes(Constructed(Grown(a, n), size(a), done), 0, size(a) + k)
    BY <2>1, ReplacedContents
  <2>3. Grown(a, n) \in Seq(Cell) /\ Len(Grown(a, n)) = n
    BY <1>2, GrownCells
  <2>4. \A i \in 1 .. size(a) : Grown(a, n)[i].val = Cells(a)[i].val
    BY <1>2, GrownBytes
  <2> QED
    BY <1>1, <1>2, <2>2, <2>3, <2>4, AppendedSplices
<1>4. CASE ~(n > capacity(a))
  <2>1. InPlace(a, Constructed(Cells(a), size(a), done), size(a) + k) /\ size(a) + k <= capacity(a)
    BY <1>1, <1>2, <1>4 DEF push_back
  <2>2. Contents(a)' = Bytes(Constructed(Cells(a), size(a), done), 0, size(a) + k)
    BY <1>2, <2>1, InPlaceContents
  <2> QED
    BY <1>1, <1>2, <2>1, <2>2, AppendedSplices
<1> QED
  BY <1>3, <1>4

LEMMA EmplacingSplices ==
  ASSUME IInv, NEW a \in Arrays, NEW b, NEW v \in Byte, emplace_back(a, b, v)
  PROVE  Spliced(a, size(a), size(a), <<v>>)
<1>1. PICK n, r : n = Doubled(a) /\ r = <<v>>
  OBVIOUS
<1>2. /\ size(a) \in Nat /\ capacity(a) \in Nat /\ size(a) <= capacity(a)
      /\ Cells(a) \in Seq(Cell) /\ Len(Cells(a)) = capacity(a)
      /\ n \in Nat /\ size(a) + 1 <= n /\ size(a) <= n /\ size(a) + 1 \in Nat
      /\ r \in Seq(Byte) /\ Len(r) = 1
  BY <1>1, CellsOfArray, DoubledRoom
<1>3. CASE size(a) = capacity(a)
  <2>1. Contents(a)' = Bytes(Constructed(Grown(a, n), size(a), r), 0, size(a) + 1)
    BY <1>1, <1>3, ReplacedContents DEF emplace_back
  <2>2. Grown(a, n) \in Seq(Cell) /\ Len(Grown(a, n)) = n
    BY <1>2, GrownCells
  <2>3. \A i \in 1 .. size(a) : Grown(a, n)[i].val = Cells(a)[i].val
    BY <1>2, GrownBytes
  <2> QED
    BY <1>1, <1>2, <2>1, <2>2, <2>3, AppendedSplices
<1>4. CASE size(a) # capacity(a)
  <2>1. InPlace(a, Constructed(Cells(a), size(a), r), size(a) + 1) /\ size(a) + 1 <= capacity(a)
    BY <1>1, <1>2, <1>4 DEF emplace_back
  <2>2. Contents(a)' = Bytes(Constructed(Cells(a), size(a), r), 0, size(a) + 1)
    BY <1>2, <2>1, InPlaceContents
  <2> QED
    BY <1>1, <1>2, <2>1, <2>2, AppendedSplices
<1> QED
  BY <1>3, <1>4

LEMMA EmplaceThrowSplices ==
  ASSUME IInv, NEW a \in Arrays, NEW b, EmplaceThrows(a, b)
  PROVE  Spliced(a, 0, 0, << >>)
<1>1. PICK n : n = Doubled(a)
  OBVIOUS
<1>2. size(a) \in Nat /\ n \in Nat /\ size(a) <= n /\ << >> \in Seq(Byte) /\ Len(<< >>) = 0
  BY <1>1, CellsOfArray, DoubledRoom
<1>3. Contents(a)' = Bytes(Grown(a, n), 0, size(a))
  BY <1>1, ReplacedContents DEF EmplaceThrows
<1>4. \A i \in 1 .. size(a) : Grown(a, n)[i].val = Cells(a)[i].val
  BY <1>2, GrownBytes
<1> QED
  BY <1>3, <1>4, KeptFromBytes

\* A range between the elements before it and those behind it, in a new block.
LEMMA RegroupedSplices ==
  ASSUME IInv, NEW a \in Arrays, NEW b, NEW pos \in 0 .. size(a), NEW r \in Seq(Byte),
         NEW n \in Nat, size(a) + Len(r) <= n,
         Replaced(a, b, n,
                  Assigned(Assigned(Constructed(Raw(n), pos, r), 0, Before(a, pos)),
                           pos + Len(r), Behind(a, pos)),
                  size(a) + Len(r))
  PROVE  Spliced(a, pos, pos, r)
<1>1. PICK m, s, end, raw, before, behind, from, middle, left, cells :
        /\ m = Len(r) /\ s = size(a) /\ end = s + m /\ from = pos + m
        /\ raw = Raw(n) /\ before = Before(a, pos) /\ behind = Behind(a, pos)
        /\ middle = Constructed(raw, pos, r)
        /\ left = Assigned(middle, 0, before)
        /\ cells = Assigned(left, from, behind)
  OBVIOUS
<1>2. /\ s \in Nat /\ m \in Nat /\ pos \in Nat /\ pos <= s /\ s + m <= n /\ from \in Nat
      /\ raw \in Seq(Cell) /\ Len(raw) = n
  BY <1>1, CellsOfArray, RawCells
<1>3. /\ before \in Seq(Byte) /\ Len(before) = pos
      /\ behind \in Seq(Byte) /\ Len(behind) = s - pos
  BY <1>1, AroundOffset
<1>4. /\ middle \in Seq(Cell) /\ Len(middle) = n
      /\ \A i \in 1 .. n : middle[i].val = IF i - pos \in 1 .. m THEN r[i - pos] ELSE raw[i].val
  <2>1. pos + Len(r) <= Len(raw) /\ pos \in Nat
    BY <1>1, <1>2
  <2>2. Overwritten(middle, raw, pos, r)
    BY <1>1, <1>2, <2>1, ConstructionOverwrites
  <2> QED
    BY <1>1, <1>2, <2>2 DEF Overwritten
<1>5. /\ left \in Seq(Cell) /\ Len(left) = n
      /\ \A i \in 1 .. n : left[i].val = IF i \in 1 .. pos THEN before[i] ELSE middle[i].val
  <2>1. 0 + Len(before) <= Len(middle) /\ 0 \in Nat
    BY <1>2, <1>3, <1>4
  <2>2. Overwritten(left, middle, 0, before)
    BY <1>1, <1>3, <1>4, <2>1, AssignmentOverwrites
  <2>3. \A i \in 1 .. n : i - 0 = i
    OBVIOUS
  <2> QED
    BY <1>3, <1>4, <2>2, <2>3 DEF Overwritten
<1>6. \A i \in 1 .. n : cells[i].val = IF i - from \in 1 .. s - pos THEN behind[i - from] ELSE left[i].val
  <2>1. from + Len(behind) <= Len(left) /\ from \in Nat
    BY <1>1, <1>2, <1>3, <1>5
  <2>2. Overwritten(cells, left, from, behind)
    BY <1>1, <1>2, <1>3, <1>5, <2>1, AssignmentOverwrites
  <2> QED
    BY <1>1, <1>2, <1>3, <1>5, <2>2 DEF Overwritten
<1>7. ASSUME NEW i \in 1 .. pos PROVE cells[i].val = Cells(a)[i].val
  <2>1. i \in 1 .. n /\ i - from \notin 1 .. s - pos
    BY <1>1, <1>2
  <2> QED
    BY <1>1, <1>5, <1>6, <2>1, ElementsAt
<1>8. ASSUME NEW i \in 1 .. Len(r) PROVE cells[pos + i].val = r[i]
  <2>1. PICK j : j = pos + i
    OBVIOUS
  <2>2. j \in 1 .. n /\ j - from \notin 1 .. s - pos /\ j \notin 1 .. pos /\ j - pos = i /\ i \in 1 .. m
    BY <1>1, <1>2, <2>1
  <2> QED
    BY <1>4, <1>5, <1>6, <2>1, <2>2
<1>9. ASSUME NEW i \in 1 .. size(a) - pos PROVE cells[pos + Len(r) + i].val = Cells(a)[pos + i].val
  <2>1. PICK j : j = pos + m + i
    OBVIOUS
  <2>2. j \in 1 .. n /\ j - from = i /\ i \in 1 .. s - pos
    BY <1>1, <1>2, <2>1
  <2>3. cells[j].val = behind[i]
    BY <1>6, <2>2
  <2> QED
    BY <1>1, <2>1, <2>3, ElementsAt
<1>10. Contents(a)' = Bytes(cells, 0, end)
  BY <1>1, ReplacedContents
<1>11. end = size(a) - (pos - pos) + Len(r) /\ pos <= pos /\ pos <= size(a)
  BY <1>1, <1>2
<1> QED
  BY <1>2, <1>7, <1>8, <1>9, <1>10, <1>11, SplicedFromBytes

LEMMA InsertRangeSplices ==
  ASSUME IInv, NEW a \in Arrays, NEW pos \in 0 .. size(a), NEW r \in Ranges,
         insert_range(a, pos, r, Len(r))
  PROVE  Spliced(a, pos, pos, r)
<1>1. PICK m, s, n, end, old, behind, from, moved, cells :
        /\ m = Len(r) /\ s = size(a) /\ n = capacity(a) /\ end = s + m /\ from = pos + m
        /\ old = Cells(a) /\ behind = Behind(a, pos)
        /\ moved = Assigned(old, from, behind)
        /\ cells = Constructed(moved, pos, r)
  OBVIOUS
<1>2. m \in Nat /\ r \in Seq(Byte) /\ SubSeq(r, 1, m) = r
  <2>1. 0 \in 0 .. Len(r) /\ Len(r) \in Nat
    BY DEF Ranges
  <2>2. r \in Seq(Byte)
    BY <2>1, RangePrefix
  <2> QED
    BY <1>1, <2>1, <2>2
<1>3. /\ s \in Nat /\ n \in Nat /\ pos \in Nat /\ pos <= s /\ s + m <= n /\ from \in Nat
      /\ old \in Seq(Cell) /\ Len(old) = n /\ end \in Nat /\ end <= n
  BY <1>1, <1>2, CellsOfArray DEF insert_range
<1>4. InPlace(a, cells, end)
  BY <1>1, <1>2 DEF insert_range
<1>5. behind \in Seq(Byte) /\ Len(behind) = s - pos
  BY <1>1, AroundOffset
<1>6. /\ moved \in Seq(Cell) /\ Len(moved) = n
      /\ \A i \in 1 .. n : moved[i].val = IF i - from \in 1 .. s - pos THEN behind[i - from] ELSE old[i].val
  <2>1. from + Len(behind) <= Len(old) /\ from \in Nat
    BY <1>1, <1>3, <1>5
  <2>2. Overwritten(moved, old, from, behind)
    BY <1>1, <1>3, <1>5, <2>1, AssignmentOverwrites
  <2> QED
    BY <1>1, <1>3, <1>5, <2>2 DEF Overwritten
<1>7. \A i \in 1 .. n : cells[i].val = IF i - pos \in 1 .. m THEN r[i - pos] ELSE moved[i].val
  <2>1. pos + Len(r) <= Len(moved) /\ pos \in Nat
    BY <1>1, <1>2, <1>3, <1>6
  <2>2. Overwritten(cells, moved, pos, r)
    BY <1>1, <1>2, <1>3, <1>6, <2>1, ConstructionOverwrites
  <2> QED
    BY <1>1, <1>2, <1>3, <1>6, <2>2 DEF Overwritten
<1>8. ASSUME NEW i \in 1 .. pos PROVE cells[i].val = Cells(a)[i].val
  <2>1. i \in 1 .. n /\ i - from \notin 1 .. s - pos /\ i - pos \notin 1 .. m
    BY <1>1, <1>2, <1>3
  <2> QED
    BY <1>1, <1>6, <1>7, <2>1
<1>9. ASSUME NEW i \in 1 .. Len(r) PROVE cells[pos + i].val = r[i]
  <2>1. PICK j : j = pos + i
    OBVIOUS
  <2>2. j \in 1 .. n /\ j - pos = i /\ i \in 1 .. m
    BY <1>1, <1>2, <1>3, <2>1
  <2> QED
    BY <1>7, <2>1, <2>2
<1>10. ASSUME NEW i \in 1 .. size(a) - pos PROVE cells[pos + Len(r) + i].val = Cells(a)[pos + i].val
  <2>1. PICK j : j = pos + m + i
    OBVIOUS
  <2>2. j \in 1 .. n /\ j - from = i /\ i \in 1 .. s - pos /\ j - pos \notin 1 .. m
    BY <1>1, <1>2, <1>3, <2>1
  <2>3. cells[j].val = behind[i]
    BY <1>6, <1>7, <2>2
  <2> QED
    BY <1>1, <2>1, <2>3, ElementsAt
<1>11. Contents(a)' = Bytes(cells, 0, end)
  BY <1>1, <1>3, <1>4, InPlaceContents
<1>12. end = size(a) - (pos - pos) + Len(r) /\ pos <= pos /\ pos <= size(a)
  BY <1>1, <1>2, <1>3
<1> QED
  BY <1>2, <1>3, <1>8, <1>9, <1>10, <1>11, <1>12, SplicedFromBytes

LEMMA InsertInPlaceSplices ==
  ASSUME IInv, NEW a \in Arrays, NEW pos \in 0 .. size(a), NEW v \in Byte, insert_in_place(a, pos, v)
  PROVE  Spliced(a, pos, pos, <<v>>)
<1>1. PICK s, n, r, end, old, from, last, rest, longer, gap, cells :
        /\ s = size(a) /\ n = capacity(a) /\ r = <<v>> /\ end = s + 1
        /\ old = Cells(a) /\ from = pos + 1
        /\ last = Bytes(Cells(a), s - 1, s)
        /\ rest = Bytes(Cells(a), pos, s - 1)
        /\ longer = Constructed(old, s, last)
        /\ gap = Assigned(longer, from, rest)
        /\ cells = Assigned(gap, pos, r)
  OBVIOUS
<1>2. /\ s \in Nat /\ n \in Nat /\ s - 1 \in Nat /\ pos \in Nat /\ pos <= s - 1 /\ s + 1 <= n
      /\ old \in Seq(Cell) /\ Len(old) = n /\ from \in Nat
      /\ r \in Seq(Byte) /\ Len(r) = 1 /\ r[1] = v
      /\ InPlace(a, cells, end) /\ end \in Nat /\ end <= n
  BY <1>1, CellsOfArray DEF insert_in_place, Opened
<1>3. /\ last \in Seq(Byte) /\ Len(last) = 1 /\ last[1] = Cells(a)[s].val
      /\ rest \in Seq(Byte) /\ Len(rest) = s - 1 - pos
      /\ \A i \in 1 .. s - 1 - pos : rest[i] = Cells(a)[pos + i].val
  <2>1. s - 1 <= s /\ s <= s /\ s - (s - 1) = 1 /\ s - 1 + 1 = s
    BY <1>2
  <2>2. last \in Seq(Byte) /\ Len(last) = s - (s - 1)
    BY <1>1, <1>2, <2>1, SliceOfArray
  <2>3. rest \in Seq(Byte) /\ Len(rest) = s - 1 - pos
    BY <1>1, <1>2, <2>1, SliceOfArray
  <2>4. \A i \in 1 .. s - (s - 1) : last[i] = Cells(a)[s - 1 + i].val
    BY <1>1 DEF Bytes
  <2>5. \A i \in 1 .. s - 1 - pos : rest[i] = Cells(a)[pos + i].val
    BY <1>1 DEF Bytes
  <2>6. last[1] = Cells(a)[s - 1 + 1].val
    BY <2>1, <2>4
  <2> QED
    BY <2>1, <2>2, <2>3, <2>5, <2>6
<1>4. /\ longer \in Seq(Cell) /\ Len(longer) = n
      /\ \A i \in 1 .. n : longer[i].val = IF i = s + 1 THEN Cells(a)[s].val ELSE Cells(a)[i].val
  <2>1. s + Len(last) <= Len(old)
    BY <1>2, <1>3
  <2>2. Overwritten(longer, old, s, last)
    BY <1>1, <1>2, <1>3, <2>1, ConstructionOverwrites
  <2>3. \A i \in 1 .. n : (i - s \in 1 .. 1 <=> i = s + 1) /\ (i = s + 1 => i - s = 1)
    BY <1>2
  <2> QED
    BY <1>1, <1>2, <1>3, <2>2, <2>3 DEF Overwritten
<1>5. /\ gap \in Seq(Cell) /\ Len(gap) = n
      /\ \A i \in 1 .. n : gap[i].val = IF i - from \in 1 .. s - 1 - pos THEN rest[i - from] ELSE longer[i].val
  <2>1. from + Len(rest) <= Len(longer) /\ from \in Nat
    BY <1>1, <1>2, <1>3, <1>4
  <2>2. Overwritten(gap, longer, from, rest)
    BY <1>1, <1>2, <1>3, <1>4, <2>1, AssignmentOverwrites
  <2> QED
    BY <1>1, <1>2, <1>3, <1>4, <2>2 DEF Overwritten
<1>6. \A i \in 1 .. n : cells[i].val = IF i - pos \in 1 .. 1 THEN r[i - pos] ELSE gap[i].val
  <2>1. pos + Len(r) <= Len(gap) /\ pos \in Nat
    BY <1>1, <1>2, <1>5
  <2>2. Overwritten(cells, gap, pos, r)
    BY <1>1, <1>2, <1>5, <2>1, AssignmentOverwrites
  <2> QED
    BY <1>1, <1>2, <1>5, <2>2 DEF Overwritten
<1>7. ASSUME NEW i \in 1 .. pos PROVE cells[i].val = Cells(a)[i].val
  <2>1. i \in 1 .. n /\ i - from \notin 1 .. s - 1 - pos /\ i - pos \notin 1 .. 1 /\ i # s + 1
    BY <1>1, <1>2
  <2> QED
    BY <1>4, <1>5, <1>6, <2>1
<1>8. ASSUME NEW i \in 1 .. Len(r) PROVE cells[pos + i].val = r[i]
  <2>1. PICK j : j = pos + i
    OBVIOUS
  <2>2. j \in 1 .. n /\ j - pos = i /\ i \in 1 .. 1
    BY <1>2, <2>1
  <2> QED
    BY <1>6, <2>1, <2>2
<1>9. ASSUME NEW i \in 1 .. size(a) - pos PROVE cells[pos + Len(r) + i].val = Cells(a)[pos + i].val
  <2>1. PICK j : j = pos + 1 + i
    OBVIOUS
  <2>2. j \in 1 .. n /\ j - pos \notin 1 .. 1 /\ j - from = i /\ pos + Len(r) + i = j
    BY <1>1, <1>2, <2>1
  <2>3. cells[j].val = gap[j].val
    BY <1>6, <2>2
  <2>4. CASE i \in 1 .. s - 1 - pos
    <3>1. gap[j].val = rest[i]
      BY <1>5, <2>2, <2>4
    <3> QED
      BY <1>3, <2>2, <2>3, <2>4, <3>1
  <2>5. CASE i \notin 1 .. s - 1 - pos
    <3>1. j = s + 1 /\ pos + i = s
      BY <1>1, <1>2, <2>1, <2>5
    <3>2. gap[j].val = longer[j].val
      BY <1>5, <2>2, <2>5
    <3>3. longer[j].val = Cells(a)[s].val
      BY <1>4, <2>2, <3>1
    <3> QED
      BY <2>2, <2>3, <3>1, <3>2, <3>3
  <2> QED
    BY <2>4, <2>5
<1>10. Contents(a)' = Bytes(cells, 0, end)
  BY <1>1, <1>2, InPlaceContents
<1>11. end = size(a) - (pos - pos) + Len(r) /\ pos <= pos /\ pos <= size(a)
  BY <1>1, <1>2
<1>12. Spliced(a, pos, pos, r)
  BY <1>2, <1>7, <1>8, <1>9, <1>10, <1>11, SplicedFromBytes
<1> QED
  BY <1>1, <1>12

LEMMA InsertSplices ==
  ASSUME IInv, NEW a \in Arrays, NEW b, NEW pos \in 0 .. size(a), NEW v \in Byte, insert(a, b, pos, v)
  PROVE  Spliced(a, pos, pos, <<v>>)
<1>1. CASE pos = size(a) /\ emplace_back(a, b, v)
  BY <1>1, EmplacingSplices
<1>2. CASE insert_in_place(a, pos, v)
  BY <1>2, InsertInPlaceSplices
<1>3. CASE realloc_insert(a, b, pos, v)
  <2>1. PICK r, n : r = <<v>> /\ n = Doubled(a)
    OBVIOUS
  <2>2. r \in Seq(Byte) /\ Len(r) = 1 /\ n \in Nat /\ size(a) + Len(r) <= n
    BY <2>1, DoubledRoom
  <2>3. Replaced(a, b, n,
                 Assigned(Assigned(Constructed(Raw(n), pos, r), 0, Before(a, pos)),
                          pos + Len(r), Behind(a, pos)),
                 size(a) + Len(r))
    BY <1>3, <2>1, <2>2 DEF realloc_insert
  <2>4. Spliced(a, pos, pos, r)
    BY <2>2, <2>3, RegroupedSplices
  <2> QED
    BY <2>1, <2>4
<1> QED
  BY <1>1, <1>2, <1>3 DEF insert

LEMMA WholeRange ==
  ASSUME NEW r \in Ranges
  PROVE  r \in Seq(Byte) /\ Len(r) \in Nat /\ Len(r) \in 0 .. Len(r)
<1>1. 0 \in 0 .. Len(r) /\ Len(r) \in Nat
  BY DEF Ranges
<1> QED
  BY <1>1, RangePrefix

LEMMA InsertRangeGrowSplices ==
  ASSUME IInv, NEW a \in Arrays, NEW b, NEW pos \in 0 .. size(a), NEW r \in Ranges,
         insert_range_grow(a, b, pos, r)
  PROVE  Spliced(a, pos, pos, r)
<1>1. PICK n : n = capacity(a) + Len(r)
  OBVIOUS
<1>2. r \in Seq(Byte) /\ n \in Nat /\ size(a) + Len(r) <= n
  BY <1>1, WholeRange, CellsOfArray
<1> QED
  BY <1>1, <1>2, RegroupedSplices DEF insert_range_grow

\* What is left when the elements from first to last are gone.
LEMMA ErasedBytes ==
  ASSUME IInv, NEW a \in Arrays, NEW first \in Nat, NEW last \in Nat, first <= last, last <= size(a),
         NEW cells, cells = Assigned(Destroyed(Cells(a), first, last), first, Behind(a, last))
  PROVE  /\ \A i \in 1 .. first : cells[i].val = Cells(a)[i].val
         /\ \A i \in 1 .. size(a) - last : cells[first + i].val = Cells(a)[last + i].val
<1>1. PICK s, n, gone, behind : /\ s = size(a) /\ n = capacity(a) /\ behind = Behind(a, last)
                                /\ gone = Destroyed(Cells(a), first, last)
  OBVIOUS
<1>2. /\ s \in Nat /\ n \in Nat /\ s <= n /\ last <= s /\ last \in 0 .. size(a)
      /\ Cells(a) \in Seq(Cell) /\ Len(Cells(a)) = n
  BY <1>1, CellsOfArray
<1>3. behind \in Seq(Byte) /\ Len(behind) = s - last
  BY <1>1, <1>2, AroundOffset
<1>4. gone \in Seq(Cell) /\ Len(gone) = n /\ \A i \in 1 .. n : gone[i].val = Cells(a)[i].val
  BY <1>1, <1>2, DestroyedInside, DestroyedBytes
<1>5. first + Len(behind) <= Len(gone)
  BY <1>2, <1>3, <1>4
<1>6. Overwritten(cells, gone, first, behind)
  BY <1>1, <1>3, <1>4, <1>5, AssignmentOverwrites
<1>7. \A i \in 1 .. n :
        cells[i].val = IF i - first \in 1 .. s - last THEN behind[i - first] ELSE gone[i].val
  BY <1>3, <1>4, <1>6 DEF Overwritten
<1>8. ASSUME NEW i \in 1 .. first PROVE cells[i].val = Cells(a)[i].val
  <2>1. i \in 1 .. n /\ i - first \notin 1 .. s - last
    BY <1>2
  <2> QED
    BY <1>4, <1>7, <2>1
<1>9. ASSUME NEW i \in 1 .. s - last PROVE cells[first + i].val = Cells(a)[last + i].val
  <2>1. PICK j : j = first + i
    OBVIOUS
  <2>2. j \in 1 .. n /\ j - first = i
    BY <1>2, <2>1
  <2>3. cells[j].val = behind[i]
    BY <1>7, <2>2
  <2> QED
    BY <1>1, <1>2, <2>1, <2>3, ElementsAt
<1> QED
  BY <1>1, <1>8, <1>9

LEMMA EraseSplices ==
  ASSUME IInv, NEW a \in Arrays, NEW first \in 0 .. size(a), NEW last \in first .. size(a),
         erase(a, first, last)
  PROVE  Spliced(a, first, last, << >>)
<1>1. PICK end, cells : /\ end = size(a) - (last - first)
                        /\ cells = Assigned(Destroyed(Cells(a), first, last), first, Behind(a, last))
  OBVIOUS
<1>2. /\ first \in Nat /\ last \in Nat /\ first <= last /\ last <= size(a)
      /\ end \in Nat /\ end <= capacity(a)
  BY <1>1, CellsOfArray
<1>3. InPlace(a, cells, end)
  BY <1>1 DEF erase
<1>4. Contents(a)' = Bytes(cells, 0, end)
  BY <1>2, <1>3, InPlaceContents
<1>5. /\ \A i \in 1 .. first : cells[i].val = Cells(a)[i].val
      /\ \A i \in 1 .. size(a) - last : cells[first + i].val = Cells(a)[last + i].val
  BY <1>1, <1>2, ErasedBytes
<1> QED
  BY <1>1, <1>2, <1>4, <1>5, CutFromBytes

LEMMA PopSplices ==
  ASSUME IInv, NEW a \in Arrays, pop_back(a)
  PROVE  Spliced(a, size(a) - 1, size(a), << >>)
<1>1. PICK first, last, cells : /\ first = size(a) - 1 /\ last = size(a)
                                /\ cells = Destroyed(Cells(a), first, last)
  OBVIOUS
<1>2. /\ first \in Nat /\ last \in Nat /\ first <= last /\ last <= size(a)
      /\ first <= capacity(a) /\ first = size(a) - (last - first)
      /\ Cells(a) \in Seq(Cell) /\ Len(Cells(a)) = capacity(a) /\ capacity(a) \in Nat
  BY <1>1, CellsOfArray DEF pop_back
<1>3. InPlace(a, cells, first)
  BY <1>1 DEF pop_back
<1>4. Contents(a)' = Bytes(cells, 0, first)
  BY <1>2, <1>3, InPlaceContents
<1>5. \A i \in 1 .. first : cells[i].val = Cells(a)[i].val
  <2>1. PICK old : old = Cells(a)
    OBVIOUS
  <2>2. old \in Seq(Cell) /\ first \in Int /\ last \in Int /\ cells = Destroyed(old, first, last)
    BY <1>1, <1>2, <2>1
  <2>3. \A i \in 1 .. Len(old) : cells[i].val = old[i].val
    BY <2>2, DestroyedBytes
  <2> QED
    BY <1>2, <2>1, <2>3
<1>6. \A i \in 1 .. size(a) - last : cells[first + i].val = Cells(a)[last + i].val
  BY <1>1, <1>2
<1>7. Spliced(a, first, last, << >>)
  BY <1>2, <1>4, <1>5, <1>6, CutFromBytes
<1> QED
  BY <1>1, <1>7

\* Moving and swapping give the elements over, and a move leaves none.
LEMMA SwapContents ==
  ASSUME IInv, NEW a \in Arrays, NEW c \in Arrays, swap(a, c)
  PROVE  Contents(a)' = Contents(c)
<1>1. m_data'[a] = m_data[c] /\ memory' = memory
  BY DEF swap, IInv, TypeOK
<1> QED
  BY <1>1 DEF Contents, Cells, size

LEMMA MoveContents ==
  ASSUME IInv, NEW a \in Arrays, NEW c \in Arrays, a # c, Move(a, c)
  PROVE  Contents(a)' = Contents(c) /\ Contents(c)' = << >>
<1>1. m_data'[a] = m_data[c] /\ m_data'[c] = Empty
  BY DEF Move, IInv, TypeOK
<1>2. m_data[c].begin \in Block \cup {null} /\ (m_data[c].begin = m_data[a].begin => m_data[c].begin = null)
  BY <1>1 DEF IInv, TypeOK, BlocksOwned
<1>3. m_data[c].begin # null => memory'[m_data[c].begin] = memory[m_data[c].begin]
  BY <1>2 DEF Move, Released
<1>4. Contents(a)' = Contents(c)
  BY <1>1, <1>3 DEF Contents, Cells, size
<1>5. Contents(c)' = << >>
  BY <1>1 DEF Contents, Bytes, size, Empty
<1> QED
  BY <1>4, <1>5
-----------------------------------------------------------------------------
(* A step that leaves the pointers of an array leaves its elements, whoever *)
(* makes it, alive or not as they were; but for a copy that fails.         *)

\* Where the pointers are the same the block has only to hold the same cells.
LEMMA SameBlock ==
  ASSUME IInv, NEW a \in Arrays, m_data'[a] = m_data[a],
         m_data[a].begin # null =>
           \A i \in 1 .. size(a) : memory'[m_data[a].begin][i] = memory[m_data[a].begin][i]
  PROVE  Elements(a)' = Elements(a)
<1>1. size(a)' = size(a) /\ m_data'[a].begin = m_data[a].begin
  BY DEF size
<1>2. ASSUME NEW i \in 1 .. size(a) PROVE Cells(a)'[i] = Cells(a)[i]
  BY <1>1 DEF Cells
<1> QED
  BY <1>1, <1>2 DEF Elements

LEMMA KeptInPlace ==
  ASSUME IInv, NEW a \in Arrays, NEW x \in Arrays, NEW cells, NEW end,
         InPlace(x, cells, end), m_data'[a] = m_data[a],
         x = a /\ end = size(a) => \A i \in 1 .. size(a) : cells[i] = Cells(a)[i]
  PROVE  Elements(a)' = Elements(a)
<1>1. m_data[a].begin \in Block \cup {null}
  BY CellsOfArray
<1>2. CASE x = a
  <2>1. m_data'[a].end = end
    BY <1>2 DEF InPlace, IInv, TypeOK
  <2>2. \A i \in 1 .. size(a) : cells[i] = Cells(a)[i]
    BY <1>2, <2>1 DEF size
  <2>3. m_data[a].begin # null => memory'[m_data[a].begin] = cells /\ Cells(a) = memory[m_data[a].begin]
    BY <1>1, <1>2 DEF InPlace, Cells
  <2> QED
    BY <2>2, <2>3, SameBlock
<1>3. CASE x # a
  <2>1. m_data[a].begin # null => m_data[a].begin # m_data[x].begin
    BY <1>3 DEF IInv, BlocksOwned
  <2>2. m_data[a].begin # null => memory'[m_data[a].begin] = memory[m_data[a].begin]
    BY <1>1, <2>1 DEF InPlace
  <2> QED
    BY <2>2, SameBlock
<1> QED
  BY <1>2, <1>3

LEMMA KeptReplaced ==
  ASSUME IInv, NEW a \in Arrays, NEW x \in Arrays, NEW b, NEW n, NEW cells, NEW end,
         Replaced(x, b, n, cells, end), m_data'[a] = m_data[a]
  PROVE  Elements(a)' = Elements(a)
<1>1. /\ m_data[a].begin \in Block \cup {null}
      /\ m_data[a].begin # null => m_data[a].begin \in allocated
  BY CellsOfArray DEF IInv, BlocksOwned
<1>2. b \in Block /\ b \notin allocated /\ b # null
  BY ConstantsAssumption DEF Replaced
<1>3. x # a
  <2> SUFFICES ASSUME x = a PROVE FALSE
    OBVIOUS
  <2>1. m_data'[a].begin = b
    BY DEF Replaced, IInv, TypeOK
  <2> QED
    BY <1>1, <1>2, <2>1
<1>4. m_data[a].begin # null => m_data[a].begin # m_data[x].begin
  BY <1>3 DEF IInv, BlocksOwned
<1>5. m_data[a].begin # null => memory'[m_data[a].begin] = memory[m_data[a].begin]
  BY <1>1, <1>2, <1>4 DEF Replaced
<1> QED
  BY <1>5, SameBlock

LEMMA KeptReleased ==
  ASSUME IInv, NEW a \in Arrays, NEW x \in Arrays, Released(x), m_data'[a] = m_data[a],
         x = a => m_data[a].begin = null
  PROVE  Elements(a)' = Elements(a)
<1>1. m_data[a].begin \in Block \cup {null}
  BY CellsOfArray
<1>2. m_data[a].begin # null => m_data[a].begin # m_data[x].begin
  BY DEF IInv, BlocksOwned
<1>3. m_data[a].begin # null => memory'[m_data[a].begin] = memory[m_data[a].begin]
  BY <1>1, <1>2 DEF Released
<1> QED
  BY <1>3, SameBlock

LEMMA LifecycleKept ==
  ASSUME IInv, NEW a \in Arrays, NEW x \in Arrays, NEW b, Lifecycle(x, b), m_data'[a] = m_data[a]
  PROVE  Elements(a)' = Elements(a)
<1>1. ASSUME NEW r, assign(x, b, r) PROVE Elements(a)' = Elements(a)
  BY <1>1, KeptReplaced DEF assign
<1>2. ASSUME NEW c \in Arrays, Copy(x, b, c) PROVE Elements(a)' = Elements(a)
  BY <1>1, <1>2 DEF Copy
<1>3. ASSUME NEW c \in Arrays, Move(x, c) PROVE Elements(a)' = Elements(a)
  <2>1. CASE x = c
    BY <1>3, <2>1, SameBlock DEF Move, vars
  <2>2. CASE x # c
    <3>1. Released(x) /\ m_data'[x] = m_data[c]
      BY <1>3, <2>2 DEF Move, IInv, TypeOK
    <3>2. x = a => m_data[a].begin = null
      BY <2>2, <3>1 DEF IInv, BlocksOwned
    <3> QED
      BY <3>1, <3>2, KeptReleased
  <2> QED
    BY <2>1, <2>2
<1>4. ASSUME NEW c \in Arrays, swap(x, c) PROVE Elements(a)' = Elements(a)
  BY <1>4, SameBlock DEF swap
<1>5. CASE Destroy(x)
  <2>1. Released(x) /\ m_data'[x] = Empty
    BY <1>5 DEF Destroy, IInv, TypeOK
  <2>2. x = a => m_data[a].begin = null
    BY <2>1 DEF Empty
  <2> QED
    BY <2>1, <2>2, KeptReleased
<1>6. ASSUME NEW n, reserve(x, b, n) PROVE Elements(a)' = Elements(a)
  BY <1>6, KeptReplaced DEF reserve
<1>7. ASSUME NEW n, shrink_storage(x, b, n) PROVE Elements(a)' = Elements(a)
  BY <1>7, KeptReplaced DEF shrink_storage
<1> QED
  BY <1>1, <1>2, <1>3, <1>4, <1>5, <1>6, <1>7 DEF Lifecycle

LEMMA EmplacingKept ==
  ASSUME IInv, NEW a \in Arrays, NEW x \in Arrays, NEW b, NEW v, emplace_back(x, b, v),
         m_data'[a] = m_data[a]
  PROVE  Elements(a)' = Elements(a)
<1>1. CASE size(x) = capacity(x)
  BY <1>1, KeptReplaced DEF emplace_back
<1>2. CASE size(x) # capacity(x)
  <2>1. InPlace(x, Constructed(Cells(x), size(x), <<v>>), size(x) + 1)
    BY <1>2 DEF emplace_back
  <2>2. ~ (x = a /\ size(x) + 1 = size(a))
    BY CellsOfArray
  <2> QED
    BY <2>1, <2>2, KeptInPlace
<1> QED
  BY <1>1, <1>2

LEMMA AppendingKept ==
  ASSUME IInv, NEW a \in Arrays, NEW x \in Arrays, NEW b, NEW r \in Ranges, NEW k \in 0 .. Len(r),
         push_back(x, b, r, k), m_data'[a] = m_data[a]
  PROVE  Elements(a)' = Elements(a)
<1>1. PICK s, n, old, done, cells, end :
        /\ s = size(x) /\ n = s + Len(r) /\ old = Cells(x) /\ done = SubSeq(r, 1, k) /\ end = s + k
        /\ cells = Constructed(old, s, done)
  OBVIOUS
<1>2. CASE n > capacity(x)
  BY <1>1, <1>2, KeptReplaced DEF push_back
<1>3. CASE ~ (n > capacity(x))
  <2>1. InPlace(x, cells, end)
    BY <1>1, <1>3 DEF push_back
  <2>2. /\ s \in Nat /\ old \in Seq(Cell) /\ Len(old) = capacity(x) /\ s <= capacity(x)
        /\ capacity(x) \in Nat /\ done \in Seq(Byte) /\ Len(done) = k /\ Len(r) \in Nat
    BY <1>1, CellsOfArray, RangePrefix
  <2>3. x = a /\ end = size(a) => Len(done) = 0
    BY <1>1, <2>2
  <2>4. ASSUME x = a, end = size(a), NEW i \in 1 .. s PROVE cells[i] = old[i]
    <3>1. Len(done) = 0 /\ s <= Len(old) /\ i \in 1 .. Len(old)
      BY <2>2, <2>3, <2>4
    <3>2. \A j \in 1 .. Len(old) : Constructed(old, s, done)[j] = old[j]
      BY <2>2, <3>1, ConstructedNothing
    <3> QED
      BY <1>1, <3>1, <3>2
  <2> QED
    BY <1>1, <2>1, <2>4, KeptInPlace
<1> QED
  BY <1>2, <1>3

LEMMA InsertRangeKept ==
  ASSUME IInv, NEW a \in Arrays, NEW x \in Arrays, NEW pos \in 0 .. size(x), NEW r \in Ranges,
         NEW k \in 0 .. Len(r), insert_range(x, pos, r, k), m_data'[a] = m_data[a]
  PROVE  Elements(a)' = Elements(a)
<1>1. PICK s, m, n, old, behind, done, from, moved, cells, end :
        /\ s = size(x) /\ m = Len(r) /\ n = capacity(x) /\ old = Cells(x) /\ behind = Behind(x, pos)
        /\ done = SubSeq(r, 1, k) /\ from = pos + m /\ end = s + m
        /\ moved = Assigned(old, from, behind)
        /\ cells = Constructed(moved, pos, done)
  OBVIOUS
<1>2. InPlace(x, cells, end)
  BY <1>1 DEF insert_range
<1>3. /\ s \in Nat /\ m \in Nat /\ n \in Nat /\ s + m <= n /\ pos \in Nat /\ pos <= s /\ from \in Nat
      /\ old \in Seq(Cell) /\ Len(old) = n
      /\ done \in Seq(Byte) /\ Len(done) = k /\ k \in Nat /\ k <= m
  BY <1>1, CellsOfArray, RangePrefix DEF insert_range
<1>4. behind \in Seq(Byte) /\ Len(behind) = s - pos
  BY <1>1, AroundOffset
<1>5. Overwritten(moved, old, from, behind)
  <2>1. from + Len(behind) <= Len(old)
    BY <1>1, <1>3, <1>4
  <2> QED
    BY <1>1, <1>3, <1>4, <2>1, AssignmentOverwrites
<1>7. ASSUME m = 0, NEW i \in 1 .. s PROVE cells[i] = old[i]
  <2>1. i \in 1 .. n /\ from = pos /\ Len(done) = 0 /\ from + Len(behind) <= n
    BY <1>1, <1>3, <1>4, <1>7
  <2>2. cells[i] = moved[i] /\ moved[i] \in Cell /\ old[i] \in Cell
    <3>1. moved \in Seq(Cell) /\ Len(moved) = n /\ pos <= n
      BY <1>3, <1>5 DEF Overwritten
    <3>2. \A j \in 1 .. Len(moved) : Constructed(moved, pos, done)[j] = moved[j]
      BY <1>3, <2>1, <3>1, ConstructedNothing
    <3> QED
      BY <1>1, <1>3, <2>1, <3>1, <3>2
  <2>5. moved[i].live = old[i].live
    <3>1. from + Len(behind) <= Len(old)
      BY <1>3, <2>1
    <3>2. \A j \in 1 .. Len(old) : Assigned(old, from, behind)[j].live = old[j].live
      BY <1>3, <1>4, <3>1, AssignedLives
    <3> QED
      BY <1>1, <1>3, <2>1, <3>2
  <2>3. CASE i - from \in 1 .. Len(behind)
    <3>1. PICK j : j = i - from
      OBVIOUS
    <3>2. j \in 1 .. s - pos /\ pos + j = i
      BY <1>3, <1>4, <2>1, <2>3, <3>1
    <3>3. moved[i].val = behind[j]
      BY <1>3, <1>5, <2>1, <2>3, <3>1 DEF Overwritten
    <3>4. moved[i].val = old[i].val
      BY <1>1, <3>2, <3>3, ElementsAt
    <3> QED
      BY <2>2, <2>5, <3>4, SameCell
  <2>4. CASE i - from \notin 1 .. Len(behind)
    <3>1. moved[i].val = old[i].val
      BY <1>3, <1>5, <2>1, <2>4 DEF Overwritten
    <3> QED
      BY <2>2, <2>5, <3>1, SameCell
  <2> QED
    BY <2>3, <2>4
<1>8. x = a /\ end = size(a) => m = 0
  BY <1>1, <1>3
<1> QED
  BY <1>1, <1>2, <1>7, <1>8, KeptInPlace

LEMMA InsertionKept ==
  ASSUME IInv, NEW a \in Arrays, NEW x \in Arrays, NEW b, Insertion(x, b), m_data'[a] = m_data[a]
  PROVE  Elements(a)' = Elements(a)
<1>1. ASSUME NEW v, NEW pos \in 0 .. size(x), insert_in_place(x, pos, v) PROVE Elements(a)' = Elements(a)
  <2>1. InPlace(x, Assigned(Opened(x, pos), pos, <<v>>), size(x) + 1)
    BY <1>1 DEF insert_in_place
  <2>2. ~ (x = a /\ size(x) + 1 = size(a))
    BY CellsOfArray
  <2> QED
    BY <2>1, <2>2, KeptInPlace
<1>2. ASSUME NEW v, NEW pos \in 0 .. size(x), realloc_insert(x, b, pos, v) PROVE Elements(a)' = Elements(a)
  BY <1>2, KeptReplaced DEF realloc_insert
<1>3. ASSUME NEW v, NEW pos \in 0 .. size(x), insert(x, b, pos, v) PROVE Elements(a)' = Elements(a)
  BY <1>1, <1>2, <1>3, EmplacingKept DEF insert
<1>4. ASSUME NEW r \in Ranges, push_back(x, b, r, Len(r)) PROVE Elements(a)' = Elements(a)
  BY <1>4, WholeRange, AppendingKept
<1>5. ASSUME NEW r \in Ranges, NEW pos \in 0 .. size(x), insert_range_grow(x, b, pos, r)
      PROVE  Elements(a)' = Elements(a)
  BY <1>5, KeptReplaced DEF insert_range_grow
<1>6. ASSUME NEW r \in Ranges, NEW pos \in 0 .. size(x), insert_range(x, pos, r, Len(r))
      PROVE  Elements(a)' = Elements(a)
  BY <1>6, WholeRange, InsertRangeKept
<1> QED
  BY <1>3, <1>4, <1>5, <1>6 DEF Insertion

LEMMA ErasureKept ==
  ASSUME IInv, NEW a \in Arrays, NEW x \in Arrays, Erasure(x), m_data'[a] = m_data[a]
  PROVE  Elements(a)' = Elements(a)
<1>1. size(x) \in Nat
  BY CellsOfArray
<1>2. CASE pop_back(x)
  <2>1. ~ (x = a /\ size(x) - 1 = size(a))
    BY <1>1
  <2> QED
    BY <1>2, <2>1, KeptInPlace DEF pop_back
<1>3. ASSUME NEW first \in 0 .. size(x), NEW last \in first .. size(x), erase(x, first, last)
      PROVE  Elements(a)' = Elements(a)
  <2>1. PICK cells, end : /\ cells = Assigned(Destroyed(Cells(x), first, last), first, Behind(x, last))
                          /\ end = size(x) - (last - first)
    OBVIOUS
  <2>2. InPlace(x, cells, end)
    BY <1>3, <2>1 DEF erase
  <2>3. first \in Nat /\ last \in Nat /\ first <= last /\ last <= size(x)
    BY <1>1
  <2>4. /\ \A i \in 1 .. first : cells[i].val = Cells(x)[i].val
        /\ \A i \in 1 .. size(x) - last : cells[first + i].val = Cells(x)[last + i].val
    BY <2>1, <2>3, ErasedBytes
  <2>5. ASSUME x = a, end = size(a), NEW i \in 1 .. size(a) PROVE cells[i] = Cells(a)[i]
    <3>1. first = last
      BY <1>1, <2>1, <2>3, <2>5
    <3>2. /\ Cells(x) \in Seq(Cell) /\ i \in 1 .. Len(Cells(x))
          /\ Behind(x, last) \in Seq(Byte) /\ first + Len(Behind(x, last)) <= Len(Cells(x))
      BY <1>1, <2>3, <2>5, <3>1, CellsOfArray, AroundOffset
    <3>3. cells = Assigned(Cells(x), first, Behind(x, last))
      BY <2>1, <2>3, <3>1, <3>2, DestroyedNothing
    <3>4. cells[i].live = Cells(x)[i].live /\ cells[i] \in Cell /\ Cells(x)[i] \in Cell
      BY <2>3, <3>2, <3>3, AssignedLives, AssignedInside
    <3>5. cells[i].val = Cells(x)[i].val
      <4>1. CASE i <= first
        BY <2>3, <2>4, <2>5, <4>1
      <4>2. CASE i > first
        <5>1. PICK j : j = i - first
          OBVIOUS
        <5>2. j \in 1 .. size(x) - last /\ first + j = i
          BY <1>1, <2>3, <2>5, <3>1, <4>2, <5>1
        <5> QED
          BY <2>4, <3>1, <5>2
      <4> QED
        BY <2>3, <2>5, <4>1, <4>2
    <3> QED
      BY <2>5, <3>4, <3>5, SameCell
  <2> QED
    BY <2>2, <2>5, KeptInPlace
<1>4. CASE clear(x)
  <2>1. 0 = size(a) => \A i \in 1 .. size(a) : Destroyed(Cells(x), 0, size(x))[i] = Cells(a)[i]
    OBVIOUS
  <2> QED
    BY <1>4, <2>1, KeptInPlace DEF clear
<1> QED
  BY <1>2, <1>3, <1>4 DEF Erasure

LEMMA ThrowKept ==
  ASSUME IInv, NEW a \in Arrays, NEW x \in Arrays, NEW b, Throw(x, b), m_data'[a] = m_data[a]
  PROVE  Elements(a)' = Elements(a) \/ CopyFails
<1>1. ASSUME NEW between \in SUBSET allocated,
             ListThrows(between) \/ \E i \in 1 .. size(x) : CopyThrows(x, i, between)
      PROVE  CopyFails
  BY <1>1 DEF CopyFails
<1>6. ASSUME NEW pos, ReallocThrows(x, pos) PROVE Elements(a)' = Elements(a)
  BY <1>6, SameBlock DEF ReallocThrows, vars
<1>2. CASE EmplaceThrows(x, b)
  BY <1>2, KeptReplaced DEF EmplaceThrows
<1>3. ASSUME NEW r \in Ranges, NEW k \in 0 .. Len(r) - 1 PROVE k \in 0 .. Len(r)
  BY WholeRange
<1>4. ASSUME NEW r \in Ranges, NEW k \in 0 .. Len(r) - 1, push_back(x, b, r, k)
      PROVE  Elements(a)' = Elements(a)
  BY <1>3, <1>4, AppendingKept
<1>5. ASSUME NEW r \in Ranges, NEW k \in 0 .. Len(r) - 1, NEW pos \in 0 .. size(x), insert_range(x, pos, r, k)
      PROVE  Elements(a)' = Elements(a)
  BY <1>3, <1>5, InsertRangeKept
<1> QED
  BY <1>1, <1>2, <1>4, <1>5, <1>6 DEF Throw

LEMMA NextKept ==
  ASSUME IInv, [Next]_vars, NEW a \in Arrays, m_data'[a] = m_data[a]
  PROVE  Elements(a)' = Elements(a) \/ CopyFails
<1>1. CASE UNCHANGED vars
  BY <1>1, SameBlock DEF vars
<1>2. ASSUME NEW x \in Arrays, NEW b \in Block \ allocated,
             Lifecycle(x, b) \/ Insertion(x, b) \/ Erasure(x) \/ Throw(x, b)
      PROVE  Elements(a)' = Elements(a) \/ CopyFails
  BY <1>2, LifecycleKept, InsertionKept, ErasureKept, ThrowKept
<1> QED
  BY <1>1, <1>2 DEF Next, NextQuiet

LEMMA InitOwned == Init => IInv
<1> SUFFICES ASSUME Init PROVE IInv
  OBVIOUS
<1>1. << >> \in Seq(Cell) /\ Len(<< >>) = 0
  OBVIOUS
<1>2. TypeOK
  BY <1>1 DEF Init, TypeOK, Empty
<1>3. BlocksOwned
  BY <1>1, ConstantsAssumption DEF Init, BlocksOwned, Empty, size, capacity, Cells
<1> QED
  BY <1>2, <1>3 DEF IInv

LEMMA NextOwned == IInv /\ [Next]_vars => IInv'
<1> SUFFICES ASSUME IInv, [Next]_vars PROVE IInv'
  OBVIOUS
<1>1. ASSUME NEW a \in Arrays, NEW b \in Block \ allocated, Lifecycle(a, b) PROVE IInv'
  BY <1>1, LifecycleKeeps
<1>2. ASSUME NEW a \in Arrays, NEW b \in Block \ allocated, Insertion(a, b) PROVE IInv'
  BY <1>2, InsertionKeeps
<1>3. ASSUME NEW a \in Arrays, Erasure(a) PROVE IInv'
  BY <1>3, ErasureKeeps
<1>4. ASSUME NEW a \in Arrays, NEW b \in Block \ allocated, Throw(a, b) PROVE IInv'
  BY <1>4, ThrowKeeps
<1>5. CASE UNCHANGED vars
  BY <1>5, StutterKeeps
<1> QED
  BY <1>1, <1>2, <1>3, <1>4, <1>5 DEF Next, NextQuiet

LEMMA InvariantCorrect == Spec => []IInv
<1> QED
  BY InitOwned, NextOwned, PTL DEF Spec

(* Pointers and offsets are what they should be (array.hpp:432-450).        *)
THEOREM TypeCorrect == Spec => []TypeOK
<1>1. IInv => TypeOK
  BY DEF IInv
<1> QED
  BY <1>1, InvariantCorrect, PTL

(* However many arrays share an allocator, whatever is inserted, erased,    *)
(* copied, moved and swapped, and wherever an element throws: every block   *)
(* has one owner that knows its size, and no operation writes behind its    *)
(* end (array.hpp).  What lives in the blocks is another matter.            *)
THEOREM OwnedCorrect == Spec => []BlocksOwned
<1>1. IInv => BlocksOwned
  BY DEF IInv
<1> QED
  BY <1>1, InvariantCorrect, PTL
-----------------------------------------------------------------------------
(* What every operation promises of the elements.                           *)

\* Operations that may take a new block.
LEMMA BlockTaken ==
  ASSUME IInv, NEW a \in Arrays, NEW b
  PROVE  PromisedWith(a, b)
<1>1. EmplaceThrows(a, b) => Spliced(a, 0, 0, << >>)
  BY EmplaceThrowSplices
<1>2. ASSUME NEW n \in 0 .. MaxCapacity
      PROVE  /\ reserve(a, b, n) => Spliced(a, 0, 0, << >>) /\ capacity(a)' = n
             /\ shrink_storage(a, b, n) => Spliced(a, IF n < size(a) THEN n ELSE size(a), size(a), << >>)
  BY ReserveSplices, ShrinkSplices
<1>3. ASSUME NEW r \in Ranges PROVE assign(a, b, r) => Spliced(a, 0, size(a), r)
  BY WholeRange, AssignContents, SplicedWhole
<1>4. ASSUME NEW r \in Ranges, NEW k \in 0 .. Len(r)
      PROVE  push_back(a, b, r, k) => Spliced(a, size(a), size(a), SubSeq(r, 1, k))
  BY AppendingSplices
<1>5. ASSUME NEW r \in Ranges, NEW pos \in 0 .. size(a)
      PROVE  (insert_range_grow(a, b, pos, r) \/ insert_range(a, pos, r, Len(r))) => Spliced(a, pos, pos, r)
  BY InsertRangeGrowSplices, InsertRangeSplices
<1>6. ASSUME NEW v \in Value, NEW pos \in 0 .. size(a)
      PROVE  insert(a, b, pos, v) => Spliced(a, pos, pos, <<v>>)
  BY InsertSplices DEF Byte
<1>7. ASSUME NEW c \in Arrays PROVE Copy(a, b, c) => Contents(a)' = Contents(c)
  BY CellsOfArray, AssignContents DEF Copy
<1> QED
  BY <1>1, <1>2, <1>3, <1>4, <1>5, <1>6, <1>7 DEF PromisedWith

LEMMA PromisedStep ==
  ASSUME IInv, [Next]_vars, NEW a \in Arrays
  PROVE  PromisedOf(a)
<1>1. pop_back(a) => Spliced(a, size(a) - 1, size(a), << >>)
  BY PopSplices
<1>2. ASSUME NEW first \in 0 .. size(a), NEW last \in first .. size(a)
      PROVE  erase(a, first, last) => Spliced(a, first, last, << >>)
  BY EraseSplices
<1>3. ASSUME NEW c \in Arrays
      PROVE  /\ (Move(a, c) \/ swap(a, c)) => Contents(a)' = Contents(c)
             /\ c # a /\ Move(c, a) => Contents(a)' = << >>
  <2>1. CASE a # c
    BY <2>1, MoveContents, SwapContents
  <2>2. CASE a = c
    <3>1. Move(a, a) => Contents(a)' = Contents(a)
      BY DEF Move, vars, Contents, Cells, size
    <3> QED
      BY <2>2, <3>1, SwapContents
  <2> QED
    BY <2>1, <2>2
<1>4. m_data'[a] = m_data[a] => Elements(a)' = Elements(a) \/ CopyFails
  BY NextKept
<1> QED
  BY <1>1, <1>2, <1>3, <1>4, BlockTaken DEF PromisedOf

(* Whatever the values, the number of arrays and the capacities: every      *)
(* operation leaves in the array what its comment says, in order, and no    *)
(* operation changes the elements of another array or their lives, but for  *)
(* the copies that fail (array.hpp:130-430, uninitialized.hpp:22).          *)
THEOREM PromisedCorrect == Spec => Promised
<1>1. IInv /\ [Next]_vars => [\A a \in Arrays : PromisedOf(a)]_vars
  BY PromisedStep
<1> QED
  BY <1>1, InvariantCorrect, PTL DEF Spec, Promised
=============================================================================
