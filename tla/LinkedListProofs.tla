--------------------------- MODULE LinkedListProofs ---------------------------
(***************************************************************************)
(* The chains of linked lists, for any number of lists, nodes and elements *)
(* and ranges of any length.                                               *)
(***************************************************************************)
EXTENDS LinkedList, SequenceTheorems, FiniteSetTheorems, WellFoundedInduction, TLAPS

-----------------------------------------------------------------------------
(* Chains.  A list is its head x and the sequence s of its nodes, where the *)
(* pointers of x and of every node lead to the next one.  Walk finds this   *)
(* sequence.                                                                *)

At(x, s, i)  == IF i = 0 THEN x ELSE s[i]
Nxt(s, i)    == IF i < Len(s) THEN s[i + 1] ELSE null
Linked(ptr, x, s) == \A i \in 0 .. Len(s) : ptr[At(x, s, i)] = Nxt(s, i)

Unique(s) == \A i, j \in 1 .. Len(s) : s[i] = s[j] => i = j

LEMMA Induction ==
  ASSUME NEW S, 0 \in S, \A n \in Nat : n \in S => n + 1 \in S
  PROVE  Nat \subseteq S
<1> DEFINE T == Nat \ S
           R == {pair \in Nat \X Nat : pair[1] < pair[2]}
<1> SUFFICES ASSUME T # {} PROVE FALSE
  OBVIOUS
<1>1. IsWellFoundedOn(R, Nat)
  BY NatLessThanWellFounded DEF OpToRel
<1>2. PICK n \in T : \A m \in T : ~ (<<m, n>> \in R)
  BY <1>1, WFMin
<1>3. n \in Nat /\ n # 0
  OBVIOUS
<1>4. n - 1 \in Nat /\ n - 1 + 1 = n
  BY <1>3
<1>5. n - 1 \in T
  BY <1>4
<1>6. <<n - 1, n>> \in R
  BY <1>3, <1>4
<1> QED
  BY <1>2, <1>5, <1>6

\* The recursion of Walk, one level and all levels up to n.
Level(ptr, f, n)  == [y \in List \cup Node |->
                        IF n = 0 \/ ptr[y] = null THEN << >> ELSE <<ptr[y]>> \o f[n - 1][ptr[y]]]
Levels(ptr, f, k) == [n \in 0 .. k |-> Level(ptr, f, n)]

LEMMA LevelOf ==
  ASSUME NEW ptr, NEW f, NEW k \in Nat, f = Levels(ptr, f, k), NEW n \in 0 .. k
  PROVE  f[n] = Level(ptr, f, n)
<1>1. Levels(ptr, f, k)[n] = Level(ptr, f, n)
  BY DEF Levels
<1> QED
  BY <1>1

LEMMA OneMoreLevel ==
  ASSUME NEW ptr, NEW k \in Nat, NEW f, f = Levels(ptr, f, k)
  PROVE  \E g : g = Levels(ptr, g, k + 1)
<1>1. PICK g : g = [n \in 0 .. k + 1 |-> Level(ptr, f, n)]
  OBVIOUS
<1>2. ASSUME NEW n \in 0 .. k PROVE g[n] = f[n]
  BY <1>1, LevelOf
<1>3. ASSUME NEW n \in 1 .. k + 1 PROVE g[n - 1] = f[n - 1]
  BY <1>2
<1>4. ASSUME NEW n \in 0 .. k + 1 PROVE Level(ptr, f, n) = Level(ptr, g, n)
  BY <1>3 DEF Level
<1> QED
  BY <1>1, <1>4 DEF Levels

LEMMA AllLevels ==
  ASSUME NEW ptr, NEW k \in Nat
  PROVE  \E f : f = Levels(ptr, f, k)
<1> DEFINE S == {n \in Nat : \E f : f = Levels(ptr, f, n)}
<1>1. 0 \in S
  <2>1. PICK f : f = [n \in 0 .. 0 |-> Level(ptr, << >>, n)]
    OBVIOUS
  <2>2. \A n \in 0 .. 0 : Level(ptr, << >>, n) = Level(ptr, f, n)
    BY DEF Level
  <2> QED
    BY <2>1, <2>2 DEF Levels
<1>2. \A n \in Nat : n \in S => n + 1 \in S
  BY OneMoreLevel
<1>3. Nat \subseteq S
  <2> HIDE DEF S
  <2> QED
    BY <1>1, <1>2, Induction
<1> QED
  BY <1>3

LEMMA WalkLevels ==
  ASSUME NEW ptr
  PROVE  \E w : /\ \A x : Walk(ptr, x) = w[Cardinality(Node) + 1][x]
                /\ \A n \in 0 .. Cardinality(Node) + 1 : \A y \in Place :
                     w[n][y] = IF n = 0 \/ ptr[y] = null THEN << >>
                               ELSE <<ptr[y]>> \o w[n - 1][ptr[y]]
<1> DEFINE k == Cardinality(Node) + 1
           w == CHOOSE f : f = Levels(ptr, f, k)
<1>1. k \in Nat
  BY FS_CardinalityType, NodeAssumption
<1>2. w = Levels(ptr, w, k)
  BY <1>1, AllLevels
<1>3. \A x : Walk(ptr, x) = w[k][x]
  BY DEF Walk, Levels, Level
<1> HIDE DEF w
<1>4. ASSUME NEW n \in 0 .. k, NEW y \in Place
      PROVE  w[n][y] = IF n = 0 \/ ptr[y] = null THEN << >> ELSE <<ptr[y]>> \o w[n - 1][ptr[y]]
  <2>1. w[n] = Level(ptr, w, n)
    BY <1>1, <1>2, LevelOf
  <2>2. Level(ptr, w, n)[y] = IF n = 0 \/ ptr[y] = null THEN << >>
                              ELSE <<ptr[y]>> \o w[n - 1][ptr[y]]
    BY DEF Level, Place
  <2> QED
    BY <2>1, <2>2
<1> QED
  BY <1>3, <1>4

LEMMA WalkFindsChain ==
  ASSUME NEW ptr, NEW x \in Place, NEW s \in Seq(Node), Linked(ptr, x, s),
         Len(s) <= Cardinality(Node) + 1
  PROVE  Walk(ptr, x) = s
<1> DEFINE k == Cardinality(Node) + 1
           m == Len(s)
<1>1. k \in Nat /\ m \in Nat /\ \A i \in 1 .. m : s[i] \in Node /\ s[i] # null
  BY FS_CardinalityType, NodeAssumption
<1>2. PICK w : /\ \A y : Walk(ptr, y) = w[k][y]
               /\ \A n \in 0 .. k : \A y \in Place :
                    w[n][y] = IF n = 0 \/ ptr[y] = null THEN << >>
                              ELSE <<ptr[y]>> \o w[n - 1][ptr[y]]
  BY WalkLevels
<1> DEFINE Rest(d) == SubSeq(s, m - d + 1, m)
           S == {d \in Nat : d <= m => \A n \in d .. k : w[n][At(x, s, m - d)] = Rest(d)}
<1>3. \A i \in 0 .. m : At(x, s, i) \in Place
  BY <1>1 DEF At, Place
<1>4. 0 \in S
  <2>1. ptr[At(x, s, m)] = null
    BY <1>1 DEF Linked, Nxt
  <2>2. Rest(0) = << >>
    BY <1>1, SubSeqEmpty
  <2>3. m - 0 = m /\ At(x, s, m) \in Place
    BY <1>1, <1>3
  <2>4. ASSUME NEW n \in 0 .. k PROVE w[n][At(x, s, m)] = << >>
    BY <1>2, <2>1, <2>3
  <2> QED
    BY <2>2, <2>3, <2>4
<1>5. ASSUME NEW d \in Nat, d \in S PROVE d + 1 \in S
  <2> SUFFICES ASSUME d + 1 <= m, NEW n \in d + 1 .. k
               PROVE  w[n][At(x, s, m - (d + 1))] = Rest(d + 1)
    OBVIOUS
  <2> DEFINE i == m - (d + 1)
  <2>1. /\ i \in 0 .. m /\ i < m /\ i + 1 = m - d /\ i + 1 \in 1 .. m
        /\ n \in 0 .. k /\ n # 0 /\ n - 1 \in d .. k /\ d <= m
    BY <1>1
  <2>2. ptr[At(x, s, i)] = s[i + 1] /\ s[i + 1] # null
    BY <1>1, <2>1 DEF Linked, Nxt
  <2>3. w[n][At(x, s, i)] = <<s[i + 1]>> \o w[n - 1][s[i + 1]]
    BY <1>2, <1>3, <2>1, <2>2
  <2>4. w[n - 1][s[i + 1]] = Rest(d)
    <3>1. m - d # 0
      BY <1>1
    <3>2. At(x, s, m - d) = s[m - d]
      BY <3>1 DEF At
    <3>3. At(x, s, m - d) = s[i + 1]
      BY <2>1, <3>2
    <3> QED
      BY <1>5, <2>1, <3>3
  <2>5. Rest(d + 1) = <<s[i + 1]>> \o Rest(d)
    <3>1. m \in i + 1 .. m /\ (i + 1) + 1 = m - d + 1 /\ m - (d + 1) + 1 = i + 1
      BY <1>1, <2>1
    <3> QED
      BY <2>1, <3>1, SubSeqRecursiveFirst
  <2> QED
    BY <2>3, <2>4, <2>5
<1>6. m \in S
  <2> HIDE DEF S
  <2> QED
    BY <1>1, <1>4, <1>5, Induction
<1>7. w[k][x] = Rest(m)
  BY <1>1, <1>6 DEF At
<1>8. Rest(m) = s
  BY <1>1, SubSeqFull
<1> QED
  BY <1>2, <1>7, <1>8

-----------------------------------------------------------------------------
(* What the operations make of a sequence of nodes that all differ.         *)

\* n comes after the first k nodes, or the node after them goes, or comes to
\* the front.
Spliced(s, k, n) == [i \in 1 .. Len(s) + 1 |-> IF i <= k THEN s[i] ELSE IF i = k + 1 THEN n ELSE s[i - 1]]
Without(s, k)    == [i \in 1 .. Len(s) - 1 |-> IF i <= k THEN s[i] ELSE s[i + 1]]
Raised(s, k)     == [i \in 1 .. Len(s) |-> IF i = 1 THEN s[k + 1] ELSE IF i <= k + 1 THEN s[i - 1] ELSE s[i]]

LEMMA NodesOfSequence ==
  ASSUME NEW s \in Seq(Node)
  PROVE  /\ Len(s) \in Nat /\ DOMAIN s = 1 .. Len(s) /\ \A i \in 1 .. Len(s) : s[i] \in Node
         /\ \A n : n \in ToSet(s) <=> \E i \in 1 .. Len(s) : n = s[i]
         /\ ToSet(s) \subseteq Node
<1>1. Len(s) \in Nat /\ DOMAIN s = 1 .. Len(s) /\ \A i \in 1 .. Len(s) : s[i] \in Node
  OBVIOUS
<1> QED
  BY <1>1 DEF ToSet

LEMMA UniqueIsShort ==
  ASSUME NEW s \in Seq(Node), Unique(s)
  PROVE  Len(s) <= Cardinality(Node)
<1>1. Len(s) \in Nat /\ Cardinality(Node) \in Nat /\ s \in [1 .. Len(s) -> Node]
  BY FS_CardinalityType, NodeAssumption
<1>2. IsFiniteSet(1 .. Len(s)) /\ Cardinality(1 .. Len(s)) = Len(s)
  <2> DEFINE m == Len(s)
  <2>1. 1 \in Int /\ m \in Int /\ m >= 0
    BY <1>1
  <2> HIDE DEF m
  <2>2. IsFiniteSet(1 .. m) /\ Cardinality(1 .. m) = IF 1 > m THEN 0 ELSE m - 1 + 1
    BY <2>1, FS_Interval
  <2>3. Cardinality(1 .. m) = m
    BY <2>1, <2>2
  <2> QED
    BY <2>2, <2>3 DEF m
<1>3. ASSUME Cardinality(Node) < Len(s) PROVE FALSE
  BY <1>1, <1>2, <1>3, FS_PigeonHole, NodeAssumption DEF Unique
<1> QED
  BY <1>1, <1>3

LEMMA SplicedNodes ==
  ASSUME NEW s \in Seq(Node), Unique(s), NEW k \in 0 .. Len(s), NEW n \in Node \ ToSet(s)
  PROVE  /\ Spliced(s, k, n) \in Seq(Node) /\ Len(Spliced(s, k, n)) = Len(s) + 1
         /\ Unique(Spliced(s, k, n))
         /\ ToSet(Spliced(s, k, n)) = ToSet(s) \cup {n}
<1> DEFINE m == Len(s)
           t == Spliced(s, k, n)
<1>1. m \in Nat /\ k \in Nat /\ k <= m /\ \A i \in 1 .. m : s[i] \in Node /\ s[i] # n
  BY NodesOfSequence
<1>2. t = [i \in 1 .. m + 1 |-> IF i <= k THEN s[i] ELSE IF i = k + 1 THEN n ELSE s[i - 1]]
  BY DEF Spliced
<1> HIDE DEF m, t
<1>3. t \in [1 .. m + 1 -> Node]
  BY <1>1, <1>2
<1>4. t \in Seq(Node) /\ Len(t) = m + 1
  BY <1>1, <1>3
<1>5. Unique(t)
  BY <1>1, <1>2, <1>4 DEF Unique, m
<1>6. ASSUME NEW x PROVE x \in ToSet(t) <=> x \in ToSet(s) \/ x = n
  <2>1. x \in ToSet(t) <=> \E i \in 1 .. m + 1 : x = t[i]
    BY <1>4, NodesOfSequence
  <2>2. x \in ToSet(s) <=> \E i \in 1 .. m : x = s[i]
    BY NodesOfSequence DEF m
  <2>3. \A i \in 1 .. m + 1 : \/ i <= k /\ i \in 1 .. m /\ t[i] = s[i]
                              \/ i = k + 1 /\ t[i] = n
                              \/ i - 1 \in 1 .. m /\ t[i] = s[i - 1]
    BY <1>1, <1>2
  <2>4. \A i \in 1 .. m : \/ i <= k /\ i \in 1 .. m + 1 /\ t[i] = s[i]
                          \/ i + 1 \in 1 .. m + 1 /\ t[i + 1] = s[i]
    BY <1>1, <1>2
  <2>5. k + 1 \in 1 .. m + 1 /\ t[k + 1] = n
    BY <1>1, <1>2
  <2> QED
    BY <2>1, <2>2, <2>3, <2>4, <2>5
<1> QED
  BY <1>4, <1>5, <1>6 DEF m, t

LEMMA WithoutNodes ==
  ASSUME NEW s \in Seq(Node), Unique(s), NEW k \in 0 .. Len(s) - 1
  PROVE  /\ Without(s, k) \in Seq(Node) /\ Len(Without(s, k)) = Len(s) - 1
         /\ Unique(Without(s, k))
         /\ ToSet(Without(s, k)) = ToSet(s) \ {s[k + 1]}
<1> DEFINE m == Len(s)
           t == Without(s, k)
<1>1. m \in Nat /\ k \in Nat /\ k < m /\ \A i \in 1 .. m : s[i] \in Node
  BY NodesOfSequence
<1>2. t = [i \in 1 .. m - 1 |-> IF i <= k THEN s[i] ELSE s[i + 1]]
  BY DEF Without
<1>3. \A i, j \in 1 .. m : s[i] = s[j] => i = j
  BY DEF Unique
<1> HIDE DEF m, t
<1>4. t \in [1 .. m - 1 -> Node] /\ m - 1 \in Nat
  BY <1>1, <1>2
<1>5. t \in Seq(Node) /\ Len(t) = m - 1
  BY <1>1, <1>4
<1>6. Unique(t)
  BY <1>1, <1>2, <1>3, <1>5 DEF Unique
<1>7. ASSUME NEW x PROVE x \in ToSet(t) <=> x \in ToSet(s) /\ x # s[k + 1]
  <2>1. x \in ToSet(t) <=> \E i \in 1 .. m - 1 : x = t[i]
    BY <1>5, NodesOfSequence
  <2>2. x \in ToSet(s) <=> \E i \in 1 .. m : x = s[i]
    BY NodesOfSequence DEF m
  <2>3. \A i \in 1 .. m - 1 : \/ i \in 1 .. m /\ t[i] = s[i] /\ s[i] # s[k + 1]
                              \/ i + 1 \in 1 .. m /\ t[i] = s[i + 1] /\ s[i + 1] # s[k + 1]
    BY <1>1, <1>2, <1>3
  <2>4. \A i \in 1 .. m : \/ i = k + 1
                          \/ i \in 1 .. m - 1 /\ t[i] = s[i]
                          \/ i - 1 \in 1 .. m - 1 /\ t[i - 1] = s[i]
    BY <1>1, <1>2
  <2> QED
    BY <2>1, <2>2, <2>3, <2>4
<1> QED
  BY <1>5, <1>6, <1>7 DEF m, t

LEMMA RaisedNodes ==
  ASSUME NEW s \in Seq(Node), Unique(s), NEW k \in 0 .. Len(s) - 1
  PROVE  /\ Raised(s, k) \in Seq(Node) /\ Len(Raised(s, k)) = Len(s)
         /\ Unique(Raised(s, k))
         /\ ToSet(Raised(s, k)) = ToSet(s)
<1> DEFINE m == Len(s)
           t == Raised(s, k)
<1>1. m \in Nat /\ k \in Nat /\ k < m /\ \A i \in 1 .. m : s[i] \in Node
  BY NodesOfSequence
<1>2. t = [i \in 1 .. m |-> IF i = 1 THEN s[k + 1] ELSE IF i <= k + 1 THEN s[i - 1] ELSE s[i]]
  BY DEF Raised
<1>3. \A i, j \in 1 .. m : s[i] = s[j] => i = j
  BY DEF Unique
<1> HIDE DEF m, t
<1>4. t \in [1 .. m -> Node]
  BY <1>1, <1>2
<1>5. t \in Seq(Node) /\ Len(t) = m
  BY <1>1, <1>4
<1>6. Unique(t)
  BY <1>1, <1>2, <1>3, <1>5 DEF Unique
<1>7. ASSUME NEW x PROVE x \in ToSet(t) <=> x \in ToSet(s)
  <2>1. x \in ToSet(t) <=> \E i \in 1 .. m : x = t[i]
    BY <1>5, NodesOfSequence
  <2>2. x \in ToSet(s) <=> \E i \in 1 .. m : x = s[i]
    BY NodesOfSequence DEF m
  <2>3. \A i \in 1 .. m : \E j \in 1 .. m : t[i] = s[j]
    BY <1>1, <1>2
  <2>4. \A i \in 1 .. m : \/ i = k + 1 /\ 1 \in 1 .. m /\ t[1] = s[i]
                          \/ i + 1 \in 1 .. m /\ t[i + 1] = s[i]
                          \/ t[i] = s[i]
    BY <1>1, <1>2
  <2> QED
    BY <2>1, <2>2, <2>3, <2>4
<1> QED
  BY <1>5, <1>6, <1>7 DEF m, t

LEMMA SplitNodes ==
  ASSUME NEW s \in Seq(Node), Unique(s), NEW k \in 0 .. Len(s)
  PROVE  /\ SubSeq(s, 1, k) \in Seq(Node) /\ Len(SubSeq(s, 1, k)) = k
         /\ \A i \in 1 .. k : SubSeq(s, 1, k)[i] = s[i]
         /\ SubSeq(s, k + 1, Len(s)) \in Seq(Node) /\ Len(SubSeq(s, k + 1, Len(s))) = Len(s) - k
         /\ \A i \in 1 .. Len(s) - k : SubSeq(s, k + 1, Len(s))[i] = s[k + i]
         /\ Unique(SubSeq(s, 1, k)) /\ Unique(SubSeq(s, k + 1, Len(s)))
         /\ ToSet(SubSeq(s, 1, k)) \cap ToSet(SubSeq(s, k + 1, Len(s))) = {}
         /\ ToSet(SubSeq(s, 1, k)) \cup ToSet(SubSeq(s, k + 1, Len(s))) = ToSet(s)
<1> DEFINE m == Len(s)
           t == SubSeq(s, 1, k)
           u == SubSeq(s, k + 1, m)
<1>1. m \in Nat /\ k \in Nat /\ k <= m /\ \A i \in 1 .. m : s[i] \in Node
  BY NodesOfSequence
<1>2. t \in Seq(Node) /\ Len(t) = k /\ \A i \in 1 .. k : t[i] = s[i]
  BY <1>1
<1>3. u \in Seq(Node) /\ Len(u) = m - k /\ \A i \in 1 .. m - k : u[i] = s[k + i]
  BY <1>1
<1>4. \A i, j \in 1 .. m : s[i] = s[j] => i = j
  BY DEF Unique
<1> HIDE DEF m, t, u
<1>5. Unique(t) /\ Unique(u)
  BY <1>1, <1>2, <1>3, <1>4 DEF Unique
<1>6. \A x : x \in ToSet(t) <=> \E i \in 1 .. k : x = s[i]
  BY <1>2, NodesOfSequence
<1>7. \A x : x \in ToSet(u) <=> \E i \in k + 1 .. m : x = s[i]
  <2>1. \A i \in k + 1 .. m : i - k \in 1 .. m - k /\ u[i - k] = s[i]
    BY <1>1, <1>3
  <2>2. \A i \in 1 .. m - k : k + i \in k + 1 .. m
    BY <1>1
  <2> QED
    BY <1>3, <2>1, <2>2, NodesOfSequence
<1>8. \A x : x \in ToSet(s) <=> \E i \in 1 .. m : x = s[i]
  BY NodesOfSequence DEF m
<1>9. ToSet(t) \cap ToSet(u) = {}
  BY <1>1, <1>4, <1>6, <1>7
<1>10. ToSet(t) \cup ToSet(u) = ToSet(s)
  BY <1>1, <1>6, <1>7, <1>8
<1> QED
  BY <1>2, <1>3, <1>5, <1>9, <1>10 DEF m, t, u

LEMMA JoinedNodes ==
  ASSUME NEW s \in Seq(Node), NEW r \in Seq(Node), Unique(s), Unique(r),
         ToSet(s) \cap ToSet(r) = {}
  PROVE  /\ s \o r \in Seq(Node) /\ Len(s \o r) = Len(s) + Len(r)
         /\ \A i \in 1 .. Len(s) + Len(r) :
              (s \o r)[i] = IF i <= Len(s) THEN s[i] ELSE r[i - Len(s)]
         /\ Unique(s \o r)
         /\ ToSet(s \o r) = ToSet(s) \cup ToSet(r)
<1> DEFINE m == Len(s)
           n == Len(r)
           t == s \o r
<1>1. /\ m \in Nat /\ \A i \in 1 .. m : s[i] \in ToSet(s)
      /\ n \in Nat /\ \A i \in 1 .. n : r[i] \in ToSet(r)
  BY NodesOfSequence
<1>2. t \in Seq(Node) /\ Len(t) = m + n /\ \A i \in 1 .. m + n : t[i] = IF i <= m THEN s[i] ELSE r[i - m]
  BY ConcatProperties
<1>3. /\ \A i, j \in 1 .. m : s[i] = s[j] => i = j
      /\ \A i, j \in 1 .. n : r[i] = r[j] => i = j
      /\ \A i \in 1 .. m, j \in 1 .. n : s[i] # r[j]
  BY <1>1 DEF Unique
<1>4. /\ \A x : x \in ToSet(s) <=> \E i \in 1 .. m : x = s[i]
      /\ \A x : x \in ToSet(r) <=> \E i \in 1 .. n : x = r[i]
  BY NodesOfSequence
<1> HIDE DEF m, n, t
<1>5. \A x : x \in ToSet(t) <=> \E i \in 1 .. m + n : x = t[i]
  BY <1>2, NodesOfSequence
<1>6. Unique(t)
  <2>1. ASSUME NEW i \in 1 .. m + n, NEW j \in 1 .. m + n, t[i] = t[j] PROVE i = j
    <3>1. CASE i <= m /\ j <= m
      BY <1>1, <1>2, <1>3, <2>1, <3>1
    <3>2. CASE i > m /\ j > m
      <4>1. i - m \in 1 .. n /\ j - m \in 1 .. n /\ r[i - m] = r[j - m]
        BY <1>1, <1>2, <2>1, <3>2
      <4> QED
        BY <1>1, <1>3, <4>1
    <3>3. CASE i <= m /\ j > m
      <4>1. i \in 1 .. m /\ j - m \in 1 .. n /\ s[i] = r[j - m]
        BY <1>1, <1>2, <2>1, <3>3
      <4> QED
        BY <1>3, <4>1
    <3>4. CASE i > m /\ j <= m
      <4>1. j \in 1 .. m /\ i - m \in 1 .. n /\ s[j] = r[i - m]
        BY <1>1, <1>2, <2>1, <3>4
      <4> QED
        BY <1>3, <4>1
    <3> QED
      BY <1>1, <3>1, <3>2, <3>3, <3>4
  <2> QED
    BY <1>2, <2>1 DEF Unique
<1>7. ASSUME NEW x PROVE x \in ToSet(t) <=> x \in ToSet(s) \/ x \in ToSet(r)
  <2>1. \A i \in 1 .. m + n : \/ i \in 1 .. m /\ t[i] = s[i]
                              \/ i - m \in 1 .. n /\ t[i] = r[i - m]
    BY <1>1, <1>2
  <2>2. \A i \in 1 .. m : i \in 1 .. m + n /\ t[i] = s[i]
    BY <1>1, <1>2
  <2>3. \A i \in 1 .. n : m + i \in 1 .. m + n /\ t[m + i] = r[i]
    BY <1>1, <1>2
  <2> QED
    BY <1>4, <1>5, <2>1, <2>2, <2>3
<1> QED
  BY <1>2, <1>6, <1>7 DEF m, n, t

LEMMA TailNodes ==
  ASSUME NEW s \in Seq(Node), Unique(s), s # << >>
  PROVE  /\ Tail(s) \in Seq(Node) /\ Len(Tail(s)) = Len(s) - 1
         /\ \A i \in 1 .. Len(s) - 1 : Tail(s)[i] = s[i + 1]
         /\ Unique(Tail(s))
         /\ ToSet(Tail(s)) = ToSet(s) \ {s[1]}
<1> DEFINE m == Len(s)
           t == Tail(s)
<1>1. m \in Nat \ {0} /\ \A i \in 1 .. m : s[i] \in Node
  BY NodesOfSequence, EmptySeq
<1>2. t \in Seq(Node) /\ Len(t) = m - 1 /\ \A i \in 1 .. m - 1 : t[i] = s[i + 1]
  BY HeadTailProperties
<1>3. \A i, j \in 1 .. m : s[i] = s[j] => i = j
  BY DEF Unique
<1>4. \A x : x \in ToSet(s) <=> \E i \in 1 .. m : x = s[i]
  BY NodesOfSequence
<1> HIDE DEF m, t
<1>5. \A x : x \in ToSet(t) <=> \E i \in 1 .. m - 1 : x = t[i]
  BY <1>2, NodesOfSequence
<1>6. Unique(t)
  BY <1>1, <1>2, <1>3 DEF Unique
<1>7. ASSUME NEW x PROVE x \in ToSet(t) <=> x \in ToSet(s) /\ x # s[1]
  <2>1. \A i \in 1 .. m - 1 : i + 1 \in 1 .. m /\ t[i] = s[i + 1] /\ s[i + 1] # s[1]
    BY <1>1, <1>2, <1>3
  <2>2. \A i \in 1 .. m : i = 1 \/ (i - 1 \in 1 .. m - 1 /\ t[i - 1] = s[i])
    BY <1>1, <1>2
  <2> QED
    BY <1>4, <1>5, <2>1, <2>2
<1> QED
  BY <1>2, <1>6, <1>7 DEF m, t

-----------------------------------------------------------------------------
(* What the operations make of the pointers of a chain.  A segment leads    *)
(* from a head to its last node; the chain of nodes that an erasure has not *)
(* come to ends, but no head leads to it.                                   *)

Segment(ptr, x, s) == \A i \in 1 .. Len(s) : ptr[At(x, s, i - 1)] = s[i]
Ended(ptr, s)      == \A i \in 1 .. Len(s) : ptr[s[i]] = Nxt(s, i)

LEMMA PlacesOfChain ==
  ASSUME NEW x \in List, NEW s \in Seq(Node), Unique(s)
  PROVE  /\ Len(s) \in Nat
         /\ \A i \in 1 .. Len(s) : s[i] \in Node /\ s[i] # null /\ s[i] # x
         /\ \A i \in 0 .. Len(s) : At(x, s, i) \in Place
         /\ \A i \in 1 .. Len(s) : At(x, s, i) = s[i]
         /\ At(x, s, 0) = x
         /\ \A i, j \in 0 .. Len(s) : At(x, s, i) = At(x, s, j) => i = j
         /\ \A i \in 0 .. Len(s) : i < Len(s) => Nxt(s, i) = s[i + 1]
         /\ Nxt(s, Len(s)) = null
<1>1. Len(s) \in Nat /\ \A i \in 1 .. Len(s) : s[i] \in Node /\ s[i] # null /\ s[i] # x
  BY NodeAssumption
<1>2. \A i \in 1 .. Len(s) : At(x, s, i) = s[i]
  BY <1>1 DEF At
<1>3. At(x, s, 0) = x
  BY DEF At
<1>4. \A i \in 0 .. Len(s) : i = 0 \/ i \in 1 .. Len(s)
  BY <1>1
<1>5. \A i \in 0 .. Len(s) : At(x, s, i) \in Place
  BY <1>1, <1>2, <1>3, <1>4 DEF Place
<1>6. \A i, j \in 0 .. Len(s) : At(x, s, i) = At(x, s, j) => i = j
  BY <1>1, <1>2, <1>3, <1>4 DEF Unique
<1>7. /\ \A i \in 0 .. Len(s) : i < Len(s) => Nxt(s, i) = s[i + 1]
      /\ Nxt(s, Len(s)) = null
  BY <1>1 DEF Nxt
<1> QED
  BY <1>1, <1>2, <1>3, <1>5, <1>6, <1>7

\* Pointers of other chains do not matter.
LEMMA LinkedElsewhere ==
  ASSUME NEW p, NEW q, NEW x, NEW s \in Seq(Node), Linked(p, x, s),
         \A y \in {x} \cup ToSet(s) : q[y] = p[y]
  PROVE  Linked(q, x, s)
<1>1. \A i \in 0 .. Len(s) : At(x, s, i) \in {x} \cup ToSet(s)
  BY DEF At, ToSet
<1> QED
  BY <1>1 DEF Linked

LEMMA LinkedMoved ==
  ASSUME NEW p, NEW q, NEW x, NEW y, NEW s \in Seq(Node), Linked(p, x, s),
         q[y] = p[x], \A n \in ToSet(s) : q[n] = p[n]
  PROVE  Linked(q, y, s)
<1> SUFFICES ASSUME NEW i \in 0 .. Len(s)
             PROVE  q[At(y, s, i)] = Nxt(s, i)
  BY DEF Linked
<1>1. p[At(x, s, i)] = Nxt(s, i)
  BY DEF Linked
<1>2. CASE i = 0
  BY <1>1, <1>2 DEF At
<1>3. CASE i # 0
  <2>1. s[i] \in ToSet(s)
    BY <1>3, NodesOfSequence
  <2> QED
    BY <1>1, <1>3, <2>1 DEF At
<1> QED
  BY <1>2, <1>3

LEMMA SegmentElsewhere ==
  ASSUME NEW p, NEW q, NEW x, NEW s \in Seq(Node), Segment(p, x, s),
         \A y \in {x} \cup ToSet(s) : q[y] = p[y]
  PROVE  Segment(q, x, s)
<1>1. \A i \in 1 .. Len(s) : At(x, s, i - 1) \in {x} \cup ToSet(s)
  BY DEF At, ToSet
<1> QED
  BY <1>1 DEF Segment

\* A new node comes after place k.
LEMMA LinkedSpliced ==
  ASSUME NEW p \in [Place -> Ref], NEW x \in List, NEW s \in Seq(Node), Unique(s),
         Linked(p, x, s), NEW k \in 0 .. Len(s), NEW n \in Node \ ToSet(s), NEW q,
         q = [p EXCEPT ![n] = p[At(x, s, k)], ![At(x, s, k)] = n]
  PROVE  Linked(q, x, Spliced(s, k, n))
<1> DEFINE m == Len(s)
           t == Spliced(s, k, n)
<1>1. /\ m \in Nat /\ k \in Nat /\ k <= m /\ n \in Place
      /\ \A i \in 0 .. m : At(x, s, i) \in Place /\ At(x, s, i) # n
      /\ \A i, j \in 0 .. m : At(x, s, i) = At(x, s, j) => i = j
  BY PlacesOfChain, NodesOfSequence, NodeAssumption DEF At, Place
<1>2. \A i \in 0 .. m : p[At(x, s, i)] = Nxt(s, i)
  BY DEF Linked
<1>3. /\ q[n] = Nxt(s, k) /\ q[At(x, s, k)] = n
      /\ \A i \in 0 .. m : i # k => q[At(x, s, i)] = Nxt(s, i)
  BY <1>1, <1>2
<1>4. /\ \A i \in 0 .. k : At(x, t, i) = At(x, s, i)
      /\ At(x, t, k + 1) = n
      /\ \A i \in k + 2 .. m + 1 : At(x, t, i) = At(x, s, i - 1)
  BY <1>1 DEF At, Spliced
<1>5. /\ \A i \in 0 .. m + 1 : i < k => Nxt(t, i) = Nxt(s, i)
      /\ Nxt(t, k) = n
      /\ \A i \in k + 1 .. m + 1 : Nxt(t, i) = Nxt(s, i - 1)
  BY <1>1, SplicedNodes DEF Nxt, Spliced
<1>6. ASSUME NEW i \in 0 .. m + 1 PROVE q[At(x, t, i)] = Nxt(t, i)
  <2> HIDE DEF m, t
  <2>1. CASE i < k
    BY <1>1, <1>3, <1>4, <1>5, <2>1
  <2>2. CASE i = k
    BY <1>1, <1>3, <1>4, <1>5, <2>2
  <2>3. CASE i = k + 1
    <3>1. Nxt(t, i) = Nxt(s, k)
      BY <1>1, <1>5, <2>3
    <3> QED
      BY <1>3, <1>4, <2>3, <3>1
  <2>4. CASE i > k + 1
    <3>1. i \in k + 2 .. m + 1 /\ i \in k + 1 .. m + 1 /\ i - 1 \in 0 .. m /\ i - 1 # k
      BY <1>1, <2>4
    <3> QED
      BY <1>3, <1>4, <1>5, <3>1
  <2> QED
    BY <1>1, <2>1, <2>2, <2>3, <2>4
<1> QED
  BY <1>6, SplicedNodes DEF Linked

\* The node after place k goes.
LEMMA LinkedWithout ==
  ASSUME NEW p \in [Place -> Ref], NEW x \in List, NEW s \in Seq(Node), Unique(s),
         Linked(p, x, s), NEW k \in 0 .. Len(s) - 1, NEW q,
         q = [p EXCEPT ![At(x, s, k)] = p[s[k + 1]], ![s[k + 1]] = null]
  PROVE  Linked(q, x, Without(s, k))
<1> DEFINE m == Len(s)
           t == Without(s, k)
<1>1. /\ m \in Nat /\ k \in Nat /\ k < m /\ At(x, s, k + 1) = s[k + 1]
      /\ \A i \in 0 .. m : At(x, s, i) \in Place
      /\ \A i, j \in 0 .. m : At(x, s, i) = At(x, s, j) => i = j
  BY PlacesOfChain
<1>2. \A i \in 0 .. m : p[At(x, s, i)] = Nxt(s, i)
  BY DEF Linked
<1>3. /\ q[At(x, s, k)] = Nxt(s, k + 1)
      /\ \A i \in 0 .. m : i # k /\ i # k + 1 => q[At(x, s, i)] = Nxt(s, i)
  BY <1>1, <1>2
<1>4. /\ \A i \in 0 .. k : At(x, t, i) = At(x, s, i)
      /\ \A i \in k + 1 .. m - 1 : At(x, t, i) = At(x, s, i + 1)
  BY <1>1 DEF At, Without
<1>5. /\ \A i \in 0 .. m - 1 : i < k => Nxt(t, i) = Nxt(s, i)
      /\ \A i \in k .. m - 1 : Nxt(t, i) = Nxt(s, i + 1)
  BY <1>1, WithoutNodes DEF Nxt, Without
<1>6. ASSUME NEW i \in 0 .. m - 1 PROVE q[At(x, t, i)] = Nxt(t, i)
  <2> HIDE DEF m, t
  <2>1. CASE i < k
    BY <1>1, <1>3, <1>4, <1>5, <2>1
  <2>2. CASE i = k
    BY <1>1, <1>3, <1>4, <1>5, <2>2
  <2>3. CASE i > k
    <3>1. i \in k + 1 .. m - 1 /\ i \in k .. m - 1 /\ i + 1 \in 0 .. m /\ i + 1 # k /\ i + 1 # k + 1
      BY <1>1, <2>3
    <3> QED
      BY <1>3, <1>4, <1>5, <3>1
  <2> QED
    BY <1>1, <2>1, <2>2, <2>3
<1> QED
  BY <1>6, WithoutNodes DEF Linked

\* The node after place k comes to the front.
LEMMA LinkedRaised ==
  ASSUME NEW p \in [Place -> Ref], NEW x \in List, NEW s \in Seq(Node), Unique(s),
         Linked(p, x, s), NEW k \in 1 .. Len(s) - 1, NEW q,
         q = [p EXCEPT ![x] = s[k + 1], ![s[k]] = p[s[k + 1]], ![s[k + 1]] = p[x]]
  PROVE  Linked(q, x, Raised(s, k))
<1> DEFINE m == Len(s)
           t == Raised(s, k)
<1>1. /\ m \in Nat /\ k \in Nat /\ 1 <= k /\ k < m
      /\ At(x, s, k + 1) = s[k + 1] /\ At(x, s, k) = s[k] /\ At(x, s, 0) = x
      /\ \A i \in 0 .. m : At(x, s, i) \in Place
      /\ \A i, j \in 0 .. m : At(x, s, i) = At(x, s, j) => i = j
  BY PlacesOfChain
<1>2. \A i \in 0 .. m : p[At(x, s, i)] = Nxt(s, i)
  BY DEF Linked
<1>3. /\ q[x] = s[k + 1] /\ q[s[k]] = Nxt(s, k + 1) /\ q[s[k + 1]] = Nxt(s, 0)
      /\ \A i \in 1 .. m : i # k /\ i # k + 1 => q[At(x, s, i)] = Nxt(s, i)
  <2>1. 0 \in 0 .. m /\ k \in 0 .. m /\ k + 1 \in 0 .. m /\ 0 # k /\ 0 # k + 1 /\ k # k + 1
    BY <1>1
  <2>2. x \in Place /\ s[k] \in Place /\ s[k + 1] \in Place
        /\ x # s[k] /\ x # s[k + 1] /\ s[k] # s[k + 1]
    BY <1>1, <2>1
  <2>3. p[x] = Nxt(s, 0) /\ p[s[k + 1]] = Nxt(s, k + 1)
    BY <1>1, <1>2, <2>1
  <2>4. ASSUME NEW i \in 1 .. m, i # k, i # k + 1 PROVE q[At(x, s, i)] = Nxt(s, i)
    <3>1. i \in 0 .. m /\ i # 0
      BY <1>1
    <3>2. At(x, s, i) # x /\ At(x, s, i) # s[k] /\ At(x, s, i) # s[k + 1] /\ At(x, s, i) \in Place
      BY <1>1, <2>1, <2>4, <3>1
    <3>3. p[At(x, s, i)] = Nxt(s, i)
      BY <1>2, <3>1
    <3> QED
      BY <3>2, <3>3
  <2> QED
    BY <2>2, <2>3, <2>4
<1>4. /\ At(x, t, 0) = x /\ At(x, t, 1) = s[k + 1] /\ At(x, t, k + 1) = s[k]
      /\ \A i \in 2 .. k : At(x, t, i) = At(x, s, i - 1)
      /\ \A i \in k + 2 .. m : At(x, t, i) = At(x, s, i)
  BY <1>1 DEF At, Raised
<1>5. /\ Nxt(t, 0) = s[k + 1] /\ Nxt(t, 1) = Nxt(s, 0)
      /\ \A i \in 2 .. k : Nxt(t, i) = Nxt(s, i - 1)
      /\ \A i \in k + 1 .. m : Nxt(t, i) = Nxt(s, i)
  BY <1>1, RaisedNodes DEF Nxt, Raised
<1>6. ASSUME NEW i \in 0 .. m PROVE q[At(x, t, i)] = Nxt(t, i)
  <2> HIDE DEF m, t
  <2>1. CASE i = 0 \/ i = 1
    BY <1>1, <1>3, <1>4, <1>5, <2>1
  <2>2. CASE i \in 2 .. k
    <3>1. i - 1 \in 1 .. m /\ i - 1 # k /\ i - 1 # k + 1
      BY <1>1, <2>2
    <3> QED
      BY <1>3, <1>4, <1>5, <2>2, <3>1
  <2>3. CASE i = k + 1
    <3>1. k + 1 \in k + 1 .. m
      BY <1>1
    <3> QED
      BY <1>3, <1>4, <1>5, <2>3, <3>1
  <2>4. CASE i \in k + 2 .. m
    <3>1. i \in 1 .. m /\ i # k /\ i # k + 1 /\ i \in k + 1 .. m
      BY <1>1, <2>4
    <3> QED
      BY <1>3, <1>4, <1>5, <2>4, <3>1
  <2> QED
    BY <1>1, <2>1, <2>2, <2>3, <2>4
<1>7. Len(t) = m
  BY <1>1, RaisedNodes
<1> QED
  BY <1>6, <1>7 DEF Linked

\* A chain is cut after place k.
LEMMA LinkedSplit ==
  ASSUME NEW p, NEW x \in List, NEW s \in Seq(Node), Unique(s), Linked(p, x, s),
         NEW k \in 0 .. Len(s)
  PROVE  /\ Segment(p, x, SubSeq(s, 1, k))
         /\ At(x, SubSeq(s, 1, k), k) = At(x, s, k)
         /\ Ended(p, SubSeq(s, k + 1, Len(s)))
         /\ Nxt(SubSeq(s, k + 1, Len(s)), 0) = p[At(x, s, k)]
<1> DEFINE m == Len(s)
           t == SubSeq(s, 1, k)
           u == SubSeq(s, k + 1, m)
<1>1. /\ m \in Nat /\ k \in Nat /\ k <= m
      /\ Len(t) = k /\ \A i \in 1 .. k : t[i] = s[i]
      /\ Len(u) = m - k /\ \A i \in 1 .. m - k : u[i] = s[k + i]
  BY SplitNodes, NodesOfSequence
<1>2. \A i \in 0 .. m : p[At(x, s, i)] = Nxt(s, i)
  BY DEF Linked
<1>3. /\ \A i \in 0 .. m : i < m => Nxt(s, i) = s[i + 1]
      /\ \A i \in 1 .. m : At(x, s, i) = s[i]
  BY PlacesOfChain
<1> HIDE DEF t, u
<1>4. \A i \in 0 .. k : At(x, t, i) = At(x, s, i)
  BY <1>1 DEF At
<1>5. Segment(p, x, t)
  <2>1. ASSUME NEW i \in 1 .. k PROVE p[At(x, t, i - 1)] = t[i]
    <3>1. i - 1 \in 0 .. k /\ i - 1 \in 0 .. m /\ i - 1 < m /\ i - 1 + 1 = i
      BY <1>1
    <3>2. At(x, t, i - 1) = At(x, s, i - 1)
      BY <1>4, <3>1
    <3>3. p[At(x, s, i - 1)] = s[i]
      BY <1>2, <1>3, <3>1
    <3> QED
      BY <1>1, <3>2, <3>3
  <2> QED
    BY <1>1, <2>1 DEF Segment
<1>6. \A i \in 0 .. m - k : Nxt(u, i) = Nxt(s, k + i)
  BY <1>1 DEF Nxt
<1>7. Ended(p, u)
  <2>1. ASSUME NEW i \in 1 .. m - k PROVE p[u[i]] = Nxt(u, i)
    <3>1. k + i \in 1 .. m /\ k + i \in 0 .. m /\ i \in 0 .. m - k
      BY <1>1
    <3>2. u[i] = At(x, s, k + i)
      BY <1>1, <1>3, <3>1
    <3> QED
      BY <1>2, <1>6, <3>1, <3>2
  <2> QED
    BY <1>1, <2>1 DEF Ended
<1>8. Nxt(u, 0) = p[At(x, s, k)]
  <2>1. 0 \in 0 .. m - k /\ k + 0 = k /\ k \in 0 .. m
    BY <1>1
  <2> QED
    BY <1>2, <1>6, <2>1
<1>9. At(x, t, k) = At(x, s, k)
  BY <1>1, <1>4
<1> QED
  BY <1>5, <1>7, <1>8, <1>9 DEF t, u

\* The first node of the rest goes.
LEMMA EndedTail ==
  ASSUME NEW p \in [Place -> Ref], NEW s \in Seq(Node), Unique(s), s # << >>, Ended(p, s),
         NEW q, q = [p EXCEPT ![s[1]] = null]
  PROVE  Ended(q, Tail(s)) /\ Nxt(Tail(s), 0) = p[s[1]]
<1> DEFINE m == Len(s)
           t == Tail(s)
<1>1. /\ m \in Nat \ {0} /\ \A i \in 1 .. m : s[i] \in Place
      /\ \A i, j \in 1 .. m : s[i] = s[j] => i = j
  BY NodesOfSequence, EmptySeq DEF Place, Unique
<1>2. Len(t) = m - 1 /\ \A i \in 1 .. m - 1 : t[i] = s[i + 1]
  BY TailNodes
<1>3. \A i \in 1 .. m : p[s[i]] = Nxt(s, i)
  BY DEF Ended
<1> HIDE DEF t
<1>4. \A i \in 0 .. m - 1 : Nxt(t, i) = Nxt(s, i + 1)
  BY <1>1, <1>2 DEF Nxt
<1>5. ASSUME NEW i \in 1 .. m - 1 PROVE q[t[i]] = Nxt(t, i)
  <2>1. i + 1 \in 1 .. m /\ i + 1 # 1 /\ 1 \in 1 .. m /\ i \in 0 .. m - 1
    BY <1>1
  <2>2. s[i + 1] # s[1] /\ s[i + 1] \in Place
    BY <1>1, <2>1
  <2>3. q[s[i + 1]] = p[s[i + 1]]
    BY <2>2
  <2> QED
    BY <1>2, <1>3, <1>4, <2>1, <2>3
<1>6. Nxt(t, 0) = p[s[1]]
  <2>1. 0 \in 0 .. m - 1 /\ 0 + 1 = 1 /\ 1 \in 1 .. m
    BY <1>1
  <2> QED
    BY <1>3, <1>4, <2>1
<1> QED
  BY <1>2, <1>5, <1>6 DEF Ended, t

\* The last node of a segment leads to the rest.
LEMMA LinkedJoined ==
  ASSUME NEW p \in [Place -> Ref], NEW x \in List, NEW s \in Seq(Node), NEW r \in Seq(Node),
         Unique(s), Unique(r), ToSet(s) \cap ToSet(r) = {},
         Segment(p, x, s), Ended(p, r), NEW q,
         q = [p EXCEPT ![At(x, s, Len(s))] = Nxt(r, 0)]
  PROVE  Linked(q, x, s \o r)
<1> DEFINE m == Len(s)
           n == Len(r)
           t == s \o r
<1>1. /\ m \in Nat /\ n \in Nat
      /\ \A i \in 0 .. m : At(x, s, i) \in Place
      /\ \A i, j \in 0 .. m : At(x, s, i) = At(x, s, j) => i = j
      /\ \A i \in 1 .. m : At(x, s, i) = s[i]
      /\ At(x, s, 0) = x
  BY PlacesOfChain, NodesOfSequence
<1>2. /\ Len(t) = m + n
      /\ \A i \in 1 .. m + n : t[i] = IF i <= m THEN s[i] ELSE r[i - m]
  BY JoinedNodes
<1>3. /\ \A i \in 1 .. m : p[At(x, s, i - 1)] = s[i]
      /\ \A i \in 1 .. n : p[r[i]] = Nxt(r, i)
  BY DEF Segment, Ended
<1>4. \A i \in 1 .. n : r[i] \in Place /\ r[i] # At(x, s, m)
  <2>1. ASSUME NEW i \in 1 .. n PROVE r[i] \in Node /\ r[i] \in ToSet(r) /\ r[i] # x
    BY NodesOfSequence, NodeAssumption
  <2>2. m # 0 => At(x, s, m) \in ToSet(s)
    BY <1>1, NodesOfSequence
  <2> QED
    BY <1>1, <2>1, <2>2 DEF Place
<1> HIDE DEF m, n, t
<1>5. /\ \A i \in 0 .. m : At(x, t, i) = At(x, s, i)
      /\ \A i \in m + 1 .. m + n : At(x, t, i) = r[i - m]
  BY <1>1, <1>2 DEF At
<1>6. /\ \A i \in 0 .. m - 1 : Nxt(t, i) = s[i + 1]
      /\ \A i \in m .. m + n : Nxt(t, i) = Nxt(r, i - m)
  BY <1>1, <1>2 DEF Nxt, n
<1>7. ASSUME NEW i \in 0 .. m + n PROVE q[At(x, t, i)] = Nxt(t, i)
  <2>1. CASE i < m
    <3>1. i \in 0 .. m /\ i + 1 \in 1 .. m /\ i + 1 - 1 = i /\ i # m /\ m \in 0 .. m /\ i \in 0 .. m - 1
      BY <1>1, <2>1
    <3>2. q[At(x, s, i)] = p[At(x, s, i)]
      BY <1>1, <3>1 DEF m
    <3>3. p[At(x, s, i)] = s[i + 1]
      BY <1>3, <3>1
    <3> QED
      BY <1>5, <1>6, <3>1, <3>2, <3>3
  <2>2. CASE i = m
    <3>1. m \in 0 .. m /\ m \in m .. m + n /\ m - m = 0
      BY <1>1
    <3>2. q[At(x, s, m)] = Nxt(r, 0)
      BY <1>1, <3>1 DEF m
    <3> QED
      BY <1>5, <1>6, <2>2, <3>1, <3>2
  <2>3. CASE i > m
    <3>1. i - m \in 1 .. n /\ i \in m + 1 .. m + n /\ i \in m .. m + n
      BY <1>1, <2>3
    <3>2. q[r[i - m]] = p[r[i - m]]
      BY <1>4, <3>1 DEF m
    <3> QED
      BY <1>3, <1>5, <1>6, <3>1, <3>2
  <2> QED
    BY <1>1, <2>1, <2>2, <2>3
<1> QED
  BY <1>2, <1>7 DEF Linked, m, n, t

-----------------------------------------------------------------------------
(* The elements in the nodes of a chain, before and after its k-th node.    *)

Slot == Value \cup {null}
Elements(v, s) == [i \in 1 .. Len(s) |-> v[s[i]]]
Before(s, k) == SubSeq(s, 1, k)
Behind(s, k) == SubSeq(s, k + 1, Len(s))

LEMMA ElementsAreASequence ==
  ASSUME NEW S, NEW v \in [Node -> S], NEW s \in Seq(Node)
  PROVE  /\ Elements(v, s) \in Seq(S) /\ Len(Elements(v, s)) = Len(s)
         /\ \A i \in 1 .. Len(s) : Elements(v, s)[i] = v[s[i]]
<1> DEFINE m == Len(s)
<1>1. m \in Nat /\ \A i \in 1 .. m : s[i] \in Node
  BY NodesOfSequence
<1>2. Elements(v, s) = [i \in 1 .. m |-> v[s[i]]] /\ \A i \in 1 .. m : v[s[i]] \in S
  BY <1>1 DEF Elements
<1> HIDE DEF m
<1>3. Elements(v, s) \in [1 .. m -> S]
  BY <1>2
<1>4. Elements(v, s) \in Seq(S) /\ Len(Elements(v, s)) = m
  BY <1>1, <1>3
<1> QED
  BY <1>2, <1>4 DEF m

\* Elements of nodes in which nothing has changed.
LEMMA ElementsSame ==
  ASSUME NEW v, NEW w, NEW s \in Seq(Node), \A n \in ToSet(s) : w[n] = v[n]
  PROVE  Elements(w, s) = Elements(v, s)
<1>1. \A i \in 1 .. Len(s) : w[s[i]] = v[s[i]]
  BY NodesOfSequence
<1> QED
  BY <1>1 DEF Elements

LEMMA ElementsOfConcat ==
  ASSUME NEW S, NEW v \in [Node -> S], NEW s \in Seq(Node), NEW r \in Seq(Node)
  PROVE  Elements(v, s \o r) = Elements(v, s) \o Elements(v, r)
<1>1. /\ Len(s) \in Nat /\ Len(r) \in Nat
      /\ s \o r \in Seq(Node) /\ Len(s \o r) = Len(s) + Len(r)
      /\ \A i \in 1 .. Len(s) + Len(r) : (s \o r)[i] = IF i <= Len(s) THEN s[i] ELSE r[i - Len(s)]
  BY ConcatProperties
<1> DEFINE a == Elements(v, s)
           b == Elements(v, r)
           t == Elements(v, s \o r)
<1>2. a \in Seq(S) /\ Len(a) = Len(s) /\ \A i \in 1 .. Len(s) : a[i] = v[s[i]]
  BY ElementsAreASequence
<1>3. b \in Seq(S) /\ Len(b) = Len(r) /\ \A i \in 1 .. Len(r) : b[i] = v[r[i]]
  BY ElementsAreASequence
<1>4. /\ t \in Seq(S) /\ Len(t) = Len(s) + Len(r)
      /\ \A i \in 1 .. Len(s) + Len(r) : t[i] = v[(s \o r)[i]]
  <2>1. PICK u : u = s \o r
    OBVIOUS
  <2>2. /\ Elements(v, u) \in Seq(S) /\ Len(Elements(v, u)) = Len(u)
        /\ \A i \in 1 .. Len(u) : Elements(v, u)[i] = v[u[i]]
    BY <1>1, <2>1, ElementsAreASequence
  <2> QED
    BY <1>1, <2>1, <2>2
<1> HIDE DEF a, b, t
<1>5. /\ a \o b \in Seq(S) /\ Len(a \o b) = Len(a) + Len(b)
      /\ \A i \in 1 .. Len(a) + Len(b) : (a \o b)[i] = IF i <= Len(a) THEN a[i] ELSE b[i - Len(a)]
  BY <1>2, <1>3, ConcatProperties
<1>6. ASSUME NEW i \in 1 .. Len(s) + Len(r) PROVE t[i] = (a \o b)[i]
  <2>1. t[i] = v[IF i <= Len(s) THEN s[i] ELSE r[i - Len(s)]]
    BY <1>1, <1>4
  <2>2. (a \o b)[i] = IF i <= Len(s) THEN a[i] ELSE b[i - Len(s)]
    BY <1>2, <1>3, <1>5
  <2>3. CASE i <= Len(s)
    <3>1. i \in 1 .. Len(s)
      BY <1>1, <2>3
    <3> QED
      BY <1>2, <2>1, <2>2, <2>3, <3>1
  <2>4. CASE ~ (i <= Len(s))
    <3>1. i - Len(s) \in 1 .. Len(r)
      BY <1>1, <2>4
    <3> QED
      BY <1>3, <2>1, <2>2, <2>4, <3>1
  <2> QED
    BY <2>3, <2>4
<1>7. t = a \o b
  BY <1>1, <1>2, <1>3, <1>4, <1>5, <1>6, SeqEqual
<1> QED
  BY <1>7 DEF a, b, t

\* A chain is what comes before its k-th place and what comes after it.
LEMMA PartsOfChain ==
  ASSUME NEW S, NEW s \in Seq(S), NEW k \in 0 .. Len(s)
  PROVE  /\ Before(s, k) \in Seq(S) /\ Len(Before(s, k)) = k
         /\ \A i \in 1 .. k : Before(s, k)[i] = s[i]
         /\ Behind(s, k) \in Seq(S) /\ Len(Behind(s, k)) = Len(s) - k
         /\ \A i \in 1 .. Len(s) - k : Behind(s, k)[i] = s[k + i]
<1>1. Len(s) \in Nat /\ k \in Nat /\ k <= Len(s) /\ \A i \in 1 .. Len(s) : s[i] \in S
  BY LenProperties, ElementOfSeq
<1>2. /\ Before(s, k) \in Seq(S) /\ Len(Before(s, k)) = k
      /\ \A i \in 1 .. k : Before(s, k)[i] = s[i]
  BY <1>1 DEF Before
<1>3. /\ Behind(s, k) \in Seq(S) /\ Len(Behind(s, k)) = Len(s) - k
      /\ \A i \in 1 .. Len(s) - k : Behind(s, k)[i] = s[k + i]
  BY <1>1 DEF Behind
<1> QED
  BY <1>2, <1>3

LEMMA WholeFromParts ==
  ASSUME NEW S, NEW s \in Seq(S), NEW k \in 0 .. Len(s)
  PROVE  s = Before(s, k) \o Behind(s, k)
<1>1. Len(s) \in Nat /\ 1 \in 1 .. Len(s) + 1 /\ k \in 1 - 1 .. Len(s) /\ Len(s) \in k .. Len(s)
  BY LenProperties
<1>2. SubSeq(s, 1, k) \o SubSeq(s, k + 1, Len(s)) = SubSeq(s, 1, Len(s))
  BY <1>1, ConcatAdjacentSubSeq
<1> QED
  BY <1>2, SubSeqFull DEF Before, Behind

LEMMA NextPart ==
  ASSUME NEW S, NEW s \in Seq(S), NEW k \in 0 .. Len(s) - 1
  PROVE  /\ Before(s, k + 1) = Before(s, k) \o <<s[k + 1]>>
         /\ Behind(s, k) = <<s[k + 1]>> \o Behind(s, k + 1)
<1>1. /\ k + 1 \in 1 .. Len(s) /\ 1 \in 1 .. Len(s) /\ k + 1 \in 1 .. Len(s)
      /\ Len(s) \in k + 1 .. Len(s) /\ (k + 1) - 1 = k
  BY LenProperties
<1>2. SubSeq(s, 1, k + 1) = SubSeq(s, 1, (k + 1) - 1) \o <<s[k + 1]>>
  BY <1>1, SubSeqRecursiveSecond
<1>3. SubSeq(s, k + 1, Len(s)) = <<s[k + 1]>> \o SubSeq(s, (k + 1) + 1, Len(s))
  BY <1>1, SubSeqRecursiveFirst
<1> QED
  BY <1>1, <1>2, <1>3 DEF Before, Behind

LEMMA OuterParts ==
  ASSUME NEW S, NEW s \in Seq(S)
  PROVE  /\ Before(s, 0) = << >> /\ Behind(s, 0) = s
         /\ Before(s, Len(s)) = s /\ Behind(s, Len(s)) = << >>
<1>1. Len(s) \in Nat
  BY LenProperties
<1> QED
  BY <1>1, SubSeqEmpty, SubSeqFull DEF Before, Behind

LEMMA ElementsOfParts ==
  ASSUME NEW S, NEW v \in [Node -> S], NEW s \in Seq(Node), NEW k \in 0 .. Len(s)
  PROVE  /\ Before(Elements(v, s), k) = Elements(v, Before(s, k))
         /\ Behind(Elements(v, s), k) = Elements(v, Behind(s, k))
<1> DEFINE m == Len(s)
           e == Elements(v, s)
           a == Elements(v, Before(s, k))
           b == Elements(v, Behind(s, k))
<1>1. /\ m \in Nat /\ k \in Nat /\ k <= m
      /\ e \in Seq(S) /\ Len(e) = m /\ \A i \in 1 .. m : e[i] = v[s[i]]
  <2>1. m \in Nat
    BY LenProperties
  <2> QED
    BY <2>1, ElementsAreASequence
<1>2. /\ Before(s, k) \in Seq(Node) /\ Len(Before(s, k)) = k
      /\ \A i \in 1 .. k : Before(s, k)[i] = s[i]
      /\ Behind(s, k) \in Seq(Node) /\ Len(Behind(s, k)) = m - k
      /\ \A i \in 1 .. m - k : Behind(s, k)[i] = s[k + i]
  BY PartsOfChain
<1>3. /\ a \in Seq(S) /\ Len(a) = k /\ \A i \in 1 .. k : a[i] = v[Before(s, k)[i]]
      /\ b \in Seq(S) /\ Len(b) = m - k /\ \A i \in 1 .. m - k : b[i] = v[Behind(s, k)[i]]
  <2>1. ASSUME NEW r \in Seq(Node)
        PROVE  /\ Elements(v, r) \in Seq(S) /\ Len(Elements(v, r)) = Len(r)
               /\ \A i \in 1 .. Len(r) : Elements(v, r)[i] = v[r[i]]
    BY ElementsAreASequence
  <2>2. /\ a \in Seq(S) /\ Len(a) = Len(Before(s, k))
        /\ \A i \in 1 .. Len(Before(s, k)) : a[i] = v[Before(s, k)[i]]
    BY <1>2, <2>1
  <2>3. /\ b \in Seq(S) /\ Len(b) = Len(Behind(s, k))
        /\ \A i \in 1 .. Len(Behind(s, k)) : b[i] = v[Behind(s, k)[i]]
    BY <1>2, <2>1
  <2> QED
    BY <1>2, <2>2, <2>3
<1> HIDE DEF m, e, a, b
<1>4. /\ Before(e, k) \in Seq(S) /\ Len(Before(e, k)) = k
      /\ \A i \in 1 .. k : Before(e, k)[i] = e[i]
      /\ Behind(e, k) \in Seq(S) /\ Len(Behind(e, k)) = m - k
      /\ \A i \in 1 .. m - k : Behind(e, k)[i] = e[k + i]
  <2>1. k \in 0 .. Len(e)
    BY <1>1
  <2>2. /\ Before(e, k) \in Seq(S) /\ Len(Before(e, k)) = k
        /\ \A i \in 1 .. k : Before(e, k)[i] = e[i]
        /\ Behind(e, k) \in Seq(S) /\ Len(Behind(e, k)) = Len(e) - k
        /\ \A i \in 1 .. Len(e) - k : Behind(e, k)[i] = e[k + i]
    BY <1>1, <2>1, PartsOfChain
  <2> QED
    BY <1>1, <2>2
<1>5. Before(e, k) = a
  <2>1. \A i \in 1 .. k : Before(e, k)[i] = a[i]
    BY <1>1, <1>2, <1>3, <1>4
  <2> QED
    BY <1>3, <1>4, <2>1, SeqEqual
<1>6. Behind(e, k) = b
  <2>1. ASSUME NEW i \in 1 .. m - k PROVE Behind(e, k)[i] = b[i]
    <3>1. k + i \in 1 .. m
      BY <1>1
    <3>2. Behind(e, k)[i] = e[k + i]
      BY <1>4
    <3>3. e[k + i] = v[s[k + i]]
      BY <1>1, <3>1
    <3>4. b[i] = v[s[k + i]]
      BY <1>2, <1>3
    <3> QED
      BY <3>2, <3>3, <3>4
  <2> QED
    BY <1>3, <1>4, <2>1, SeqEqual
<1> QED
  BY <1>5, <1>6 DEF m, e, a, b

LEMMA SplicedParts ==
  ASSUME NEW s \in Seq(Node), Unique(s), NEW k \in 0 .. Len(s), NEW n \in Node \ ToSet(s)
  PROVE  /\ Before(Spliced(s, k, n), k + 1) = Before(s, k) \o <<n>>
         /\ Behind(Spliced(s, k, n), k + 1) = Behind(s, k)
<1> DEFINE m == Len(s)
           t == Spliced(s, k, n)
<1>1. m \in Nat /\ k \in Nat /\ k <= m /\ k + 1 \in 0 .. m + 1 /\ <<n>> \in Seq(Node) /\ Len(<<n>>) = 1
  BY NodesOfSequence
<1>2. t \in Seq(Node) /\ Len(t) = m + 1
  BY SplicedNodes
<1>3. \A i \in 1 .. m + 1 : t[i] = IF i <= k THEN s[i] ELSE IF i = k + 1 THEN n ELSE s[i - 1]
  BY DEF Spliced
<1> HIDE DEF m, t
<1>4. /\ Before(t, k + 1) \in Seq(Node) /\ Len(Before(t, k + 1)) = k + 1
      /\ \A i \in 1 .. k + 1 : Before(t, k + 1)[i] = t[i]
      /\ Behind(t, k + 1) \in Seq(Node) /\ Len(Behind(t, k + 1)) = m - k
      /\ \A i \in 1 .. m - k : Behind(t, k + 1)[i] = t[k + 1 + i]
  <2>1. PICK j : j = k + 1
    OBVIOUS
  <2>2. j \in 0 .. Len(t) /\ Len(t) - j = m - k
    BY <1>1, <1>2, <2>1
  <2>3. /\ Before(t, j) \in Seq(Node) /\ Len(Before(t, j)) = j
        /\ \A i \in 1 .. j : Before(t, j)[i] = t[i]
        /\ Behind(t, j) \in Seq(Node) /\ Len(Behind(t, j)) = Len(t) - j
        /\ \A i \in 1 .. Len(t) - j : Behind(t, j)[i] = t[j + i]
    BY <1>2, <2>2, PartsOfChain
  <2> QED
    BY <2>1, <2>2, <2>3
<1>5. /\ Before(s, k) \in Seq(Node) /\ Len(Before(s, k)) = k
      /\ \A i \in 1 .. k : Before(s, k)[i] = s[i]
      /\ Behind(s, k) \in Seq(Node) /\ Len(Behind(s, k)) = m - k
      /\ \A i \in 1 .. m - k : Behind(s, k)[i] = s[k + i]
  BY PartsOfChain DEF m
<1>6. /\ Before(s, k) \o <<n>> \in Seq(Node) /\ Len(Before(s, k) \o <<n>>) = k + 1
      /\ \A i \in 1 .. k + 1 : (Before(s, k) \o <<n>>)[i] = IF i <= k THEN Before(s, k)[i] ELSE <<n>>[i - k]
  BY <1>1, <1>5, ConcatProperties
<1>7. Before(t, k + 1) = Before(s, k) \o <<n>>
  <2>1. ASSUME NEW i \in 1 .. k + 1 PROVE Before(t, k + 1)[i] = (Before(s, k) \o <<n>>)[i]
    <3>1. i \in 1 .. m + 1 /\ (i <= k => i \in 1 .. k) /\ (~ (i <= k) => i = k + 1 /\ i - k = 1)
      BY <1>1
    <3> QED
      BY <1>3, <1>4, <1>5, <1>6, <3>1
  <2> QED
    BY <1>4, <1>6, <2>1, SeqEqual
<1>8. Behind(t, k + 1) = Behind(s, k)
  <2>1. ASSUME NEW i \in 1 .. m - k PROVE Behind(t, k + 1)[i] = Behind(s, k)[i]
    <3>1. PICK j : j = k + 1 + i
      OBVIOUS
    <3>2. j \in 1 .. m + 1 /\ ~ (j <= k) /\ j # k + 1 /\ j - 1 = k + i
      BY <1>1, <3>1
    <3>3. Behind(t, k + 1)[i] = t[j]
      BY <1>4, <3>1
    <3>4. t[j] = s[k + i]
      BY <1>3, <3>2
    <3> QED
      BY <1>5, <3>3, <3>4
  <2> QED
    BY <1>4, <1>5, <2>1, SeqEqual
<1> QED
  BY <1>7, <1>8 DEF t

LEMMA RaisedParts ==
  ASSUME NEW s \in Seq(Node), Unique(s), NEW k \in 1 .. Len(s) - 1
  PROVE  /\ Before(Raised(s, k), k + 1) = <<s[k + 1]>> \o Before(s, k)
         /\ Behind(Raised(s, k), k + 1) = Behind(s, k + 1)
<1> DEFINE m == Len(s)
           t == Raised(s, k)
<1>1. /\ m \in Nat /\ k \in 0 .. m /\ k \in Nat /\ k + 1 \in 0 .. m /\ s[k + 1] \in Node
      /\ <<s[k + 1]>> \in Seq(Node) /\ Len(<<s[k + 1]>>) = 1
  <2>1. m \in Nat /\ \A i \in 1 .. m : s[i] \in Node
    BY NodesOfSequence
  <2>2. k \in 0 .. m /\ k \in Nat /\ k + 1 \in 0 .. m /\ k + 1 \in 1 .. m
    BY <2>1
  <2> QED
    BY <2>1, <2>2
<1>2. t \in Seq(Node) /\ Len(t) = m
  <2>1. k \in 0 .. Len(s) - 1
    BY <1>1
  <2> QED
    BY <2>1, RaisedNodes
<1>3. \A i \in 1 .. m : t[i] = IF i = 1 THEN s[k + 1] ELSE IF i <= k + 1 THEN s[i - 1] ELSE s[i]
  BY DEF Raised
<1>4. PICK j : j = k + 1
  OBVIOUS
<1> HIDE DEF m, t
<1>5. /\ Before(t, j) \in Seq(Node) /\ Len(Before(t, j)) = j
      /\ \A i \in 1 .. j : Before(t, j)[i] = t[i]
      /\ Behind(t, j) \in Seq(Node) /\ Len(Behind(t, j)) = m - j
      /\ \A i \in 1 .. m - j : Behind(t, j)[i] = t[j + i]
  <2>1. j \in 0 .. Len(t)
    BY <1>1, <1>2, <1>4
  <2> QED
    BY <1>2, <2>1, PartsOfChain
<1>6. Behind(s, j) \in Seq(Node) /\ Len(Behind(s, j)) = m - j
      /\ \A i \in 1 .. m - j : Behind(s, j)[i] = s[j + i]
  <2>1. j \in 0 .. Len(s)
    BY <1>1, <1>4 DEF m
  <2> QED
    BY <2>1, PartsOfChain DEF m
<1>7. Before(s, k) \in Seq(Node) /\ Len(Before(s, k)) = k /\ \A i \in 1 .. k : Before(s, k)[i] = s[i]
  <2>1. k \in 0 .. Len(s)
    BY <1>1 DEF m
  <2> QED
    BY <2>1, PartsOfChain
<1>8. PICK u : u = <<s[k + 1]>> \o Before(s, k)
  OBVIOUS
<1>9. /\ u \in Seq(Node) /\ Len(u) = j
      /\ \A i \in 1 .. j : u[i] = IF i <= 1 THEN s[k + 1] ELSE Before(s, k)[i - 1]
  BY <1>1, <1>4, <1>7, <1>8, ConcatProperties
<1>10. Before(t, j) = u
  <2>1. ASSUME NEW i \in 1 .. j PROVE Before(t, j)[i] = u[i]
    <3>1. i \in 1 .. m /\ i <= k + 1 /\ (i <= 1 <=> i = 1) /\ (i # 1 => i - 1 \in 1 .. k)
      BY <1>1, <1>4
    <3>2. t[i] = IF i = 1 THEN s[k + 1] ELSE s[i - 1]
      BY <1>3, <3>1
    <3>3. u[i] = IF i = 1 THEN s[k + 1] ELSE s[i - 1]
      BY <1>7, <1>9, <3>1
    <3> QED
      BY <1>5, <3>2, <3>3
  <2> QED
    BY <1>5, <1>9, <2>1, SeqEqual
<1>11. Behind(t, j) = Behind(s, j)
  <2>1. ASSUME NEW i \in 1 .. m - j PROVE Behind(t, j)[i] = Behind(s, j)[i]
    <3>1. j + i \in 1 .. m /\ j + i # 1 /\ ~ (j + i <= k + 1)
      BY <1>1, <1>4
    <3>2. t[j + i] = s[j + i]
      BY <1>3, <3>1
    <3> QED
      BY <1>5, <1>6, <3>2
  <2> QED
    BY <1>5, <1>6, <2>1, SeqEqual
<1> QED
  BY <1>4, <1>8, <1>10, <1>11 DEF t

LEMMA TailParts ==
  ASSUME NEW s \in Seq(Node), NEW j \in 1 .. Len(s)
  PROVE  Behind(Tail(s), j - 1) = Behind(s, j)
<1>1. /\ Len(s) \in Nat /\ s # << >> /\ Tail(s) \in Seq(Node) /\ Len(Tail(s)) = Len(s) - 1
      /\ \A i \in 1 .. Len(s) - 1 : Tail(s)[i] = s[i + 1]
  <2>1. Len(s) \in Nat /\ s # << >>
    BY LenProperties
  <2> QED
    BY <2>1, HeadTailProperties
<1>2. PICK t, k : t = Tail(s) /\ k = j - 1
  OBVIOUS
<1>3. /\ Behind(t, k) \in Seq(Node) /\ Len(Behind(t, k)) = Len(t) - k
      /\ \A i \in 1 .. Len(t) - k : Behind(t, k)[i] = t[k + i]
  <2>1. k \in 0 .. Len(t)
    BY <1>1, <1>2
  <2> QED
    BY <1>1, <1>2, <2>1, PartsOfChain
<1>4. /\ Behind(s, j) \in Seq(Node) /\ Len(Behind(s, j)) = Len(s) - j
      /\ \A i \in 1 .. Len(s) - j : Behind(s, j)[i] = s[j + i]
  <2>1. j \in 0 .. Len(s)
    BY <1>1
  <2> QED
    BY <2>1, PartsOfChain
<1>5. Len(t) - k = Len(s) - j
  BY <1>1, <1>2
<1>6. ASSUME NEW i \in 1 .. Len(s) - j PROVE Behind(t, k)[i] = Behind(s, j)[i]
  <2>1. k + i \in 1 .. Len(s) - 1 /\ (k + i) + 1 = j + i
    BY <1>1, <1>2
  <2>2. t[k + i] = s[j + i]
    BY <1>1, <1>2, <2>1
  <2> QED
    BY <1>3, <1>4, <1>5, <2>2
<1>7. Behind(t, k) = Behind(s, j)
  BY <1>3, <1>4, <1>5, <1>6, SeqEqual
<1> QED
  BY <1>2, <1>7

LEMMA ReverseSequence ==
  ASSUME NEW S, NEW s \in Seq(S)
  PROVE  /\ Reverse(s) \in Seq(S) /\ Len(Reverse(s)) = Len(s)
         /\ \A i \in 1 .. Len(s) : Reverse(s)[i] = s[(Len(s) - i) + 1]
<1> DEFINE m == Len(s)
<1>1. m \in Nat /\ \A i \in 1 .. m : s[i] \in S
  BY LenProperties, ElementOfSeq
<1>2. Reverse(s) = [i \in 1 .. m |-> s[(m - i) + 1]]
  BY DEF Reverse
<1> HIDE DEF m
<1>3. \A i \in 1 .. m : s[(m - i) + 1] \in S
  BY <1>1
<1>4. Reverse(s) \in [1 .. m -> S]
  BY <1>2, <1>3
<1>5. Reverse(s) \in Seq(S) /\ Len(Reverse(s)) = m
  BY <1>1, <1>4
<1> QED
  BY <1>2, <1>5 DEF m

LEMMA ReverseFirst ==
  ASSUME NEW S, NEW e \in S, NEW s \in Seq(S)
  PROVE  Reverse(<<e>> \o s) = Reverse(s) \o <<e>>
<1>1. PICK t, u, r, m : t = <<e>> \o s /\ r = Reverse(s) /\ u = r \o <<e>> /\ m = Len(s)
  OBVIOUS
<1>2. m \in Nat /\ <<e>> \in Seq(S) /\ Len(<<e>>) = 1
  BY <1>1, LenProperties
<1>3. /\ t \in Seq(S) /\ Len(t) = m + 1
      /\ \A i \in 1 .. m + 1 : t[i] = IF i <= 1 THEN e ELSE s[i - 1]
  <2>1. /\ t \in Seq(S) /\ Len(t) = 1 + m
        /\ \A i \in 1 .. 1 + m : t[i] = IF i <= 1 THEN <<e>>[i] ELSE s[i - 1]
    BY <1>1, <1>2, ConcatProperties
  <2> QED
    BY <1>2, <2>1
<1>4. /\ r \in Seq(S) /\ Len(r) = m /\ \A i \in 1 .. m : r[i] = s[(m - i) + 1]
  BY <1>1, ReverseSequence
<1>5. /\ u \in Seq(S) /\ Len(u) = m + 1
      /\ \A i \in 1 .. m + 1 : u[i] = IF i <= m THEN r[i] ELSE <<e>>[i - m]
  BY <1>1, <1>2, <1>4, ConcatProperties
<1>6. /\ Reverse(t) \in Seq(S) /\ Len(Reverse(t)) = m + 1
      /\ \A i \in 1 .. m + 1 : Reverse(t)[i] = t[((m + 1) - i) + 1]
  <2>1. /\ Reverse(t) \in Seq(S) /\ Len(Reverse(t)) = Len(t)
        /\ \A i \in 1 .. Len(t) : Reverse(t)[i] = t[(Len(t) - i) + 1]
    BY <1>3, ReverseSequence
  <2> QED
    BY <1>3, <2>1
<1>7. ASSUME NEW i \in 1 .. m + 1 PROVE Reverse(t)[i] = u[i]
  <2>1. PICK j : j = ((m + 1) - i) + 1
    OBVIOUS
  <2>2. /\ j \in 1 .. m + 1 /\ (i <= m => ~ (j <= 1) /\ j - 1 = (m - i) + 1 /\ i \in 1 .. m)
        /\ (~ (i <= m) => j <= 1 /\ i - m = 1)
    BY <1>2, <2>1
  <2>3. Reverse(t)[i] = IF j <= 1 THEN e ELSE s[j - 1]
    BY <1>3, <1>6, <2>1, <2>2
  <2>4. u[i] = IF i <= m THEN s[(m - i) + 1] ELSE e
    BY <1>4, <1>5, <2>2
  <2> QED
    BY <2>2, <2>3, <2>4
<1> QED
  BY <1>1, <1>5, <1>6, <1>7, SeqEqual

LEMMA NodesOfParts ==
  ASSUME NEW s \in Seq(Node), Unique(s), NEW k \in 0 .. Len(s)
  PROVE  /\ Before(s, k) \in Seq(Node) /\ ToSet(Before(s, k)) \subseteq ToSet(s)
         /\ Behind(s, k) \in Seq(Node) /\ ToSet(Behind(s, k)) \subseteq ToSet(s)
         /\ k < Len(s) => s[k + 1] \in Node \ ToSet(Before(s, k))
<1>1. /\ Before(s, k) \in Seq(Node) /\ ToSet(Before(s, k)) \subseteq ToSet(s)
      /\ Behind(s, k) \in Seq(Node) /\ ToSet(Behind(s, k)) \subseteq ToSet(s)
  BY SplitNodes DEF Before, Behind
<1>2. ASSUME k < Len(s) PROVE s[k + 1] \in Node \ ToSet(Before(s, k))
  <2>1. Len(s) \in Nat /\ k + 1 \in 1 .. Len(s) /\ \A i \in 1 .. k : i \in 1 .. Len(s) /\ i # k + 1
    BY <1>2, NodesOfSequence
  <2>2. s[k + 1] \in Node
    BY <2>1
  <2>3. /\ Len(Before(s, k)) = k /\ \A i \in 1 .. k : Before(s, k)[i] = s[i]
    BY PartsOfChain
  <2>4. \A n : n \in ToSet(Before(s, k)) <=> \E i \in 1 .. k : n = Before(s, k)[i]
    BY <1>1, <2>3, NodesOfSequence
  <2>5. ASSUME NEW i \in 1 .. k PROVE s[k + 1] # Before(s, k)[i]
    BY <2>1, <2>3 DEF Unique
  <2> QED
    BY <2>2, <2>4, <2>5
<1> QED
  BY <1>1, <1>2

\* The place after an ended chain's j-th.
LEMMA NextPlace ==
  ASSUME NEW s \in Seq(Node), NEW j \in 0 .. Len(s)
  PROVE  Nxt(s, j) \in ToSet(s) \cup {null}
<1>1. CASE j < Len(s)
  <2>1. j + 1 \in 1 .. Len(s)
    BY <1>1, NodesOfSequence
  <2> QED
    BY <1>1, <2>1, NodesOfSequence DEF Nxt
<1>2. CASE ~ (j < Len(s))
  BY <1>2 DEF Nxt
<1> QED
  BY <1>1, <1>2

LEMMA ElementsOfOne ==
  ASSUME NEW v, NEW n \in Node
  PROVE  Elements(v, <<n>>) = <<v[n]>>
<1>1. PICK r : r = <<n>>
  OBVIOUS
<1>2. Len(r) = 1 /\ r[1] = n
  BY <1>1
<1>3. Elements(v, r) = [i \in 1 .. 1 |-> v[r[i]]]
  BY <1>2 DEF Elements
<1>4. Elements(v, r) = <<v[n]>>
  BY <1>2, <1>3
<1> QED
  BY <1>1, <1>4

\* One more node, with the element h.
LEMMA ElementsExtended ==
  ASSUME NEW v \in [Node -> Slot], NEW s \in Seq(Node), NEW n \in Node, n \notin ToSet(s),
         NEW h \in Slot
  PROVE  Elements([v EXCEPT ![n] = h], s \o <<n>>) = Elements(v, s) \o <<h>>
<1> PICK w : w = [v EXCEPT ![n] = h]
  OBVIOUS
<1>1. w \in [Node -> Slot] /\ <<n>> \in Seq(Node)
  OBVIOUS
<1>2. Elements(w, s \o <<n>>) = Elements(w, s) \o Elements(w, <<n>>)
  BY <1>1, ElementsOfConcat
<1>3. ToSet(s) \subseteq Node
  BY NodesOfSequence
<1>4. Elements(w, s) = Elements(v, s)
  <2>1. \A x \in ToSet(s) : w[x] = v[x]
    BY <1>3
  <2> QED
    BY <2>1, ElementsSame
<1>5. Elements(w, <<n>>) = <<h>>
  <2>1. Elements(w, <<n>>) = <<w[n]>>
    BY ElementsOfOne
  <2> QED
    BY <2>1
<1> QED
  BY <1>2, <1>4, <1>5

\* A sequence is its first element and the others.
LEMMA HeadFirst ==
  ASSUME NEW S, NEW s \in Seq(S), NEW r \in Seq(S), r # << >>
  PROVE  s \o r = (s \o <<Head(r)>>) \o Tail(r)
<1>1. Head(r) \in S /\ Tail(r) \in Seq(S) /\ <<Head(r)>> \in Seq(S)
  BY HeadTailProperties
<1>2. r = <<Head(r)>> \o Tail(r)
  <2>1. Len(r) \in Nat \ {0}
    BY EmptySeq
  <2>2. 1 \in 1 .. Len(r) /\ Len(r) \in 1 .. Len(r)
    BY <2>1
  <2>3. SubSeq(r, 1, Len(r)) = <<r[1]>> \o SubSeq(r, 1 + 1, Len(r))
    BY <2>2, SubSeqRecursiveFirst
  <2>4. SubSeq(r, 1, Len(r)) = r
    BY SubSeqFull
  <2>5. Tail(r) = SubSeq(r, 2, Len(r)) /\ 1 + 1 = 2
    BY TailIsSubSeq
  <2>6. Head(r) = r[1]
    BY <2>1
  <2> QED
    BY <2>3, <2>4, <2>5, <2>6
<1> QED
  BY <1>1, <1>2, ConcatAssociative

-----------------------------------------------------------------------------
(* The invariant.  There is a chain c[l] for every list l, and one, c[null], *)
(* for the nodes that an erasure has not come to.                            *)

Owner == List \cup {null}

Chains(c) ==
  /\ c \in [Owner -> Seq(Node)]
  /\ \A x \in Owner : Unique(c[x])
  /\ \A x, y \in Owner : x # y => ToSet(c[x]) \cap ToSet(c[y]) = {}
  /\ \A l \in Whole : Linked(next, l, c[l])
  /\ \A l \in List \ (alive \cup Whole) : c[l] = << >>

\* Every allocated node is at one place.
Owned(c) ==
  /\ \A n : n \in allocated <=> \/ n \in leaked
                                \/ n = raw /\ raw # null
                                \/ \E x \in Owner : n \in ToSet(c[x])
  /\ raw \notin leaked
  /\ \A x \in Owner : \A n \in ToSet(c[x]) : n \notin leaked /\ n # raw /\ value[n] # null

\* The operation is at a place of its list, and what it has done and has still
\* to do make up its goal.
Inserting(c) ==
  /\ op.do = "insert" <=> op.list \in alive
  /\ \E k \in 0 .. Len(c[op.list]) :
       /\ op.at = At(op.list, c[op.list], k)
       /\ op.do = "construct" => k = Len(c[op.list])
       /\ op.goal = Elements(value, Before(c[op.list], k)) \o op.todo
                      \o Elements(value, Behind(c[op.list], k))
  /\ raw # null => op.todo # << >>
Assigning(c) ==
  /\ op.list \in alive
  /\ \E k \in 0 .. Len(c[op.list]) :
       /\ op.at = At(op.list, c[op.list], k)
       /\ op.curr = Nxt(c[op.list], k)
       /\ op.goal = Elements(value, Before(c[op.list], k)) \o op.todo
Reversing(c) ==
  /\ op.list \in alive
  /\ \E k \in 1 .. Len(c[op.list]) :
       /\ op.tail = c[op.list][k]
       /\ op.goal = Reverse(Elements(value, Behind(c[op.list], k)))
                      \o Elements(value, Before(c[op.list], k))
Erasing(c) ==
  /\ op.list \in alive
  /\ Segment(next, op.list, c[op.list]) /\ op.at = At(op.list, c[op.list], Len(c[op.list]))
  /\ Ended(next, c[null]) /\ op.curr = Nxt(c[null], 0)
  /\ \E j \in 0 .. Len(c[null]) :
       /\ op.last = Nxt(c[null], j)
       /\ op.then = "nothing" =>
            op.goal = Elements(value, c[op.list]) \o Elements(value, Behind(c[null], j))
  /\ op.then # "nothing" => c[op.list] = << >> /\ op.last = null
  /\ op.then = "destroy" => op.goal = << >>
  /\ op.then \in List =>
       /\ op.then \in alive
       /\ op.goal = IF op.then = op.list THEN << >> ELSE Elements(value, c[op.then])

Doing(c) ==
  /\ Creating => Inserting(c)
  /\ ~Creating => raw = null
  /\ op.do = "assign" => Assigning(c)
  /\ op.do = "reverse" => Reversing(c)
  /\ IF op.do = "erase" THEN Erasing(c) ELSE c[null] = << >>

Shape(c) == Chains(c) /\ Owned(c) /\ Doing(c)
IInv == TypeOK /\ \E c : Shape(c)

-----------------------------------------------------------------------------
(* What the invariant says of a list.                                       *)

LEMMA Operations ==
  ASSUME TypeOK
  PROVE  /\ Creating => op \in Insertion
         /\ op.do = "erase" => op \in Removal
         /\ op.do = "assign" => op \in Overwrite
         /\ op.do = "reverse" => op \in Reversal
         /\ Idle => op.do = "none" /\ ~Creating
         /\ op # None => op.list \in List
BY DEF TypeOK, Creating, Insertion, Removal, Overwrite, Reversal, None, Idle

LEMMA ChainOf ==
  ASSUME TypeOK, NEW c, Shape(c), NEW x \in Owner
  PROVE  /\ c[x] \in Seq(Node) /\ Unique(c[x]) /\ ToSet(c[x]) \subseteq Node
         /\ Len(c[x]) \in Nat /\ Len(c[x]) <= Cardinality(Node)
         /\ ToSet(c[x]) \subseteq allocated
         /\ \A i \in 1 .. Len(c[x]) : c[x][i] \in Node /\ c[x][i] \in ToSet(c[x])
<1>1. c[x] \in Seq(Node) /\ Unique(c[x])
  BY DEF Shape, Chains
<1>2. ToSet(c[x]) \subseteq allocated
  BY DEF Shape, Owned
<1> QED
  BY <1>1, <1>2, NodesOfSequence, UniqueIsShort

LEMMA PlacesApart ==
  ASSUME TypeOK, NEW c, Shape(c), NEW l \in List, NEW m \in List, l # m
  PROVE  ({l} \cup ToSet(c[l])) \cap ({m} \cup ToSet(c[m])) = {}
<1>1. ToSet(c[l]) \subseteq Node /\ ToSet(c[m]) \subseteq Node
  BY ChainOf DEF Owner
<1>2. ToSet(c[l]) \cap ToSet(c[m]) = {}
  BY DEF Shape, Chains, Owner
<1> QED
  BY <1>1, <1>2, NodeAssumption

LEMMA WholeList ==
  ASSUME TypeOK, NEW c, Shape(c), NEW l \in Whole
  PROVE  /\ l \in List /\ c[l] \in Seq(Node) /\ Unique(c[l]) /\ Linked(next, l, c[l])
         /\ After(l) = c[l]
         /\ Nodes(l) = ToSet(c[l])
         /\ Contents(l) = Elements(value, c[l])
         /\ Contents(l) \in Seq(Value) /\ Len(Contents(l)) = Len(c[l])
<1>1. l \in List
  BY Operations DEF Whole, TypeOK, Creating, None
<1>2. c[l] \in Seq(Node) /\ Unique(c[l]) /\ Linked(next, l, c[l]) /\ Len(c[l]) <= Cardinality(Node) + 1
  <2>1. Cardinality(Node) \in Nat
    BY FS_CardinalityType, NodeAssumption
  <2>2. c[l] \in Seq(Node) /\ Unique(c[l]) /\ Len(c[l]) \in Nat /\ Len(c[l]) <= Cardinality(Node)
    BY <1>1, ChainOf DEF Owner
  <2>3. Linked(next, l, c[l])
    BY DEF Shape, Chains
  <2> QED
    BY <2>1, <2>2, <2>3
<1>3. After(l) = c[l]
  BY <1>1, <1>2, WalkFindsChain DEF After, Place
<1>4. Contents(l) = Elements(value, c[l])
  BY <1>2, <1>3, NodesOfSequence DEF Contents, Elements
<1>5. \A i \in 1 .. Len(c[l]) : value[c[l][i]] \in Value
  <2>1. ASSUME NEW i \in 1 .. Len(c[l]) PROVE value[c[l][i]] \in Value
    <3>1. c[l][i] \in Node /\ c[l][i] \in ToSet(c[l])
      BY <1>1, ChainOf DEF Owner
    <3>2. value[c[l][i]] # null
      BY <1>1, <3>1 DEF Shape, Owned, Owner
    <3> QED
      BY <3>1, <3>2 DEF TypeOK
  <2> QED
    BY <2>1
<1>6. Contents(l) \in Seq(Value) /\ Len(Contents(l)) = Len(c[l])
  <2> DEFINE n == Len(c[l])
  <2>1. n \in Nat
    BY <1>2
  <2>2. Contents(l) = [i \in 1 .. n |-> value[c[l][i]]] /\ \A i \in 1 .. n : value[c[l][i]] \in Value
    BY <1>4, <1>5 DEF Elements
  <2> HIDE DEF n
  <2>3. Contents(l) \in [1 .. n -> Value]
    BY <2>2
  <2>4. Contents(l) \in Seq(Value) /\ Len(Contents(l)) = n
    BY <2>1, <2>3
  <2> QED
    BY <2>4 DEF n
<1> QED
  BY <1>1, <1>2, <1>3, <1>4, <1>6 DEF Nodes

\* A position of a list is a place of its chain.
LEMMA PlaceOfPosition ==
  ASSUME TypeOK, NEW c, Shape(c), NEW l \in Whole, NEW pos \in Positions(l)
  PROVE  /\ Index(l, pos) \in 0 .. Len(c[l])
         /\ pos = At(l, c[l], Index(l, pos))
         /\ pos \in Place
<1>1. l \in List /\ After(l) = c[l] /\ Nodes(l) = ToSet(c[l]) /\ c[l] \in Seq(Node)
  BY WholeList
<1>2. CASE pos = l
  BY <1>1, <1>2 DEF Index, At, Place
<1>3. CASE pos # l
  <2>1. pos \in ToSet(c[l])
    BY <1>1, <1>3 DEF Positions
  <2>2. pos \in Node /\ \E i \in DOMAIN c[l] : c[l][i] = pos
    BY <1>1, <2>1, NodesOfSequence
  <2>3. Index(l, pos) \in DOMAIN c[l] /\ c[l][Index(l, pos)] = pos
    BY <1>1, <1>3, <2>2 DEF Index
  <2> QED
    BY <1>1, <2>2, <2>3, NodesOfSequence DEF At, Place
<1> QED
  BY <1>2, <1>3

-----------------------------------------------------------------------------
(* The steps that create nodes.                                             *)

\* Nothing of the chains changes.
LEMMA SameChains ==
  ASSUME TypeOK, NEW c, Shape(c), UNCHANGED next, Whole' = Whole, alive' = alive
  PROVE  Chains(c)'
BY DEF Shape, Chains

LEMMA SlotsAndRanges ==
  ASSUME TypeOK
  PROVE  /\ value \in [Node -> Slot]
         /\ \A r \in Seq(Value) : r \in Seq(Slot)
<1>1. \A r \in Seq(Value) : r \in Seq(Slot)
  BY SeqMonotonic DEF Slot
<1> QED
  BY <1>1 DEF TypeOK, Slot

LEMMA AllocateKeeps ==
  ASSUME TypeOK, NEW c, Shape(c), NEW n \in Node, Allocate(n)
  PROVE  TypeOK' /\ Shape(c)'
<1>1. TypeOK'
  <2>1. raw' \in Node \cup {null} /\ allocated' \subseteq Node
    BY DEF TypeOK, Allocate
  <2>2. raw' # null => op'.do \in {"construct", "insert"}
    BY DEF Allocate, Creating
  <2>3. UNCHANGED <<next, value, alive, op, leaked>>
    BY DEF Allocate
  <2> QED
    BY <2>1, <2>2, <2>3 DEF TypeOK
<1>2. Chains(c)'
  BY SameChains DEF Allocate, Whole
<1>3. n \notin leaked /\ n # null /\ \A x \in Owner : n \notin ToSet(c[x])
  BY NodeAssumption DEF Shape, Owned, Allocate
<1>4. Owned(c)'
  BY <1>3 DEF Shape, Owned, Allocate
<1>5. Doing(c)'
  BY DEF Shape, Doing, Allocate, Creating, Inserting
<1> QED
  BY <1>1, <1>2, <1>4, <1>5 DEF Shape

LEMMA LinkKeeps ==
  ASSUME TypeOK, NEW c, Shape(c), Link
  PROVE  TypeOK' /\ \E d : Shape(d)'
<1>1. Creating /\ op \in Insertion /\ raw \in Node /\ op.todo # << >> /\ Inserting(c)
  BY Operations DEF Shape, Doing, Inserting, Link, TypeOK
<1> PICK l \in List, n \in Node : l = op.list /\ n = raw
  BY <1>1 DEF Insertion
<1>2. PICK k \in 0 .. Len(c[l]) :
         /\ op.at = At(l, c[l], k)
         /\ op.do = "construct" => k = Len(c[l])
         /\ op.goal = Elements(value, Before(c[l], k)) \o op.todo \o Elements(value, Behind(c[l], k))
  BY <1>1 DEF Inserting
<1>3. PICK d : d = [c EXCEPT ![l] = Spliced(c[l], k, n)]
  OBVIOUS
<1>4. Whole' = Whole /\ l \in Whole
  BY <1>1, <1>2 DEF Whole, Link, Inserting, Creating, Insertion
<1>5. c[l] \in Seq(Node) /\ Unique(c[l]) /\ Linked(next, l, c[l]) /\ Len(c[l]) \in Nat
  BY <1>4, WholeList
<1>6. n \notin leaked /\ n # null /\ \A x \in Owner : n \notin ToSet(c[x])
  BY <1>1, <1>2, NodeAssumption DEF Shape, Owned
<1>7. next' = [next EXCEPT ![n] = next[At(l, c[l], k)], ![At(l, c[l], k)] = n]
  <2>1. next[At(l, c[l], k)] = Nxt(c[l], k)
    BY <1>5 DEF Linked
  <2>2. op.do = "construct" => Nxt(c[l], k) = null
    BY <1>2, <1>5 DEF Nxt
  <2>3. op.do = "construct" \/ op.do = "insert"
    BY <1>1 DEF Creating
  <2>4. next' = [next EXCEPT ![n] = IF op.do = "insert" THEN next[op.at] ELSE null, ![op.at] = n]
    BY DEF Link
  <2> QED
    BY <1>2, <2>1, <2>2, <2>3, <2>4
<1>8. At(l, c[l], k) \in {l} \cup ToSet(c[l])
  BY <1>5, NodesOfSequence DEF At
<1>9. Spliced(c[l], k, n) \in Seq(Node) /\ Unique(Spliced(c[l], k, n))
      /\ Len(Spliced(c[l], k, n)) = Len(c[l]) + 1
      /\ ToSet(Spliced(c[l], k, n)) = ToSet(c[l]) \cup {n}
  BY <1>5, <1>6, SplicedNodes DEF Owner
<1>10. /\ d \in [Owner -> Seq(Node)]
       /\ d[l] = Spliced(c[l], k, n) /\ \A x \in Owner : x # l => d[x] = c[x]
  BY <1>3, <1>9 DEF Shape, Chains, Owner
<1>11. Chains(d)'
  <2>1. \A x \in Owner : Unique(d[x])
    BY <1>9, <1>10 DEF Shape, Chains
  <2>2. ASSUME NEW x \in Owner, NEW y \in Owner, x # y PROVE ToSet(d[x]) \cap ToSet(d[y]) = {}
    BY <1>6, <1>9, <1>10, <2>2 DEF Shape, Chains
  <2>3. ASSUME NEW m \in Whole PROVE Linked(next', m, d[m])
    <3>1. CASE m = l
      <4>1. next \in [Place -> Ref]
        BY DEF TypeOK, Place, Ref
      <4>2. n \in Node \ ToSet(c[l])
        BY <1>6 DEF Owner
      <4>3. Linked(next', l, Spliced(c[l], k, n))
        BY <1>5, <1>7, <4>1, <4>2, LinkedSpliced
      <4> QED
        BY <1>10, <3>1, <4>3
    <3>2. CASE m # l
      <4>1. m \in List /\ c[m] \in Seq(Node) /\ Linked(next, m, c[m]) /\ d[m] = c[m]
        BY <1>10, <3>2, WholeList DEF Owner
      <4>2. ASSUME NEW y \in {m} \cup ToSet(c[m]) PROVE next'[y] = next[y]
        <5>1. y # n
          BY <1>6, <4>1, NodeAssumption DEF Owner
        <5>2. y # At(l, c[l], k)
          BY <1>8, <3>2, <4>1, PlacesApart
        <5>3. y \in Place
          BY <4>1, NodesOfSequence DEF Place
        <5> QED
          BY <1>7, <5>1, <5>2, <5>3 DEF TypeOK, Place
      <4> QED
        BY <4>1, <4>2, LinkedElsewhere
    <3> QED
      BY <3>1, <3>2
  <2>4. ASSUME NEW m \in List \ (alive \cup Whole) PROVE d[m] = << >>
    BY <1>4, <1>10, <2>4 DEF Shape, Chains, Owner
  <2> QED
    BY <1>4, <1>10, <2>1, <2>2, <2>3, <2>4 DEF Chains, Link
<1>12. Owned(d)'
  <2>1. ASSUME NEW x PROVE (\E y \in Owner : x \in ToSet(d[y])) <=> x = n \/ \E y \in Owner : x \in ToSet(c[y])
    BY <1>9, <1>10 DEF Owner
  <2>2. \A x : x \in allocated' <=> x \in leaked' \/ (x = raw' /\ raw' # null)
                                    \/ \E y \in Owner : x \in ToSet(d[y])
    BY <1>2, <1>6, <2>1 DEF Shape, Owned, Link
  <2>3. Head(op.todo) \in Value
    BY <1>1 DEF Insertion
  <2>4. value'[n] # null /\ \A x \in Node : x # n => value'[x] = value[x]
    BY <1>2, <2>3, NullAssumption DEF Link, TypeOK
  <2>5. ASSUME NEW y \in Owner, NEW x \in ToSet(d[y])
        PROVE  x \notin leaked' /\ x # raw' /\ value'[x] # null
    <3>1. x \in Node
      BY <1>10, NodesOfSequence
    <3>2. x = n \/ x \in ToSet(c[y])
      BY <1>9, <1>10
    <3> QED
      BY <1>6, <2>4, <3>1, <3>2, NodeAssumption DEF Shape, Owned, Link
  <2>6. raw' \notin leaked'
    BY NodeAssumption DEF Link, TypeOK
  <2> QED
    BY <2>2, <2>5, <2>6 DEF Owned
<1>13. Doing(d)'
  <2>1. k + 1 \in 0 .. Len(d[l]) /\ k + 1 # 0 /\ (op.do = "construct" => k + 1 = Len(d[l]))
    BY <1>2, <1>5, <1>9, <1>10
  <2>5. n = At(l, d[l], k + 1)
    <3>1. Spliced(c[l], k, n)[k + 1] = n
      BY <1>5 DEF Spliced
    <3> QED
      BY <1>10, <2>1, <3>1 DEF At
  <2>2. /\ op'.at = n /\ op'.do = op.do /\ op'.list = op.list /\ raw' = null
        /\ op'.todo = Tail(op.todo) /\ op'.goal = op.goal /\ alive' = alive
    BY <1>1, <1>2 DEF Link, Insertion
  <2>6. op.goal = Elements(value', Before(d[l], k + 1)) \o Tail(op.todo) \o Elements(value', Behind(d[l], k + 1))
    <3>1. PICK h, v : h = Head(op.todo) /\ v = value'
      OBVIOUS
    <3>2. value \in [Node -> Slot] /\ op.todo \in Seq(Slot) /\ h \in Slot /\ v = [value EXCEPT ![n] = h]
      BY <1>1, <1>2, <3>1, SlotsAndRanges DEF Link, Insertion, Slot
    <3>3. /\ Before(c[l], k) \in Seq(Node) /\ Behind(c[l], k) \in Seq(Node)
          /\ n \notin ToSet(Before(c[l], k)) /\ n \notin ToSet(Behind(c[l], k))
      BY <1>5, <1>6, NodesOfParts DEF Owner
    <3>4. Before(d[l], k + 1) = Before(c[l], k) \o <<n>> /\ Behind(d[l], k + 1) = Behind(c[l], k)
      BY <1>5, <1>6, <1>10, SplicedParts DEF Owner
    <3>5. Elements(v, Before(c[l], k) \o <<n>>) = Elements(value, Before(c[l], k)) \o <<h>>
      <4>1. PICK b \in Seq(Node) : b = Before(c[l], k)
        BY <3>3
      <4>2. n \in Node \ ToSet(b)
        BY <3>3, <4>1
      <4>3. Elements(v, b \o <<n>>) = Elements(value, b) \o <<h>>
        BY <3>2, <4>2, ElementsExtended
      <4> QED
        BY <4>1, <4>3
    <3>6. Elements(v, Behind(c[l], k)) = Elements(value, Behind(c[l], k))
      <4>1. \A x \in ToSet(Behind(c[l], k)) : v[x] = value[x]
        BY <3>2, <3>3, NodesOfSequence
      <4> QED
        BY <3>3, <4>1, ElementsSame
    <3>7. Elements(value, Before(c[l], k)) \in Seq(Slot)
      BY <3>2, <3>3, ElementsAreASequence
    <3>8. Elements(value, Before(c[l], k)) \o op.todo
            = (Elements(value, Before(c[l], k)) \o <<h>>) \o Tail(op.todo)
      BY <1>1, <3>1, <3>2, <3>7, HeadFirst
    <3> QED
      BY <1>2, <3>1, <3>4, <3>5, <3>6, <3>8
  <2>3. Inserting(d)'
    BY <1>1, <1>2, <2>1, <2>2, <2>5, <2>6 DEF Inserting
  <2>4. d[null] = << >>
    BY <1>1, <1>10, NodeAssumption DEF Shape, Doing, Creating, Owner
  <2> QED
    BY <1>1, <2>2, <2>3, <2>4 DEF Doing, Creating
<1>14. TypeOK'
  <2>1. Head(op.todo) \in Value /\ Tail(op.todo) \in Seq(Value)
    BY <1>1 DEF Insertion
  <2>2. op' \in Insertion
    BY <1>1, <2>1 DEF Link, Insertion, Place
  <2>3. next' \in [List \cup Node -> Node \cup {null}]
    <3>1. next \in [List \cup Node -> Node \cup {null}] /\ op.at \in List \cup Node
      BY <1>1 DEF TypeOK, Insertion, Place
    <3>2. next[op.at] \in Node \cup {null}
      BY <3>1
    <3> QED
      BY <3>1, <3>2 DEF Link
  <2>4. value' \in [Node -> Value \cup {null}]
    BY <2>1 DEF Link, TypeOK
  <2> QED
    BY <2>2, <2>3, <2>4 DEF TypeOK, Link
<1> QED
  BY <1>11, <1>12, <1>13, <1>14 DEF Shape

LEMMA CreateThrowsKeeps ==
  ASSUME TypeOK, NEW c, Shape(c), CreateThrows
  PROVE  TypeOK' /\ \E d : Shape(d)'
<1> PICK l \in List : l = op.list
  BY Operations DEF CreateThrows, Insertion
<1>1. /\ op.do = "construct" \/ op.do = "insert"
      /\ op.do = "insert" <=> l \in alive
      /\ op' = None /\ raw' = null /\ allocated' = allocated \ {raw}
      /\ UNCHANGED <<next, value, alive>>
  BY DEF CreateThrows, Creating, Shape, Doing, Inserting
<1>2. Whole' = alive /\ Whole = alive \cup (IF op.do = "construct" THEN {l} ELSE {})
  BY <1>1 DEF Whole, None
<1>3. Nodes(l) = ToSet(c[l]) /\ ToSet(c[l]) \subseteq Node /\ l \in Owner
  <2>1. l \in Whole
    BY <1>1, <1>2
  <2> QED
    BY <2>1, WholeList, ChainOf DEF Owner
<1>4. TypeOK'
  <2>1. allocated' \subseteq Node /\ leaked' \subseteq Node
    BY <1>1, <1>3 DEF TypeOK, CreateThrows
  <2> QED
    BY <1>1, <2>1 DEF TypeOK, None
<1>5. CASE op.do = "insert"
  <2>1. Chains(c)'
    BY <1>1, <1>2, <1>5, SameChains
  <2>2. Owned(c)'
    BY <1>1, <1>5, NodeAssumption DEF Shape, Owned, CreateThrows, TypeOK
  <2>3. Doing(c)'
    BY <1>1, <1>5 DEF Shape, Doing, Creating, None
  <2> QED
    BY <1>4, <2>1, <2>2, <2>3 DEF Shape
<1>6. CASE op.do = "construct"
  <2>1. PICK d : d = [c EXCEPT ![l] = << >>]
    OBVIOUS
  <2>2. /\ d \in [Owner -> Seq(Node)] /\ d[l] = << >> /\ \A x \in Owner : x # l => d[x] = c[x]
        /\ d[null] = << >>
    BY <1>1, <1>3, <1>6, <2>1, NodeAssumption DEF Shape, Chains, Doing, Owner
  <2>3. ToSet(<< >>) = {} /\ Unique(<< >>)
    BY DEF ToSet, Unique
  <2>4. Chains(d)'
    <3>1. \A x \in Owner : Unique(d[x])
      BY <2>2, <2>3 DEF Shape, Chains
    <3>2. \A x, y \in Owner : x # y => ToSet(d[x]) \cap ToSet(d[y]) = {}
      BY <2>2, <2>3 DEF Shape, Chains
    <3>3. ASSUME NEW m \in alive PROVE Linked(next, m, d[m])
      BY <1>1, <1>2, <1>6, <2>2 DEF Shape, Chains, TypeOK, Owner
    <3>4. \A m \in List \ alive : d[m] = << >>
      BY <1>2, <1>6, <2>2 DEF Shape, Chains, Owner
    <3> QED
      BY <1>1, <1>2, <2>2, <3>1, <3>2, <3>3, <3>4 DEF Chains
  <2>5. leaked' = leaked \cup ToSet(c[l])
    BY <1>3, <1>6 DEF CreateThrows
  <2>6. Owned(d)'
    <3>1. ASSUME NEW n
          PROVE  (\E x \in Owner : n \in ToSet(c[x])) <=> n \in ToSet(c[l]) \/ \E x \in Owner : n \in ToSet(d[x])
      BY <1>3, <2>2, <2>3
    <3>2. ASSUME NEW n \in ToSet(c[l]) PROVE n # raw /\ n # null
      BY <1>3, NodeAssumption DEF Shape, Owned
    <3>3. ASSUME NEW n
          PROVE  n \in allocated' <=> n \in leaked' \/ \E x \in Owner : n \in ToSet(d[x])
      <4>1. n \in allocated <=> \/ n \in leaked
                                \/ n = raw /\ raw # null
                                \/ n \in ToSet(c[l])
                                \/ \E x \in Owner : n \in ToSet(d[x])
        BY <3>1 DEF Shape, Owned
      <4>2. n = raw => ~ (n \in leaked \/ n \in ToSet(c[l]) \/ \E x \in Owner : n \in ToSet(d[x]))
        BY <3>1 DEF Shape, Owned
      <4> QED
        BY <1>1, <2>5, <4>1, <4>2, NodeAssumption DEF TypeOK
    <3>4. \A x \in Owner : \A n \in ToSet(d[x]) : n \in ToSet(c[x]) /\ n \notin ToSet(c[l])
      BY <1>3, <2>2, <2>3 DEF Shape, Chains
    <3>5. \A x \in Owner : \A n \in ToSet(d[x]) : n \notin leaked' /\ n # null /\ value[n] # null
      BY <2>2, <2>5, <3>4, NodesOfSequence, NodeAssumption DEF Shape, Owned
    <3>6. null \notin leaked'
      BY <1>3, <2>5, NodeAssumption DEF TypeOK
    <3> QED
      BY <1>1, <3>3, <3>5, <3>6 DEF Owned
  <2>7. Doing(d)'
    BY <1>1, <2>2 DEF Doing, Creating, None
  <2> QED
    BY <1>4, <2>4, <2>6, <2>7 DEF Shape
<1> QED
  BY <1>1, <1>5, <1>6

LEMMA CreatedKeeps ==
  ASSUME TypeOK, NEW c, Shape(c), Created
  PROVE  TypeOK' /\ Shape(c)'
<1> PICK l \in List : l = op.list
  BY Operations DEF Created, Insertion
<1>1. /\ op.do = "construct" \/ op.do = "insert"
      /\ op.do = "insert" <=> l \in alive
      /\ op' = None /\ raw = null /\ alive' = alive \cup {l}
      /\ UNCHANGED <<next, value, allocated, raw, leaked>>
  BY DEF Created, Creating, Shape, Doing, Inserting
<1>2. Whole' = Whole /\ Whole = alive \cup {l}
  BY <1>1 DEF Whole, None
<1>3. TypeOK'
  <2>1. alive' \subseteq List
    BY <1>1 DEF TypeOK
  <2> QED
    BY <1>1, <2>1 DEF TypeOK, None
<1>4. Chains(c)'
  BY <1>1, <1>2 DEF Shape, Chains
<1>5. Owned(c)'
  BY <1>1 DEF Shape, Owned
<1>6. Doing(c)'
  BY <1>1 DEF Shape, Doing, Creating, None
<1> QED
  BY <1>3, <1>4, <1>5, <1>6 DEF Shape

\* Between two operations.
LEMMA IdleShape ==
  ASSUME TypeOK, NEW c, Shape(c), Idle
  PROVE  /\ op.do = "none" /\ raw = null /\ c[null] = << >> /\ Whole = alive
         /\ \A l \in List \ alive : c[l] = << >>
BY Operations DEF Shape, Doing, Chains, Whole, Creating

LEMMA RangeOfValues ==
  ASSUME NEW r \in Ranges(MaxLen)
  PROVE  r \in Seq(Value)
<1>1. PICK n \in 0 .. MaxLen : r \in [1 .. n -> Value]
  BY DEF Ranges
<1>2. n \in Nat
  BY MaxLenAssumption
<1> QED
  BY <1>1, <1>2

LEMMA ConstructKeeps ==
  ASSUME TypeOK, NEW c, Shape(c), NEW l \in List, NEW r \in Ranges(MaxLen), Construct(l, r)
  PROVE  TypeOK' /\ Shape(c)'
<1>1. /\ Whole = alive /\ raw = null /\ c[null] = << >> /\ c[l] = << >> /\ l \notin alive
      /\ UNCHANGED <<value, allocated, alive, raw, leaked>>
      /\ next' = [next EXCEPT ![l] = null]
      /\ op' = [do |-> "construct", list |-> l, at |-> l, todo |-> r, goal |-> r]
  BY IdleShape DEF Construct
<1>2. Whole' = alive \cup {l}
  BY <1>1 DEF Whole
<1>3. TypeOK'
  <2>1. op' \in Insertion
    BY <1>1, RangeOfValues DEF Insertion, Place
  <2>2. next' \in [List \cup Node -> Node \cup {null}]
    BY <1>1 DEF TypeOK
  <2> QED
    BY <1>1, <2>1, <2>2 DEF TypeOK
<1>4. Chains(c)'
  <2>1. ASSUME NEW m \in alive PROVE Linked(next', m, c[m])
    <3>1. m \in List /\ m \in Whole /\ m # l
      BY <1>1 DEF TypeOK
    <3>2. c[m] \in Seq(Node) /\ Linked(next, m, c[m]) /\ ToSet(c[m]) \subseteq Node
      BY <3>1, WholeList, NodesOfSequence
    <3>3. \A y \in {m} \cup ToSet(c[m]) : next'[y] = next[y]
      BY <1>1, <3>1, <3>2, NodeAssumption DEF TypeOK
    <3> QED
      BY <3>2, <3>3, LinkedElsewhere
  <2>2. Linked(next', l, c[l])
    <3>1. next'[l] = null
      BY <1>1 DEF TypeOK
    <3> QED
      BY <1>1, <3>1 DEF Linked, At, Nxt
  <2> QED
    BY <1>1, <1>2, <2>1, <2>2 DEF Shape, Chains
<1>5. Owned(c)'
  BY <1>1 DEF Shape, Owned
<1>6. Doing(c)'
  <2>1. /\ 0 \in 0 .. Len(c[l]) /\ 0 = Len(c[l]) /\ l = At(l, c[l], 0)
    BY <1>1 DEF At
  <2>2. r = Elements(value', Before(c[l], 0)) \o r \o Elements(value', Behind(c[l], 0))
    <3>1. << >> \in Seq(Node) /\ Elements(value', << >>) = << >>
      BY DEF Elements
    <3>2. Before(c[l], 0) = << >> /\ Behind(c[l], 0) = << >>
      BY <1>1, <3>1, OuterParts
    <3>3. << >> \o r \o << >> = r
      BY RangeOfValues, ConcatEmptySeq
    <3> QED
      BY <3>1, <3>2, <3>3
  <2>3. Inserting(c)'
    BY <1>1, <2>1, <2>2 DEF Inserting
  <2> QED
    BY <1>1, <2>3 DEF Doing, Creating
<1> QED
  BY <1>3, <1>4, <1>5, <1>6 DEF Shape

LEMMA PartsOfContents ==
  ASSUME NEW s \in Seq(Value), NEW i \in 0 .. Len(s)
  PROVE  /\ SubSeq(s, 1, i) \in Seq(Value) /\ Len(SubSeq(s, 1, i)) = i
         /\ \A j \in 1 .. i : SubSeq(s, 1, i)[j] = s[j]
         /\ SubSeq(s, i + 1, Len(s)) \in Seq(Value) /\ Len(SubSeq(s, i + 1, Len(s))) = Len(s) - i
         /\ \A j \in 1 .. Len(s) - i : SubSeq(s, i + 1, Len(s))[j] = s[i + j]
OBVIOUS

LEMMA InsertAfterKeeps ==
  ASSUME TypeOK, NEW c, Shape(c), NEW l \in List, NEW pos \in Positions(l),
         NEW r \in Ranges(MaxLen), insert_after(l, pos, r)
  PROVE  TypeOK' /\ Shape(c)'
<1>1. /\ Whole = alive /\ raw = null /\ c[null] = << >> /\ l \in alive
      /\ UNCHANGED <<next, value, allocated, alive, raw, leaked>>
      /\ op'.do = "insert" /\ op'.list = l /\ op'.at = pos
  BY IdleShape DEF insert_after
<1>2. Whole' = Whole
  BY <1>1 DEF Whole
<1>3. PICK k \in 0 .. Len(c[l]) : k = Index(l, pos) /\ pos = At(l, c[l], k) /\ pos \in Place
  BY <1>1, PlaceOfPosition
<1>4. /\ Contents(l) \in Seq(Value) /\ Len(Contents(l)) = Len(c[l]) /\ c[l] \in Seq(Node)
      /\ Contents(l) = Elements(value, c[l]) /\ value \in [Node -> Slot]
  BY <1>1, WholeList, SlotsAndRanges
<1>5. PICK goal : goal = SubSeq(Contents(l), 1, k) \o r \o SubSeq(Contents(l), k + 1, Len(Contents(l)))
  OBVIOUS
<1>6. op' = [do |-> "insert", list |-> l, at |-> pos, todo |-> r, goal |-> goal]
  BY <1>3, <1>5 DEF insert_after
<1>7. goal = Elements(value, Before(c[l], k)) \o r \o Elements(value, Behind(c[l], k))
  BY <1>4, <1>5, ElementsOfParts DEF Before, Behind
<1>8. TypeOK'
  <2>1. goal \in Seq(Value)
    <3>1. r \in Seq(Value) /\ k \in 0 .. Len(Contents(l))
      BY <1>4, RangeOfValues
    <3> QED
      BY <1>4, <1>5, <3>1, PartsOfContents, ConcatProperties
  <2>2. op' \in Insertion
    BY <1>3, <1>6, <2>1, RangeOfValues DEF Insertion
  <2> QED
    BY <1>1, <2>2 DEF TypeOK
<1>9. Chains(c)'
  BY <1>1, <1>2, SameChains
<1>10. Owned(c)'
  BY <1>1 DEF Shape, Owned
<1>11. Doing(c)'
  <2>1. /\ op'.do = "insert" /\ op'.list = l /\ op'.at = pos /\ op'.todo = r /\ op'.goal = goal
        /\ alive' = alive /\ raw' = null /\ value' = value
    BY <1>1, <1>6
  <2>2. Inserting(c)'
    BY <1>1, <1>3, <1>7, <2>1 DEF Inserting
  <2> QED
    BY <1>1, <2>1, <2>2 DEF Doing, Creating
<1> QED
  BY <1>8, <1>9, <1>10, <1>11 DEF Shape

LEMMA MoveConstructKeeps ==
  ASSUME TypeOK, NEW c, Shape(c), NEW l \in List, NEW m \in List, MoveConstruct(l, m)
  PROVE  TypeOK' /\ \E d : Shape(d)'
<1>1. /\ Whole = alive /\ raw = null /\ c[null] = << >> /\ c[l] = << >>
      /\ l \notin alive /\ m \in alive /\ op = None /\ l # m
      /\ next' = [next EXCEPT ![l] = next[m], ![m] = null] /\ alive' = alive \cup {l}
      /\ UNCHANGED <<value, allocated, raw, op, leaked>>
  BY IdleShape DEF MoveConstruct, Idle
<1>2. Whole' = alive \cup {l}
  BY <1>1 DEF Whole, None
<1>3. PICK d : d = [c EXCEPT ![l] = c[m], ![m] = << >>]
  OBVIOUS
<1>4. /\ d \in [Owner -> Seq(Node)] /\ d[l] = c[m] /\ d[m] = << >>
      /\ \A x \in Owner \ {l, m} : d[x] = c[x]
      /\ d[null] = << >>
  <2>1. << >> \in Seq(Node)
    OBVIOUS
  <2>2. c \in [Owner -> Seq(Node)] /\ l \in Owner /\ m \in Owner /\ null \in Owner \ {l, m}
    BY NodeAssumption DEF Shape, Chains, Owner
  <2> QED
    BY <1>1, <1>3, <2>1, <2>2
<1>5. ToSet(<< >>) = {} /\ Unique(<< >>)
  BY DEF ToSet, Unique
<1>6. TypeOK'
  <2>1. next' \in [List \cup Node -> Node \cup {null}] /\ alive' \subseteq List
    BY <1>1 DEF TypeOK
  <2> QED
    BY <1>1, <2>1 DEF TypeOK
<1>7. Chains(d)'
  <2>1. \A x \in Owner : Unique(d[x])
    BY <1>4, <1>5 DEF Shape, Chains, Owner
  <2>2. \A x, y \in Owner : x # y => ToSet(d[x]) \cap ToSet(d[y]) = {}
    BY <1>1, <1>4, <1>5 DEF Shape, Chains, Owner
  <2>3. ASSUME NEW k \in alive \cup {l} PROVE Linked(next', k, d[k])
    <3>1. k \in List /\ next \in [List \cup Node -> Node \cup {null}]
      BY DEF TypeOK
    <3>2. CASE k = l
      <4>1. c[m] \in Seq(Node) /\ Linked(next, m, c[m]) /\ ToSet(c[m]) \subseteq Node
        BY <1>1, WholeList, NodesOfSequence
      <4>2. next'[l] = next[m] /\ \A y \in ToSet(c[m]) : next'[y] = next[y]
        BY <1>1, <3>1, <4>1, NodeAssumption
      <4> QED
        BY <1>4, <3>2, <4>1, <4>2, LinkedMoved
    <3>3. CASE k = m
      <4>1. next'[m] = null
        BY <1>1, <3>1
      <4> QED
        BY <1>4, <3>3, <4>1 DEF Linked, At, Nxt
    <3>4. CASE k # l /\ k # m
      <4>1. c[k] \in Seq(Node) /\ Linked(next, k, c[k]) /\ ToSet(c[k]) \subseteq Node
        BY <1>1, <3>4, WholeList, NodesOfSequence
      <4>2. \A y \in {k} \cup ToSet(c[k]) : next'[y] = next[y]
        BY <1>1, <3>1, <3>4, <4>1, NodeAssumption
      <4>3. d[k] = c[k]
        BY <1>4, <3>1, <3>4 DEF Owner
      <4> QED
        BY <4>1, <4>2, <4>3, LinkedElsewhere
    <3> QED
      BY <3>2, <3>3, <3>4
  <2>4. \A k \in List \ (alive \cup {l}) : d[k] = << >>
    BY <1>1, <1>4 DEF Shape, Chains, Owner
  <2> QED
    BY <1>1, <1>2, <1>4, <2>1, <2>2, <2>3, <2>4 DEF Chains
<1>8. Owned(d)'
  <2>1. ASSUME NEW n PROVE (\E x \in Owner : n \in ToSet(c[x])) <=> \E x \in Owner : n \in ToSet(d[x])
    BY <1>1, <1>4, <1>5 DEF Owner
  <2>2. ASSUME NEW x \in Owner, NEW n \in ToSet(d[x]) PROVE \E y \in Owner : n \in ToSet(c[y])
    BY <2>1
  <2> QED
    BY <1>1, <2>1, <2>2 DEF Shape, Owned
<1>9. Doing(d)'
  BY <1>1, <1>4 DEF Doing, Creating, None
<1> QED
  BY <1>6, <1>7, <1>8, <1>9 DEF Shape

-----------------------------------------------------------------------------
(* The steps that erase nodes.                                              *)

LEMMA EraseAfterKeeps ==
  ASSUME TypeOK, NEW c, Shape(c), NEW l \in List, NEW pos \in Positions(l), erase_after(l, pos)
  PROVE  TypeOK' /\ \E d : Shape(d)'
<1>1. /\ Whole = alive /\ raw = null /\ c[null] = << >> /\ l \in alive /\ op.do = "none"
      /\ UNCHANGED <<alive, raw, op, leaked>>
  BY IdleShape DEF erase_after
<1>2. Whole' = Whole
  BY <1>1 DEF Whole
<1>3. /\ c[l] \in Seq(Node) /\ Unique(c[l]) /\ Linked(next, l, c[l]) /\ Len(c[l]) \in Nat
      /\ next \in [Place -> Ref] /\ l \in Owner
  BY <1>1, WholeList DEF TypeOK, Place, Ref, Owner
<1>4. PICK k \in 0 .. Len(c[l]) : pos = At(l, c[l], k)
  BY <1>1, PlaceOfPosition
<1>5. next[pos] # null /\ next[pos] = Nxt(c[l], k)
  BY <1>3, <1>4 DEF Linked, erase_after
<1>6. k \in 0 .. Len(c[l]) - 1
  BY <1>3, <1>5 DEF Nxt
<1>7. PICK n : n = c[l][k + 1]
  OBVIOUS
<1>8. next[pos] = n /\ n \in Node /\ n \in ToSet(c[l]) /\ pos \in {l} \cup ToSet(c[l])
  <2>1. next[pos] = n
    BY <1>3, <1>5, <1>6, <1>7 DEF Nxt
  <2>2. k + 1 \in 1 .. Len(c[l]) /\ (k # 0 => k \in 1 .. Len(c[l]))
    BY <1>3, <1>6
  <2> QED
    BY <1>3, <1>4, <1>7, <2>1, <2>2, NodesOfSequence DEF At
<1>9. /\ next' = [next EXCEPT ![pos] = next[n], ![n] = null]
      /\ value' = [value EXCEPT ![n] = null]
      /\ allocated' = allocated \ {n}
  BY <1>8 DEF erase_after
<1>10. PICK w : w = Without(c[l], k)
  OBVIOUS
<1>11. w \in Seq(Node) /\ Unique(w) /\ ToSet(w) = ToSet(c[l]) \ {n} /\ Linked(next', l, w)
  <2>1. w \in Seq(Node) /\ Unique(w) /\ ToSet(w) = ToSet(c[l]) \ {n}
    BY <1>3, <1>6, <1>7, <1>10, WithoutNodes
  <2>2. next' = [next EXCEPT ![At(l, c[l], k)] = next[c[l][k + 1]], ![c[l][k + 1]] = null]
    BY <1>4, <1>7, <1>9
  <2> QED
    BY <1>3, <1>6, <1>10, <2>1, <2>2, LinkedWithout
<1>12. PICK d : d = [c EXCEPT ![l] = w]
  OBVIOUS
<1>13. /\ d \in [Owner -> Seq(Node)] /\ d[l] = w /\ \A x \in Owner : x # l => d[x] = c[x]
       /\ d[null] = << >>
  BY <1>1, <1>3, <1>11, <1>12, NodeAssumption DEF Shape, Chains, Owner
<1>14. TypeOK'
  <2>1. next' \in [List \cup Node -> Node \cup {null}]
    <3>1. next[n] \in Node \cup {null}
      BY <1>8 DEF TypeOK
    <3> QED
      BY <1>9, <3>1 DEF TypeOK
  <2>2. value' \in [Node -> Value \cup {null}] /\ allocated' \subseteq Node
    BY <1>9 DEF TypeOK
  <2> QED
    BY <1>1, <2>1, <2>2 DEF TypeOK
<1>15. Chains(d)'
  <2>1. \A x \in Owner : Unique(d[x])
    BY <1>11, <1>13 DEF Shape, Chains
  <2>2. ASSUME NEW x \in Owner, NEW y \in Owner, x # y PROVE ToSet(d[x]) \cap ToSet(d[y]) = {}
    BY <1>11, <1>13, <2>2 DEF Shape, Chains
  <2>3. ASSUME NEW m \in alive PROVE Linked(next', m, d[m])
    <3>1. CASE m = l
      BY <1>11, <1>13, <3>1
    <3>2. CASE m # l
      <4>1. m \in List /\ c[m] \in Seq(Node) /\ Linked(next, m, c[m]) /\ d[m] = c[m] /\ ToSet(c[m]) \subseteq Node
        BY <1>1, <1>13, <3>2, WholeList, NodesOfSequence DEF Owner
      <4>2. ASSUME NEW y \in {m} \cup ToSet(c[m]) PROVE next'[y] = next[y]
        <5>1. y \notin {l} \cup ToSet(c[l])
          BY <3>2, <4>1, PlacesApart
        <5>2. y \in Place
          BY <4>1 DEF Place
        <5> QED
          BY <1>3, <1>8, <1>9, <5>1, <5>2
      <4> QED
        BY <4>1, <4>2, LinkedElsewhere
    <3> QED
      BY <3>1, <3>2
  <2>4. ASSUME NEW m \in List \ (alive \cup Whole) PROVE d[m] = << >>
    BY <1>1, <1>13, <2>4 DEF Shape, Chains, Owner
  <2> QED
    BY <1>1, <1>2, <1>13, <2>1, <2>2, <2>3, <2>4 DEF Chains
<1>16. Owned(d)'
  <2>1. ASSUME NEW x PROVE (\E y \in Owner : x \in ToSet(d[y])) <=> x # n /\ \E y \in Owner : x \in ToSet(c[y])
    BY <1>3, <1>8, <1>11, <1>13 DEF Shape, Chains
  <2>2. n \notin leaked
    BY <1>3, <1>8 DEF Shape, Owned
  <2>3. \A x : x \in allocated' <=> x \in leaked \/ \E y \in Owner : x \in ToSet(d[y])
    BY <1>1, <1>9, <2>1, <2>2 DEF Shape, Owned
  <2>4. ASSUME NEW y \in Owner, NEW x \in ToSet(d[y])
        PROVE  x \notin leaked /\ x # null /\ value'[x] # null
    <3>1. x \in Node /\ x # n /\ x \notin leaked /\ value[x] # null
      <4>1. x # n /\ \E z \in Owner : x \in ToSet(c[z])
        BY <2>1
      <4>2. x \in Node
        BY <1>13, NodesOfSequence
      <4> QED
        BY <4>1, <4>2 DEF Shape, Owned
    <3> QED
      BY <1>9, <3>1, NodeAssumption DEF TypeOK
  <2>5. null \notin leaked
    BY NodeAssumption DEF TypeOK
  <2> QED
    BY <1>1, <2>3, <2>4, <2>5 DEF Owned
<1>17. Doing(d)'
  BY <1>1, <1>13 DEF Doing, Creating
<1> QED
  BY <1>14, <1>15, <1>16, <1>17 DEF Shape

\* From a place of a whole list on, the erasure takes over the rest of its
\* chain.
LEMMA BeginErasureKeeps ==
  ASSUME TypeOK, NEW c, Shape(c), NEW l \in List, NEW pos, NEW last, NEW then, NEW goal,
         l \in alive, Whole = alive, raw = null, c[null] = << >>,
         NEW k \in 0 .. Len(c[l]), pos = At(l, c[l], k),
         NEW j \in 0 .. Len(c[l]) - k, last = Nxt(Behind(c[l], k), j),
         then \in List \cup {"nothing", "destroy"}, goal \in Seq(Value),
         then = "nothing" =>
           goal = Elements(value, Before(c[l], k)) \o Elements(value, Behind(Behind(c[l], k), j)),
         then # "nothing" => k = 0 /\ last = null,
         then = "destroy" => goal = << >>,
         then \in List => then \in alive /\ goal = IF then = l THEN << >> ELSE Elements(value, c[then]),
         op' = Erasure(l, pos, last, then, goal),
         UNCHANGED <<next, value, allocated, alive, raw, leaked>>
  PROVE  TypeOK' /\ \E d : Shape(d)'
<1>1. /\ c[l] \in Seq(Node) /\ Unique(c[l]) /\ Linked(next, l, c[l]) /\ Len(c[l]) \in Nat
      /\ next \in [Place -> Ref] /\ l \in Owner /\ null \in Owner /\ l # null
  BY WholeList, NodeAssumption DEF TypeOK, Place, Ref, Owner
<1>2. PICK s, r : s = Before(c[l], k) /\ r = Behind(c[l], k)
  OBVIOUS
<1>3. /\ s \in Seq(Node) /\ Len(s) = k /\ r \in Seq(Node) /\ Len(r) = Len(c[l]) - k
      /\ Unique(s) /\ Unique(r)
      /\ ToSet(s) \cap ToSet(r) = {} /\ ToSet(s) \cup ToSet(r) = ToSet(c[l])
  BY <1>1, <1>2, SplitNodes DEF Before, Behind
<1>4. /\ Segment(next, l, s) /\ At(l, s, k) = pos /\ Ended(next, r) /\ Nxt(r, 0) = next[pos]
  BY <1>1, <1>2, LinkedSplit DEF Before, Behind
<1>5. PICK d : d = [c EXCEPT ![l] = s, ![null] = r]
  OBVIOUS
<1>6. /\ d \in [Owner -> Seq(Node)] /\ d[l] = s /\ d[null] = r
      /\ \A x \in Owner \ {l, null} : d[x] = c[x]
  BY <1>1, <1>3, <1>5 DEF Shape, Chains
<1>7. /\ op'.do = "erase" /\ op'.list = l /\ op'.at = pos /\ op'.curr = next[pos]
      /\ op'.last = last /\ op'.then = then
  BY DEF Erasure
<1>8. Whole' = alive \ {l}
  BY <1>7 DEF Whole
<1>9. TypeOK'
  <2>1. pos \in Place
    BY <1>1, PlacesOfChain
  <2>2. next[pos] \in Ref
    BY <1>1, <2>1
  <2>3. last \in Ref
    <3>1. last \in ToSet(r) \cup {null}
      BY <1>2, <1>3, NextPlace
    <3> QED
      BY <1>3, <3>1, NodesOfSequence DEF Ref
  <2>4. op' \in Removal
    BY <2>1, <2>2, <2>3 DEF Erasure, Removal
  <2> QED
    BY <2>4 DEF TypeOK
<1>10. Chains(d)'
  <2>1. \A x \in Owner : Unique(d[x])
    BY <1>3, <1>6 DEF Shape, Chains
  <2>2. ASSUME NEW x \in Owner, NEW y \in Owner, x # y PROVE ToSet(d[x]) \cap ToSet(d[y]) = {}
    <3>1. CASE x \in {l, null} /\ y \in {l, null}
      BY <1>3, <1>6, <2>2, <3>1
    <3>2. CASE x \in {l, null} /\ y \notin {l, null}
      BY <1>1, <1>3, <1>6, <2>2, <3>2 DEF Shape, Chains
    <3>3. CASE x \notin {l, null} /\ y \in {l, null}
      BY <1>1, <1>3, <1>6, <2>2, <3>3 DEF Shape, Chains
    <3>4. CASE x \notin {l, null} /\ y \notin {l, null}
      BY <1>6, <2>2, <3>4 DEF Shape, Chains
    <3> QED
      BY <3>1, <3>2, <3>3, <3>4
  <2>3. ASSUME NEW m \in alive \ {l} PROVE Linked(next, m, d[m])
    BY <1>6, NodeAssumption DEF Shape, Chains, Owner, TypeOK
  <2>4. ASSUME NEW m \in List \ (alive \cup (alive \ {l})) PROVE d[m] = << >>
    BY <1>6, NodeAssumption DEF Shape, Chains, Owner
  <2> QED
    BY <1>6, <1>8, <2>1, <2>2, <2>3, <2>4 DEF Chains
<1>11. Owned(d)'
  <2>1. ToSet(c[null]) = {}
    BY DEF ToSet
  <2>2. ASSUME NEW n PROVE (\E x \in Owner : n \in ToSet(c[x])) <=> \E x \in Owner : n \in ToSet(d[x])
    <3>1. ASSUME NEW x \in Owner, n \in ToSet(c[x]) PROVE \E y \in Owner : n \in ToSet(d[y])
      BY <1>1, <1>3, <1>6, <2>1, <3>1
    <3>2. ASSUME NEW x \in Owner, n \in ToSet(d[x]) PROVE \E y \in Owner : n \in ToSet(c[y])
      BY <1>1, <1>3, <1>6, <2>1, <3>2
    <3> QED
      BY <3>1, <3>2
  <2>3. \A x \in Owner : \A n \in ToSet(d[x]) : \E y \in Owner : n \in ToSet(c[y])
    BY <2>2
  <2> QED
    BY <2>2, <2>3 DEF Shape, Owned
<1>12. Doing(d)'
  <2>1. then # "nothing" => s = << >> /\ last = null
    BY <1>3
  <2>2. /\ j \in 0 .. Len(d[null]) /\ last = Nxt(d[null], j)
        /\ then = "nothing" => goal = Elements(value, d[l]) \o Elements(value, Behind(d[null], j))
    BY <1>2, <1>3, <1>6
  <2>3. /\ then = "destroy" => goal = << >>
        /\ then \in List => then \in alive /\ goal = IF then = l THEN << >> ELSE Elements(value, d[then])
    <3>1. then \in List /\ then # l => d[then] = c[then]
      BY <1>6, NodeAssumption DEF Owner
    <3> QED
      BY <3>1
  <2>4. op'.goal = goal /\ next' = next /\ value' = value /\ alive' = alive
    BY DEF Erasure
  <2>5. Erasing(d)'
    BY <1>3, <1>4, <1>6, <1>7, <2>1, <2>2, <2>3, <2>4 DEF Erasing
  <2> QED
    BY <1>7, <2>5 DEF Doing, Creating
<1> QED
  BY <1>9, <1>10, <1>11, <1>12 DEF Shape

LEMMA EraseNextKeeps ==
  ASSUME TypeOK, NEW c, Shape(c), EraseNext
  PROVE  TypeOK' /\ \E d : Shape(d)'
<1> PICK l \in List : l = op.list
  BY Operations DEF EraseNext, Removal
<1>1. /\ op.do = "erase" /\ op \in Removal /\ op.curr # op.last /\ l \in alive /\ raw = null
      /\ Segment(next, l, c[l]) /\ op.at = At(l, c[l], Len(c[l]))
      /\ Ended(next, c[null]) /\ op.curr = Nxt(c[null], 0)
      /\ op.then # "nothing" => c[l] = << >> /\ op.last = null
      /\ op.then = "destroy" => op.goal = << >>
      /\ op.then \in List =>
           op.then \in alive /\ op.goal = IF op.then = l THEN << >> ELSE Elements(value, c[op.then])
      /\ UNCHANGED <<alive, raw, leaked>>
  BY Operations DEF EraseNext, Shape, Doing, Erasing, Creating
<1>2. /\ l \in Owner /\ null \in Owner /\ l # null /\ next \in [Place -> Ref]
      /\ c[l] \in Seq(Node) /\ c[null] \in Seq(Node) /\ Unique(c[null])
      /\ ToSet(c[l]) \cap ToSet(c[null]) = {}
  BY NodeAssumption DEF Shape, Chains, Owner, TypeOK, Place, Ref
<1> PICK j \in 0 .. Len(c[null]) :
         /\ op.last = Nxt(c[null], j)
         /\ op.then = "nothing" =>
              op.goal = Elements(value, c[l]) \o Elements(value, Behind(c[null], j))
  BY <1>1 DEF Shape, Doing, Erasing
<1>3. c[null] # << >> /\ j \in 1 .. Len(c[null])
  <2>1. j # 0 /\ Len(c[null]) \in Nat
    BY <1>1, <1>2, NodesOfSequence
  <2> QED
    BY <2>1
<1>4. PICK n : n = c[null][1]
  OBVIOUS
<1>5. op.curr = n /\ n \in Node /\ n \in ToSet(c[null])
  BY <1>1, <1>2, <1>3, <1>4, NodesOfSequence DEF Nxt
<1>6. PICK r : r = Tail(c[null])
  OBVIOUS
<1>7. r \in Seq(Node) /\ Unique(r) /\ ToSet(r) = ToSet(c[null]) \ {n}
  BY <1>2, <1>3, <1>4, <1>6, TailNodes
<1>8. /\ next' = [next EXCEPT ![n] = null] /\ value' = [value EXCEPT ![n] = null]
      /\ allocated' = allocated \ {n}
      /\ op' = [op EXCEPT !.curr = next[n]]
  BY <1>5 DEF EraseNext
<1>9. Ended(next', r) /\ Nxt(r, 0) = next[n]
  BY <1>1, <1>2, <1>3, <1>4, <1>6, <1>8, EndedTail
<1>10. PICK d : d = [c EXCEPT ![null] = r]
  OBVIOUS
<1>11. /\ d \in [Owner -> Seq(Node)] /\ d[null] = r /\ \A x \in Owner : x # null => d[x] = c[x]
  BY <1>2, <1>7, <1>10 DEF Shape, Chains
<1>12. /\ op'.do = "erase" /\ op'.list = l /\ op'.at = op.at /\ op'.curr = next[n]
       /\ op'.last = op.last /\ op'.then = op.then /\ op'.goal = op.goal
  BY <1>1, <1>8 DEF Removal
<1>13. Whole' = Whole
  BY <1>1, <1>12 DEF Whole
<1>14. TypeOK'
  <2>1. next' \in [List \cup Node -> Node \cup {null}]
    BY <1>8 DEF TypeOK
  <2>2. value' \in [Node -> Value \cup {null}] /\ allocated' \subseteq Node
    BY <1>8 DEF TypeOK
  <2>3. op' \in Removal
    <3>1. next[n] \in Ref
      BY <1>2, <1>5 DEF Place
    <3> QED
      BY <1>1, <1>8, <3>1 DEF Removal
  <2> QED
    BY <1>1, <2>1, <2>2, <2>3 DEF TypeOK
<1>15. Chains(d)'
  <2>1. \A x \in Owner : Unique(d[x])
    BY <1>7, <1>11 DEF Shape, Chains
  <2>2. ASSUME NEW x \in Owner, NEW y \in Owner, x # y PROVE ToSet(d[x]) \cap ToSet(d[y]) = {}
    BY <1>2, <1>7, <1>11, <2>2 DEF Shape, Chains
  <2>3. ASSUME NEW m \in Whole PROVE Linked(next', m, d[m])
    <3>1. m \in List /\ c[m] \in Seq(Node) /\ Linked(next, m, c[m]) /\ ToSet(c[m]) \subseteq Node
      BY WholeList, NodesOfSequence
    <3>2. m # null /\ m \in Owner /\ m # n
      BY <1>5, <3>1, NodeAssumption DEF Owner
    <3>3. n \notin ToSet(c[m])
      BY <1>2, <1>5, <3>2 DEF Shape, Chains
    <3>4. \A y \in {m} \cup ToSet(c[m]) : next'[y] = next[y]
      BY <1>2, <1>8, <3>1, <3>2, <3>3 DEF Place
    <3> QED
      BY <1>11, <3>1, <3>2, <3>4, LinkedElsewhere
  <2>4. ASSUME NEW m \in List \ (alive \cup Whole) PROVE d[m] = << >>
    BY <1>11, NodeAssumption DEF Shape, Chains, Owner
  <2> QED
    BY <1>1, <1>11, <1>13, <2>1, <2>2, <2>3, <2>4 DEF Chains
<1>16. Owned(d)'
  <2>1. ASSUME NEW x PROVE (\E y \in Owner : x \in ToSet(d[y])) <=> x # n /\ \E y \in Owner : x \in ToSet(c[y])
    BY <1>2, <1>5, <1>7, <1>11 DEF Shape, Chains
  <2>2. n \notin leaked
    BY <1>2, <1>5 DEF Shape, Owned
  <2>3. \A x : x \in allocated' <=> x \in leaked \/ \E y \in Owner : x \in ToSet(d[y])
    BY <1>1, <1>8, <2>1, <2>2 DEF Shape, Owned
  <2>4. ASSUME NEW y \in Owner, NEW x \in ToSet(d[y])
        PROVE  x \notin leaked /\ x # null /\ value'[x] # null
    <3>1. x # n /\ \E z \in Owner : x \in ToSet(c[z])
      BY <2>1
    <3>2. x \in Node
      BY <1>11, NodesOfSequence
    <3>3. x \notin leaked /\ value[x] # null
      BY <3>1 DEF Shape, Owned
    <3> QED
      BY <1>8, <3>1, <3>2, <3>3, NodeAssumption DEF TypeOK
  <2>5. null \notin leaked
    BY NodeAssumption DEF TypeOK
  <2> QED
    BY <1>1, <2>3, <2>4, <2>5 DEF Owned
<1>17. Doing(d)'
  <2>1. Segment(next', l, c[l])
    <3>1. ToSet(c[l]) \subseteq Node
      BY <1>2, NodesOfSequence
    <3>2. \A y \in {l} \cup ToSet(c[l]) : next'[y] = next[y]
      BY <1>2, <1>5, <1>8, <3>1, NodeAssumption DEF Place
    <3> QED
      BY <1>1, <1>2, <3>2, SegmentElsewhere
  <2>2. j - 1 \in 0 .. Len(r) /\ op.last = Nxt(r, j - 1)
    <3>1. /\ Len(c[null]) \in Nat /\ Len(r) = Len(c[null]) - 1
          /\ \A i \in 1 .. Len(c[null]) - 1 : r[i] = c[null][i + 1]
      BY <1>2, <1>3, <1>6, TailNodes, NodesOfSequence
    <3>2. j - 1 \in 0 .. Len(r) /\ (j - 1 < Len(r) <=> j < Len(c[null])) /\ (j - 1) + 1 = j
      BY <1>3, <3>1
    <3> QED
      BY <1>3, <3>1, <3>2 DEF Nxt
  <2>3. ASSUME NEW s \in Seq(Node), n \notin ToSet(s) PROVE Elements(value', s) = Elements(value, s)
    <3>1. \A x \in ToSet(s) : value'[x] = value[x]
      BY <1>8, <2>3, NodesOfSequence DEF TypeOK
    <3> QED
      BY <3>1, ElementsSame
  <2>4. Behind(r, j - 1) = Behind(c[null], j)
    BY <1>2, <1>3, <1>6, TailParts
  <2>5. op.then = "nothing" => op.goal = Elements(value', c[l]) \o Elements(value', Behind(r, j - 1))
    <3>1. Elements(value', c[l]) = Elements(value, c[l])
      BY <1>2, <1>5, <2>3
    <3>2. Elements(value', Behind(r, j - 1)) = Elements(value, Behind(r, j - 1))
      <4>1. Behind(r, j - 1) \in Seq(Node) /\ ToSet(Behind(r, j - 1)) \subseteq ToSet(r)
        BY <1>7, <2>2, NodesOfParts
      <4> QED
        BY <1>7, <2>3, <4>1
    <3> QED
      BY <2>4, <3>1, <3>2
  <2>6. ASSUME op.then \in List
        PROVE  op.then \in alive /\ op.goal = IF op.then = l THEN << >> ELSE Elements(value', c[op.then])
    <3>1. CASE op.then = l
      BY <1>1, <2>6, <3>1
    <3>2. CASE op.then # l
      <4>1. op.then \in Owner /\ op.then # null
        BY <2>6, NodeAssumption DEF Owner
      <4>2. c[op.then] \in Seq(Node) /\ n \notin ToSet(c[op.then])
        BY <1>2, <1>5, <4>1 DEF Shape, Chains
      <4> QED
        BY <1>1, <2>3, <2>6, <3>2, <4>2
    <3> QED
      BY <3>1, <3>2
  <2>7. d[l] = c[l] /\ (op.then \in List => d[op.then] = c[op.then])
    BY <1>2, <1>11, NodeAssumption DEF Owner
  <2>8. Erasing(d)'
    <3>1. PICK i \in 0 .. Len(d[null]) :
            /\ op'.last = Nxt(d[null], i)
            /\ op'.then = "nothing" =>
                 op'.goal = Elements(value', d[l]) \o Elements(value', Behind(d[null], i))
      BY <1>11, <1>12, <2>2, <2>5, <2>7
    <3>2. /\ op'.then = "destroy" => op'.goal = << >>
          /\ op'.then \in List =>
               op'.then \in alive' /\ op'.goal = IF op'.then = l THEN << >> ELSE Elements(value', d[op'.then])
          /\ op'.then # "nothing" => d[l] = << >> /\ op'.last = null
      BY <1>1, <1>12, <2>6, <2>7
    <3>3. /\ l \in alive' /\ Segment(next', l, d[l]) /\ op'.at = At(l, d[l], Len(d[l]))
          /\ Ended(next', d[null]) /\ op'.curr = Nxt(d[null], 0)
      BY <1>1, <1>9, <1>11, <1>12, <2>1, <2>7
    <3> QED
      BY <1>12, <3>1, <3>2, <3>3 DEF Erasing
  <2> QED
    BY <1>1, <1>12, <2>8 DEF Doing, Creating
<1> QED
  BY <1>14, <1>15, <1>16, <1>17 DEF Shape

LEMMA ErasedKeeps ==
  ASSUME TypeOK, NEW c, Shape(c), Erased
  PROVE  TypeOK' /\ \E d : Shape(d)'
<1> PICK l \in List : l = op.list
  BY Operations DEF Erased, Removal
<1>1. /\ op.do = "erase" /\ op \in Removal /\ op.curr = op.last /\ l \in alive /\ raw = null
      /\ Segment(next, l, c[l]) /\ op.at = At(l, c[l], Len(c[l]))
      /\ Ended(next, c[null]) /\ op.curr = Nxt(c[null], 0)
      /\ op.then # "nothing" => c[l] = << >> /\ op.last = null
      /\ op.then \in List => op.then \in alive
      /\ op' = None /\ UNCHANGED <<value, allocated, raw, leaked>>
  BY Operations DEF Erased, Shape, Doing, Erasing, Creating
<1>2. /\ l \in Owner /\ null \in Owner /\ l # null /\ next \in [Place -> Ref]
      /\ c[l] \in Seq(Node) /\ Unique(c[l]) /\ c[null] \in Seq(Node) /\ Unique(c[null])
      /\ ToSet(c[l]) \cap ToSet(c[null]) = {}
  BY NodeAssumption DEF Shape, Chains, Owner, TypeOK, Place, Ref
<1>3. Whole = alive \ {l} /\ Whole' = alive'
  BY <1>1 DEF Whole, None
<1>4. PICK linked : linked = [next EXCEPT ![op.at] = op.last]
  OBVIOUS
<1>5. PICK s : s = c[l] \o c[null]
  OBVIOUS
<1>6. /\ s \in Seq(Node) /\ Unique(s) /\ ToSet(s) = ToSet(c[l]) \cup ToSet(c[null])
      /\ Linked(linked, l, s)
  BY <1>1, <1>2, <1>4, <1>5, JoinedNodes, LinkedJoined
<1>7. linked \in [Place -> Ref]
  BY <1>1, <1>2, <1>4 DEF Removal
<1>8. ASSUME NEW m \in alive \ {l}
      PROVE  /\ m \in List /\ m \in Owner /\ m # null
             /\ c[m] \in Seq(Node) /\ ToSet(c[m]) \subseteq Node /\ Linked(linked, m, c[m])
  <2>1. m \in List /\ c[m] \in Seq(Node) /\ Linked(next, m, c[m]) /\ ToSet(c[m]) \subseteq Node
    BY <1>3, WholeList, NodesOfSequence
  <2>2. op.at \in {l} \cup ToSet(c[l])
    BY <1>1, <1>2, NodesOfSequence DEF At
  <2>3. op.at \notin {m} \cup ToSet(c[m])
    BY <2>1, <2>2, PlacesApart
  <2>4. \A y \in {m} \cup ToSet(c[m]) : linked[y] = next[y]
    BY <1>2, <1>4, <2>1, <2>3 DEF Place
  <2> QED
    BY <2>1, <2>4, LinkedElsewhere, NodeAssumption DEF Owner
<1>9. op.then # "nothing" => c[null] = << >> /\ s = << >>
  <2>1. CASE c[null] = << >>
    BY <1>1, <1>5, <2>1
  <2>2. CASE c[null] # << >>
    <3>1. 1 \in 1 .. Len(c[null]) /\ op.curr = c[null][1]
      BY <1>1, <1>2, <2>2 DEF Nxt
    <3>2. op.curr # null
      BY <1>2, <3>1, NodesOfSequence, NodeAssumption
    <3> QED
      BY <1>1, <3>2
  <2> QED
    BY <2>1, <2>2
<1>10. TypeOK'
  <2>1. next' \in [List \cup Node -> Node \cup {null}]
    <3>1. CASE op.then \in List
      <4>1. next' = [linked EXCEPT ![op.list] = linked[op.then], ![op.then] = linked[op.list]]
        BY <1>4, <3>1 DEF Erased
      <4> QED
        BY <1>7, <3>1, <4>1 DEF Place, Ref
    <3>2. CASE op.then \notin List
      BY <1>4, <1>7, <3>2 DEF Erased, Place, Ref
    <3> QED
      BY <3>1, <3>2
  <2>2. alive' \subseteq List
    BY DEF Erased, TypeOK
  <2> QED
    BY <1>1, <2>1, <2>2 DEF TypeOK, None
<1>11. ASSUME NEW d, d \in [Owner -> Seq(Node)], d[null] = << >>,
              \A x \in Owner : Unique(d[x]),
              \A x, y \in Owner : x # y => ToSet(d[x]) \cap ToSet(d[y]) = {},
              \A m \in alive' : Linked(next', m, d[m]),
              \A m \in List \ alive' : d[m] = << >>,
              \A n : (\E x \in Owner : n \in ToSet(c[x])) <=> \E x \in Owner : n \in ToSet(d[x])
       PROVE  TypeOK' /\ \E e : Shape(e)'
  <2>1. Chains(d)'
    BY <1>3, <1>11 DEF Chains
  <2>2. Owned(d)'
    <3>1. \A x \in Owner : \A n \in ToSet(d[x]) : \E y \in Owner : n \in ToSet(c[y])
      BY <1>11
    <3> QED
      BY <1>1, <1>11, <3>1 DEF Shape, Owned
  <2>3. Doing(d)'
    BY <1>1, <1>11 DEF Doing, Creating, None
  <2> QED
    BY <1>10, <2>1, <2>2, <2>3 DEF Shape
<1>12. ToSet(<< >>) = {} /\ Unique(<< >>) /\ << >> \in Seq(Node)
  BY DEF ToSet, Unique
\* The two parts of the chain are one again.
<1>13. CASE op.then = "nothing"
  <2>1. next' = linked /\ alive' = alive
    BY <1>4, <1>13, NullAssumption DEF Erased
  <2>2. PICK d : d = [c EXCEPT ![l] = s, ![null] = << >>]
    OBVIOUS
  <2>3. /\ d \in [Owner -> Seq(Node)] /\ d[l] = s /\ d[null] = << >>
        /\ \A x \in Owner \ {l, null} : d[x] = c[x]
    BY <1>2, <1>6, <1>12, <2>2 DEF Shape, Chains
  <2>4. \A x \in Owner : Unique(d[x])
    BY <1>6, <1>12, <2>3 DEF Shape, Chains
  <2>5. ASSUME NEW x \in Owner, NEW y \in Owner, x # y PROVE ToSet(d[x]) \cap ToSet(d[y]) = {}
    <3>1. CASE x = null \/ y = null
      BY <1>12, <2>3, <3>1
    <3>2. CASE x = l /\ y # null
      BY <1>2, <1>6, <2>3, <2>5, <3>2 DEF Shape, Chains
    <3>3. CASE y = l /\ x # null
      BY <1>2, <1>6, <2>3, <2>5, <3>3 DEF Shape, Chains
    <3>4. CASE x \notin {l, null} /\ y \notin {l, null}
      BY <2>3, <2>5, <3>4 DEF Shape, Chains
    <3> QED
      BY <3>1, <3>2, <3>3, <3>4
  <2>6. \A m \in alive' : Linked(next', m, d[m])
    BY <1>6, <1>8, <2>1, <2>3
  <2>7. \A m \in List \ alive' : d[m] = << >>
    BY <1>1, <1>3, <2>1, <2>3, NodeAssumption DEF Shape, Chains, Owner
  <2>8. ASSUME NEW n PROVE (\E x \in Owner : n \in ToSet(c[x])) <=> \E x \in Owner : n \in ToSet(d[x])
    <3>1. ASSUME NEW x \in Owner, n \in ToSet(c[x]) PROVE \E y \in Owner : n \in ToSet(d[y])
      BY <1>2, <1>6, <2>3, <3>1
    <3>2. ASSUME NEW x \in Owner, n \in ToSet(d[x]) PROVE \E y \in Owner : n \in ToSet(c[y])
      BY <1>2, <1>6, <1>12, <2>3, <3>2
    <3> QED
      BY <3>1, <3>2
  <2> QED
    BY <1>11, <2>3, <2>4, <2>5, <2>6, <2>7, <2>8
\* The list has no nodes any more, and the heads are as they were.
<1>14. CASE op.then = "destroy" \/ op.then = l
  <2>1. next' = linked
    <3>1. CASE op.then = l
      BY <1>2, <1>4, <1>7, <3>1 DEF Erased, Place
    <3>2. CASE op.then = "destroy"
      BY <1>4, <3>2, NullAssumption DEF Erased
    <3> QED
      BY <1>14, <3>1, <3>2
  <2>2. alive' \in {alive, alive \ {l}}
    BY DEF Erased
  <2>3. op.then # "nothing"
    BY <1>14, NullAssumption
  <2>4. c[l] = << >> /\ c[null] = << >> /\ s = << >>
    BY <1>1, <1>9, <2>3
  <2>5. /\ c \in [Owner -> Seq(Node)] /\ \A x \in Owner : Unique(c[x])
        /\ \A x, y \in Owner : x # y => ToSet(c[x]) \cap ToSet(c[y]) = {}
    BY DEF Shape, Chains
  <2>6. \A m \in alive' : Linked(next', m, c[m])
    BY <1>6, <1>8, <2>1, <2>2, <2>4
  <2>7. \A m \in List \ alive' : c[m] = << >>
    BY <1>1, <1>3, <2>2, <2>4 DEF Shape, Chains
  <2> QED
    BY <1>11, <2>4, <2>5, <2>6, <2>7
\* The list takes the nodes of another one.
<1>15. CASE op.then \notin {"nothing", "destroy", l}
  <2> PICK m \in List : m = op.then
    BY <1>1, <1>15 DEF Removal
  <2>1. /\ m \in alive \ {l} /\ m \in Owner /\ alive' = alive /\ m # null
        /\ next' = [linked EXCEPT ![l] = linked[m], ![m] = linked[l]]
    BY <1>1, <1>4, <1>8, <1>15 DEF Erased, Owner
  <2>2. c[l] = << >> /\ c[null] = << >> /\ s = << >>
    BY <1>1, <1>9, <1>15
  <2>3. linked[l] = null
    BY <1>6, <2>2 DEF Linked, At, Nxt
  <2>4. PICK d : d = [c EXCEPT ![l] = c[m], ![m] = << >>]
    OBVIOUS
  <2>5. /\ d \in [Owner -> Seq(Node)] /\ d[l] = c[m] /\ d[m] = << >> /\ d[null] = << >>
        /\ \A x \in Owner \ {l, m} : d[x] = c[x]
    BY <1>2, <1>12, <2>1, <2>2, <2>4 DEF Shape, Chains
  <2>6. \A x \in Owner : Unique(d[x])
    BY <1>12, <2>1, <2>5 DEF Shape, Chains
  <2>7. \A x, y \in Owner : x # y => ToSet(d[x]) \cap ToSet(d[y]) = {}
    BY <1>2, <1>12, <2>1, <2>2, <2>5 DEF Shape, Chains
  <2>8. ASSUME NEW k \in alive PROVE Linked(next', k, d[k])
    <3>1. CASE k = l
      <4>1. c[m] \in Seq(Node) /\ ToSet(c[m]) \subseteq Node /\ Linked(linked, m, c[m])
        BY <1>8, <2>1
      <4>2. next'[l] = linked[m] /\ \A y \in ToSet(c[m]) : next'[y] = linked[y]
        BY <1>7, <2>1, <4>1, NodeAssumption DEF Place
      <4> QED
        BY <2>5, <3>1, <4>1, <4>2, LinkedMoved
    <3>2. CASE k = m
      <4>1. next'[m] = null
        BY <1>7, <2>1, <2>3 DEF Place
      <4> QED
        BY <2>5, <3>2, <4>1 DEF Linked, At, Nxt
    <3>3. CASE k # l /\ k # m
      <4>1. /\ k \in List /\ k \in Owner /\ c[k] \in Seq(Node) /\ ToSet(c[k]) \subseteq Node
            /\ Linked(linked, k, c[k])
        BY <1>8, <3>3
      <4>2. \A y \in {k} \cup ToSet(c[k]) : next'[y] = linked[y]
        BY <1>7, <2>1, <3>3, <4>1, NodeAssumption DEF Place
      <4> QED
        BY <2>5, <3>3, <4>1, <4>2, LinkedElsewhere
    <3> QED
      BY <3>1, <3>2, <3>3
  <2>9. \A k \in List \ alive : d[k] = << >>
    BY <1>1, <1>3, <2>1, <2>5 DEF Shape, Chains, Owner
  <2>10. ASSUME NEW n PROVE (\E x \in Owner : n \in ToSet(c[x])) <=> \E x \in Owner : n \in ToSet(d[x])
    <3>1. ASSUME NEW x \in Owner, n \in ToSet(c[x]) PROVE \E y \in Owner : n \in ToSet(d[y])
      BY <1>2, <1>12, <2>1, <2>2, <2>5, <3>1
    <3>2. ASSUME NEW x \in Owner, n \in ToSet(d[x]) PROVE \E y \in Owner : n \in ToSet(c[y])
      BY <1>2, <1>12, <2>1, <2>5, <3>2
    <3> QED
      BY <3>1, <3>2
  <2> QED
    BY <1>11, <2>1, <2>5, <2>6, <2>7, <2>8, <2>9, <2>10
<1> QED
  BY <1>13, <1>14, <1>15

LEMMA BehindBehind ==
  ASSUME NEW s \in Seq(Node), NEW k \in 0 .. Len(s), NEW j \in 0 .. Len(s) - k
  PROVE  Behind(Behind(s, k), j) = Behind(s, k + j)
<1>1. PICK r, m : r = Behind(s, k) /\ m = k + j
  OBVIOUS
<1>2. Len(s) \in Nat /\ m \in 0 .. Len(s)
  BY <1>1, LenProperties
<1>3. r \in Seq(Node) /\ Len(r) = Len(s) - k /\ \A i \in 1 .. Len(s) - k : r[i] = s[k + i]
  BY <1>1, PartsOfChain
<1>4. /\ Behind(r, j) \in Seq(Node) /\ Len(Behind(r, j)) = Len(r) - j
      /\ \A i \in 1 .. Len(r) - j : Behind(r, j)[i] = r[j + i]
  BY <1>3, PartsOfChain
<1>5. /\ Behind(s, m) \in Seq(Node) /\ Len(Behind(s, m)) = Len(s) - m
      /\ \A i \in 1 .. Len(s) - m : Behind(s, m)[i] = s[m + i]
  BY <1>2, PartsOfChain
<1>6. Len(r) - j = Len(s) - m
  BY <1>1, <1>2, <1>3
<1>7. ASSUME NEW i \in 1 .. Len(s) - m PROVE Behind(r, j)[i] = Behind(s, m)[i]
  <2>1. j + i \in 1 .. Len(s) - k /\ k + (j + i) = m + i
    BY <1>1, <1>2
  <2>2. r[j + i] = s[m + i]
    BY <1>3, <2>1
  <2> QED
    BY <1>4, <1>5, <1>6, <2>2
<1>8. Behind(r, j) = Behind(s, m)
  BY <1>4, <1>5, <1>6, <1>7, SeqEqual
<1> QED
  BY <1>1, <1>8

\* The nodes after a place of a whole list are the rest of its chain.
LEMMA AfterPlace ==
  ASSUME TypeOK, NEW c, Shape(c), NEW l \in Whole, NEW k \in 0 .. Len(c[l])
  PROVE  /\ At(l, c[l], k) \in Place
         /\ After(At(l, c[l], k)) = SubSeq(c[l], k + 1, Len(c[l]))
<1>1. /\ l \in List /\ c[l] \in Seq(Node) /\ Unique(c[l]) /\ Linked(next, l, c[l])
      /\ Len(c[l]) \in Nat /\ k \in Nat
      /\ Len(c[l]) <= Cardinality(Node) /\ Cardinality(Node) \in Nat
  BY WholeList, UniqueIsShort, FS_CardinalityType, NodeAssumption
<1>2. PICK r, x : r = SubSeq(c[l], k + 1, Len(c[l])) /\ x = At(l, c[l], k)
  OBVIOUS
<1>3. /\ r \in Seq(Node) /\ Len(r) = Len(c[l]) - k
      /\ \A i \in 1 .. Len(c[l]) - k : r[i] = c[l][k + i]
  BY <1>1, <1>2, SplitNodes
<1>4. x \in Place
  BY <1>1, <1>2, PlacesOfChain
<1>5. ASSUME NEW i \in 0 .. Len(r) PROVE next[At(x, r, i)] = Nxt(r, i)
  <2>1. /\ k + i \in 0 .. Len(c[l]) /\ i < Len(r) <=> k + i < Len(c[l])
        /\ i < Len(r) => i + 1 \in 1 .. Len(c[l]) - k /\ k + (i + 1) = k + i + 1
        /\ i # 0 => i \in 1 .. Len(c[l]) - k /\ k + i # 0
    BY <1>1, <1>3
  <2>2. At(x, r, i) = At(l, c[l], k + i)
    BY <1>1, <1>2, <1>3, <2>1 DEF At
  <2>3. Nxt(r, i) = Nxt(c[l], k + i)
    BY <1>3, <2>1 DEF Nxt
  <2> QED
    BY <1>1, <2>1, <2>2, <2>3 DEF Linked
<1>6. Linked(next, x, r)
  BY <1>5 DEF Linked
<1>7. Len(r) <= Cardinality(Node) + 1
  BY <1>1, <1>3
<1>8. Walk(next, x) = r
  BY <1>3, <1>4, <1>6, <1>7, WalkFindsChain
<1> QED
  BY <1>2, <1>4, <1>8 DEF After

LEMMA EraseRangeKeeps ==
  ASSUME TypeOK, NEW c, Shape(c), NEW l \in List, NEW pos \in Positions(l),
         NEW last \in Following(pos), erase_range(l, pos, last)
  PROVE  TypeOK' /\ \E d : Shape(d)'
<1>1. /\ Idle /\ Whole = alive /\ raw = null /\ c[null] = << >> /\ l \in alive
      /\ UNCHANGED <<next, value, allocated, alive, raw, leaked>>
  BY IdleShape DEF erase_range, BeginErasure
<1>2. PICK k \in 0 .. Len(c[l]) : k = Index(l, pos) /\ pos = At(l, c[l], k)
  BY <1>1, PlaceOfPosition
<1>3. /\ c[l] \in Seq(Node) /\ Unique(c[l]) /\ Nodes(l) = ToSet(c[l]) /\ Contents(l) \in Seq(Value)
      /\ Len(Contents(l)) = Len(c[l]) /\ Len(c[l]) \in Nat
      /\ Contents(l) = Elements(value, c[l]) /\ value \in [Node -> Slot]
  BY <1>1, WholeList, SlotsAndRanges
<1>4. PICK r : r = Behind(c[l], k)
  OBVIOUS
<1>5. /\ r \in Seq(Node) /\ Len(r) = Len(c[l]) - k /\ \A i \in 1 .. Len(c[l]) - k : r[i] = c[l][k + i]
  BY <1>3, <1>4, PartsOfChain
<1>6. last \in ToSet(r) \cup {null}
  BY <1>1, <1>2, <1>4, AfterPlace DEF Following, Behind
<1>7. PICK first, rest : /\ first = SubSeq(Contents(l), 1, k)
                         /\ rest = IF last = null THEN << >>
                                   ELSE SubSeq(Contents(l), Index(l, last), Len(Contents(l)))
  OBVIOUS
<1>8. first \in Seq(Value) /\ first = Elements(value, Before(c[l], k))
  <2>1. first \in Seq(Value)
    BY <1>3, <1>7, PartsOfContents
  <2>2. Before(Elements(value, c[l]), k) = Elements(value, Before(c[l], k))
    BY <1>3, ElementsOfParts
  <2> QED
    BY <1>3, <1>7, <2>1, <2>2 DEF Before
\* last is the one after the j-th node that follows.
<1>9. \E j \in 0 .. Len(c[l]) - k :
        last = Nxt(r, j) /\ rest \in Seq(Value) /\ rest = Elements(value, Behind(r, j))
  <2>1. CASE last = null
    <3>1. PICK j : j = Len(c[l]) - k
      OBVIOUS
    <3>2. j \in 0 .. Len(c[l]) - k /\ j = Len(r) /\ last = Nxt(r, j)
      BY <1>3, <1>5, <2>1, <3>1 DEF Nxt
    <3>3. Behind(r, j) = << >>
      BY <1>5, <3>2, OuterParts
    <3>4. Elements(value, << >>) = << >> /\ << >> \in Seq(Value)
      BY DEF Elements
    <3> QED
      BY <1>7, <2>1, <3>2, <3>3, <3>4
  <2>2. CASE last # null
    <3>1. PICK i \in 1 .. Len(r) : last = r[i]
      BY <1>5, <1>6, <2>2, NodesOfSequence
    <3>2. PICK m, j : m = k + i /\ j = i - 1
      OBVIOUS
    <3>3. /\ m \in 1 .. Len(c[l]) /\ last = c[l][m] /\ m # 0 /\ m - 1 \in 0 .. Len(c[l]) /\ (m - 1) + 1 = m
          /\ j \in 0 .. Len(c[l]) - k /\ j < Len(r) /\ j + 1 = i /\ k + j = m - 1
      BY <1>3, <1>5, <3>1, <3>2
    <3>4. last \in Node /\ last \in Positions(l)
      BY <1>3, <3>3, NodesOfSequence DEF Positions
    <3>5. Index(l, last) = m
      <4>1. Index(l, last) \in 0 .. Len(c[l]) /\ last = At(l, c[l], Index(l, last))
        BY <1>1, <3>4, PlaceOfPosition
      <4>2. Index(l, last) # 0
        BY <3>4, <4>1, NodeAssumption DEF At
      <4>3. PICK q \in 1 .. Len(c[l]) : q = Index(l, last) /\ last = c[l][q]
        BY <1>3, <4>1, <4>2 DEF At
      <4> QED
        BY <1>3, <3>3, <4>3 DEF Unique
    <3>6. rest = SubSeq(Contents(l), (m - 1) + 1, Len(Contents(l)))
      BY <1>7, <2>2, <3>3, <3>5
    <3>7. rest \in Seq(Value)
      BY <1>3, <3>3, <3>6, PartsOfContents
    <3>8. rest = Behind(Elements(value, c[l]), m - 1)
      BY <1>3, <3>6 DEF Behind
    <3>9. Behind(Elements(value, c[l]), m - 1) = Elements(value, Behind(c[l], m - 1))
      BY <1>3, <3>3, ElementsOfParts
    <3>10. Behind(r, j) = Behind(c[l], m - 1)
      BY <1>3, <1>4, <3>3, BehindBehind
    <3>11. last = Nxt(r, j)
      BY <3>1, <3>3 DEF Nxt
    <3> QED
      BY <3>3, <3>7, <3>8, <3>9, <3>10, <3>11
  <2> QED
    BY <2>1, <2>2
<1>10. PICK j \in 0 .. Len(c[l]) - k :
         last = Nxt(r, j) /\ rest \in Seq(Value) /\ rest = Elements(value, Behind(r, j))
  BY <1>9
<1>11. PICK goal, then : goal = first \o rest /\ then = "nothing"
  OBVIOUS
<1>12. goal \in Seq(Value)
  BY <1>8, <1>10, <1>11, ConcatProperties
<1>13. op' = Erasure(l, pos, last, then, goal)
  BY <1>2, <1>7, <1>11 DEF erase_range, BeginErasure
<1>14. /\ then \in List \cup {"nothing", "destroy"} /\ then \notin List /\ then # "destroy"
       /\ goal = Elements(value, Before(c[l], k)) \o Elements(value, Behind(Behind(c[l], k), j))
       /\ last = Nxt(Behind(c[l], k), j)
  BY <1>4, <1>8, <1>10, <1>11, NullAssumption
<1> QED
  BY <1>1, <1>2, <1>11, <1>12, <1>13, <1>14, BeginErasureKeeps

LEMMA WholeErasureKeeps ==
  ASSUME TypeOK, NEW c, Shape(c), NEW l \in List,
         Destroy(l) \/ \E m \in List : MoveAssign(l, m)
  PROVE  TypeOK' /\ \E d : Shape(d)'
<1>1. PICK then, goal : /\ BeginErasure(l, l, null, then, goal)
                        /\ \/ then = "destroy" /\ goal = << >>
                           \/ then \in alive /\ goal = IF l = then THEN << >> ELSE Contents(then)
  BY DEF Destroy, MoveAssign
<1>2. /\ Idle /\ Whole = alive /\ raw = null /\ c[null] = << >> /\ l \in alive
      /\ op' = Erasure(l, l, null, then, goal)
      /\ UNCHANGED <<next, value, allocated, alive, raw, leaked>>
  BY <1>1, IdleShape DEF BeginErasure
<1>3. alive \subseteq List
  BY DEF TypeOK
<1>4. /\ then \in List \cup {"nothing", "destroy"} /\ then # "nothing"
      /\ then \in List => then \in alive /\ goal = IF then = l THEN << >> ELSE Elements(value, c[then])
      /\ then = "destroy" => goal = << >>
  <2>1. \A m \in alive : Contents(m) = Elements(value, c[m])
    BY <1>2, WholeList
  <2> QED
    BY <1>1, <1>3, <2>1, NullAssumption
<1>5. goal \in Seq(Value)
  <2>1. << >> \in Seq(Value)
    OBVIOUS
  <2>2. CASE then \in alive
    <3>1. Contents(then) \in Seq(Value)
      BY <1>2, <2>2, WholeList
    <3>2. then # "destroy"
      BY <1>3, <2>2, NullAssumption
    <3> QED
      BY <1>1, <2>1, <3>1, <3>2
  <2> QED
    BY <1>1, <2>1, <2>2
<1>6. PICK k, j, pos, last : k = 0 /\ j = Len(c[l]) - k /\ pos = l /\ last = null
  OBVIOUS
<1>7. k \in 0 .. Len(c[l]) /\ j \in 0 .. Len(c[l]) - k /\ pos = At(l, c[l], k)
  <2>1. Len(c[l]) \in Nat
    BY <1>2, WholeList
  <2> QED
    BY <1>6, <2>1 DEF At
<1>8. last = Nxt(Behind(c[l], k), j)
  <2>1. Len(Behind(c[l], k)) = j
    BY <1>2, <1>6, <1>7, WholeList, PartsOfChain
  <2>2. ~ (j < j)
    BY <1>2, <1>6, <1>7, WholeList
  <2> QED
    BY <1>6, <2>1, <2>2 DEF Nxt
<1>9. op' = Erasure(l, pos, last, then, goal)
  BY <1>2, <1>6
<1> QED
  BY <1>2, <1>4, <1>5, <1>6, <1>7, <1>8, <1>9, BeginErasureKeeps

-----------------------------------------------------------------------------
(* The steps of an assignment and of a reversal.                            *)

LEMMA AssignKeeps ==
  ASSUME TypeOK, NEW c, Shape(c), NEW l \in List, NEW r \in Ranges(MaxLen), assign(l, r)
  PROVE  TypeOK' /\ Shape(c)'
<1>1. /\ Whole = alive /\ raw = null /\ c[null] = << >> /\ l \in alive
      /\ UNCHANGED <<next, value, allocated, alive, raw, leaked>>
      /\ op' = [do |-> "assign", list |-> l, at |-> l, curr |-> next[l], todo |-> r, goal |-> r]
  BY IdleShape DEF assign
<1>2. Whole' = Whole
  BY <1>1 DEF Whole
<1>3. Linked(next, l, c[l]) /\ Len(c[l]) \in Nat
  BY <1>1, WholeList
<1>4. l = At(l, c[l], 0) /\ next[l] = Nxt(c[l], 0) /\ 0 \in 0 .. Len(c[l])
  BY <1>3 DEF Linked, At
<1>5. TypeOK'
  <2>1. next[l] \in Ref /\ r \in Seq(Value)
    BY RangeOfValues DEF TypeOK, Ref
  <2>2. op' \in Overwrite
    BY <1>1, <2>1 DEF Overwrite, Place
  <2> QED
    BY <1>1, <2>2 DEF TypeOK
<1>6. Chains(c)'
  BY <1>1, <1>2, SameChains
<1>7. Owned(c)'
  BY <1>1 DEF Shape, Owned
<1>8. Doing(c)'
  <2>1. r = Elements(value', Before(c[l], 0)) \o r
    <3>1. Before(c[l], 0) = << >>
      BY <1>1, WholeList, OuterParts
    <3>2. Elements(value', << >>) = << >> /\ << >> \o r = r
      BY RangeOfValues, ConcatEmptySeq DEF Elements
    <3> QED
      BY <3>1, <3>2
  <2>2. Assigning(c)'
    BY <1>1, <1>4, <2>1 DEF Assigning
  <2> QED
    BY <1>1, <2>2 DEF Doing, Creating
<1> QED
  BY <1>5, <1>6, <1>7, <1>8 DEF Shape

\* During an assignment.
LEMMA AssigningShape ==
  ASSUME TypeOK, NEW c, Shape(c), op.do = "assign"
  PROVE  /\ op \in Overwrite /\ raw = null /\ c[null] = << >> /\ Whole = alive /\ op.list \in alive
         /\ \E k \in 0 .. Len(c[op.list]) :
              /\ op.at = At(op.list, c[op.list], k)
              /\ op.curr = Nxt(c[op.list], k)
              /\ op.goal = Elements(value, Before(c[op.list], k)) \o op.todo
BY Operations DEF Shape, Doing, Assigning, Whole, Creating

LEMMA AssignNextKeeps ==
  ASSUME TypeOK, NEW c, Shape(c), AssignNext
  PROVE  TypeOK' /\ Shape(c)'
<1>1. /\ op \in Overwrite /\ raw = null /\ c[null] = << >> /\ Whole = alive /\ op.list \in alive
      /\ op.do = "assign" /\ op.curr # null /\ op.todo # << >>
      /\ UNCHANGED <<next, allocated, alive, raw, leaked>>
  BY AssigningShape DEF AssignNext
<1> PICK l \in List : l = op.list
  BY <1>1 DEF Overwrite
<1>2. PICK k \in 0 .. Len(c[l]) : /\ op.at = At(l, c[l], k) /\ op.curr = Nxt(c[l], k)
                                  /\ op.goal = Elements(value, Before(c[l], k)) \o op.todo
  BY <1>1, AssigningShape
<1>3. c[l] \in Seq(Node) /\ Unique(c[l]) /\ Linked(next, l, c[l]) /\ Len(c[l]) \in Nat
  BY <1>1, WholeList
<1>4. k + 1 \in 1 .. Len(c[l]) /\ op.curr = c[l][k + 1]
  BY <1>1, <1>2, <1>3 DEF Nxt
<1>5. PICK n \in Node : n = op.curr
  BY <1>3, <1>4
<1>6. n = At(l, c[l], k + 1) /\ next[n] = Nxt(c[l], k + 1)
  <2>1. n = At(l, c[l], k + 1) /\ k + 1 \in 0 .. Len(c[l])
    BY <1>3, <1>4, <1>5 DEF At
  <2> QED
    BY <1>3, <2>1 DEF Linked
<1>7. Head(op.todo) \in Value /\ Tail(op.todo) \in Seq(Value)
  BY <1>1 DEF Overwrite
<1>8. /\ op'.do = "assign" /\ op'.list = l /\ op'.at = n /\ op'.curr = next[n]
      /\ op'.todo = Tail(op.todo) /\ op'.goal = op.goal
      /\ op' \in Overwrite
  <2>1. op' = [op EXCEPT !.at = n, !.curr = next[n], !.todo = Tail(op.todo)]
    BY <1>5 DEF AssignNext
  <2>2. next[n] \in Ref
    BY DEF TypeOK, Ref
  <2> QED
    BY <1>1, <1>7, <2>1, <2>2 DEF Overwrite, Place
<1>9. Whole' = Whole
  BY <1>1, <1>8 DEF Whole
<1>10. value' = [value EXCEPT ![n] = Head(op.todo)]
  BY <1>5 DEF AssignNext
<1>11. TypeOK'
  <2>1. value' \in [Node -> Value \cup {null}]
    BY <1>7, <1>10 DEF TypeOK
  <2> QED
    BY <1>1, <1>8, <2>1 DEF TypeOK
<1>12. Chains(c)'
  BY <1>1, <1>9, SameChains
<1>13. Owned(c)'
  <2>1. ASSUME NEW x \in Node, value[x] # null PROVE value'[x] # null
    BY <1>7, <1>10, <2>1, NullAssumption DEF TypeOK
  <2>2. \A x \in Owner : ToSet(c[x]) \subseteq Node
    BY ChainOf
  <2> QED
    BY <1>1, <2>1, <2>2 DEF Shape, Owned
<1>14. Doing(c)'
  <2>1. k + 1 \in 0 .. Len(c[l])
    BY <1>3, <1>4
  <2>2. op.goal = Elements(value', Before(c[l], k + 1)) \o Tail(op.todo)
    <3>1. PICK b, h : b = Before(c[l], k) /\ h = Head(op.todo)
      OBVIOUS
    <3>2. k < Len(c[l]) /\ k \in 0 .. Len(c[l]) - 1
      BY <1>3, <1>4
    <3>3. b \in Seq(Node) /\ n \notin ToSet(b)
      BY <1>3, <1>4, <1>5, <3>1, <3>2, NodesOfParts
    <3>4. Before(c[l], k + 1) = b \o <<n>>
      BY <1>3, <1>4, <1>5, <3>1, <3>2, NextPart
    <3>5. value \in [Node -> Slot] /\ op.todo \in Seq(Slot) /\ h \in Slot
      BY <1>1, <1>7, <3>1, SlotsAndRanges DEF Overwrite, Slot
    <3>6. Elements([value EXCEPT ![n] = h], b \o <<n>>) = Elements(value, b) \o <<h>>
      BY <3>3, <3>5, ElementsExtended
    <3>7. Elements(value, b) \in Seq(Slot)
      BY <3>3, <3>5, ElementsAreASequence
    <3>8. Elements(value, b) \o op.todo = (Elements(value, b) \o <<h>>) \o Tail(op.todo)
      BY <1>1, <3>1, <3>5, <3>7, HeadFirst
    <3> QED
      BY <1>2, <1>10, <3>1, <3>4, <3>6, <3>8
  <2>3. Assigning(c)'
    BY <1>1, <1>6, <1>8, <2>1, <2>2 DEF Assigning
  <2> QED
    BY <1>1, <1>8, <2>3 DEF Doing, Creating
<1> QED
  BY <1>11, <1>12, <1>13, <1>14 DEF Shape

\* An operation ends that has changed nothing else in this step.
LEMMA EndKeeps ==
  ASSUME TypeOK, NEW c, Shape(c), op.do \in {"assign", "reverse"}, op' = None,
         UNCHANGED <<next, value, allocated, alive, raw, leaked>>
  PROVE  TypeOK' /\ Shape(c)'
<1>1. raw = null /\ c[null] = << >> /\ Whole = alive /\ Whole' = alive
  BY DEF Shape, Doing, Whole, Creating, None
<1>2. TypeOK'
  BY <1>1 DEF TypeOK
<1>3. Chains(c)'
  BY <1>1, SameChains
<1>4. Owned(c)'
  BY DEF Shape, Owned
<1>5. Doing(c)'
  BY <1>1 DEF Doing, Creating, None
<1> QED
  BY <1>2, <1>3, <1>4, <1>5 DEF Shape

LEMMA RestKeeps ==
  ASSUME TypeOK, NEW c, Shape(c), AssignRest
  PROVE  TypeOK' /\ \E d : Shape(d)'
<1>1. /\ op \in Overwrite /\ raw = null /\ c[null] = << >> /\ Whole = alive /\ op.list \in alive
      /\ op.do = "assign"
      /\ UNCHANGED <<next, value, allocated, alive, raw, leaked>>
  BY AssigningShape DEF AssignRest
<1> PICK l \in List : l = op.list
  BY <1>1 DEF Overwrite
<1>2. PICK k \in 0 .. Len(c[l]) : /\ op.at = At(l, c[l], k) /\ op.curr = Nxt(c[l], k)
                                  /\ op.goal = Elements(value, Before(c[l], k)) \o op.todo
  BY <1>1, AssigningShape
<1> PICK s : s = Elements(value, Before(c[l], k))
  OBVIOUS
<1>3. c[l] \in Seq(Node) /\ Len(c[l]) \in Nat /\ s \in Seq(Slot) /\ op.todo \in Seq(Slot)
  <2>1. c[l] \in Seq(Node) /\ Len(c[l]) \in Nat
    BY <1>1, WholeList
  <2>2. Before(c[l], k) \in Seq(Node) /\ value \in [Node -> Slot] /\ op.todo \in Seq(Slot)
    BY <1>1, <2>1, PartsOfChain, SlotsAndRanges DEF Overwrite
  <2> QED
    BY <2>1, <2>2, ElementsAreASequence
<1>4. Elements(value, << >>) = << >>
  BY DEF Elements
<1>5. CASE op.todo = << >>
  <2>1. PICK j, r, pos, last, then, goal :
           /\ r = Behind(c[l], k) /\ j = Len(c[l]) - k /\ pos = op.at /\ last = null
           /\ then = "nothing" /\ goal = op.goal
    OBVIOUS
  <2>2. op' = Erasure(l, pos, last, then, goal)
    BY <1>5, <2>1 DEF AssignRest
  <2>3. goal \in Seq(Value) /\ then \in List \cup {"nothing", "destroy"} /\ then \notin List /\ then # "destroy"
    BY <1>1, <2>1, NullAssumption DEF Overwrite
  <2>4. j \in 0 .. Len(c[l]) - k /\ r \in Seq(Node) /\ Len(r) = j /\ last = Nxt(r, j)
    <3>1. j \in 0 .. Len(c[l]) - k /\ r \in Seq(Node) /\ Len(r) = j /\ ~ (j < j)
      BY <1>3, <2>1, PartsOfChain
    <3> QED
      BY <2>1, <3>1 DEF Nxt
  <2>5. goal = s \o Elements(value, Behind(r, j))
    <3>1. Behind(r, j) = << >>
      BY <2>4, OuterParts
    <3> QED
      BY <1>2, <1>5, <1>4, <2>1, <3>1
  <2> QED
    BY <1>1, <1>2, <2>1, <2>2, <2>3, <2>4, <2>5, BeginErasureKeeps
<1>6. CASE op.todo # << >>
  <2>1. op' = [do |-> "insert", list |-> l, at |-> op.at, todo |-> op.todo, goal |-> op.goal]
    BY <1>6 DEF AssignRest
  <2>2. Whole' = Whole
    BY <1>1, <2>1 DEF Whole
  <2>3. TypeOK'
    <3>1. op' \in Insertion
      BY <1>1, <2>1 DEF Overwrite, Insertion
    <3> QED
      BY <1>1, <3>1 DEF TypeOK
  <2>4. Chains(c)'
    BY <1>1, <2>2, SameChains
  <2>5. Owned(c)'
    BY <1>1 DEF Shape, Owned
  <2>6. Doing(c)'
    <3>1. op.goal = s \o op.todo \o Elements(value, Behind(c[l], k))
      <4>1. op.curr = null
        BY <1>6 DEF AssignRest
      <4>2. k = Len(c[l])
        <5>1. CASE k < Len(c[l])
          <6>1. k + 1 \in 1 .. Len(c[l])
            BY <1>3, <5>1
          <6> QED
            BY <1>2, <1>3, <4>1, <5>1, <6>1, NodesOfSequence, NodeAssumption DEF Nxt
        <5> QED
          BY <1>3, <5>1
      <4>3. Behind(c[l], k) = << >>
        BY <1>3, <4>2, OuterParts
      <4>4. (s \o op.todo) \o << >> = s \o op.todo
        BY <1>3, ConcatProperties, ConcatEmptySeq
      <4> QED
        BY <1>2, <1>4, <4>3, <4>4
    <3>2. Inserting(c)'
      BY <1>1, <1>2, <2>1, <3>1 DEF Inserting
    <3> QED
      BY <1>1, <2>1, <3>2 DEF Doing, Creating
  <2> QED
    BY <2>3, <2>4, <2>5, <2>6 DEF Shape
<1> QED
  BY <1>5, <1>6

LEMMA ReverseKeeps ==
  ASSUME TypeOK, NEW c, Shape(c), NEW l \in List, reverse(l)
  PROVE  TypeOK' /\ Shape(c)'
<1>1. /\ Whole = alive /\ raw = null /\ c[null] = << >> /\ l \in alive /\ next[l] # null
      /\ UNCHANGED <<next, value, allocated, alive, raw, leaked>>
      /\ op' = [do |-> "reverse", list |-> l, tail |-> next[l], goal |-> Reverse(Contents(l))]
  BY IdleShape DEF reverse
<1>2. Whole' = Whole
  BY <1>1 DEF Whole
<1>3. /\ c[l] \in Seq(Node) /\ Linked(next, l, c[l]) /\ Len(c[l]) \in Nat
      /\ Contents(l) \in Seq(Value) /\ Contents(l) = Elements(value, c[l])
      /\ value \in [Node -> Slot]
  BY <1>1, WholeList, SlotsAndRanges
<1>4. next[l] = Nxt(c[l], 0)
  BY <1>3 DEF Linked, At
<1>5. 1 \in 1 .. Len(c[l]) /\ next[l] = c[l][1] /\ next[l] \in Node
  BY <1>1, <1>3, <1>4 DEF Nxt
<1>6. TypeOK'
  <2>1. Reverse(Contents(l)) \in Seq(Value)
    BY <1>3, ReverseSequence
  <2>2. op' \in Reversal
    BY <1>1, <1>5, <2>1 DEF Reversal
  <2> QED
    BY <1>1, <2>2 DEF TypeOK
<1>7. Chains(c)'
  BY <1>1, <1>2, SameChains
<1>8. Owned(c)'
  BY <1>1 DEF Shape, Owned
<1>9. Doing(c)'
  <2>1. Reverse(Contents(l)) = Reverse(Elements(value, Behind(c[l], 1))) \o Elements(value, Before(c[l], 1))
    <3>1. PICK n, e, s, r : /\ n = c[l][1] /\ e = Elements(value, c[l])
                            /\ s = Behind(c[l], 1) /\ r = Before(c[l], 1)
      OBVIOUS
    <3>2. 0 \in 0 .. Len(c[l]) - 1 /\ 0 + 1 = 1
      BY <1>3, <1>5
    <3>3. Before(c[l], 0 + 1) = Before(c[l], 0) \o <<c[l][0 + 1]>>
          /\ Behind(c[l], 0) = <<c[l][0 + 1]>> \o Behind(c[l], 0 + 1)
      BY <1>3, <3>2, NextPart
    <3>4. n \in Node /\ <<n>> \in Seq(Node) /\ s \in Seq(Node)
      BY <1>3, <1>5, <3>1, PartsOfChain
    <3>5. r = <<n>> /\ c[l] = <<n>> \o s
      <4>1. Before(c[l], 0) = << >> /\ Behind(c[l], 0) = c[l]
        BY <1>3, OuterParts
      <4>2. r = << >> \o <<n>> /\ c[l] = <<n>> \o s
        BY <3>1, <3>2, <3>3, <4>1
      <4>3. << >> \o <<n>> = <<n>>
        BY <3>4, ConcatEmptySeq
      <4> QED
        BY <4>2, <4>3
    <3>6. e = Elements(value, <<n>>) \o Elements(value, s)
      BY <1>3, <3>1, <3>4, <3>5, ElementsOfConcat
    <3>7. Elements(value, <<n>>) = <<value[n]>> /\ value[n] \in Slot /\ Elements(value, s) \in Seq(Slot)
      BY <1>3, <3>4, ElementsOfOne, ElementsAreASequence
    <3>8. Reverse(e) = Reverse(Elements(value, s)) \o <<value[n]>>
      BY <3>6, <3>7, ReverseFirst
    <3> QED
      BY <1>3, <3>1, <3>5, <3>7, <3>8
  <2>2. Reversing(c)'
    BY <1>1, <1>5, <2>1 DEF Reversing
  <2> QED
    BY <1>1, <2>2 DEF Doing, Creating
<1> QED
  BY <1>6, <1>7, <1>8, <1>9 DEF Shape

\* During a reversal.
LEMMA ReversingShape ==
  ASSUME TypeOK, NEW c, Shape(c), op.do = "reverse"
  PROVE  /\ op \in Reversal /\ raw = null /\ c[null] = << >> /\ Whole = alive /\ op.list \in alive
         /\ \E k \in 1 .. Len(c[op.list]) :
              /\ op.tail = c[op.list][k]
              /\ op.goal = Reverse(Elements(value, Behind(c[op.list], k)))
                             \o Elements(value, Before(c[op.list], k))
BY Operations DEF Shape, Doing, Reversing, Whole, Creating

LEMMA ReverseNextKeeps ==
  ASSUME TypeOK, NEW c, Shape(c), ReverseNext
  PROVE  TypeOK' /\ \E d : Shape(d)'
<1>1. /\ op \in Reversal /\ raw = null /\ c[null] = << >> /\ Whole = alive /\ op.list \in alive
      /\ op.do = "reverse"
      /\ UNCHANGED <<value, allocated, alive, raw, op, leaked>>
  BY ReversingShape DEF ReverseNext
<1> PICK l \in List : l = op.list
  BY <1>1 DEF Reversal
<1>2. PICK k \in 1 .. Len(c[l]) :
         /\ op.tail = c[l][k]
         /\ op.goal = Reverse(Elements(value, Behind(c[l], k))) \o Elements(value, Before(c[l], k))
  BY <1>1, ReversingShape
<1>3. /\ c[l] \in Seq(Node) /\ Unique(c[l]) /\ Linked(next, l, c[l]) /\ Len(c[l]) \in Nat
      /\ next \in [Place -> Ref] /\ l \in Owner /\ l # null
  BY <1>1, WholeList, NodeAssumption DEF TypeOK, Place, Ref, Owner
<1>4. next[op.tail] = Nxt(c[l], k) /\ next[op.tail] # null
  <2>1. k \in 0 .. Len(c[l]) /\ op.tail = At(l, c[l], k)
    BY <1>2, <1>3 DEF At
  <2> QED
    BY <1>3, <2>1 DEF Linked, ReverseNext
<1>5. k \in 1 .. Len(c[l]) - 1 /\ next[op.tail] = c[l][k + 1]
  BY <1>3, <1>4 DEF Nxt
<1>6. next' = [next EXCEPT ![l] = c[l][k + 1], ![c[l][k]] = next[c[l][k + 1]],
                           ![c[l][k + 1]] = next[l]]
  BY <1>2, <1>5 DEF ReverseNext
<1>7. PICK r : r = Raised(c[l], k)
  OBVIOUS
<1>8. /\ r \in Seq(Node) /\ Len(r) = Len(c[l]) /\ Unique(r) /\ ToSet(r) = ToSet(c[l])
      /\ Linked(next', l, r)
  <2>1. k \in 0 .. Len(c[l]) - 1
    BY <1>3, <1>5
  <2>2. r \in Seq(Node) /\ Len(r) = Len(c[l]) /\ Unique(r) /\ ToSet(r) = ToSet(c[l])
    BY <1>3, <1>7, <2>1, RaisedNodes
  <2>3. Linked(next', l, r)
    BY <1>3, <1>5, <1>6, <1>7, LinkedRaised
  <2> QED
    BY <2>2, <2>3
<1>9. PICK d : d = [c EXCEPT ![l] = r]
  OBVIOUS
<1>10. /\ d \in [Owner -> Seq(Node)] /\ d[l] = r /\ \A x \in Owner : x # l => d[x] = c[x]
       /\ d[null] = << >> /\ \A x \in Owner : ToSet(d[x]) = ToSet(c[x])
  BY <1>1, <1>3, <1>8, <1>9, NodeAssumption DEF Shape, Chains, Owner
<1>11. Whole' = Whole
  BY <1>1 DEF Whole
<1>12. TypeOK'
  <2>1. k + 1 \in 1 .. Len(c[l]) /\ c[l][k] \in Node /\ c[l][k + 1] \in Node
    BY <1>3, <1>5
  <2>2. next' \in [List \cup Node -> Node \cup {null}]
    BY <1>3, <1>6, <2>1 DEF Place, Ref
  <2> QED
    BY <1>1, <2>2 DEF TypeOK
<1>13. Chains(d)'
  <2>1. \A x \in Owner : Unique(d[x])
    BY <1>8, <1>10 DEF Shape, Chains
  <2>2. \A x, y \in Owner : x # y => ToSet(d[x]) \cap ToSet(d[y]) = {}
    BY <1>10 DEF Shape, Chains
  <2>3. ASSUME NEW m \in alive PROVE Linked(next', m, d[m])
    <3>1. CASE m = l
      BY <1>8, <1>10, <3>1
    <3>2. CASE m # l
      <4>1. /\ m \in List /\ c[m] \in Seq(Node) /\ Linked(next, m, c[m]) /\ d[m] = c[m]
            /\ ToSet(c[m]) \subseteq Node
        BY <1>1, <1>10, <3>2, WholeList, NodesOfSequence DEF Owner
      <4>2. c[l][k] \in ToSet(c[l]) /\ c[l][k + 1] \in ToSet(c[l])
        <5>1. k + 1 \in 1 .. Len(c[l])
          BY <1>3, <1>5
        <5> QED
          BY <1>3, <5>1, NodesOfSequence
      <4>3. ASSUME NEW y \in {m} \cup ToSet(c[m]) PROVE next'[y] = next[y]
        <5>1. y \notin {l} \cup ToSet(c[l])
          BY <3>2, <4>1, PlacesApart
        <5>2. y \in Place
          BY <4>1 DEF Place
        <5> QED
          BY <1>3, <1>6, <4>2, <5>1, <5>2
      <4> QED
        BY <4>1, <4>3, LinkedElsewhere
    <3> QED
      BY <3>1, <3>2
  <2>4. ASSUME NEW m \in List \ (alive \cup Whole) PROVE d[m] = << >>
    BY <1>1, <1>10, <2>4 DEF Shape, Chains, Owner
  <2> QED
    BY <1>1, <1>10, <1>11, <2>1, <2>2, <2>3, <2>4 DEF Chains
<1>14. Owned(d)'
  BY <1>1, <1>10 DEF Shape, Owned
<1>15. Doing(d)'
  <2>1. k + 1 \in 1 .. Len(r) /\ r[k + 1] = c[l][k]
    <3>1. k + 1 \in 1 .. Len(c[l]) /\ k + 1 # 1 /\ k + 1 - 1 = k
      BY <1>3, <1>5
    <3> QED
      BY <1>7, <1>8, <3>1 DEF Raised
  <2>2. op.goal = Reverse(Elements(value, Behind(r, k + 1))) \o Elements(value, Before(r, k + 1))
    <3>1. PICK n, b, f : n = c[l][k + 1] /\ b = Behind(c[l], k + 1) /\ f = Before(c[l], k)
      OBVIOUS
    <3>2. /\ k \in 0 .. Len(c[l]) /\ k \in 0 .. Len(c[l]) - 1 /\ k + 1 \in 0 .. Len(c[l])
          /\ k + 1 \in 1 .. Len(c[l]) /\ value \in [Node -> Slot]
      BY <1>3, <1>5, SlotsAndRanges
    <3>3. n \in Node /\ <<n>> \in Seq(Node) /\ f \in Seq(Node)
      BY <1>3, <3>1, <3>2, PartsOfChain
    <3>4. b \in Seq(Node)
      BY <1>3, <3>1, <3>2, PartsOfChain
    <3>5. Before(r, k + 1) = <<n>> \o f /\ Behind(r, k + 1) = b
      BY <1>3, <1>5, <1>7, <3>1, RaisedParts
    <3>6. Behind(c[l], k) = <<n>> \o b
      BY <1>3, <3>1, <3>2, NextPart
    <3>7. PICK x, p, q : x = value[n] /\ p = Elements(value, b) /\ q = Elements(value, f)
      OBVIOUS
    <3>8. Elements(value, <<n>>) = <<x>> /\ x \in Slot /\ <<x>> \in Seq(Slot)
      BY <3>2, <3>3, <3>7, ElementsOfOne
    <3>9. p \in Seq(Slot) /\ q \in Seq(Slot)
      BY <3>2, <3>3, <3>4, <3>7, ElementsAreASequence
    <3>10. Elements(value, <<n>> \o b) = <<x>> \o p
      BY <3>2, <3>3, <3>4, <3>7, <3>8, ElementsOfConcat
    <3>11. Elements(value, <<n>> \o f) = <<x>> \o q
      BY <3>2, <3>3, <3>7, <3>8, ElementsOfConcat
    <3>12. Reverse(<<x>> \o p) = Reverse(p) \o <<x>> /\ Reverse(p) \in Seq(Slot)
      BY <3>8, <3>9, ReverseFirst, ReverseSequence
    <3>13. (Reverse(p) \o <<x>>) \o q = Reverse(p) \o (<<x>> \o q)
      BY <3>8, <3>9, <3>12, ConcatAssociative
    <3> QED
      BY <1>2, <3>1, <3>5, <3>6, <3>7, <3>10, <3>11, <3>12, <3>13
  <2>3. Reversing(d)'
    BY <1>1, <1>2, <1>10, <2>1, <2>2 DEF Reversing
  <2> QED
    BY <1>1, <1>10, <2>3 DEF Doing, Creating
<1> QED
  BY <1>12, <1>13, <1>14, <1>15 DEF Shape

-----------------------------------------------------------------------------
(* The invariant holds initially, and every step keeps it.                  *)

LEMMA InitShape ==
  ASSUME Init
  PROVE  IInv
<1>1. PICK c : c = [x \in Owner |-> << >>]
  OBVIOUS
<1>2. ToSet(<< >>) = {} /\ Unique(<< >>) /\ << >> \in Seq(Node) /\ Whole = {}
  BY DEF ToSet, Unique, Whole, Init, None
<1>3. TypeOK
  BY DEF TypeOK, Init, None
<1>4. Chains(c)
  <2>1. c \in [Owner -> Seq(Node)] /\ \A x \in Owner : c[x] = << >>
    BY <1>1, <1>2
  <2>2. \A l \in List \ (alive \cup Whole) : c[l] = << >>
    BY <2>1 DEF Owner
  <2> QED
    BY <1>2, <2>1, <2>2 DEF Chains
<1>5. Owned(c)
  BY <1>1, <1>2 DEF Owned, Init
<1>6. Doing(c)
  BY <1>1 DEF Doing, Creating, Init, None, Owner
<1> QED
  BY <1>3, <1>4, <1>5, <1>6 DEF IInv, Shape

LEMMA StepKeeps ==
  ASSUME TypeOK, NEW c, Shape(c), Step
  PROVE  TypeOK' /\ \E d : Shape(d)'
<1>1. CASE \E n \in Node : Allocate(n)
  BY <1>1, AllocateKeeps
<1>2. CASE Link
  BY <1>2, LinkKeeps
<1>3. CASE CreateThrows
  BY <1>3, CreateThrowsKeeps
<1>4. CASE Created
  BY <1>4, CreatedKeeps
<1>5. CASE EraseNext
  BY <1>5, EraseNextKeeps
<1>6. CASE Erased
  BY <1>6, ErasedKeeps
<1>7. CASE AssignNext
  BY <1>7, AssignNextKeeps
<1>8. CASE AssignThrows
  BY <1>8, EndKeeps DEF AssignThrows
<1>9. CASE AssignRest
  BY <1>9, RestKeeps
<1>10. CASE ReverseNext
  BY <1>10, ReverseNextKeeps
<1>11. CASE Reversed
  BY <1>11, EndKeeps DEF Reversed
<1> QED
  BY <1>1, <1>2, <1>3, <1>4, <1>5, <1>6, <1>7, <1>8, <1>9, <1>10, <1>11 DEF Step

LEMMA CallKeeps ==
  ASSUME TypeOK, NEW c, Shape(c), Call
  PROVE  TypeOK' /\ \E d : Shape(d)'
<1> PICK l \in List :
      \/ \E r \in Ranges(MaxLen) : \/ Construct(l, r)
                                   \/ assign(l, r)
                                   \/ \E pos \in Positions(l) : insert_after(l, pos, r)
      \/ \E pos \in Positions(l) : \/ erase_after(l, pos)
                                   \/ \E last \in Following(pos) : erase_range(l, pos, last)
      \/ \E m \in List : MoveConstruct(l, m) \/ MoveAssign(l, m)
      \/ Destroy(l)
      \/ reverse(l)
  BY DEF Call
<1>1. CASE \E r \in Ranges(MaxLen) : Construct(l, r)
  BY <1>1, ConstructKeeps
<1>2. CASE \E r \in Ranges(MaxLen) : assign(l, r)
  BY <1>2, AssignKeeps
<1>3. CASE \E r \in Ranges(MaxLen) : \E pos \in Positions(l) : insert_after(l, pos, r)
  BY <1>3, InsertAfterKeeps
<1>4. CASE \E pos \in Positions(l) : erase_after(l, pos)
  BY <1>4, EraseAfterKeeps
<1>5. CASE \E pos \in Positions(l) : \E last \in Following(pos) : erase_range(l, pos, last)
  BY <1>5, EraseRangeKeeps
<1>6. CASE \E m \in List : MoveConstruct(l, m)
  BY <1>6, MoveConstructKeeps
<1>7. CASE Destroy(l) \/ \E m \in List : MoveAssign(l, m)
  BY <1>7, WholeErasureKeeps
<1>8. CASE reverse(l)
  BY <1>8, ReverseKeeps
<1> QED
  BY <1>1, <1>2, <1>3, <1>4, <1>5, <1>6, <1>7, <1>8

LEMMA NextKeeps ==
  ASSUME IInv, [Next]_vars
  PROVE  IInv'
<1> TypeOK
  BY DEF IInv
<1> PICK c : Shape(c)
  BY DEF IInv
<1>1. CASE Step
  BY <1>1, StepKeeps DEF IInv
<1>2. CASE Call
  BY <1>2, CallKeeps DEF IInv
<1>3. CASE UNCHANGED vars
  <2>1. TypeOK'
    BY <1>3 DEF vars, TypeOK
  <2>2. Whole' = Whole
    BY <1>3 DEF vars, Whole
  <2>3. Chains(c)'
    BY <1>3, <2>2, SameChains DEF vars
  <2>4. Owned(c)'
    BY <1>3 DEF vars, Shape, Owned
  <2>5. Doing(c)'
    BY <1>3 DEF vars, Shape, Doing, Creating, Inserting, Assigning, Reversing, Erasing, Segment, Ended
  <2> QED
    BY <2>1, <2>3, <2>4, <2>5 DEF IInv, Shape
<1> QED
  BY <1>1, <1>2, <1>3 DEF Next

\* The invariant holds in every state.
THEOREM InvariantHolds == Spec => []IInv
<1>1. Init => IInv
  BY InitShape
<1>2. IInv /\ [Next]_vars => IInv'
  BY NextKeeps
<1> QED
  BY <1>1, <1>2, PTL DEF Spec

-----------------------------------------------------------------------------
(* What follows from the invariant.                                         *)

\* What an erasure has not come to is what its cursor leads to.
LEMMA AfterEnded ==
  ASSUME NEW r \in Seq(Node), Unique(r), Ended(next, r), r # << >>
  PROVE  After(r[1]) = Tail(r)
<1> DEFINE m == Len(r)
           t == Tail(r)
<1>1. m \in Nat \ {0} /\ \A i \in 1 .. m : r[i] \in Node
  BY NodesOfSequence
<1>2. t \in Seq(Node) /\ Len(t) = m - 1 /\ \A i \in 1 .. m - 1 : t[i] = r[i + 1]
  BY TailNodes
<1>3. m <= Cardinality(Node) /\ Cardinality(Node) \in Nat
  BY UniqueIsShort, FS_CardinalityType, NodeAssumption
<1> HIDE DEF t
<1>4. ASSUME NEW i \in 0 .. m - 1 PROVE next[At(r[1], t, i)] = Nxt(t, i)
  <2>1. i + 1 \in 1 .. m /\ (i # 0 => i \in 1 .. m - 1) /\ (i < m - 1 => i + 1 \in 1 .. m - 1)
    BY <1>1
  <2>2. At(r[1], t, i) = r[i + 1]
    BY <1>2, <2>1 DEF At
  <2>3. Nxt(t, i) = Nxt(r, i + 1)
    BY <1>1, <1>2, <2>1 DEF Nxt
  <2> QED
    BY <2>1, <2>2, <2>3 DEF Ended
<1>5. Linked(next, r[1], t)
  BY <1>2, <1>4 DEF Linked
<1>6. r[1] \in Place /\ Len(t) <= Cardinality(Node) + 1
  BY <1>1, <1>2, <1>3 DEF Place
<1> QED
  BY <1>2, <1>5, <1>6, WalkFindsChain DEF After, t

LEMMA InvariantChainsSound ==
  ASSUME IInv
  PROVE  ChainsSound
<1> TypeOK
  BY DEF IInv
<1> PICK c : Shape(c)
  BY DEF IInv
<1>1. ASSUME NEW l \in Whole
      PROVE  /\ Len(After(l)) <= Cardinality(Node)
             /\ \A n \in Nodes(l) : n \in allocated /\ value[n] # null
  <2>1. l \in Owner /\ After(l) = c[l] /\ Nodes(l) = ToSet(c[l])
    BY WholeList DEF Owner
  <2>2. Len(c[l]) <= Cardinality(Node) /\ ToSet(c[l]) \subseteq allocated
    BY <2>1, ChainOf
  <2> QED
    BY <2>1, <2>2 DEF Shape, Owned
<1>2. ASSUME NEW l \in Whole, NEW m \in Whole, l # m
      PROVE  Nodes(l) \cap Nodes(m) = {}
  <2>1. l \in Owner /\ m \in Owner /\ Nodes(l) = ToSet(c[l]) /\ Nodes(m) = ToSet(c[m])
    BY WholeList DEF Owner
  <2> QED
    BY <1>2, <2>1 DEF Shape, Chains
<1> QED
  BY <1>1, <1>2 DEF ChainsSound

LEMMA InvariantOwned ==
  ASSUME IInv
  PROVE  EveryNodeOwned
<1> TypeOK
  BY DEF IInv
<1> PICK c : Shape(c)
  BY DEF IInv
<1> DEFINE listed == UNION {Nodes(l) : l \in Whole}
           inHand == IF raw = null THEN {} ELSE {raw}
<1>1. \A l \in Whole : l \in Owner /\ Nodes(l) = ToSet(c[l])
  BY WholeList DEF Owner
<1>2. \A n \in listed : \E x \in Owner : n \in ToSet(c[x])
  BY <1>1
<1>3. listed \cup leaked \subseteq allocated
  BY <1>2 DEF Shape, Owned
<1>4. CASE op.do = "erase"
  <2>1. Ended(next, c[null]) /\ op.curr = Nxt(c[null], 0)
    BY <1>4 DEF Shape, Doing, Erasing
  <2>2. ASSUME op.curr # null PROVE {op.curr} \cup ToSet(After(op.curr)) \subseteq allocated
    <3>1. /\ c[null] \in Seq(Node) /\ Unique(c[null]) /\ Len(c[null]) \in Nat
          /\ ToSet(c[null]) \subseteq allocated
      BY ChainOf DEF Owner
    <3>2. c[null] # << >> /\ op.curr = c[null][1] /\ 1 \in 1 .. Len(c[null])
      BY <2>1, <2>2, <3>1 DEF Nxt
    <3>3. After(op.curr) = Tail(c[null])
      BY <2>1, <3>1, <3>2, AfterEnded
    <3>4. ToSet(Tail(c[null])) \subseteq ToSet(c[null])
      BY <3>1, <3>2, TailNodes
    <3>5. op.curr \in ToSet(c[null])
      BY <3>1, <3>2, NodesOfSequence
    <3> QED
      BY <3>1, <3>3, <3>4, <3>5
  <2> QED
    BY <1>3, <1>4, <2>2 DEF EveryNodeOwned
<1>5. CASE op.do # "erase"
  <2>1. ASSUME NEW n, NEW x \in Owner, n \in ToSet(c[x]) PROVE n \in listed
    <3>1. c[x] # << >>
      BY <2>1 DEF ToSet
    <3>2. x # null
      BY <1>5, <3>1 DEF Shape, Doing
    <3>3. x \in Whole
      BY <1>5, <3>1, <3>2 DEF Shape, Chains, Whole, Owner
    <3> QED
      BY <1>1, <2>1, <3>3
  <2>2. allocated = listed \cup leaked \cup inHand
    BY <1>2, <2>1 DEF Shape, Owned
  <2>3. leaked \cap (listed \cup inHand) = {}
    BY <1>2 DEF Shape, Owned
  <2> QED
    BY <1>5, <2>2, <2>3 DEF EveryNodeOwned
<1> QED
  BY <1>4, <1>5

LEMMA InvariantCursors ==
  ASSUME IInv
  PROVE  CursorsLive
<1> TypeOK
  BY DEF IInv
<1> PICK c : Shape(c)
  BY DEF IInv
<1>1. ASSUME NEW l \in Whole, NEW k \in 0 .. Len(c[l]) PROVE At(l, c[l], k) \in Positions(l)
  <2>1. c[l] \in Seq(Node) /\ Nodes(l) = ToSet(c[l])
    BY WholeList
  <2> QED
    BY <2>1, NodesOfSequence DEF At, Positions
<1>2. ASSUME op.do = "insert" PROVE op.at \in Positions(op.list)
  <2>1. op.list \in Whole /\ \E k \in 0 .. Len(c[op.list]) : op.at = At(op.list, c[op.list], k)
    BY <1>2 DEF Shape, Doing, Creating, Inserting, Whole
  <2> QED
    BY <1>1, <2>1
<1>3. ASSUME op.do = "assign" PROVE op.at \in Positions(op.list) /\ op.curr = next[op.at]
  <2>1. op.list \in Whole
    BY <1>3, AssigningShape
  <2>2. PICK k \in 0 .. Len(c[op.list]) : op.at = At(op.list, c[op.list], k)
                                          /\ op.curr = Nxt(c[op.list], k)
    BY <1>3, AssigningShape
  <2>3. Linked(next, op.list, c[op.list])
    BY <2>1, WholeList
  <2> QED
    BY <1>1, <2>1, <2>2, <2>3 DEF Linked
<1>4. ASSUME op.do = "reverse" PROVE op.tail \in Nodes(op.list)
  <2>1. op.list \in Whole
    BY <1>4, ReversingShape
  <2>2. PICK k \in 1 .. Len(c[op.list]) : op.tail = c[op.list][k]
    BY <1>4, ReversingShape
  <2>3. c[op.list] \in Seq(Node) /\ Nodes(op.list) = ToSet(c[op.list])
    BY <2>1, WholeList
  <2> QED
    BY <2>2, <2>3, NodesOfSequence
<1>5. ASSUME op.do = "erase"
      PROVE  /\ op.at = op.list \/ op.at \in allocated
             /\ op.curr # op.last => op.curr \in allocated /\ op.last \in ToSet(After(op.curr)) \cup {null}
  <2>1. /\ op.list \in Owner /\ null \in Owner
        /\ op.at = At(op.list, c[op.list], Len(c[op.list]))
        /\ Ended(next, c[null]) /\ op.curr = Nxt(c[null], 0)
        /\ op.last \in ToSet(c[null]) \cup {null}
    <3>1. /\ op.list \in Owner /\ null \in Owner
          /\ op.at = At(op.list, c[op.list], Len(c[op.list]))
          /\ Ended(next, c[null]) /\ op.curr = Nxt(c[null], 0)
          /\ \E j \in 0 .. Len(c[null]) : op.last = Nxt(c[null], j)
      BY <1>5, Operations DEF Shape, Doing, Erasing, Owner, Removal
    <3>2. c[null] \in Seq(Node)
      BY <3>1 DEF Shape, Chains
    <3> QED
      BY <3>1, <3>2, NextPlace
  <2>2. op.at = op.list \/ op.at \in allocated
    <3>1. /\ Len(c[op.list]) \in Nat /\ ToSet(c[op.list]) \subseteq allocated
          /\ \A i \in 1 .. Len(c[op.list]) : c[op.list][i] \in ToSet(c[op.list])
      BY <2>1, ChainOf
    <3> QED
      BY <2>1, <3>1 DEF At
  <2>3. ASSUME op.curr # op.last
        PROVE  op.curr \in allocated /\ op.last \in ToSet(After(op.curr)) \cup {null}
    <3>1. /\ c[null] \in Seq(Node) /\ Unique(c[null]) /\ Len(c[null]) \in Nat
          /\ ToSet(c[null]) \subseteq allocated
      BY <2>1, ChainOf
    <3>2. c[null] # << >>
      <4>1. c[null] = << >> => op.curr = null /\ op.last = null
        BY <2>1 DEF Nxt, ToSet
      <4> QED
        BY <2>3, <4>1
    <3>3. op.curr = c[null][1] /\ 1 \in 1 .. Len(c[null])
      BY <2>1, <3>1, <3>2 DEF Nxt
    <3>4. After(op.curr) = Tail(c[null])
      BY <2>1, <3>1, <3>2, <3>3, AfterEnded
    <3>5. ToSet(Tail(c[null])) = ToSet(c[null]) \ {op.curr}
      BY <3>1, <3>2, <3>3, TailNodes
    <3>6. op.curr \in ToSet(c[null])
      BY <3>1, <3>3, NodesOfSequence
    <3> QED
      BY <2>1, <2>3, <3>1, <3>4, <3>5, <3>6
  <2> QED
    BY <2>2, <2>3
<1> QED
  BY <1>2, <1>3, <1>4, <1>5 DEF CursorsLive

-----------------------------------------------------------------------------
(* What the operations leave in the lists.                                  *)

\* A chain of the pointers after a step is what the list holds then.
LEMMA ContentsThen ==
  ASSUME NEW l \in List, NEW s \in Seq(Node), Unique(s), Linked(next', l, s)
  PROVE  Contents(l)' = Elements(value', s)
<1>1. Len(s) \in Nat /\ Len(s) <= Cardinality(Node) /\ Cardinality(Node) \in Nat /\ l \in Place
  BY UniqueIsShort, FS_CardinalityType, NodeAssumption DEF Place
<1>2. Walk(next', l) = s
  BY <1>1, WalkFindsChain
<1>3. DOMAIN s = 1 .. Len(s)
  BY NodesOfSequence
<1> QED
  BY <1>2, <1>3 DEF Contents, After, Elements

LEMMA ContentsKept ==
  ASSUME TypeOK, NEW c, Shape(c), NEW l \in Whole,
         \A y \in {l} \cup ToSet(c[l]) : next'[y] = next[y],
         \A n \in ToSet(c[l]) : value'[n] = value[n]
  PROVE  Contents(l)' = Contents(l)
<1>1. /\ l \in List /\ c[l] \in Seq(Node) /\ Unique(c[l]) /\ Linked(next, l, c[l])
      /\ Contents(l) = Elements(value, c[l])
  BY WholeList
<1>2. Linked(next', l, c[l])
  BY <1>1, LinkedElsewhere
<1>3. Contents(l)' = Elements(value', c[l])
  BY <1>1, <1>2, ContentsThen
<1>4. Elements(value', c[l]) = Elements(value, c[l])
  BY <1>1, ElementsSame
<1> QED
  BY <1>1, <1>3, <1>4

\* The places an operation may write to: its own list, a node that is in no
\* list, and the source of a move.
Touched(c) == {op.list, raw} \cup ToSet(c[op.list]) \cup ToSet(c[null])
                \cup (IF op.do = "erase" THEN {op.then} \cap List ELSE {})

LEMMA PlaceTouched ==
  ASSUME TypeOK, NEW c, Shape(c), NEW l \in List, l = op.list
  PROVE  /\ \A k \in 0 .. Len(c[l]) : At(l, c[l], k) \in Touched(c)
         /\ \A k \in 1 .. Len(c[l]) : c[l][k] \in Touched(c)
<1>1. c[l] \in Seq(Node)
  BY ChainOf DEF Owner
<1> QED
  BY <1>1, NodesOfSequence DEF Touched, At

LEMMA StepTouches ==
  ASSUME TypeOK, NEW c, Shape(c), Step
  PROVE  /\ op.list \in List
         /\ \A y \in Place \ Touched(c) : next'[y] = next[y]
         /\ \A n \in Node \ Touched(c) : value'[n] = value[n]
<1>1. op.list \in List /\ op # None
  BY Operations DEF Step, Allocate, Link, CreateThrows, Created, EraseNext, Erased, AssignNext,
     AssignThrows, AssignRest, ReverseNext, Reversed, Creating, None, TypeOK
<1> PICK l \in List : l = op.list
  BY <1>1
<1>2. next \in [Place -> Ref] /\ value \in [Node -> Slot] /\ l \in Owner /\ null \in Owner
  BY DEF TypeOK, Place, Ref, Slot, Owner
<1>3. \/ UNCHANGED <<next, value>>
      \/ Link \/ EraseNext \/ Erased \/ AssignNext \/ ReverseNext
  BY DEF Step, Allocate, CreateThrows, Created, AssignThrows, AssignRest, Reversed
<1>4. CASE UNCHANGED <<next, value>>
  BY <1>1, <1>4
<1>5. CASE Link
  <2>1. Creating /\ Inserting(c)
    BY <1>5, Operations DEF Shape, Doing, Link, TypeOK, Creating
  <2>2. op.at \in Touched(c) /\ raw \in Touched(c)
    BY <2>1, PlaceTouched DEF Inserting, Touched
  <2>3. /\ \E z : next' = [next EXCEPT ![raw] = z, ![op.at] = raw]
        /\ \E z : value' = [value EXCEPT ![raw] = z]
    BY <1>5 DEF Link
  <2> QED
    BY <1>1, <1>2, <2>2, <2>3
<1>6. CASE EraseNext
  <2>1. op.curr \in Touched(c)
    <3>1. op.curr = Nxt(c[null], 0) /\ \E j \in 0 .. Len(c[null]) : op.last = Nxt(c[null], j)
      BY <1>6 DEF EraseNext, Shape, Doing, Erasing
    <3>2. c[null] \in Seq(Node) /\ Len(c[null]) \in Nat
      BY <1>2, ChainOf
    <3>3. Len(c[null]) # 0
      BY <1>6, <3>1, <3>2 DEF EraseNext
    <3>4. op.curr \in ToSet(c[null])
      BY <3>1, <3>2, <3>3, NodesOfSequence DEF Nxt
    <3> QED
      BY <3>4 DEF Touched
  <2>2. /\ next' = [next EXCEPT ![op.curr] = null]
        /\ value' = [value EXCEPT ![op.curr] = null]
    BY <1>6 DEF EraseNext
  <2> QED
    BY <1>1, <1>2, <2>1, <2>2
<1>7. CASE Erased
  <2>1. op.do = "erase" /\ op.at = At(l, c[l], Len(c[l])) /\ c[l] \in Seq(Node)
    BY <1>2, <1>7, ChainOf DEF Erased, Shape, Doing, Erasing
  <2>2. op.at \in Touched(c) /\ (op.then \in List => op.then \in Touched(c)) /\ l \in Touched(c)
    BY <2>1, PlaceTouched DEF Touched
  <2>3. PICK linked : linked = [next EXCEPT ![op.at] = op.last]
    OBVIOUS
  <2>4. \A y \in Place \ Touched(c) : linked[y] = next[y]
    BY <1>2, <2>2, <2>3
  <2>5. \A y \in Place \ Touched(c) : next'[y] = linked[y]
    <3>1. DOMAIN linked = Place
      BY <1>2, <2>3
    <3>2. \/ /\ op.then \in List
             /\ next' = [linked EXCEPT ![l] = linked[op.then], ![op.then] = linked[l]]
          \/ next' = linked
      BY <1>7, <2>3 DEF Erased
    <3> QED
      BY <2>2, <3>1, <3>2
  <2>6. value' = value
    BY <1>7 DEF Erased
  <2> QED
    BY <1>1, <2>4, <2>5, <2>6
<1>8. CASE AssignNext
  <2>1. op.do = "assign" /\ op.curr # null
    BY <1>8 DEF AssignNext
  <2>2. PICK k \in 0 .. Len(c[l]) : op.curr = Nxt(c[l], k)
    BY <2>1 DEF Shape, Doing, Assigning
  <2>3. Nxt(c[l], k) \in ToSet(c[l]) \cup {null}
    BY <1>2, ChainOf, NextPlace
  <2>4. op.curr \in Touched(c)
    BY <2>1, <2>2, <2>3 DEF Touched
  <2>5. next' = next /\ \E z : value' = [value EXCEPT ![op.curr] = z]
    BY <1>8 DEF AssignNext
  <2> QED
    BY <1>1, <1>2, <2>4, <2>5
<1>9. CASE ReverseNext
  <2>1. op.do = "reverse" /\ next[op.tail] # null
    BY <1>9 DEF ReverseNext
  <2>2. l \in Whole
    BY <2>1, ReversingShape
  <2>3. PICK k \in 1 .. Len(c[l]) : op.tail = c[l][k]
    BY <2>1, ReversingShape
  <2>4. c[l] \in Seq(Node) /\ Len(c[l]) \in Nat /\ Linked(next, l, c[l])
    BY <2>2, WholeList
  <2>5. k \in 0 .. Len(c[l]) /\ At(l, c[l], k) = c[l][k]
    BY <2>4 DEF At
  <2>6. next[op.tail] = Nxt(c[l], k) /\ Nxt(c[l], k) \in ToSet(c[l]) \cup {null}
    BY <2>3, <2>4, <2>5, NextPlace DEF Linked
  <2>7. op.tail \in Touched(c) /\ next[op.tail] \in Touched(c) /\ l \in Touched(c)
    BY <2>1, <2>3, <2>6, PlaceTouched DEF Touched
  <2>8. value' = value /\ \E x, y, z : next' = [next EXCEPT ![l] = x, ![op.tail] = y, ![next[op.tail]] = z]
    BY <1>9 DEF ReverseNext
  <2> QED
    BY <1>1, <1>2, <2>7, <2>8
<1> QED
  BY <1>3, <1>4, <1>5, <1>6, <1>7, <1>8, <1>9

\* A list the operation was not called for stays, but for the source of a move.
LEMMA OthersKept ==
  ASSUME TypeOK, NEW c, Shape(c), Step, NEW l \in alive, l # op.list,
         ~(op.do = "erase" /\ op.then = l)
  PROVE  Contents(l)' = Contents(l)
<1>1. l \in Whole /\ l \in List /\ l \in Owner /\ op.list \in List /\ null \in Owner /\ l # null
  BY StepTouches, NodeAssumption DEF Whole, TypeOK, Owner
<1>2. c[l] \in Seq(Node) /\ ToSet(c[l]) \subseteq Node
  BY <1>1, ChainOf
<1>3. ({l} \cup ToSet(c[l])) \cap ({op.list} \cup ToSet(c[op.list])) = {}
  BY <1>1, PlacesApart
<1>4. ToSet(c[l]) \cap ToSet(c[null]) = {} /\ ToSet(c[null]) \subseteq Node
  BY <1>1, ChainOf DEF Shape, Chains
<1>5. raw \notin ToSet(c[l]) /\ raw # l
  BY <1>1, NodeAssumption DEF Shape, Owned, TypeOK
<1>6. op.do = "erase" => {op.then} \cap List \cap ({l} \cup ToSet(c[l])) = {}
  BY <1>2, NodeAssumption
<1>7. ({l} \cup ToSet(c[l])) \cap Touched(c) = {}
  <2>1. l \notin ToSet(c[null])
    BY <1>1, <1>4, NodeAssumption
  <2> QED
    BY <1>3, <1>4, <1>5, <1>6, <2>1 DEF Touched
<1>8. {l} \cup ToSet(c[l]) \subseteq Place
  BY <1>1, <1>2 DEF Place
<1> QED
  BY <1>1, <1>2, <1>7, <1>8, StepTouches, ContentsKept

LEMMA CreatedGoal ==
  ASSUME TypeOK, NEW c, Shape(c), Created
  PROVE  \A l \in {op.list} : Contents(l)' = op.goal
<1>1. Creating /\ op.todo = << >> /\ next' = next /\ value' = value /\ op \in Insertion /\ Inserting(c)
  BY Operations DEF Created, Shape, Doing
<1> PICK l \in List : l = op.list
  BY <1>1 DEF Insertion
<1>2. l \in Whole
  BY <1>1 DEF Whole, Inserting, Creating
<1>3. c[l] \in Seq(Node) /\ Contents(l) = Elements(value, c[l]) /\ value \in [Node -> Slot]
  BY <1>2, WholeList, SlotsAndRanges
<1>4. Contents(l)' = Contents(l)
  BY <1>1, <1>2, ContentsKept
<1>5. PICK k \in 0 .. Len(c[l]) :
        op.goal = Elements(value, Before(c[l], k)) \o << >> \o Elements(value, Behind(c[l], k))
  BY <1>1 DEF Inserting
<1>6. PICK b, a : b = Before(c[l], k) /\ a = Behind(c[l], k)
  OBVIOUS
<1>7. b \in Seq(Node) /\ a \in Seq(Node) /\ c[l] = b \o a
  BY <1>3, <1>6, PartsOfChain, WholeFromParts
<1>8. Elements(value, b) \in Seq(Slot)
  BY <1>3, <1>7, ElementsAreASequence
<1>9. Elements(value, c[l]) = Elements(value, b) \o Elements(value, a)
  BY <1>3, <1>7, ElementsOfConcat
<1>10. Elements(value, b) \o << >> = Elements(value, b)
  BY <1>8, ConcatEmptySeq
<1> QED
  BY <1>3, <1>4, <1>5, <1>6, <1>9, <1>10

LEMMA ReversedGoal ==
  ASSUME TypeOK, NEW c, Shape(c), Reversed
  PROVE  \A l \in {op.list} : Contents(l)' = op.goal
<1>1. op.do = "reverse" /\ next[op.tail] = null /\ next' = next /\ value' = value
  BY DEF Reversed
<1>2. op \in Reversal /\ op.list \in Whole
  BY <1>1, ReversingShape
<1> PICK l \in List : l = op.list
  BY <1>2 DEF Reversal
<1>3. /\ c[l] \in Seq(Node) /\ Len(c[l]) \in Nat /\ Linked(next, l, c[l])
      /\ Contents(l) = Elements(value, c[l]) /\ value \in [Node -> Slot]
  BY <1>2, WholeList, SlotsAndRanges
<1>4. PICK k \in 1 .. Len(c[l]) :
        /\ op.tail = c[l][k]
        /\ op.goal = Reverse(Elements(value, Behind(c[l], k))) \o Elements(value, Before(c[l], k))
  BY <1>1, ReversingShape
<1>5. k = Len(c[l])
  <2>1. k \in 0 .. Len(c[l]) /\ At(l, c[l], k) = c[l][k]
    BY <1>3 DEF At
  <2>2. Nxt(c[l], k) = null
    BY <1>1, <1>3, <1>4, <2>1 DEF Linked
  <2>3. k < Len(c[l]) => c[l][k + 1] \in Node
    BY <1>3
  <2> QED
    BY <2>2, <2>3, <1>3, NodeAssumption DEF Nxt
<1>6. Before(c[l], k) = c[l] /\ Behind(c[l], k) = << >>
  BY <1>3, <1>5, OuterParts
<1>7. Reverse(Elements(value, << >>)) = << >>
  <2>1. Elements(value, << >>) = << >>
    BY DEF Elements
  <2>2. Reverse(<< >>) \in Seq(Slot) /\ Len(Reverse(<< >>)) = 0
    <3>1. << >> \in Seq(Slot) /\ Len(<< >>) = 0
      OBVIOUS
    <3> QED
      BY <3>1, ReverseSequence
  <2> QED
    BY <2>1, <2>2
<1>8. Elements(value, c[l]) \in Seq(Slot)
  BY <1>3, ElementsAreASequence
<1>9. << >> \o Elements(value, c[l]) = Elements(value, c[l])
  BY <1>8, ConcatEmptySeq
<1>10. Contents(l)' = Contents(l)
  BY <1>1, <1>2, ContentsKept
<1> QED
  BY <1>3, <1>4, <1>6, <1>7, <1>9, <1>10

LEMMA ErasedGoal ==
  ASSUME TypeOK, NEW c, Shape(c), Erased
  PROVE  \A l \in {op.list} : Contents(l)' = op.goal
<1> PICK l \in List : l = op.list
  BY Operations DEF Erased, Removal
<1>1. /\ op.do = "erase" /\ op \in Removal /\ op.curr = op.last
      /\ Segment(next, l, c[l]) /\ op.at = At(l, c[l], Len(c[l]))
      /\ Ended(next, c[null]) /\ op.curr = Nxt(c[null], 0)
      /\ op.then # "nothing" => c[l] = << >> /\ op.last = null
      /\ op.then = "destroy" => op.goal = << >>
      /\ op.then \in List =>
           op.then \in alive /\ op.goal = IF op.then = l THEN << >> ELSE Elements(value, c[op.then])
      /\ value' = value
  BY Operations DEF Erased, Shape, Doing, Erasing
<1>2. /\ l \in Owner /\ null \in Owner /\ next \in [Place -> Ref] /\ value \in [Node -> Slot]
      /\ c[l] \in Seq(Node) /\ Unique(c[l]) /\ c[null] \in Seq(Node) /\ Unique(c[null])
      /\ ToSet(c[l]) \cap ToSet(c[null]) = {} /\ Len(c[null]) \in Nat
  <2>1. l \in Owner /\ null \in Owner /\ l # null
    BY NodeAssumption DEF Owner
  <2>2. /\ c[l] \in Seq(Node) /\ Unique(c[l]) /\ c[null] \in Seq(Node) /\ Unique(c[null])
        /\ Len(c[null]) \in Nat
    BY <2>1, ChainOf
  <2>3. ToSet(c[l]) \cap ToSet(c[null]) = {}
    BY <2>1 DEF Shape, Chains
  <2>4. next \in [Place -> Ref] /\ value \in [Node -> Slot]
    BY SlotsAndRanges DEF TypeOK, Place, Ref
  <2> QED
    BY <2>1, <2>2, <2>3, <2>4
<1> PICK j \in 0 .. Len(c[null]) :
         /\ op.last = Nxt(c[null], j)
         /\ op.then = "nothing" =>
              op.goal = Elements(value, c[l]) \o Elements(value, Behind(c[null], j))
  BY <1>1 DEF Shape, Doing, Erasing
<1>3. j = 0
  <2>1. \A i \in 1 .. Len(c[null]) : c[null][i] \in Node /\ c[null][i] # null
    BY <1>2, NodesOfSequence, NodeAssumption
  <2>2. Nxt(c[null], 0) = Nxt(c[null], j)
    BY <1>1
  <2>3. CASE j < Len(c[null])
    <3>1. 1 \in 1 .. Len(c[null]) /\ j + 1 \in 1 .. Len(c[null])
      BY <1>2, <2>3
    <3>2. c[null][1] = c[null][j + 1]
      BY <2>2, <2>3, <3>1 DEF Nxt
    <3> QED
      BY <1>2, <3>1, <3>2 DEF Unique
  <2>4. CASE ~ (j < Len(c[null]))
    <3>1. Nxt(c[null], 0) = null
      BY <2>2, <2>4 DEF Nxt
    <3>2. ~ (0 < Len(c[null]))
      BY <1>2, <2>1, <3>1 DEF Nxt
    <3> QED
      BY <1>2, <3>2
  <2> QED
    BY <2>3, <2>4
<1>4. PICK linked : linked = [next EXCEPT ![op.at] = op.last]
  OBVIOUS
<1>5. PICK s : s = c[l] \o c[null]
  OBVIOUS
<1>6. s \in Seq(Node) /\ Unique(s) /\ Linked(linked, l, s)
  BY <1>1, <1>2, <1>4, <1>5, JoinedNodes, LinkedJoined
<1>7. linked \in [Place -> Ref]
  BY <1>1, <1>2, <1>4 DEF Removal
\* Nothing is left in it unless only a part was to go.
<1>8. ASSUME op.then # "nothing" PROVE s = << >> /\ linked[l] = null
  <2>1. c[l] = << >> /\ Nxt(c[null], 0) = null
    BY <1>1, <1>8
  <2>2. 0 < Len(c[null]) => c[null][1] \in Node
    BY <1>2
  <2>3. c[null] = << >>
    BY <1>2, <2>1, <2>2, NodeAssumption DEF Nxt
  <2>4. s = << >>
    BY <1>5, <2>1, <2>3
  <2> QED
    BY <1>6, <2>4 DEF Linked, At, Nxt
<1>9. << >> \in Seq(Node) /\ Unique(<< >>) /\ Elements(value, << >>) = << >>
  BY DEF Unique, Elements
<1>10. CASE op.then = "nothing"
  <2>1. next' = linked
    BY <1>4, <1>10, NullAssumption DEF Erased
  <2>2. Contents(l)' = Elements(value, s)
    BY <1>1, <1>6, <2>1, ContentsThen
  <2>3. Behind(c[null], 0) = c[null]
    BY <1>2, OuterParts
  <2>4. Elements(value, s) = Elements(value, c[l]) \o Elements(value, c[null])
    BY <1>2, <1>5, ElementsOfConcat
  <2> QED
    BY <1>3, <1>10, <2>2, <2>3, <2>4
<1>11. CASE op.then = "destroy" \/ op.then = l
  <2>1. op.then # "nothing" /\ op.goal = << >>
    BY <1>1, <1>11, NullAssumption
  <2>2. next' = linked
    <3>1. CASE op.then = l
      BY <1>7, <1>4, <3>1 DEF Erased, Place
    <3>2. CASE op.then = "destroy"
      BY <1>4, <3>2, NullAssumption DEF Erased
    <3> QED
      BY <1>11, <3>1, <3>2
  <2>3. Contents(l)' = Elements(value, s)
    BY <1>1, <1>6, <2>2, ContentsThen
  <2> QED
    BY <1>8, <1>9, <2>1, <2>3
<1>12. CASE op.then \notin {"nothing", "destroy", l}
  <2> PICK m \in List : m = op.then
    BY <1>1, <1>12 DEF Removal
  <2>1. m # l /\ m \in Whole /\ op.goal = Elements(value, c[m])
    BY <1>1, <1>12 DEF Whole
  <2>2. c[m] \in Seq(Node) /\ Unique(c[m]) /\ Linked(next, m, c[m])
    BY <2>1, WholeList
  <2>3. op.at = l
    BY <1>1, <1>12 DEF At
  <2>4. next' = [linked EXCEPT ![l] = linked[m], ![m] = linked[l]]
    BY <1>4, <1>12 DEF Erased
  <2>5. ToSet(c[m]) \subseteq Node
    BY <2>2, NodesOfSequence
  <2>6. /\ next'[l] = next[m]
        /\ \A n \in ToSet(c[m]) : next'[n] = next[n]
    BY <1>2, <1>4, <1>7, <2>1, <2>3, <2>4, <2>5, NodeAssumption DEF Place
  <2>7. Linked(next', l, c[m])
    BY <2>2, <2>6, LinkedMoved
  <2> QED
    BY <1>1, <2>1, <2>2, <2>7, ContentsThen
<1> QED
  BY <1>10, <1>11, <1>12

LEMMA GoalStep ==
  IInv /\ [Next]_vars =>
    [/\ (Created \/ Erased \/ Reversed) => \A l \in {op.list} : Contents(l)' = op.goal
     /\ Step => \A l \in alive :
          l # op.list /\ ~(op.do = "erase" /\ op.then = l) => Contents(l)' = Contents(l)]_vars
<1> SUFFICES ASSUME IInv
             PROVE  /\ Created \/ Erased \/ Reversed => \A l \in {op.list} : Contents(l)' = op.goal
                    /\ Step => \A l \in alive :
                         l # op.list /\ ~(op.do = "erase" /\ op.then = l) => Contents(l)' = Contents(l)
  OBVIOUS
<1> TypeOK
  BY DEF IInv
<1> PICK c : Shape(c)
  BY DEF IInv
<1>1. Created \/ Erased \/ Reversed => \A l \in {op.list} : Contents(l)' = op.goal
  BY CreatedGoal, ErasedGoal, ReversedGoal
<1>2. Step => \A l \in alive :
        l # op.list /\ ~(op.do = "erase" /\ op.then = l) => Contents(l)' = Contents(l)
  BY OthersKept
<1> QED
  BY <1>1, <1>2

-----------------------------------------------------------------------------
(* The theorems.                                                            *)

\* The variables keep their types: the pointers of heads and nodes are nodes
\* or null, and every operation of linked_list.hpp is at a head or a node.
THEOREM TypeCorrect == Spec => []TypeOK
<1>1. IInv => TypeOK
  BY DEF IInv
<1> QED
  BY <1>1, InvariantHolds, PTL

\* Chains end, hold only allocated nodes with an element, and share no node,
\* at every step of every operation of linked_list.hpp, also of one that threw.
THEOREM ChainsCorrect == Spec => []ChainsSound
<1>1. IInv => ChainsSound
  BY InvariantChainsSound
<1> QED
  BY <1>1, InvariantHolds, PTL

\* Every node create_node allocated and destroy_node did not free is in one
\* list, in the hands of create_node, or was lost by a constructor that threw.
THEOREM OwnedCorrect == Spec => []EveryNodeOwned
<1>1. IInv => EveryNodeOwned
  BY InvariantOwned
<1> QED
  BY <1>1, InvariantHolds, PTL

\* The nodes that the loops of insert_after, assign, erase_after and reverse
\* hold and are about to go through are still there.
THEOREM CursorsCorrect == Spec => []CursorsLive
<1>1. IInv => CursorsLive
  BY InvariantCursors
<1> QED
  BY <1>1, InvariantHolds, PTL

\* Every insertion, assignment, erasure, move and reversal of linked_list.hpp
\* that ends without a throw leaves what it promised when it was called, and
\* what is in the other lists does not change meanwhile.
THEOREM GoalsCorrect == Spec => GoalReached
BY GoalStep, InvariantHolds, PTL DEF Spec, GoalReached

===============================================================================
