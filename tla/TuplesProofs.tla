----------------------------- MODULE TuplesProofs -----------------------------
(***************************************************************************)
(* Every library that is open has one owner, and what is done element by   *)
(* element is done to whole objects, for any number of objects of any      *)
(* types, libraries and texts.                                             *)
(***************************************************************************)
EXTENDS Tuples, FiniteSetTheorems, SequenceTheorems, WellFoundedInduction, TLAPS

Everywhere == Place \cup {temp}
Anything   == Library \cup Text \cup {null}
Worlds     == [held : [Everywhere -> Anything], loads : [Library -> Int]]

\* The places that hold library l in world w.
Holders(w, l) == {p \in Everywhere : w.held[p] = l}

Counted(w, s) ==
  \A l \in Library : /\ IsFiniteSet(Holders(w, l)) /\ s[l] \in Int
                     /\ w.loads[l] = Cardinality(Holders(w, l)) + s[l]

\* What a place may hold when the objects have the classes c.
Content(type) == {null} \cup IF type = "library" THEN Library ELSE Text
Part(c, p)    == p \in Place /\ c[p[1]] # null /\ p[2] \in 1 .. Len(c[p[1]].of)
Allowed(c)    == [p \in Everywhere |-> IF Part(c, p) THEN Content(c[p[1]].of[p[2]]) ELSE {null}]

Good(a, s) == {w \in Worlds : Counted(w, s) /\ \A p \in Everywhere : w.held[p] \in a[p]}

\* Classes, what is owed and a world that go together.
Sound(c, s, w) ==
  /\ c \in [Object -> Classes \cup {null}]
  /\ s \in [Library -> Int]
  /\ w \in Good(Allowed(c), s)

IInv == Sound(class, owed, World)

-----------------------------------------------------------------------------
(* Induction, and what it says of a step that is done n times.              *)

LEMMA Induction ==
  ASSUME NEW S, 0 \in S, \A n \in Nat : n \in S => n + 1 \in S
  PROVE  Nat \subseteq S
<1> DEFINE T == Nat \ S
           R == {pair \in Nat \X Nat : pair[1] < pair[2]}
<1> SUFFICES ASSUME T # {} PROVE FALSE
  OBVIOUS
<1>1. IsWellFoundedOn(R, Nat)
  BY NatLessThanWellFounded DEF OpToRel
<1>2. PICK n \in T : \A m \in T : ~ (<<m, n>> \in R)
  BY <1>1, WFMin
<1>3. n \in Nat /\ n # 0
  OBVIOUS
<1>4. n - 1 \in Nat /\ n - 1 + 1 = n
  BY <1>3
<1>5. n - 1 \in T
  BY <1>4
<1>6. <<n - 1, n>> \in R
  BY <1>3, <1>4
<1> QED
  BY <1>2, <1>5, <1>6

\* The results of the steps are f's, from w on: they exist and lead where each
\* step leads.
Run(f, w, n, g) == g = [i \in 0 .. n |-> IF i = 0 THEN w ELSE f[<<g[i - 1], i>>]]

LEMMA OneMoreStep ==
  ASSUME NEW f, NEW w, NEW n \in Nat, NEW g, Run(f, w, n, g)
  PROVE  \E h : Run(f, w, n + 1, h)
<1>1. PICK h : h = [i \in 0 .. n + 1 |-> IF i = 0 THEN w ELSE f[<<g[i - 1], i>>]]
  OBVIOUS
<1>2. ASSUME NEW i \in 0 .. n PROVE h[i] = g[i]
  <2>1. i \in 0 .. n + 1
    OBVIOUS
  <2> QED
    BY <1>1, <2>1 DEF Run
<1>3. ASSUME NEW i \in 0 .. n + 1, i # 0 PROVE h[i - 1] = g[i - 1]
  BY <1>2, <1>3
<1>4. h = [i \in 0 .. n + 1 |-> IF i = 0 THEN w ELSE f[<<h[i - 1], i>>]]
  BY <1>1, <1>3
<1> QED
  BY <1>4 DEF Run

LEMMA RunExists ==
  ASSUME NEW f, NEW w, NEW n \in Nat
  PROVE  \E g : Run(f, w, n, g)
<1> DEFINE S == {k \in Nat : \E g : Run(f, w, k, g)}
<1>1. 0 \in S
  <2>1. PICK g : g = [i \in 0 .. 0 |-> w]
    OBVIOUS
  <2>2. g = [i \in 0 .. 0 |-> IF i = 0 THEN w ELSE f[<<g[i - 1], i>>]]
    BY <2>1
  <2> QED
    BY <2>2 DEF Run
<1>2. \A k \in Nat : k \in S => k + 1 \in S
  BY OneMoreStep
<1>3. Nat \subseteq S
  BY <1>1, <1>2, Induction
<1> QED
  BY <1>3

LEMMA RunLeads ==
  ASSUME NEW a, NEW n \in Nat, NEW Goal, a[0] \in Goal[0],
         \A i \in 1 .. n : a[i - 1] \in Goal[i - 1] => a[i] \in Goal[i]
  PROVE  \A i \in 0 .. n : a[i] \in Goal[i]
<1> DEFINE S == {k \in Nat : k <= n => a[k] \in Goal[k]}
<1>1. 0 \in S
  OBVIOUS
<1>2. ASSUME NEW k \in Nat, k \in S PROVE k + 1 \in S
  <2>1. PICK j : j = k + 1
    OBVIOUS
  <2>2. j \in Nat /\ j - 1 = k /\ (j <= n => j \in 1 .. n /\ k <= n)
    BY <2>1
  <2>3. j <= n => a[j] \in Goal[j]
    BY <1>2, <2>2
  <2> QED
    BY <2>1, <2>2, <2>3
<1>3. Nat \subseteq S
  BY <1>1, <1>2, Induction
<1> QED
  BY <1>3

\* A step as a function on the worlds that can be met.
LEMMA RunMeets ==
  ASSUME NEW f, NEW w, NEW n \in Nat, NEW Goal, w \in Goal[0],
         \A i \in 1 .. n : \A x \in Goal[i - 1] : f[<<x, i>>] \in Goal[i]
  PROVE  \E g : Run(f, w, n, g) /\ \A i \in 0 .. n : g[i] \in Goal[i]
<1>1. PICK g : Run(f, w, n, g)
  BY RunExists
<1>2. g[0] = w /\ \A i \in 1 .. n : g[i] = f[<<g[i - 1], i>>]
  BY <1>1 DEF Run
<1>3. \A i \in 0 .. n : g[i] \in Goal[i]
  BY <1>2, RunLeads
<1> QED
  BY <1>1, <1>3

\* The same of every operation that is done element by element.
LEMMA EachConstructed ==
  ASSUME NEW n \in Nat, NEW Goal, NEW w \in Goal[0], NEW to, NEW from, NEW by, Len(to) = n,
         \A i \in 1 .. n : \A x \in Goal[i - 1] : Constructed(x, to[i], from[i], by) \in Goal[i]
  PROVE  AllConstructed(w, to, from, by) \in Goal[n]
<1> DEFINE W    == UNION {Goal[i] : i \in 0 .. n}
           f    == [pair \in W \X (1 .. n) |-> Constructed(pair[1], to[pair[2]], from[pair[2]], by)]
           F(a) == [i \in 0 .. n |-> IF i = 0 THEN w ELSE Constructed(a[i - 1], to[i], from[i], by)]
<1>1. \A i \in 1 .. n : \A x \in Goal[i - 1] : x \in W /\ f[<<x, i>>] = Constructed(x, to[i], from[i], by)
  OBVIOUS
<1> HIDE DEF f, W
<1>2. PICK g : Run(f, w, n, g) /\ \A i \in 0 .. n : g[i] \in Goal[i]
  <2>1. \A i \in 1 .. n : \A x \in Goal[i - 1] : f[<<x, i>>] \in Goal[i]
    BY <1>1
  <2> QED
    BY <2>1, RunMeets
<1>3. g = F(g)
  <2>1. \A i \in 0 .. n : i # 0 => f[<<g[i - 1], i>>] = Constructed(g[i - 1], to[i], from[i], by)
    BY <1>1, <1>2
  <2> QED
    BY <1>2, <2>1 DEF Run
<1>4. PICK a : a = CHOOSE h : h = F(h)
  OBVIOUS
<1>5. a = F(a)
  BY <1>3, <1>4
<1>6. a[0] = w /\ \A i \in 1 .. n : a[i] = Constructed(a[i - 1], to[i], from[i], by)
  BY <1>5
<1> HIDE DEF F
<1>7. a[n] \in Goal[n]
  <2>1. a[0] \in Goal[0] /\ \A i \in 1 .. n : a[i - 1] \in Goal[i - 1] => a[i] \in Goal[i]
    BY <1>6
  <2>2. \A i \in 0 .. n : a[i] \in Goal[i]
    BY <2>1, RunLeads
  <2> QED
    BY <2>2
<1> QED
  BY <1>4, <1>7 DEF AllConstructed, Each, F

LEMMA EachAssigned ==
  ASSUME NEW n \in Nat, NEW Goal, NEW w \in Goal[0], NEW to, NEW from, NEW by, Len(to) = n,
         \A i \in 1 .. n : \A x \in Goal[i - 1] : Assigned(x, to[i], from[i], by) \in Goal[i]
  PROVE  TupleAssigned(w, to, from, by) \in Goal[n]
<1> DEFINE W    == UNION {Goal[i] : i \in 0 .. n}
           f    == [pair \in W \X (1 .. n) |-> Assigned(pair[1], to[pair[2]], from[pair[2]], by)]
           F(a) == [i \in 0 .. n |-> IF i = 0 THEN w ELSE Assigned(a[i - 1], to[i], from[i], by)]
<1>1. \A i \in 1 .. n : \A x \in Goal[i - 1] : x \in W /\ f[<<x, i>>] = Assigned(x, to[i], from[i], by)
  OBVIOUS
<1> HIDE DEF f, W
<1>2. PICK g : Run(f, w, n, g) /\ \A i \in 0 .. n : g[i] \in Goal[i]
  <2>1. \A i \in 1 .. n : \A x \in Goal[i - 1] : f[<<x, i>>] \in Goal[i]
    BY <1>1
  <2> QED
    BY <2>1, RunMeets
<1>3. g = F(g)
  <2>1. \A i \in 0 .. n : i # 0 => f[<<g[i - 1], i>>] = Assigned(g[i - 1], to[i], from[i], by)
    BY <1>1, <1>2
  <2> QED
    BY <1>2, <2>1 DEF Run
<1>4. PICK a : a = CHOOSE h : h = F(h)
  OBVIOUS
<1>5. a = F(a)
  BY <1>3, <1>4
<1>6. a[0] = w /\ \A i \in 1 .. n : a[i] = Assigned(a[i - 1], to[i], from[i], by)
  BY <1>5
<1> HIDE DEF F
<1>7. a[n] \in Goal[n]
  <2>1. a[0] \in Goal[0] /\ \A i \in 1 .. n : a[i - 1] \in Goal[i - 1] => a[i] \in Goal[i]
    BY <1>6
  <2>2. \A i \in 0 .. n : a[i] \in Goal[i]
    BY <2>1, RunLeads
  <2> QED
    BY <2>2
<1> QED
  BY <1>4, <1>7 DEF TupleAssigned, Each, F

LEMMA EachSwapped ==
  ASSUME NEW n \in Nat, NEW Goal, NEW w \in Goal[0], NEW p, NEW q, Len(p) = n,
         \A i \in 1 .. n : \A x \in Goal[i - 1] : Swapped(x, p[i], q[i]) \in Goal[i]
  PROVE  TupleSwapped(w, p, q) \in Goal[n]
<1> DEFINE W    == UNION {Goal[i] : i \in 0 .. n}
           f    == [pair \in W \X (1 .. n) |-> Swapped(pair[1], p[pair[2]], q[pair[2]])]
           F(a) == [i \in 0 .. n |-> IF i = 0 THEN w ELSE Swapped(a[i - 1], p[i], q[i])]
<1>1. \A i \in 1 .. n : \A x \in Goal[i - 1] : x \in W /\ f[<<x, i>>] = Swapped(x, p[i], q[i])
  OBVIOUS
<1> HIDE DEF f, W
<1>2. PICK g : Run(f, w, n, g) /\ \A i \in 0 .. n : g[i] \in Goal[i]
  <2>1. \A i \in 1 .. n : \A x \in Goal[i - 1] : f[<<x, i>>] \in Goal[i]
    BY <1>1
  <2> QED
    BY <2>1, RunMeets
<1>3. g = F(g)
  <2>1. \A i \in 0 .. n : i # 0 => f[<<g[i - 1], i>>] = Swapped(g[i - 1], p[i], q[i])
    BY <1>1, <1>2
  <2> QED
    BY <1>2, <2>1 DEF Run
<1>4. PICK a : a = CHOOSE h : h = F(h)
  OBVIOUS
<1>5. a = F(a)
  BY <1>3, <1>4
<1>6. a[0] = w /\ \A i \in 1 .. n : a[i] = Swapped(a[i - 1], p[i], q[i])
  BY <1>5
<1> HIDE DEF F
<1>7. a[n] \in Goal[n]
  <2>1. a[0] \in Goal[0] /\ \A i \in 1 .. n : a[i - 1] \in Goal[i - 1] => a[i] \in Goal[i]
    BY <1>6
  <2>2. \A i \in 0 .. n : a[i] \in Goal[i]
    BY <2>1, RunLeads
  <2> QED
    BY <2>2
<1> QED
  BY <1>4, <1>7 DEF TupleSwapped, Each, F

LEMMA EachBegun ==
  ASSUME NEW n \in Nat, NEW Goal, NEW w \in Goal[0], NEW o, NEW k, NEW values, Len(k.of) = n,
         \A i \in 1 .. n : \A x \in Goal[i - 1] : Begun(x, <<o, i>>, k.of[i], values[i]) \in Goal[i]
  PROVE  AllBegun(w, o, k, values) \in Goal[n]
<1> DEFINE W    == UNION {Goal[i] : i \in 0 .. n}
           f    == [pair \in W \X (1 .. n) |-> Begun(pair[1], <<o, pair[2]>>, k.of[pair[2]], values[pair[2]])]
           F(a) == [i \in 0 .. n |-> IF i = 0 THEN w ELSE Begun(a[i - 1], <<o, i>>, k.of[i], values[i])]
<1>1. \A i \in 1 .. n : \A x \in Goal[i - 1] : x \in W /\ f[<<x, i>>] = Begun(x, <<o, i>>, k.of[i], values[i])
  OBVIOUS
<1> HIDE DEF f, W
<1>2. PICK g : Run(f, w, n, g) /\ \A i \in 0 .. n : g[i] \in Goal[i]
  <2>1. \A i \in 1 .. n : \A x \in Goal[i - 1] : f[<<x, i>>] \in Goal[i]
    BY <1>1
  <2> QED
    BY <2>1, RunMeets
<1>3. g = F(g)
  <2>1. \A i \in 0 .. n : i # 0 => f[<<g[i - 1], i>>] = Begun(g[i - 1], <<o, i>>, k.of[i], values[i])
    BY <1>1, <1>2
  <2> QED
    BY <1>2, <2>1 DEF Run
<1>4. PICK a : a = CHOOSE h : h = F(h)
  OBVIOUS
<1>5. a = F(a)
  BY <1>3, <1>4
<1>6. a[0] = w /\ \A i \in 1 .. n : a[i] = Begun(a[i - 1], <<o, i>>, k.of[i], values[i])
  BY <1>5
<1> HIDE DEF F
<1>7. a[n] \in Goal[n]
  <2>1. a[0] \in Goal[0] /\ \A i \in 1 .. n : a[i - 1] \in Goal[i - 1] => a[i] \in Goal[i]
    BY <1>6
  <2>2. \A i \in 0 .. n : a[i] \in Goal[i]
    BY <2>1, RunLeads
  <2> QED
    BY <2>2
<1> QED
  BY <1>4, <1>7 DEF AllBegun, Each, F

LEMMA EachConsumed ==
  ASSUME NEW n \in Nat, NEW Goal, NEW w \in Goal[0], NEW o, Size(o) = n,
         \A i \in 1 .. n : \A x \in Goal[i - 1] : Consumed(x, get(o, i)) \in Goal[i]
  PROVE  AllConsumed(w, o) \in Goal[n]
<1> DEFINE W    == UNION {Goal[i] : i \in 0 .. n}
           f    == [pair \in W \X (1 .. n) |-> Consumed(pair[1], get(o, pair[2]))]
           F(a) == [i \in 0 .. n |-> IF i = 0 THEN w ELSE Consumed(a[i - 1], get(o, i))]
<1>1. \A i \in 1 .. n : \A x \in Goal[i - 1] : x \in W /\ f[<<x, i>>] = Consumed(x, get(o, i))
  OBVIOUS
<1> HIDE DEF f, W
<1>2. PICK g : Run(f, w, n, g) /\ \A i \in 0 .. n : g[i] \in Goal[i]
  <2>1. \A i \in 1 .. n : \A x \in Goal[i - 1] : f[<<x, i>>] \in Goal[i]
    BY <1>1
  <2> QED
    BY <2>1, RunMeets
<1>3. g = F(g)
  <2>1. \A i \in 0 .. n : i # 0 => f[<<g[i - 1], i>>] = Consumed(g[i - 1], get(o, i))
    BY <1>1, <1>2
  <2> QED
    BY <1>2, <2>1 DEF Run
<1>4. PICK a : a = CHOOSE h : h = F(h)
  OBVIOUS
<1>5. a = F(a)
  BY <1>3, <1>4
<1>6. a[0] = w /\ \A i \in 1 .. n : a[i] = Consumed(a[i - 1], get(o, i))
  BY <1>5
<1> HIDE DEF F
<1>7. a[n] \in Goal[n]
  <2>1. a[0] \in Goal[0] /\ \A i \in 1 .. n : a[i - 1] \in Goal[i - 1] => a[i] \in Goal[i]
    BY <1>6
  <2>2. \A i \in 0 .. n : a[i] \in Goal[i]
    BY <2>1, RunLeads
  <2> QED
    BY <2>2
<1> QED
  BY <1>4, <1>7 DEF AllConsumed, Each, F

LEMMA EachDestroyed ==
  ASSUME NEW n \in Nat, NEW Goal, NEW w \in Goal[0], NEW o, Size(o) = n,
         \A i \in 1 .. n : \A x \in Goal[i - 1] : ElementDestroyed(x, get(o, Size(o) + 1 - i)) \in Goal[i]
  PROVE  AllDestroyed(w, o) \in Goal[n]
<1> DEFINE W    == UNION {Goal[i] : i \in 0 .. n}
           f    == [pair \in W \X (1 .. n) |-> ElementDestroyed(pair[1], get(o, Size(o) + 1 - pair[2]))]
           F(a) == [i \in 0 .. n |-> IF i = 0 THEN w ELSE ElementDestroyed(a[i - 1], get(o, Size(o) + 1 - i))]
<1>1. \A i \in 1 .. n : \A x \in Goal[i - 1] : x \in W /\ f[<<x, i>>] = ElementDestroyed(x, get(o, Size(o) + 1 - i))
  OBVIOUS
<1> HIDE DEF f, W
<1>2. PICK g : Run(f, w, n, g) /\ \A i \in 0 .. n : g[i] \in Goal[i]
  <2>1. \A i \in 1 .. n : \A x \in Goal[i - 1] : f[<<x, i>>] \in Goal[i]
    BY <1>1
  <2> QED
    BY <2>1, RunMeets
<1>3. g = F(g)
  <2>1. \A i \in 0 .. n : i # 0 => f[<<g[i - 1], i>>] = ElementDestroyed(g[i - 1], get(o, Size(o) + 1 - i))
    BY <1>1, <1>2
  <2> QED
    BY <1>2, <2>1 DEF Run
<1>4. PICK a : a = CHOOSE h : h = F(h)
  OBVIOUS
<1>5. a = F(a)
  BY <1>3, <1>4
<1>6. a[0] = w /\ \A i \in 1 .. n : a[i] = ElementDestroyed(a[i - 1], get(o, Size(o) + 1 - i))
  BY <1>5
<1> HIDE DEF F
<1>7. a[n] \in Goal[n]
  <2>1. a[0] \in Goal[0] /\ \A i \in 1 .. n : a[i - 1] \in Goal[i - 1] => a[i] \in Goal[i]
    BY <1>6
  <2>2. \A i \in 0 .. n : a[i] \in Goal[i]
    BY <2>1, RunLeads
  <2> QED
    BY <2>2
<1> QED
  BY <1>4, <1>7 DEF AllDestroyed, Each, F

-----------------------------------------------------------------------------
(* What a change of one or two places does to the counts.                   *)

LEMMA Rewritten ==
  ASSUME NEW w \in Worlds, NEW s, Counted(w, s), NEW p \in Everywhere, w.held[p] \notin Library,
         NEW v \in Anything, v \notin Library,
         NEW x \in Worlds, x.held = [w.held EXCEPT ![p] = v], x.loads = w.loads
  PROVE  Counted(x, s)
<1>1. ASSUME NEW l \in Library PROVE Holders(x, l) = Holders(w, l)
  <2>1. \A y \in Everywhere : x.held[y] = l <=> w.held[y] = l
    BY DEF Worlds
  <2> QED
    BY <2>1 DEF Holders
<1> QED
  BY <1>1 DEF Counted

LEMMA Exchanged ==
  ASSUME NEW w \in Worlds, NEW s, Counted(w, s),
         NEW p \in Everywhere, NEW q \in Everywhere, NEW x \in Worlds,
         x.held = [w.held EXCEPT ![p] = w.held[q], ![q] = w.held[p]], x.loads = w.loads
  PROVE  Counted(x, s)
<1>1. /\ x.held[p] = w.held[q] /\ x.held[q] = w.held[p]
      /\ \A y \in Everywhere : y # p /\ y # q => x.held[y] = w.held[y]
  BY DEF Worlds
<1>2. ASSUME NEW l \in Library,
             NEW y \in Everywhere, NEW z \in Everywhere,
             w.held[y] = l, w.held[z] # l, x.held[y] # l, x.held[z] = l,
             \A u \in Everywhere : u # y /\ u # z => x.held[u] = w.held[u]
      PROVE  /\ IsFiniteSet(Holders(x, l))
             /\ Cardinality(Holders(x, l)) = Cardinality(Holders(w, l))
  <2>1. PICK S, T : S = Holders(w, l) /\ T = Holders(w, l) \ {y}
    OBVIOUS
  <2>2. Holders(x, l) = T \cup {z}
    BY <1>2, <2>1 DEF Holders
  <2>3. IsFiniteSet(S) /\ y \in S /\ z \notin T
    BY <1>2, <2>1 DEF Holders, Counted
  <2>4. IsFiniteSet(T) /\ Cardinality(T) = Cardinality(S) - 1 /\ Cardinality(S) \in Nat
    BY <2>1, <2>3, FS_RemoveElement, FS_CardinalityType
  <2>5. IsFiniteSet(T \cup {z}) /\ Cardinality(T \cup {z}) = Cardinality(T) + 1
    BY <2>3, <2>4, FS_AddElement
  <2> QED
    BY <2>1, <2>2, <2>4, <2>5
<1>3. ASSUME NEW l \in Library
      PROVE  /\ IsFiniteSet(Holders(x, l))
             /\ Cardinality(Holders(x, l)) = Cardinality(Holders(w, l))
  <2>1. CASE (w.held[p] = l) <=> (w.held[q] = l)
    <3>1. Holders(x, l) = Holders(w, l)
      BY <1>1, <2>1 DEF Holders
    <3> QED
      BY <3>1 DEF Counted
  <2>2. CASE w.held[p] = l /\ w.held[q] # l
    BY <1>1, <1>2, <2>2
  <2>3. CASE w.held[p] # l /\ w.held[q] = l
    BY <1>1, <1>2, <2>3
  <2> QED
    BY <2>1, <2>2, <2>3
<1> QED
  BY <1>3 DEF Counted

LEMMA HolderGone ==
  ASSUME NEW w \in Worlds, NEW s, Counted(w, s), NEW p \in Everywhere, w.held[p] \in Library,
         NEW x \in Worlds, NEW t,
         \A l \in Library :
           /\ Holders(x, l) = Holders(w, l) \ {p} /\ t[l] \in Int
           /\ x.loads[l] - t[l] = w.loads[l] - s[l] - IF w.held[p] = l THEN 1 ELSE 0
  PROVE  Counted(x, t)
<1>1. ASSUME NEW l \in Library
      PROVE  IsFiniteSet(Holders(x, l)) /\ t[l] \in Int /\ x.loads[l] = Cardinality(Holders(x, l)) + t[l]
  <2>1. PICK S : S = Holders(w, l)
    OBVIOUS
  <2>2. /\ IsFiniteSet(S) /\ s[l] \in Int /\ w.loads[l] = Cardinality(S) + s[l]
        /\ Holders(x, l) = S \ {p}
    BY <2>1 DEF Counted
  <2>3. /\ IsFiniteSet(S \ {p}) /\ Cardinality(S) \in Nat
        /\ Cardinality(S \ {p}) = IF p \in S THEN Cardinality(S) - 1 ELSE Cardinality(S)
    BY <2>2, FS_RemoveElement, FS_CardinalityType
  <2>4. p \in S <=> w.held[p] = l
    BY <2>1 DEF Holders
  <2>5. /\ t[l] \in Int /\ x.loads[l] \in Int
        /\ x.loads[l] - t[l] = w.loads[l] - s[l] - IF w.held[p] = l THEN 1 ELSE 0
    BY DEF Worlds
  <2>6. x.loads[l] - t[l] = Cardinality(S \ {p})
    BY <2>2, <2>3, <2>4, <2>5
  <2>7. x.loads[l] = Cardinality(S \ {p}) + t[l]
    BY <2>3, <2>5, <2>6
  <2> QED
    BY <2>2, <2>3, <2>5, <2>7
<1> QED
  BY <1>1 DEF Counted

LEMMA HolderNew ==
  ASSUME NEW w \in Worlds, NEW s, Counted(w, s), NEW p, NEW h \in Library, NEW x \in Worlds,
         \A l \in Library : /\ p \notin Holders(w, l)
                            /\ Holders(x, l) = Holders(w, l) \cup IF l = h THEN {p} ELSE {},
         x.loads = [w.loads EXCEPT ![h] = @ + 1]
  PROVE  Counted(x, s)
<1>1. ASSUME NEW l \in Library
      PROVE  IsFiniteSet(Holders(x, l)) /\ s[l] \in Int /\ x.loads[l] = Cardinality(Holders(x, l)) + s[l]
  <2>1. PICK S : S = Holders(w, l)
    OBVIOUS
  <2>2. IsFiniteSet(S) /\ s[l] \in Int /\ w.loads[l] = Cardinality(S) + s[l] /\ p \notin S
    BY <2>1 DEF Counted
  <2>3. /\ IsFiniteSet(S \cup {p}) /\ Cardinality(S) \in Nat
        /\ Cardinality(S \cup {p}) = Cardinality(S) + 1
    BY <2>2, FS_AddElement, FS_CardinalityType
  <2>4. x.loads[l] = IF l = h THEN w.loads[l] + 1 ELSE w.loads[l]
    BY DEF Worlds
  <2>5. Holders(x, l) = IF l = h THEN S \cup {p} ELSE S
    BY <2>1
  <2> QED
    BY <2>2, <2>3, <2>4, <2>5
<1> QED
  BY <1>1 DEF Counted

-----------------------------------------------------------------------------
(* Operations on one or two elements, between places of one type.           *)

LEMMA GoodWorld ==
  ASSUME NEW a, NEW s, NEW w \in Good(a, s)
  PROVE  /\ w \in Worlds /\ Counted(w, s)
         /\ w.held \in [Everywhere -> Anything] /\ w.loads \in [Library -> Int]
         /\ w = [held |-> w.held, loads |-> w.loads]
         /\ \A p \in Everywhere : w.held[p] \in a[p] /\ w.held[p] \in Anything
BY DEF Good, Worlds

LEMMA WorldOf ==
  ASSUME NEW held0 \in [Everywhere -> Anything], NEW loads0 \in [Library -> Int],
         NEW x, x = [held |-> held0, loads |-> loads0]
  PROVE  x \in Worlds /\ x.held = held0 /\ x.loads = loads0
BY DEF Worlds

LEMMA WrittenGood ==
  ASSUME NEW a, NEW s, NEW w \in Good(a, s), NEW p \in Everywhere, w.held[p] \notin Library,
         NEW v \in Anything, v \notin Library, v \in a[p]
  PROVE  [w EXCEPT !.held[p] = v] \in Good(a, s)
<1>1. PICK x : x = [w EXCEPT !.held[p] = v]
  OBVIOUS
<1>2. PICK new : new = [w.held EXCEPT ![p] = v]
  OBVIOUS
<1>3. new \in [Everywhere -> Anything] /\ \A q \in Everywhere : new[q] = IF q = p THEN v ELSE w.held[q]
  BY <1>2, GoodWorld
<1>4. x = [held |-> new, loads |-> w.loads]
  BY <1>1, <1>2, GoodWorld
<1>5. x \in Worlds /\ x.held = new /\ x.loads = w.loads
  BY <1>3, <1>4, GoodWorld, WorldOf
<1>6. Counted(x, s)
  BY <1>2, <1>5, GoodWorld, Rewritten
<1>7. \A q \in Everywhere : x.held[q] \in a[q]
  BY <1>3, <1>5, GoodWorld
<1> QED
  BY <1>1, <1>5, <1>6, <1>7 DEF Good

LEMMA CopiedGood ==
  ASSUME NEW a, NEW s, NEW w \in Good(a, s), NEW to \in Everywhere, NEW from \in Everywhere,
         a[to] = a[from], a[from] \cap Library = {}
  PROVE  [w EXCEPT !.held[to] = w.held[from]] \in Good(a, s)
<1>1. PICK v : v = w.held[from]
  OBVIOUS
<1>2. v \in Anything /\ v \notin Library /\ v \in a[to] /\ w.held[to] \notin Library
  BY <1>1, GoodWorld
<1> QED
  BY <1>1, <1>2, WrittenGood

LEMMA ExchangedGood ==
  ASSUME NEW a, NEW s, NEW w \in Good(a, s), NEW to \in Everywhere, NEW from \in Everywhere,
         a[to] = a[from]
  PROVE  [w EXCEPT !.held[to] = w.held[from], !.held[from] = w.held[to]] \in Good(a, s)
<1>1. PICK x : x = [w EXCEPT !.held[to] = w.held[from], !.held[from] = w.held[to]]
  OBVIOUS
<1>2. PICK new : new = [w.held EXCEPT ![to] = w.held[from], ![from] = w.held[to]]
  OBVIOUS
<1>3. /\ new \in [Everywhere -> Anything]
      /\ \A q \in Everywhere : new[q] = IF q = from THEN w.held[to] ELSE IF q = to THEN w.held[from] ELSE w.held[q]
  BY <1>2, GoodWorld
<1>4. x = [held |-> new, loads |-> w.loads]
  <2>1. PICK f, l, u, v : f = w.held /\ l = w.loads /\ u = w.held[from] /\ v = w.held[to]
    OBVIOUS
  <2>2. w = [held |-> f, loads |-> l]
    BY <2>1, GoodWorld
  <2>3. PICK y : y = [w EXCEPT !.held[to] = u]
    OBVIOUS
  <2>4. y = [held |-> [f EXCEPT ![to] = u], loads |-> l]
    BY <2>2, <2>3
  <2>5. x = [y EXCEPT !.held[from] = v]
    BY <1>1, <2>1, <2>3
  <2> QED
    BY <1>2, <2>1, <2>4, <2>5
<1>5. x \in Worlds /\ x.held = new /\ x.loads = w.loads
  BY <1>3, <1>4, GoodWorld, WorldOf
<1>6. Counted(x, s)
  BY <1>2, <1>5, GoodWorld, Exchanged
<1>7. \A q \in Everywhere : x.held[q] \in a[q]
  BY <1>3, <1>5, GoodWorld
<1> QED
  BY <1>1, <1>5, <1>6, <1>7 DEF Good

LEMMA MovedGood ==
  ASSUME NEW a, NEW s, NEW w \in Good(a, s), NEW to \in Everywhere, NEW from \in Everywhere,
         to # from, a[to] = a[from], null \in a[from], w.held[to] \notin Library
  PROVE  LibraryMoved(w, to, from) \in Good(a, s)
<1>1. null \in Anything /\ null \notin Library
  BY ValuesAssumption DEF Anything
<1>2. PICK x, cleared, new : /\ x = LibraryMoved(w, to, from)
                             /\ cleared = [w.held EXCEPT ![to] = null]
                             /\ new = [w.held EXCEPT ![to] = w.held[from], ![from] = null]
  OBVIOUS
<1>3. /\ new \in [Everywhere -> Anything] /\ cleared \in [Everywhere -> Anything]
      /\ \A q \in Everywhere : new[q] = IF q = from THEN null ELSE IF q = to THEN w.held[from] ELSE w.held[q]
      /\ \A q \in Everywhere : cleared[q] = IF q = to THEN null ELSE w.held[q]
  BY <1>1, <1>2, GoodWorld
<1>4. PICK mid : mid = [held |-> cleared, loads |-> w.loads]
  OBVIOUS
<1>5. mid \in Worlds /\ mid.held = cleared /\ mid.loads = w.loads
  BY <1>3, <1>4, GoodWorld, WorldOf
<1>6. Counted(mid, s)
  BY <1>1, <1>2, <1>5, GoodWorld, Rewritten
<1>7. x = [held |-> new, loads |-> w.loads]
  <2>1. PICK f, l, u : f = w.held /\ l = w.loads /\ u = w.held[from]
    OBVIOUS
  <2>2. w = [held |-> f, loads |-> l]
    BY <2>1, GoodWorld
  <2>3. PICK y : y = [w EXCEPT !.held[to] = u]
    OBVIOUS
  <2>4. y = [held |-> [f EXCEPT ![to] = u], loads |-> l]
    BY <2>2, <2>3
  <2>5. x = [y EXCEPT !.held[from] = null]
    BY <1>2, <2>1, <2>3 DEF LibraryMoved
  <2> QED
    BY <1>2, <2>1, <2>4, <2>5
<1>8. x \in Worlds /\ x.held = new /\ x.loads = w.loads
  BY <1>3, <1>7, GoodWorld, WorldOf
<1>9. new = [cleared EXCEPT ![to] = cleared[from], ![from] = cleared[to]]
  BY <1>2, <1>3
<1>10. Counted(x, s)
  <2>1. x.held = [mid.held EXCEPT ![to] = mid.held[from], ![from] = mid.held[to]]
    BY <1>5, <1>8, <1>9
  <2>2. x.loads = mid.loads
    BY <1>5, <1>8
  <2>3. mid \in Worlds /\ x \in Worlds
    BY <1>5, <1>8
  <2> QED
    BY <1>6, <2>1, <2>2, <2>3, Exchanged
<1>11. \A q \in Everywhere : x.held[q] \in a[q]
  <2>1. \A q \in Everywhere : w.held[q] \in a[q]
    BY GoodWorld
  <2> QED
    BY <1>3, <1>8, <2>1
<1> QED
  BY <1>2, <1>8, <1>10, <1>11 DEF Good

LEMMA DroppedGood ==
  ASSUME NEW a, NEW s, NEW w \in Good(a, s), NEW p \in Everywhere, null \in a[p],
         w.held[p] \in Library \cup {null}
  PROVE  LibraryDestroyed(w, p) \in Good(a, s)
<1>1. null \in Anything /\ null \notin Library
  BY ValuesAssumption DEF Anything
<1>2. CASE w.held[p] = null
  BY <1>1, <1>2, WrittenGood DEF LibraryDestroyed, is_open
<1>3. CASE w.held[p] # null
  <2>1. PICK x, h, new, fewer : /\ x = LibraryDestroyed(w, p) /\ h = w.held[p]
                                /\ new = [w.held EXCEPT ![p] = null]
                                /\ fewer = [w.loads EXCEPT ![h] = @ - 1]
    OBVIOUS
  <2>2. h \in Library
    BY <1>3, <2>1
  <2>3. new \in [Everywhere -> Anything] /\ \A q \in Everywhere : new[q] = IF q = p THEN null ELSE w.held[q]
    BY <1>1, <2>1, GoodWorld
  <2>4. fewer \in [Library -> Int]
    BY <2>1, <2>2, GoodWorld
  <2>5. x = [held |-> new, loads |-> fewer]
    <3>1. PICK closed : closed = close(w, p)
      OBVIOUS
    <3>2. closed = [held |-> w.held, loads |-> fewer]
      BY <2>1, <3>1, GoodWorld DEF close
    <3>3. x = [closed EXCEPT !.held[p] = null]
      BY <1>3, <2>1, <3>1 DEF LibraryDestroyed, is_open
    <3> QED
      BY <2>1, <3>2, <3>3
  <2>6. x \in Worlds /\ x.held = new /\ x.loads = fewer
    BY <2>3, <2>4, <2>5, WorldOf
  <2>7. \A l \in Library : Holders(x, l) = Holders(w, l) \ {p}
    BY <1>1, <2>3, <2>6 DEF Holders
  <2>8. Counted(x, s)
    <3>1. ASSUME NEW l \in Library
          PROVE  /\ s[l] \in Int
                 /\ x.loads[l] - s[l] = w.loads[l] - s[l] - IF w.held[p] = l THEN 1 ELSE 0
      <4>1. s[l] \in Int /\ w.loads[l] \in Int
        BY GoodWorld DEF Counted
      <4>2. x.loads[l] = w.loads[l] - IF w.held[p] = l THEN 1 ELSE 0
        BY <2>1, <2>2, <2>6, GoodWorld
      <4> QED
        BY <4>1, <4>2
    <3> QED
      BY <2>1, <2>2, <2>6, <2>7, <3>1, GoodWorld, HolderGone
  <2>9. \A q \in Everywhere : x.held[q] \in a[q]
    BY <2>3, <2>6, GoodWorld
  <2> QED
    BY <2>1, <2>6, <2>8, <2>9 DEF Good
<1> QED
  BY <1>2, <1>3

\* dlopen for a place that has no library.
LEMMA OpenedGood ==
  ASSUME NEW a, NEW s, NEW w \in Good(a, s), NEW p \in Everywhere, w.held[p] = null,
         NEW h \in Library \cup {null}, h \in a[p]
  PROVE  open(w, p, h) \in Good(a, s)
<1>1. null \in Anything /\ null \notin Library /\ h \in Anything
  BY ValuesAssumption DEF Anything
<1>2. PICK x, new, more : /\ x = open(w, p, h) /\ new = [w.held EXCEPT ![p] = h]
                          /\ more = IF h = null THEN w.loads ELSE [w.loads EXCEPT ![h] = @ + 1]
  OBVIOUS
<1>3. new \in [Everywhere -> Anything] /\ \A q \in Everywhere : new[q] = IF q = p THEN h ELSE w.held[q]
  BY <1>1, <1>2, GoodWorld
<1>4. more \in [Library -> Int]
  BY <1>1, <1>2, GoodWorld
<1>5. x = [held |-> new, loads |-> more]
  <2>1. PICK holding : holding = [w EXCEPT !.held[p] = h]
    OBVIOUS
  <2>2. holding = [held |-> new, loads |-> w.loads]
    BY <1>2, <2>1, GoodWorld
  <2>3. x = IF h = null THEN holding ELSE [holding EXCEPT !.loads[h] = @ + 1]
    BY <1>2, <2>1 DEF open
  <2> QED
    BY <1>2, <2>2, <2>3
<1>6. x \in Worlds /\ x.held = new /\ x.loads = more
  BY <1>3, <1>4, <1>5, WorldOf
<1>7. \A l \in Library : /\ p \notin Holders(w, l)
                         /\ Holders(x, l) = Holders(w, l) \cup IF l = h THEN {p} ELSE {}
  BY <1>1, <1>2, <1>3, <1>6 DEF Holders
<1>8. Counted(x, s)
  <2>1. CASE h = null
    <3>1. \A l \in Library : Holders(x, l) = Holders(w, l)
      BY <1>1, <1>7, <2>1
    <3>2. x.loads = w.loads
      BY <1>2, <1>6, <2>1
    <3>3. Counted(w, s)
      BY GoodWorld
    <3> QED
      BY <3>1, <3>2, <3>3 DEF Counted
  <2>2. CASE h # null
    <3>1. x.loads = [w.loads EXCEPT ![h] = @ + 1] /\ h \in Library
      BY <1>2, <1>6, <2>2
    <3>2. w \in Worlds /\ Counted(w, s)
      BY GoodWorld
    <3> QED
      BY <1>6, <1>7, <3>1, <3>2, HolderNew
  <2> QED
    BY <2>1, <2>2
<1>9. \A q \in Everywhere : x.held[q] \in a[q]
  BY <1>3, <1>6, GoodWorld
<1> QED
  BY <1>2, <1>6, <1>8, <1>9 DEF Good

\* A handle that is overwritten: its load is owed.
LEMMA ForgottenGood ==
  ASSUME NEW a, NEW s \in [Library -> Int], NEW w \in Good(a, s), NEW p \in Everywhere,
         w.held[p] \in Library, null \in a[p]
  PROVE  [w EXCEPT !.held[p] = null] \in Good(a, [s EXCEPT ![w.held[p]] = @ + 1])
<1>1. null \in Anything /\ null \notin Library
  BY ValuesAssumption DEF Anything
<1>2. PICK x, h, t, new : /\ x = [w EXCEPT !.held[p] = null] /\ h = w.held[p]
                          /\ t = [s EXCEPT ![h] = @ + 1] /\ new = [w.held EXCEPT ![p] = null]
  OBVIOUS
<1>3. new \in [Everywhere -> Anything] /\ \A q \in Everywhere : new[q] = IF q = p THEN null ELSE w.held[q]
  BY <1>1, <1>2, GoodWorld
<1>4. x = [held |-> new, loads |-> w.loads]
  BY <1>2, GoodWorld
<1>5. x \in Worlds /\ x.held = new /\ x.loads = w.loads
  BY <1>3, <1>4, GoodWorld, WorldOf
<1>6. ASSUME NEW l \in Library
      PROVE  /\ Holders(x, l) = Holders(w, l) \ {p} /\ t[l] \in Int
             /\ x.loads[l] - t[l] = w.loads[l] - s[l] - IF h = l THEN 1 ELSE 0
  <2>1. Holders(x, l) = Holders(w, l) \ {p}
    BY <1>1, <1>3, <1>5 DEF Holders
  <2>2. s[l] \in Int /\ w.loads[l] \in Int
    BY GoodWorld
  <2>3. t[l] = s[l] + IF h = l THEN 1 ELSE 0
    BY <1>2, <2>2
  <2> QED
    BY <1>5, <2>1, <2>2, <2>3
<1>7. Counted(x, t)
  <2>1. w \in Worlds /\ Counted(w, s) /\ h \in Library /\ h = w.held[p]
    BY <1>2, GoodWorld
  <2>2. \A l \in Library :
          /\ Holders(x, l) = Holders(w, l) \ {p} /\ t[l] \in Int
          /\ x.loads[l] - t[l] = w.loads[l] - s[l] - IF w.held[p] = l THEN 1 ELSE 0
    BY <1>6, <2>1
  <2> QED
    BY <1>5, <2>1, <2>2, HolderGone
<1>8. \A q \in Everywhere : x.held[q] \in a[q]
  BY <1>3, <1>5, GoodWorld
<1> QED
  BY <1>2, <1>5, <1>7, <1>8 DEF Good

\* dlclose of a handle that stays: it will be closed once more.
LEMMA ClosedGood ==
  ASSUME NEW a, NEW s \in [Library -> Int], NEW w \in Good(a, s), NEW p \in Everywhere,
         w.held[p] \in Library
  PROVE  close(w, p) \in Good(a, [s EXCEPT ![w.held[p]] = @ - 1])
<1>1. PICK x, h, t, fewer : /\ x = close(w, p) /\ h = w.held[p] /\ t = [s EXCEPT ![h] = @ - 1]
                            /\ fewer = [w.loads EXCEPT ![h] = @ - 1]
  OBVIOUS
<1>2. fewer \in [Library -> Int]
  BY <1>1, GoodWorld
<1>3. x = [held |-> w.held, loads |-> fewer]
  BY <1>1, GoodWorld DEF close
<1>4. x \in Worlds /\ x.held = w.held /\ x.loads = fewer
  BY <1>2, <1>3, GoodWorld, WorldOf
<1>5. ASSUME NEW l \in Library
      PROVE  IsFiniteSet(Holders(x, l)) /\ t[l] \in Int /\ x.loads[l] = Cardinality(Holders(x, l)) + t[l]
  <2>1. PICK c : c = Cardinality(Holders(w, l))
    OBVIOUS
  <2>2. /\ IsFiniteSet(Holders(w, l)) /\ w.loads[l] = c + s[l] /\ s[l] \in Int /\ w.loads[l] \in Int
        /\ Holders(x, l) = Holders(w, l)
    BY <1>4, <2>1, GoodWorld DEF Counted, Holders
  <2>3. c \in Nat
    BY <2>1, <2>2, FS_CardinalityType
  <2>4. /\ t[l] = IF h = l THEN s[l] - 1 ELSE s[l]
        /\ x.loads[l] = IF h = l THEN w.loads[l] - 1 ELSE w.loads[l]
    BY <1>1, <1>4, <2>2, GoodWorld
  <2>5. t[l] \in Int /\ x.loads[l] = c + t[l]
    BY <2>2, <2>3, <2>4
  <2> QED
    BY <2>1, <2>2, <2>5
<1>6. Counted(x, t)
  BY <1>5 DEF Counted
<1>7. \A q \in Everywhere : x.held[q] \in a[q]
  BY <1>4, GoodWorld
<1> QED
  BY <1>1, <1>4, <1>6, <1>7 DEF Good

-----------------------------------------------------------------------------
(* Operations on the elements of objects.                                   *)

Typed == class \in [Object -> Classes \cup {null}]

LEMMA LongestType ==
  /\ MaxSize \in Nat
  /\ \A k \in Classes : k.of \in Seq(Element) /\ Len(k.of) \in Nat /\ Len(k.of) <= MaxSize
<1> DEFINE sizes == {Len(k.of) : k \in Classes}
<1>1. PICK longest \in Classes : \A k \in Classes : Len(k.of) <= Len(longest.of)
  BY ClassesAssumption
<1>2. \A k \in Classes : k.of \in Seq(Element) /\ Len(k.of) \in Nat
  BY ClassesAssumption
<1>3. Len(longest.of) \in sizes /\ \A k \in Classes : Len(k.of) <= Len(longest.of)
  BY <1>1
<1>4. MaxSize \in sizes /\ \A k \in Classes : Len(k.of) <= MaxSize
  BY <1>3 DEF MaxSize
<1> QED
  BY <1>2, <1>4

LEMMA OfClass ==
  ASSUME Typed, NEW o \in Alive
  PROVE  /\ o \in Object /\ class[o] \in Classes /\ class[o] # null
         /\ Size(o) \in Nat /\ Size(o) <= MaxSize /\ Size(o) = Len(class[o].of)
         /\ \A i \in 1 .. Size(o) : class[o].of[i] \in Element
BY LongestType DEF Typed, Alive, Size

LEMMA PlacesOf ==
  ASSUME Typed, NEW o \in Alive, NEW i \in 1 .. Size(o)
  PROVE  /\ get(o, i) = <<o, i>> /\ Places(o)[i] = <<o, i>> /\ <<o, i>> \in Elements
         /\ Type(<<o, i>>) = class[o].of[i] /\ Type(<<o, i>>) \in Element
<1>1. /\ o \in Object /\ class[o] \in Classes /\ class[o] # null
      /\ Size(o) \in Nat /\ Size(o) <= MaxSize /\ Size(o) = Len(class[o].of)
      /\ \A j \in 1 .. Size(o) : class[o].of[j] \in Element
  BY OfClass
<1>2. i \in 1 .. MaxSize
  BY <1>1, LongestType
<1>3. get(o, i) = <<o, i>>
  <2>1. class[o].template = "Pair" => i = 1 \/ i = 2
    BY <1>1, ClassesAssumption
  <2> QED
    BY <2>1 DEF get, PairAt, TupleAt
<1>4. <<o, i>> \in Place /\ <<o, i>>[1] = o /\ <<o, i>>[2] = i
  BY <1>1, <1>2 DEF Place
<1>5. <<o, i>> \in Elements
  BY <1>1, <1>4 DEF Elements, IsElement
<1> QED
  BY <1>1, <1>3, <1>4, <1>5 DEF Type, Places

LEMMA ElementAllowed ==
  ASSUME Typed, NEW p \in Elements
  PROVE  /\ p \in Place /\ p \in Everywhere /\ p # temp /\ Part(class, p)
         /\ p[1] \in Alive /\ p[2] \in 1 .. Size(p[1])
         /\ Type(p) \in Element /\ Allowed(class)[p] = Content(Type(p))
<1>1. p \in Place /\ p[1] \in Object /\ class[p[1]] # null /\ p[2] \in 1 .. Size(p[1])
  BY DEF Elements, IsElement, Place
<1>2. p \in Everywhere /\ p # temp
  <2>1. p \in Object \X Nat
    BY <1>1, LongestType DEF Place
  <2> QED
    BY <1>1, <2>1, ValuesAssumption DEF Everywhere
<1>3. p[1] \in Alive
  BY <1>1 DEF Alive
<1>4. Part(class, p) /\ Type(p) = class[p[1]].of[p[2]]
  BY <1>1 DEF Part, Size, Type
<1>5. Type(p) \in Element
  BY <1>1, <1>3, <1>4, OfClass
<1>6. Allowed(class)[p] = Content(Type(p))
  BY <1>2, <1>4 DEF Allowed
<1> QED
  BY <1>1, <1>2, <1>3, <1>4, <1>5, <1>6

LEMMA NullAllowed ==
  ASSUME NEW c
  PROVE  /\ \A p \in Everywhere : null \in Allowed(c)[p]
         /\ temp \in Everywhere /\ Allowed(c)[temp] = {null}
         /\ null \in Anything /\ null \notin Library
<1>1. \A p \in Everywhere : null \in Allowed(c)[p]
  BY DEF Allowed, Content
<1>2. temp \notin Place
  BY LongestType, ValuesAssumption DEF Place
<1>3. temp \in Everywhere /\ Allowed(c)[temp] = {null}
  BY <1>2 DEF Everywhere, Allowed, Part
<1> QED
  BY <1>1, <1>3, ValuesAssumption DEF Anything

LEMMA Contents ==
  /\ Content("library") = Library \cup {null} /\ Content("text") = Text \cup {null}
  /\ Content("text") \cap Library = {}
BY ValuesAssumption DEF Content

LEMMA ConstructedGood ==
  ASSUME NEW a, NEW s, NEW w \in Good(a, s), NEW to \in Everywhere, NEW from \in Everywhere,
         a[to] = a[from], null \in a[from], NEW by,
         by = "move" => to # from /\ w.held[to] \notin Library,
         by # "move" => a[from] \cap Library = {}
  PROVE  Constructed(w, to, from, by) \in Good(a, s)
<1>1. CASE by = "move"
  BY <1>1, MovedGood DEF Constructed
<1>2. CASE by # "move"
  BY <1>2, CopiedGood DEF Constructed
<1> QED
  BY <1>1, <1>2

LEMMA AssignedGood ==
  ASSUME Typed, NEW s, NEW w \in Good(Allowed(class), s),
         NEW to \in Elements, NEW from \in Elements, Type(to) = Type(from), NEW by,
         by = "move" => to # from,
         by # "move" => Type(from) = "text"
  PROVE  Assigned(w, to, from, by) \in Good(Allowed(class), s)
<1>1. PICK a : a = Allowed(class)
  OBVIOUS
<1>2. /\ to \in Everywhere /\ from \in Everywhere
      /\ a[to] = a[from] /\ a[from] = Content(Type(from)) /\ Type(from) \in Element /\ null \in a[from]
  BY <1>1, ElementAllowed, NullAllowed
<1>3. w \in Good(a, s)
  BY <1>1
<1>4. CASE Type(from) = "library"
  <2>1. LibraryAssigned(w, to, from) \in Good(a, s)
    BY <1>2, <1>3, ExchangedGood DEF LibraryAssigned
  <2> QED
    BY <1>1, <1>4, <2>1 DEF Assigned
<1>5. CASE Type(from) # "library"
  <2>1. Type(from) = "text"
    BY <1>2, <1>5 DEF Element
  <2>2. a[from] \cap Library = {} /\ w.held[to] \notin Library
    BY <1>2, <1>3, <2>1, Contents, GoodWorld
  <2>3. Constructed(w, to, from, by) \in Good(a, s)
    BY <1>2, <1>3, <2>2, ConstructedGood
  <2> QED
    BY <1>1, <1>5, <2>3 DEF Assigned
<1> QED
  BY <1>4, <1>5

\* A temporary may hold what p may, until it is nothing again.
Lent(a, p) == [a EXCEPT ![temp] = a[p]]

LEMMA LentGood ==
  ASSUME Typed, NEW s, NEW p \in Elements, NEW w \in Good(Allowed(class), s)
  PROVE  /\ w \in Good(Lent(Allowed(class), p), s) /\ w.held[temp] = null
         /\ Lent(Allowed(class), p)[temp] = Allowed(class)[p]
         /\ \A q \in Everywhere : q # temp => Lent(Allowed(class), p)[q] = Allowed(class)[q]
<1>1. PICK a : a = Allowed(class)
  OBVIOUS
<1>2. temp \in Everywhere /\ DOMAIN a = Everywhere /\ a[temp] = {null} /\ null \in a[p] /\ p \in Everywhere
  BY <1>1, NullAllowed, ElementAllowed DEF Allowed
<1>3. Lent(a, p)[temp] = a[p] /\ \A q \in Everywhere : q # temp => Lent(a, p)[q] = a[q]
  BY <1>2 DEF Lent
<1>4. w.held[temp] = null
  BY <1>1, <1>2, GoodWorld
<1>5. w \in Good(Lent(a, p), s)
  BY <1>1, <1>2, <1>3, <1>4 DEF Good
<1> QED
  BY <1>1, <1>3, <1>4, <1>5

LEMMA GivenBack ==
  ASSUME Typed, NEW s, NEW p \in Elements, NEW w \in Good(Lent(Allowed(class), p), s),
         w.held[temp] = null
  PROVE  w \in Good(Allowed(class), s)
<1>1. PICK a : a = Allowed(class)
  OBVIOUS
<1>2. temp \in Everywhere /\ DOMAIN a = Everywhere /\ a[temp] = {null} /\ p \in Everywhere
  BY <1>1, NullAllowed, ElementAllowed DEF Allowed
<1>3. \A q \in Everywhere : q # temp => Lent(a, p)[q] = a[q]
  BY <1>2 DEF Lent
<1> QED
  BY <1>1, <1>2, <1>3 DEF Good

LEMMA SwappedGood ==
  ASSUME Typed, NEW s, NEW w \in Good(Allowed(class), s),
         NEW p \in Elements, NEW q \in Elements, Type(p) = Type(q)
  PROVE  Swapped(w, p, q) \in Good(Allowed(class), s)
<1>1. PICK a, b : a = Allowed(class) /\ b = Lent(Allowed(class), p)
  OBVIOUS
<1>2. /\ p \in Everywhere /\ q \in Everywhere /\ temp \in Everywhere
      /\ p # temp /\ q # temp /\ a[p] = a[q] /\ a[p] = Content(Type(p)) /\ null \in a[p]
  BY <1>1, ElementAllowed, NullAllowed
<1>3. CASE Type(p) = "library"
  <2>1. PICK w1, w2, w3 : /\ w1 = LibraryMoved(w, temp, p) /\ w2 = LibraryAssigned(w1, p, q)
                          /\ w3 = LibraryAssigned(w2, q, temp)
    OBVIOUS
  <2>2. /\ w \in Good(b, s) /\ w.held[temp] = null
        /\ b[temp] = a[p] /\ b[p] = a[p] /\ b[q] = a[p]
    BY <1>1, <1>2, LentGood
  <2>3. w1 \in Good(b, s)
    <3>1. w.held[temp] \notin Library /\ b[temp] = b[p] /\ null \in b[p]
      BY <1>2, <2>2, NullAllowed
    <3> QED
      BY <1>2, <2>1, <2>2, <3>1, MovedGood
  <2>4. w2 \in Good(b, s)
    BY <1>2, <2>1, <2>2, <2>3, ExchangedGood DEF LibraryAssigned
  <2>5. w3 \in Good(b, s)
    BY <1>2, <2>1, <2>2, <2>4, ExchangedGood DEF LibraryAssigned
  <2>6. LibraryDestroyed(w3, temp) \in Good(b, s)
    <3>1. w3.held[temp] \in Library \cup {null} /\ null \in b[temp]
      <4>1. w3.held[temp] \in b[temp]
        BY <1>2, <2>5, GoodWorld
      <4>2. b[temp] = Content("library")
        BY <1>2, <1>3, <2>2
      <4> QED
        BY <1>2, <2>2, <4>1, <4>2, Contents
    <3> QED
      BY <1>2, <2>5, <3>1, DroppedGood
  <2>7. LibraryDestroyed(w3, temp).held[temp] = null
    <3>1. w3.held \in [Everywhere -> Anything] /\ w3 = [held |-> w3.held, loads |-> w3.loads]
      BY <2>5, GoodWorld
    <3> QED
      BY <1>2, <3>1 DEF LibraryDestroyed, close
  <2>8. LibraryDestroyed(w3, temp) \in Good(a, s)
    BY <1>1, <2>6, <2>7, GivenBack
  <2> QED
    BY <1>1, <1>3, <2>1, <2>8 DEF Swapped
<1>4. CASE Type(p) # "library"
  BY <1>1, <1>2, <1>4, ExchangedGood DEF Swapped
<1> QED
  BY <1>3, <1>4

\* The end of an element: nothing is held there, and the rest is as it was.
LEMMA DroppedHolds ==
  ASSUME NEW a, NEW s, NEW w \in Good(a, s), NEW p \in Everywhere
  PROVE  /\ LibraryDestroyed(w, p).held = [w.held EXCEPT ![p] = null]
         /\ [w EXCEPT !.held[p] = null].held = [w.held EXCEPT ![p] = null]
<1>1. w = [held |-> w.held, loads |-> w.loads]
  BY GoodWorld
<1>2. PICK closed : closed = close(w, p)
  OBVIOUS
<1>3. closed.held = w.held /\ closed = [held |-> w.held, loads |-> closed.loads]
  BY <1>1, <1>2 DEF close
<1>4. [closed EXCEPT !.held[p] = null].held = [w.held EXCEPT ![p] = null]
  BY <1>3
<1>5. [w EXCEPT !.held[p] = null].held = [w.held EXCEPT ![p] = null]
  BY <1>1
<1> QED
  BY <1>2, <1>4, <1>5 DEF LibraryDestroyed

LEMMA EndedGood ==
  ASSUME Typed, NEW s, NEW w \in Good(Allowed(class), s), NEW p \in Elements
  PROVE  /\ ElementDestroyed(w, p) \in Good(Allowed(class), s)
         /\ ElementDestroyed(w, p).held = [w.held EXCEPT ![p] = null]
<1>1. PICK a : a = Allowed(class)
  OBVIOUS
<1>2. /\ p \in Everywhere /\ a[p] = Content(Type(p)) /\ Type(p) \in Element /\ null \in a[p]
      /\ null \in Anything /\ null \notin Library
  BY <1>1, ElementAllowed, NullAllowed
<1>3. w \in Good(a, s) /\ w.held[p] \in a[p]
  BY <1>1, <1>2, GoodWorld
<1>4. CASE Type(p) = "library"
  <2>1. w.held[p] \in Library \cup {null}
    BY <1>2, <1>3, <1>4, Contents
  <2>2. LibraryDestroyed(w, p) \in Good(a, s)
    BY <1>2, <1>3, <2>1, DroppedGood
  <2> QED
    BY <1>1, <1>2, <1>4, <2>2, DroppedHolds DEF ElementDestroyed
<1>5. CASE Type(p) # "library"
  <2>1. w.held[p] \notin Library
    BY <1>2, <1>3, <1>5, Contents DEF Element
  <2>2. [w EXCEPT !.held[p] = null] \in Good(a, s)
    BY <1>2, <1>3, <2>1, WrittenGood
  <2> QED
    BY <1>1, <1>2, <1>5, <2>2, DroppedHolds DEF ElementDestroyed
<1> QED
  BY <1>4, <1>5

LEMMA ConsumedGood ==
  ASSUME Typed, NEW s, NEW w \in Good(Allowed(class), s), NEW p \in Elements
  PROVE  Consumed(w, p) \in Good(Allowed(class), s)
<1>1. PICK a, b, w1 : a = Allowed(class) /\ b = Lent(Allowed(class), p) /\ w1 = LibraryMoved(w, temp, p)
  OBVIOUS
<1>2. /\ p \in Everywhere /\ temp \in Everywhere /\ p # temp
      /\ a[p] = Content(Type(p)) /\ Type(p) \in Element /\ null \in a[p]
      /\ null \in Anything /\ null \notin Library
  BY <1>1, ElementAllowed, NullAllowed
<1>3. w \in Good(b, s) /\ w.held[temp] = null /\ b[temp] = a[p] /\ b[p] = a[p]
  BY <1>1, <1>2, LentGood
<1>4. w1 \in Good(b, s)
  <2>1. w.held[temp] \notin Library /\ b[temp] = b[p] /\ null \in b[p]
    BY <1>2, <1>3
  <2> QED
    BY <1>1, <1>2, <1>3, <2>1, MovedGood
<1>5. w1.held \in [Everywhere -> Anything] /\ w1.held[temp] \in a[p]
  BY <1>2, <1>3, <1>4, GoodWorld
<1>6. Consumed(w, p) \in Good(b, s)
  <2>1. CASE Type(p) = "library"
    <3>1. w1.held[temp] \in Library \cup {null} /\ null \in b[temp]
      BY <1>2, <1>3, <1>5, <2>1, Contents
    <3>2. LibraryDestroyed(w1, temp) \in Good(b, s)
      BY <1>2, <1>4, <3>1, DroppedGood
    <3> QED
      BY <1>1, <2>1, <3>2 DEF Consumed
  <2>2. CASE Type(p) # "library"
    <3>1. w1.held[temp] \notin Library /\ null \in b[temp]
      BY <1>2, <1>3, <1>5, <2>2, Contents DEF Element
    <3>2. [w1 EXCEPT !.held[temp] = null] \in Good(b, s)
      BY <1>2, <1>4, <3>1, WrittenGood
    <3> QED
      BY <1>1, <2>2, <3>2 DEF Consumed
  <2> QED
    BY <2>1, <2>2
<1>7. Consumed(w, p).held = [w1.held EXCEPT ![temp] = null]
  BY <1>1, <1>2, <1>4, DroppedHolds DEF Consumed
<1>8. Consumed(w, p).held[temp] = null
  BY <1>2, <1>5, <1>7
<1> QED
  BY <1>1, <1>6, <1>8, GivenBack

\* The construction of an element changes where it is and what it is moved from.
LEMMA ConstructedElsewhere ==
  ASSUME NEW a, NEW s, NEW w \in Good(a, s), NEW to, NEW from, NEW by,
         NEW q \in Everywhere, q # to, q # from
  PROVE  Constructed(w, to, from, by).held[q] = w.held[q]
<1>1. PICK f, l, u, y : /\ f = w.held /\ l = w.loads /\ u = w.held[from]
                        /\ y = [w EXCEPT !.held[to] = u]
  OBVIOUS
<1>2. f \in [Everywhere -> Anything] /\ w = [held |-> f, loads |-> l]
  BY <1>1, GoodWorld
<1>3. y = [held |-> [f EXCEPT ![to] = u], loads |-> l]
  BY <1>1, <1>2
<1>4. y.held[q] = f[q]
  BY <1>2, <1>3
<1>5. LibraryMoved(w, to, from) = [y EXCEPT !.held[from] = null]
  BY <1>1 DEF LibraryMoved
<1>6. [y EXCEPT !.held[from] = null].held[q] = f[q]
  BY <1>2, <1>3
<1> QED
  BY <1>1, <1>4, <1>5, <1>6 DEF Constructed

LEMMA BegunGood ==
  ASSUME NEW a, NEW s, NEW w \in Good(a, s), NEW p \in Everywhere, w.held[p] = null,
         NEW type \in Element, a[p] = Content(type),
         NEW v \in IF type = "library" THEN Library \cup {null} ELSE Text
  PROVE  /\ Begun(w, p, type, v) \in Good(a, s)
         /\ \A q \in Everywhere : q # p => Begun(w, p, type, v).held[q] = w.held[q]
<1>1. w.held \in [Everywhere -> Anything] /\ w = [held |-> w.held, loads |-> w.loads] /\ null \notin Library
  BY GoodWorld, NullAllowed
<1>2. CASE type = "library"
  <2>1. v \in Library \cup {null} /\ v \in a[p]
    BY <1>2, Contents
  <2>2. open(w, p, v) \in Good(a, s)
    BY <2>1, OpenedGood
  <2>3. PICK y : y = [w EXCEPT !.held[p] = v]
    OBVIOUS
  <2>4. y = [held |-> [w.held EXCEPT ![p] = v], loads |-> w.loads]
    BY <1>1, <2>3
  <2>5. \A q \in Everywhere : q # p => y.held[q] = w.held[q] /\ [y EXCEPT !.loads[v] = @ + 1].held[q] = w.held[q]
    BY <1>1, <2>4
  <2> QED
    BY <1>2, <2>2, <2>3, <2>5 DEF Begun, open
<1>3. CASE type # "library"
  <2>1. type = "text" /\ v \in Text
    BY <1>3 DEF Element
  <2>2. v \in Anything /\ v \notin Library /\ v \in a[p]
    BY <2>1, Contents, ValuesAssumption DEF Anything
  <2>3. [w EXCEPT !.held[p] = v] \in Good(a, s)
    BY <1>1, <2>2, WrittenGood
  <2>4. \A q \in Everywhere : q # p => [w EXCEPT !.held[p] = v].held[q] = w.held[q]
    BY <1>1
  <2> QED
    BY <1>3, <2>3, <2>4 DEF Begun
<1> QED
  BY <1>2, <1>3

-----------------------------------------------------------------------------
(* The actions.                                                             *)

LEMMA SoundWorld ==
  ASSUME IInv
  PROVE  /\ Typed /\ owed \in [Library -> Int]
         /\ World \in Good(Allowed(class), owed)
<1>1. Typed /\ owed \in [Library -> Int] /\ World \in Good(Allowed(class), owed)
  BY DEF IInv, Sound, Typed, Part, Elements, IsElement, Size
<1> QED
  BY <1>1, ElementAllowed

LEMMA Worldly ==
  ASSUME NEW w \in Worlds, Becomes(w)
  PROVE  World' = w
BY DEF Becomes, World, Worlds

\* A change of the values of elements.
LEMMA ValuesChanged ==
  ASSUME IInv, NEW w \in Good(Allowed(class), owed), Becomes(w), UNCHANGED <<class, owed>>
  PROVE  IInv'
<1>1. World' = w
  BY GoodWorld, Worldly
<1>2. Sound(class, owed, w)
  BY DEF IInv, Sound
<1> QED
  BY <1>1, <1>2 DEF IInv

\* The object at o begins as one of class k.
Beginning(o, k) == [class EXCEPT ![o] = k]

LEMMA BeginsSound ==
  ASSUME IInv, NEW o \in Object \ Alive, NEW k \in Classes
  PROVE  /\ Sound(Beginning(o, k), owed, World)
         /\ World \in Good(Allowed(Beginning(o, k)), owed)
         /\ Len(k.of) \in Nat
         /\ \A i \in 1 .. Len(k.of) :
              /\ <<o, i>> \in Everywhere /\ held[<<o, i>>] = null
              /\ k.of[i] \in Element /\ Allowed(Beginning(o, k))[<<o, i>>] = Content(k.of[i])
         /\ \A p \in Elements : /\ p \in Everywhere /\ p[1] # o
                                /\ Allowed(Beginning(o, k))[p] = Content(Type(p))
<1>1. PICK c : c = Beginning(o, k)
  OBVIOUS
<1>2. Typed /\ owed \in [Library -> Int] /\ World \in Good(Allowed(class), owed)
  BY SoundWorld
<1>3. c \in [Object -> Classes \cup {null}] /\ c[o] = k /\ \A x \in Object : x # o => c[x] = class[x]
  BY <1>1, <1>2 DEF Typed, Beginning
<1>4. Len(k.of) \in Nat /\ k.of \in Seq(Element) /\ Len(k.of) <= MaxSize /\ MaxSize \in Nat
  BY LongestType
<1>5. k # null /\ class[o] = null
  BY ValuesAssumption DEF Alive
<1>6. ASSUME NEW p \in Elements
      PROVE  p \in Everywhere /\ p[1] # o /\ Allowed(c)[p] = Content(Type(p)) /\ Part(c, p) /\ p \in Place
  <2>1. /\ p \in Place /\ p \in Everywhere /\ Part(class, p) /\ p[1] \in Alive
        /\ Allowed(class)[p] = Content(Type(p))
    BY <1>2, ElementAllowed
  <2>2. p[1] # o /\ p[1] \in Object
    BY <2>1 DEF Alive
  <2>3. c[p[1]] = class[p[1]]
    BY <1>3, <2>2
  <2>4. Part(c, p)
    BY <2>1, <2>3 DEF Part
  <2>5. Allowed(c)[p] = Allowed(class)[p]
    BY <2>1, <2>3, <2>4 DEF Allowed
  <2> QED
    BY <2>1, <2>2, <2>4, <2>5
<1>7. ASSUME NEW i \in 1 .. Len(k.of)
      PROVE  /\ <<o, i>> \in Everywhere /\ held[<<o, i>>] = null
             /\ k.of[i] \in Element /\ Allowed(c)[<<o, i>>] = Content(k.of[i])
  <2>1. PICK p : p = <<o, i>>
    OBVIOUS
  <2>2. p \in Place /\ p \in Everywhere /\ p[1] = o /\ p[2] = i
    BY <1>4, <2>1 DEF Place, Everywhere
  <2>4. ~ Part(class, p) /\ Part(c, p)
    BY <1>3, <1>5, <2>2 DEF Part
  <2>5. Allowed(class)[p] = {null} /\ Allowed(c)[p] = Content(k.of[i])
    BY <1>3, <2>2, <2>4 DEF Allowed
  <2>6. held[p] = null
    BY <1>2, <2>2, <2>5, GoodWorld DEF World
  <2>7. k.of[i] \in Element
    BY <1>4
  <2> QED
    BY <2>1, <2>2, <2>5, <2>6, <2>7
<1>8. World \in Good(Allowed(c), owed)
  <2>1. ASSUME NEW q \in Everywhere PROVE World.held[q] \in Allowed(c)[q]
    <3>1. World.held[q] \in Allowed(class)[q]
      BY <1>2, GoodWorld
    <3>2. CASE q \in Elements
      <4>1. Allowed(class)[q] = Content(Type(q)) /\ Allowed(c)[q] = Content(Type(q))
        BY <1>2, <1>6, <3>2, ElementAllowed
      <4> QED
        BY <3>1, <4>1
    <3>3. CASE q \notin Elements
      <4>1. ~ Part(class, q)
        BY <3>3 DEF Part, Elements, IsElement, Size
      <4>2. World.held[q] = null
        BY <3>1, <4>1 DEF Allowed
      <4> QED
        BY <4>2, NullAllowed
    <3> QED
      BY <3>2, <3>3
  <2> QED
    BY <1>2, <2>1 DEF Good
<1>9. Sound(c, owed, World)
  BY <1>2, <1>3, <1>6, <1>8 DEF Sound
<1> QED
  BY <1>1, <1>4, <1>6, <1>7, <1>8, <1>9

\* The places of a new object of class k that the first i elements left empty.
Filling(o, k, i) ==
  {x \in Good(Allowed(Beginning(o, k)), owed) : \A j \in i + 1 .. Len(k.of) : x.held[<<o, j>>] = null}

LEMMA BegunSound ==
  ASSUME IInv, NEW o \in Object \ Alive, NEW k \in Classes,
         NEW w \in Good(Allowed(Beginning(o, k)), owed),
         class' = Beginning(o, k), owed' = owed, Becomes(w)
  PROVE  IInv'
<1>1. World' = w
  BY GoodWorld, Worldly
<1>2. Sound(class', owed', w)
  BY BeginsSound DEF Sound
<1> QED
  BY <1>1, <1>2 DEF IInv

LEMMA MakeNewSound ==
  ASSUME IInv, NEW o \in Object \ Alive, NEW k \in Classes, NEW values \in Initial(k),
         MakeNew(o, k, values)
  PROVE  IInv'
<1> DEFINE Goal == [i \in 0 .. Len(k.of) |-> Filling(o, k, i)]
<1>1. PICK a : a = Allowed(Beginning(o, k))
  OBVIOUS
<1>2. /\ World \in Good(a, owed) /\ Len(k.of) \in Nat
      /\ \A i \in 1 .. Len(k.of) :
              /\ <<o, i>> \in Everywhere /\ held[<<o, i>>] = null
              /\ k.of[i] \in Element /\ a[<<o, i>>] = Content(k.of[i])
  BY <1>1, BeginsSound
<1>3. World \in Goal[0]
  BY <1>1, <1>2 DEF Filling, World
<1>4. ASSUME NEW i \in 1 .. Len(k.of), NEW x \in Goal[i - 1]
      PROVE  Begun(x, <<o, i>>, k.of[i], values[i]) \in Goal[i]
  <2>1. PICK p, y : p = <<o, i>> /\ y = Begun(x, <<o, i>>, k.of[i], values[i])
    OBVIOUS
  <2>2. i - 1 \in 0 .. Len(k.of) /\ i \in 0 .. Len(k.of) /\ i - 1 + 1 = i /\ i \in i .. Len(k.of)
    BY <1>2
  <2>3. x \in Good(a, owed) /\ \A j \in i .. Len(k.of) : x.held[<<o, j>>] = null
    BY <1>1, <2>2 DEF Filling
  <2>4. values[i] \in IF k.of[i] = "library" THEN Library \cup {null} ELSE Text
    <3>1. i \in DOMAIN values
      BY LongestType DEF Initial
    <3> QED
      BY <3>1 DEF Initial
  <2>5. /\ y \in Good(a, owed)
        /\ \A q \in Everywhere : q # p => y.held[q] = x.held[q]
    BY <1>2, <2>1, <2>2, <2>3, <2>4, BegunGood
  <2>6. ASSUME NEW j \in i + 1 .. Len(k.of) PROVE y.held[<<o, j>>] = null
    <3>1. j \in i .. Len(k.of) /\ j # i /\ j \in 1 .. Len(k.of)
      BY <1>2
    <3> QED
      BY <1>2, <2>1, <2>3, <2>5, <3>1
  <2> QED
    BY <1>1, <2>1, <2>2, <2>5, <2>6 DEF Filling
<1>5. AllBegun(World, o, k, values) \in Goal[Len(k.of)]
  <2> HIDE DEF Goal
  <2> QED
    BY <1>2, <1>3, <1>4, EachBegun
<1>6. AllBegun(World, o, k, values) \in Good(Allowed(Beginning(o, k)), owed)
  BY <1>2, <1>5 DEF Filling
<1> QED
  BY <1>6, BegunSound DEF MakeNew, Begins, Quiet, Beginning

LEMMA MakeSound ==
  ASSUME IInv, NEW o \in Object \ Alive, NEW k \in Classes, NEW from, NEW by \in Ways,
         Make(o, k, from, by)
  PROVE  IInv'
<1> DEFINE Goal == [i \in 0 .. Len(k.of) |-> Filling(o, k, i)]
<1>1. PICK a, n, to : a = Allowed(Beginning(o, k)) /\ n = Len(k.of) /\ to = [i \in DOMAIN from |-> <<o, i>>]
  OBVIOUS
<1>2. /\ World \in Good(a, owed) /\ n \in Nat
      /\ \A i \in 1 .. n :
              /\ <<o, i>> \in Everywhere /\ held[<<o, i>>] = null
              /\ k.of[i] \in Element /\ a[<<o, i>>] = Content(k.of[i])
      /\ \A p \in Elements : p \in Everywhere /\ p[1] # o /\ a[p] = Content(Type(p))
  BY <1>1, BeginsSound
<1>3. DOMAIN from = 1 .. n /\ \A i \in 1 .. n : k.of[i] = Type(from[i]) /\ from[i] \in Elements
  <2>1. k.of = [i \in DOMAIN from |-> Type(from[i])] /\ \A i \in DOMAIN from : from[i] \in Elements
    BY DEF Make, AreElements
  <2>2. DOMAIN k.of = 1 .. n
    BY <1>1, LongestType
  <2>3. DOMAIN from = 1 .. n
    BY <2>1, <2>2
  <2> QED
    BY <2>1, <2>3
<1>4. Len(to) = n /\ \A i \in 1 .. n : to[i] = <<o, i>>
  BY <1>1, <1>2, <1>3
<1>5. World \in Goal[0]
  BY <1>1, <1>2 DEF Filling, World
<1>6. ASSUME NEW i \in 1 .. n, NEW x \in Goal[i - 1]
      PROVE  Constructed(x, to[i], from[i], by) \in Goal[i]
  <2>1. PICK p, q, y : p = to[i] /\ q = from[i] /\ y = Constructed(x, p, q, by)
    OBVIOUS
  <2>2. i - 1 \in 0 .. n /\ i \in 0 .. n /\ i - 1 + 1 = i /\ i \in i .. n
    BY <1>2
  <2>3. x \in Good(a, owed) /\ \A j \in i .. n : x.held[<<o, j>>] = null
    BY <1>1, <2>2 DEF Filling
  <2>4. /\ p = <<o, i>> /\ p \in Everywhere /\ q \in Everywhere /\ q[1] # o /\ p # q
        /\ a[p] = Content(Type(q)) /\ a[q] = Content(Type(q)) /\ null \in a[q] /\ x.held[p] \notin Library
    <3>1. p = <<o, i>> /\ q \in Elements
      BY <1>3, <1>4, <2>1
    <3>2. p \in Everywhere /\ q \in Everywhere /\ q[1] # o
      BY <1>2, <3>1
    <3>3. a[p] = Content(Type(q)) /\ a[q] = Content(Type(q)) /\ null \in a[q]
      BY <1>1, <1>2, <1>3, <2>1, <3>1, <3>2, NullAllowed
    <3>4. x.held[p] \notin Library
      BY <2>2, <2>3, <3>1, NullAllowed
    <3> QED
      BY <3>1, <3>2, <3>3, <3>4
  <2>5. by # "move" => a[q] \cap Library = {}
    <3>1. i \in DOMAIN k.of
      BY <1>1, LongestType
    <3>2. by # "move" => k.of[i] = "text"
      BY <3>1 DEF Make, Copyable, Ways
    <3> QED
      BY <1>3, <2>1, <2>4, <3>2, Contents
  <2>6. y \in Good(a, owed)
    BY <2>1, <2>3, <2>4, <2>5, ConstructedGood
  <2>7. ASSUME NEW j \in i + 1 .. n PROVE y.held[<<o, j>>] = null
    <3>1. j \in i .. n /\ j # i /\ j \in 1 .. n
      BY <1>2
    <3>2. PICK r : r = <<o, j>>
      OBVIOUS
    <3>3. r \in Everywhere /\ r # p /\ r # q
      BY <1>2, <2>4, <3>1, <3>2
    <3>4. y.held[r] = x.held[r]
      BY <2>1, <2>3, <3>3, ConstructedElsewhere
    <3> QED
      BY <2>3, <3>1, <3>2, <3>4
  <2>8. y \in Filling(o, k, i)
    BY <1>1, <2>6, <2>7 DEF Filling
  <2> QED
    BY <1>1, <2>1, <2>2, <2>8
<1>7. AllConstructed(World, to, from, by) \in Goal[n]
  <2> HIDE DEF Goal
  <2> QED
    BY <1>2, <1>4, <1>5, <1>6, EachConstructed
<1>8. AllConstructed(World, to, from, by) \in Good(Allowed(Beginning(o, k)), owed)
  BY <1>1, <1>2, <1>7 DEF Filling
<1> QED
  BY <1>1, <1>8, BegunSound DEF Make, Begins, Quiet, Beginning

LEMMA BeginSound ==
  ASSUME IInv, NEW o \in Object \ Alive, Begin(o)
  PROVE  IInv'
<1>1. CASE \E k \in Classes : \E values \in Initial(k) : MakeNew(o, k, values)
  BY <1>1, MakeNewSound
<1>2. CASE \E k \in Classes :
             /\ Len(k.of) <= MaxArguments
             /\ \E from \in [DOMAIN k.of -> Elements], by \in Ways : Make(o, k, from, by)
  BY <1>2, MakeSound
<1>3. CASE \E from \in Alive, by \in Ways : Construct(o, from, by)
  <2>1. PICK from \in Alive, by \in Ways : Make(o, class[from], Places(from), by)
    BY <1>3 DEF Construct
  <2>2. class[from] \in Classes
    BY SoundWorld, OfClass
  <2> QED
    BY <2>1, <2>2, MakeSound
<1>4. CASE \E from \in Alive, k \in Classes : Convert(o, k, from)
  BY <1>4, MakeSound DEF Convert, Ways
<1>5. CASE \E k \in Classes, n \in 2 .. 3 : \E parts \in [1 .. n -> TupleLike] : Concatenate(o, k, parts)
  BY <1>5, MakeSound DEF Concatenate, Ways
<1> QED
  BY <1>1, <1>2, <1>3, <1>4, <1>5 DEF Begin

\* The elements of usable objects.
LEMMA PlacesOfElements ==
  ASSUME IInv, NEW o \in Alive, NEW i \in 1 .. Size(o)
  PROVE  /\ Places(o)[i] = <<o, i>> /\ get(o, i) = <<o, i>> /\ <<o, i>> \in Elements
         /\ Type(<<o, i>>) = class[o].of[i]
BY SoundWorld, PlacesOf

LEMMA AliveLength ==
  ASSUME IInv, NEW o \in Alive
  PROVE  /\ Size(o) \in Nat /\ Size(o) = Len(class[o].of) /\ DOMAIN class[o].of = 1 .. Size(o)
         /\ Len(Places(o)) = Size(o) /\ class[o] \in Classes
         /\ class[o].template = "Pair" => Size(o) = 2
<1>1. /\ class[o] \in Classes /\ Size(o) \in Nat /\ Size(o) = Len(class[o].of)
  BY SoundWorld, OfClass
<1>2. DOMAIN class[o].of = 1 .. Size(o)
  BY <1>1, LongestType
<1>3. Len(Places(o)) = Size(o)
  BY <1>1 DEF Places
<1> QED
  BY <1>1, <1>2, <1>3, ClassesAssumption

LEMMA AssignSound ==
  ASSUME IInv, NEW to \in Alive, NEW from \in Alive, NEW by \in Ways, Assign(to, from, by)
  PROVE  IInv'
<1> DEFINE Goal == [i \in 0 .. Size(to) |-> Good(Allowed(class), owed)]
           P == Places(to)
           Q == Places(from)
<1>1. Typed /\ World \in Good(Allowed(class), owed)
  BY SoundWorld
<1>2. PICK n : n = Size(to)
  OBVIOUS
<1>3. n \in Nat /\ n = Size(from) /\ Len(P) = n /\ (class[to].template = "Pair" => n = 2)
  BY <1>2, AliveLength DEF Assign, Size
<1>4. ASSUME NEW i \in 1 .. n, NEW x \in Good(Allowed(class), owed)
      PROVE  Assigned(x, P[i], Q[i], by) \in Good(Allowed(class), owed)
  <2>1. PICK p, q : p = P[i] /\ q = Q[i]
    OBVIOUS
  <2>2. /\ p = <<to, i>> /\ p \in Elements /\ Type(p) = class[to].of[i]
        /\ q = <<from, i>> /\ q \in Elements /\ Type(q) = class[from].of[i]
    <3>1. i \in 1 .. Size(to) /\ i \in 1 .. Size(from)
      BY <1>2, <1>3 DEF Assign
    <3>2. p = <<to, i>> /\ p \in Elements /\ Type(p) = class[to].of[i]
      BY <2>1, <3>1, PlacesOfElements
    <3>3. q = <<from, i>> /\ q \in Elements /\ Type(q) = class[from].of[i]
      BY <2>1, <3>1, PlacesOfElements
    <3> QED
      BY <3>2, <3>3
  <2>3. Type(p) = Type(q)
    BY <2>2 DEF Assign
  <2>4. by = "move" => p # q
    BY <2>2 DEF Assign
  <2>5. by # "move" => Type(q) = "text"
    <3>1. i \in DOMAIN class[from].of
      BY <1>3, AliveLength
    <3> QED
      BY <2>2, <3>1 DEF Assign, Ways, Copyable
  <2> QED
    BY <1>1, <2>1, <2>2, <2>3, <2>4, <2>5, AssignedGood
<1> HIDE DEF P, Q
<1>5. TupleAssigned(World, P, Q, by) \in Good(Allowed(class), owed)
  <2>1. World \in Goal[0] /\ \A i \in 1 .. n : \A x \in Goal[i - 1] : Assigned(x, P[i], Q[i], by) \in Goal[i]
    BY <1>1, <1>2, <1>3, <1>4
  <2>2. Goal[n] = Good(Allowed(class), owed)
    BY <1>2, <1>3
  <2> HIDE DEF Goal
  <2>3. TupleAssigned(World, P, Q, by) \in Goal[n]
    BY <1>3, <2>1, EachAssigned
  <2> QED
    BY <2>2, <2>3
<1>6. class[to].template = "Pair" => PairAssigned(World, P, Q, by) \in Good(Allowed(class), owed)
  BY <1>1, <1>3, <1>4 DEF PairAssigned
<1>7. ObjectAssigned(to, from, by) \in Good(Allowed(class), owed)
  BY <1>5, <1>6 DEF ObjectAssigned, P, Q
<1> QED
  BY <1>7, ValuesChanged DEF Assign, Quiet

LEMMA TieAssignSound ==
  ASSUME IInv, NEW from \in Alive, NEW to \in [1 .. Size(from) -> Elements], NEW by \in Ways,
         TieAssign(to, from, by)
  PROVE  IInv'
<1> DEFINE Goal == [i \in 0 .. Size(from) |-> Good(Allowed(class), owed)]
           Q == Places(from)
<1>1. Typed /\ World \in Good(Allowed(class), owed)
  BY SoundWorld
<1>2. PICK n : n = Size(from)
  OBVIOUS
<1>3. n \in Nat /\ Len(to) = n /\ DOMAIN to = 1 .. n
  BY <1>2, AliveLength
<1>4. ASSUME NEW i \in 1 .. n, NEW x \in Good(Allowed(class), owed)
      PROVE  Assigned(x, to[i], Q[i], by) \in Good(Allowed(class), owed)
  <2>1. PICK p, q : p = to[i] /\ q = Q[i]
    OBVIOUS
  <2>2. /\ p \in Elements
        /\ q = <<from, i>> /\ q = get(from, i) /\ q \in Elements /\ Type(q) = class[from].of[i]
    <3>1. AreElements(to) /\ i \in DOMAIN to
      BY <1>3 DEF TieAssign
    <3>2. p \in Elements
      BY <2>1, <3>1 DEF AreElements
    <3> QED
      BY <1>2, <2>1, <3>2, PlacesOfElements
  <2>3. Type(p) = Type(q)
    BY <1>3, <2>1, <2>2 DEF TieAssign
  <2>4. by = "move" => p # q
    BY <1>3, <2>1, <2>2 DEF TieAssign
  <2>5. by # "move" => Type(q) = "text"
    <3>1. i \in DOMAIN class[from].of
      BY <1>2, AliveLength
    <3> QED
      BY <2>2, <3>1 DEF TieAssign, Ways, Copyable
  <2> QED
    BY <1>1, <2>1, <2>2, <2>3, <2>4, <2>5, AssignedGood
<1> HIDE DEF Q
<1>5. TupleAssigned(World, to, Q, by) \in Good(Allowed(class), owed)
  <2>1. World \in Goal[0] /\ \A i \in 1 .. n : \A x \in Goal[i - 1] : Assigned(x, to[i], Q[i], by) \in Goal[i]
    BY <1>1, <1>2, <1>3, <1>4
  <2>2. Goal[n] = Good(Allowed(class), owed)
    BY <1>2, <1>3
  <2> HIDE DEF Goal
  <2>3. TupleAssigned(World, to, Q, by) \in Goal[n]
    BY <1>3, <2>1, EachAssigned
  <2> QED
    BY <2>2, <2>3
<1> QED
  BY <1>5, ValuesChanged DEF TieAssign, Quiet, Q

LEMMA SwapSound ==
  ASSUME IInv, NEW o1 \in Alive, NEW o2 \in Alive, Swap(o1, o2)
  PROVE  IInv'
<1> DEFINE Goal == [i \in 0 .. Size(o1) |-> Good(Allowed(class), owed)]
           P == Places(o1)
           Q == Places(o2)
<1>1. Typed /\ World \in Good(Allowed(class), owed)
  BY SoundWorld
<1>2. PICK n : n = Size(o1)
  OBVIOUS
<1>3. n \in Nat /\ n = Size(o2) /\ Len(P) = n /\ (class[o1].template = "Pair" => n = 2)
  BY <1>2, AliveLength DEF Swap, Size
<1>4. ASSUME NEW i \in 1 .. n, NEW x \in Good(Allowed(class), owed)
      PROVE  Swapped(x, P[i], Q[i]) \in Good(Allowed(class), owed)
  <2>1. PICK p, q : p = P[i] /\ q = Q[i]
    OBVIOUS
  <2>2. /\ p \in Elements /\ Type(p) = class[o1].of[i]
        /\ q \in Elements /\ Type(q) = class[o2].of[i]
    <3>1. i \in 1 .. Size(o1) /\ i \in 1 .. Size(o2)
      BY <1>2, <1>3 DEF Swap
    <3>2. p = <<o1, i>> /\ p \in Elements /\ Type(p) = class[o1].of[i]
      BY <2>1, <3>1, PlacesOfElements
    <3>3. q = <<o2, i>> /\ q \in Elements /\ Type(q) = class[o2].of[i]
      BY <2>1, <3>1, PlacesOfElements
    <3> QED
      BY <3>2, <3>3
  <2>3. Type(p) = Type(q)
    BY <2>2 DEF Swap
  <2> QED
    BY <1>1, <2>1, <2>2, <2>3, SwappedGood
<1> HIDE DEF P, Q
<1>5. TupleSwapped(World, P, Q) \in Good(Allowed(class), owed)
  <2>1. World \in Goal[0] /\ \A i \in 1 .. n : \A x \in Goal[i - 1] : Swapped(x, P[i], Q[i]) \in Goal[i]
    BY <1>1, <1>2, <1>3, <1>4
  <2>2. Goal[n] = Good(Allowed(class), owed)
    BY <1>2, <1>3
  <2> HIDE DEF Goal
  <2>3. TupleSwapped(World, P, Q) \in Goal[n]
    BY <1>3, <2>1, EachSwapped
  <2> QED
    BY <2>2, <2>3
<1>6. class[o1].template = "Pair" => PairSwapped(World, P, Q) \in Good(Allowed(class), owed)
  BY <1>1, <1>3, <1>4 DEF PairSwapped
<1>7. ObjectsSwapped(o1, o2) \in Good(Allowed(class), owed)
  BY <1>5, <1>6 DEF ObjectsSwapped, P, Q
<1> QED
  BY <1>7, ValuesChanged DEF Swap, Quiet

LEMMA CallSound ==
  ASSUME IInv, NEW o \in Alive, NEW by, NEW args, Call(o, by, args)
  PROVE  IInv'
<1> DEFINE Goal == [i \in 0 .. Size(o) |-> Good(Allowed(class), owed)]
<1>1. Typed /\ World \in Good(Allowed(class), owed)
  BY SoundWorld
<1>2. PICK n : n = Size(o)
  OBVIOUS
<1>3. n \in Nat
  BY <1>2, AliveLength
<1>4. AllConsumed(World, o) \in Good(Allowed(class), owed)
  <2>1. ASSUME NEW i \in 1 .. n, NEW x \in Good(Allowed(class), owed)
        PROVE  Consumed(x, get(o, i)) \in Good(Allowed(class), owed)
    <3>1. PICK p : p = get(o, i)
      OBVIOUS
    <3>2. p \in Elements
      BY <1>2, <3>1, PlacesOfElements DEF Call
    <3> QED
      BY <1>1, <3>1, <3>2, ConsumedGood
  <2>2. World \in Goal[0] /\ \A i \in 1 .. n : \A x \in Goal[i - 1] : Consumed(x, get(o, i)) \in Goal[i]
    BY <1>1, <1>2, <1>3, <2>1
  <2>3. Goal[n] = Good(Allowed(class), owed)
    BY <1>2, <1>3
  <2> HIDE DEF Goal
  <2>4. AllConsumed(World, o) \in Goal[n]
    BY <1>2, <1>3, <2>2, EachConsumed
  <2> QED
    BY <2>3, <2>4
<1>5. PICK w : w = IF by = "move" THEN AllConsumed(World, o) ELSE World
  OBVIOUS
<1>6. w \in Good(Allowed(class), owed) /\ Becomes(w)
  BY <1>1, <1>4, <1>5 DEF Call
<1> QED
  BY <1>6, ValuesChanged DEF Call

\* The places of an object whose last i elements are gone.
Emptying(o, i) ==
  {x \in Good(Allowed(class), owed) :
     \A j \in Size(o) + 1 - i .. Size(o) : x.held[<<o, j>>] = null}

LEMMA DestroySound ==
  ASSUME IInv, NEW o \in Alive, Destroy(o)
  PROVE  IInv'
<1> DEFINE Goal == [i \in 0 .. Size(o) |-> Emptying(o, i)]
<1>1. Typed /\ owed \in [Library -> Int] /\ World \in Good(Allowed(class), owed)
  BY SoundWorld
<1>2. PICK n, c, w : n = Size(o) /\ c = [class EXCEPT ![o] = null] /\ w = AllDestroyed(World, o)
  OBVIOUS
<1>3. n \in Nat /\ o \in Object /\ n = Len(class[o].of)
  BY <1>1, <1>2, OfClass
<1>4. ASSUME NEW i \in 1 .. n, NEW x \in Goal[i - 1]
      PROVE  ElementDestroyed(x, get(o, Size(o) + 1 - i)) \in Goal[i]
  <2>1. PICK m, p, y : m = n + 1 - i /\ p = <<o, m>> /\ y = ElementDestroyed(x, p)
    OBVIOUS
  <2>2. m \in 1 .. n /\ n + 1 - (i - 1) = m + 1 /\ i - 1 \in 0 .. n /\ i \in 0 .. n
    BY <1>3, <2>1
  <2>3. x \in Good(Allowed(class), owed) /\ \A j \in m + 1 .. n : x.held[<<o, j>>] = null
    BY <1>2, <2>2 DEF Emptying
  <2>4. p = get(o, m) /\ p \in Elements
    BY <1>2, <2>1, <2>2, PlacesOfElements DEF Destroy
  <2>5. y \in Good(Allowed(class), owed) /\ y.held = [x.held EXCEPT ![p] = null]
    BY <1>1, <2>1, <2>3, <2>4, EndedGood
  <2>6. ASSUME NEW j \in m .. n PROVE y.held[<<o, j>>] = null
    <3>1. PICK q : q = <<o, j>>
      OBVIOUS
    <3>2. q \in Everywhere
      <4>1. j \in 1 .. Size(o)
        BY <1>2, <1>3, <2>2
      <4>2. q \in Elements
        BY <1>1, <3>1, <4>1, PlacesOf
      <4> QED
        BY <1>1, <4>2, ElementAllowed
    <3>3. x.held \in [Everywhere -> Anything]
      BY <2>3, GoodWorld
    <3>4. CASE j = m
      BY <2>1, <2>5, <3>1, <3>2, <3>3, <3>4
    <3>5. CASE j # m
      <4>1. j \in m + 1 .. n /\ q # p
        BY <1>3, <2>1, <2>2, <3>1, <3>5
      <4>2. x.held[q] = null
        BY <2>3, <3>1, <4>1
      <4> QED
        BY <2>5, <3>1, <3>2, <3>3, <4>1, <4>2
    <3> QED
      BY <3>4, <3>5
  <2>7. y \in Emptying(o, i)
    BY <1>2, <2>1, <2>5, <2>6 DEF Emptying
  <2> QED
    BY <1>2, <2>1, <2>2, <2>4, <2>7
<1>5. World \in Goal[0]
  BY <1>1, <1>2, <1>3 DEF Emptying
<1>6. w \in Emptying(o, n)
  <2>1. Goal[n] = Emptying(o, n)
    BY <1>2, <1>3
  <2>2. \A i \in 1 .. n : \A x \in Goal[i - 1] : ElementDestroyed(x, get(o, Size(o) + 1 - i)) \in Goal[i]
    BY <1>4
  <2> HIDE DEF Goal
  <2>3. AllDestroyed(World, o) \in Goal[n]
    BY <1>2, <1>3, <1>5, <2>2, EachDestroyed
  <2> QED
    BY <1>2, <2>1, <2>3
<1>7. w \in Good(Allowed(class), owed) /\ \A j \in 1 .. n : w.held[<<o, j>>] = null
  <2>1. Size(o) + 1 - n = 1
    BY <1>2, <1>3
  <2> QED
    BY <1>2, <1>6, <2>1 DEF Emptying
<1>8. c \in [Object -> Classes \cup {null}] /\ c[o] = null /\ \A x \in Object : x # o => c[x] = class[x]
  BY <1>1, <1>2, <1>3 DEF Typed
<1>9. w \in Good(Allowed(c), owed)
  <2>1. ASSUME NEW q \in Everywhere PROVE w.held[q] \in Allowed(c)[q]
    <3>1. w.held[q] \in Allowed(class)[q]
      BY <1>7, GoodWorld
    <3>2. CASE q \in Elements /\ q[1] # o
      <4>1. q \in Place /\ q[1] \in Object /\ Part(class, q)
        BY <1>1, <3>2, ElementAllowed DEF Alive
      <4>2. Part(c, q) /\ c[q[1]] = class[q[1]]
        BY <1>8, <3>2, <4>1 DEF Part
      <4> QED
        BY <3>1, <4>1, <4>2 DEF Allowed
    <3>3. CASE q \in Elements /\ q[1] = o
      <4>1. q \in Place /\ q[2] \in 1 .. n
        BY <1>1, <1>2, <3>3, ElementAllowed
      <4>2. q = <<o, q[2]>>
        BY <3>3, <4>1 DEF Place
      <4>3. w.held[q] = null
        BY <1>7, <4>1, <4>2
      <4> QED
        BY <4>3, NullAllowed
    <3>4. CASE q \notin Elements
      <4>1. ~ Part(class, q)
        BY <3>4 DEF Part, Elements, IsElement, Size
      <4>2. w.held[q] = null
        BY <3>1, <4>1 DEF Allowed
      <4> QED
        BY <4>2, NullAllowed
    <3> QED
      BY <3>2, <3>3, <3>4
  <2> QED
    BY <1>7, <2>1 DEF Good
<1>10. World' = w /\ class' = c /\ owed' = owed
  BY <1>2, <1>7, GoodWorld, Worldly DEF Destroy, Quiet
<1>11. Sound(c, owed, w)
  BY <1>1, <1>8, <1>9 DEF Sound
<1> QED
  BY <1>10, <1>11 DEF IInv

LEMMA ChangeSound ==
  ASSUME IInv, NEW o \in Alive, Change(o)
  PROVE  IInv'
<1>1. CASE \E from \in Alive, by \in Ways : Assign(o, from, by)
  BY <1>1, AssignSound
<1>2. CASE \E other \in Alive : Swap(o, other)
  BY <1>2, SwapSound
<1>3. CASE \E by \in Ways :
             /\ Size(o) <= MaxArguments
             /\ \E to \in [1 .. Size(o) -> Elements] : TieAssign(to, o, by)
  BY <1>3, TieAssignSound
<1>4. CASE \E by \in {"reference", "move"} :
             \/ apply(o, by)
             \/ \E args \in {<<>>} \cup {<<t>> : t \in Text} : CallFront(o, by, args) \/ CallBack(o, by, args)
  <2>1. \E by, args : Call(o, by, args)
    BY <1>4 DEF apply, CallFront, CallBack
  <2> QED
    BY <2>1, CallSound
<1>5. CASE Destroy(o)
  BY <1>5, DestroySound
<1> QED
  BY <1>1, <1>2, <1>3, <1>4, <1>5 DEF Change

LEMMA CloseSound ==
  ASSUME IInv, NEW p \in Elements, Close(p)
  PROVE  IInv'
<1>1. Typed /\ owed \in [Library -> Int] /\ World \in Good(Allowed(class), owed)
  BY SoundWorld
<1>2. PICK w, t : w = close(World, p) /\ t = [owed EXCEPT ![World.held[p]] = @ - 1]
  OBVIOUS
<1>3. p \in Everywhere /\ Allowed(class)[p] = Content("library") /\ World.held[p] # null
  BY <1>1, ElementAllowed DEF Close, is_open
<1>4. World.held[p] \in Library /\ World.held = held
  BY <1>1, <1>3, GoodWorld, Contents DEF World
<1>5. w \in Good(Allowed(class), t)
  BY <1>1, <1>2, <1>3, <1>4, ClosedGood
<1>6. World' = w /\ class' = class /\ owed' = t
  BY <1>2, <1>4, <1>5, GoodWorld, Worldly DEF Close, Owes
<1>7. t \in [Library -> Int]
  BY <1>1, <1>2, <1>4
<1>8. Sound(class, t, w)
  BY <1>1, <1>5, <1>7 DEF Sound, Typed
<1> QED
  BY <1>6, <1>8 DEF IInv

\* What was held before does not matter to the loader.
LEMMA OpenOverwrites ==
  ASSUME NEW a, NEW s, NEW w \in Good(a, s), NEW p \in Everywhere, NEW h
  PROVE  open([w EXCEPT !.held[p] = null], p, h) = open(w, p, h)
<1>1. PICK f, l : f = w.held /\ l = w.loads /\ w = [held |-> f, loads |-> l] /\ f \in [Everywhere -> Anything]
  BY GoodWorld
<1>2. PICK y : y = [w EXCEPT !.held[p] = null]
  OBVIOUS
<1>3. y = [held |-> [f EXCEPT ![p] = null], loads |-> l]
  BY <1>1, <1>2
<1>4. [y EXCEPT !.held[p] = h] = [held |-> [f EXCEPT ![p] = h], loads |-> l]
  BY <1>1, <1>3
<1>5. [w EXCEPT !.held[p] = h] = [held |-> [f EXCEPT ![p] = h], loads |-> l]
  BY <1>1
<1> QED
  BY <1>2, <1>4, <1>5 DEF open

LEMMA OpenSound ==
  ASSUME IInv, NEW p \in Elements, NEW h \in Library \cup {null}, Open(p, h)
  PROVE  IInv'
<1>1. Typed /\ owed \in [Library -> Int] /\ World \in Good(Allowed(class), owed)
  BY SoundWorld
<1>2. PICK a, w, u : a = Allowed(class) /\ w = open(World, p, h) /\ u = World.held[p]
  OBVIOUS
<1>3. p \in Everywhere /\ a[p] = Content("library") /\ u = held[p] /\ h \in a[p] /\ null \in a[p]
  BY <1>1, <1>2, ElementAllowed, Contents DEF Open, World
<1>4. Becomes(w) /\ class' = class
  BY <1>2 DEF Open
<1>5. CASE u = null
  <2>1. w \in Good(a, owed)
    BY <1>1, <1>2, <1>3, <1>5, OpenedGood
  <2>2. World' = w /\ owed' = owed
    BY <1>2, <1>4, <1>5, <2>1, GoodWorld, Worldly DEF Open, is_open
  <2>3. Sound(class, owed, w)
    BY <1>1, <1>2, <2>1 DEF Sound, Typed
  <2> QED
    BY <1>4, <2>2, <2>3 DEF IInv
<1>6. CASE u # null
  <2>1. PICK t, y : t = [owed EXCEPT ![u] = @ + 1] /\ y = [World EXCEPT !.held[p] = null]
    OBVIOUS
  <2>2. u \in Library
    <3>1. World.held[p] \in Allowed(class)[p]
      BY <1>1, <1>3, GoodWorld
    <3>2. Allowed(class)[p] = Library \cup {null}
      BY <1>2, <1>3, Contents
    <3> QED
      BY <1>2, <1>6, <3>1, <3>2
  <2>3. t \in [Library -> Int]
    BY <1>1, <2>1, <2>2
  <2>4. y \in Good(a, t)
    <3>1. World \in Good(a, owed) /\ u = World.held[p]
      BY <1>1, <1>2
    <3>2. [World EXCEPT !.held[p] = null] \in Good(a, [owed EXCEPT ![World.held[p]] = @ + 1])
      BY <1>1, <1>3, <2>2, <3>1, ForgottenGood
    <3> QED
      BY <2>1, <3>1, <3>2
  <2>5. y.held[p] = null
    <3>1. World = [held |-> World.held, loads |-> World.loads] /\ World.held \in [Everywhere -> Anything]
      BY <1>1, GoodWorld
    <3> QED
      BY <1>3, <2>1, <3>1
  <2>6. open(y, p, h) \in Good(a, t)
    BY <1>3, <2>4, <2>5, OpenedGood
  <2>7. open(y, p, h) = w
    BY <1>1, <1>2, <1>3, <2>1, OpenOverwrites
  <2>8. World' = w
    BY <1>4, <2>6, <2>7, GoodWorld, Worldly
  <2>9. owed' = t
    BY <1>2, <1>3, <1>6, <2>1 DEF Open, Owes, is_open
  <2>10. Sound(class, t, w)
    BY <1>1, <1>2, <2>3, <2>6, <2>7 DEF Sound, Typed
  <2> QED
    BY <1>4, <2>8, <2>9, <2>10 DEF IInv
<1> QED
  BY <1>5, <1>6

LEMMA InitSound ==
  ASSUME Init
  PROVE  IInv
<1>1. class \in [Object -> Classes \cup {null}] /\ \A o \in Object : class[o] = null
  BY DEF Init
<1>2. /\ null \in Anything /\ held \in [Everywhere -> Anything] /\ loads \in [Library -> Int]
      /\ \A p \in Everywhere : held[p] = null
  BY NullAllowed DEF Init, Everywhere
<1>3. World \in Worlds /\ World.held = held /\ World.loads = loads
  BY <1>2, WorldOf DEF World
<1>4. Counted(World, owed)
  <2>1. \A l \in Library : Holders(World, l) = {}
    BY <1>2, <1>3, NullAllowed DEF Holders
  <2>2. \A l \in Library : World.loads[l] = 0
    BY <1>3 DEF Init
  <2>3. \A l \in Library : owed[l] = 0
    BY DEF Init
  <2>4. IsFiniteSet({}) /\ Cardinality({}) = 0
    BY FS_EmptySet
  <2>5. ASSUME NEW l \in Library
        PROVE  /\ IsFiniteSet(Holders(World, l)) /\ owed[l] \in Int
               /\ World.loads[l] = Cardinality(Holders(World, l)) + owed[l]
    <3>1. PICK S : S = Holders(World, l)
      OBVIOUS
    <3>2. IsFiniteSet(S) /\ Cardinality(S) = 0
      BY <2>1, <2>4, <3>1
    <3>3. World.loads[l] = 0 /\ owed[l] = 0
      BY <2>2, <2>3
    <3> QED
      BY <3>1, <3>2, <3>3
  <2> QED
    BY <2>5 DEF Counted
<1>5. World \in Good(Allowed(class), owed)
  BY <1>2, <1>3, <1>4, NullAllowed DEF Good
<1>6. owed \in [Library -> Int]
  BY DEF Init
<1> QED
  BY <1>1, <1>5, <1>6 DEF IInv, Sound

LEMMA NextSound ==
  ASSUME IInv, [Next]_vars
  PROVE  IInv'
<1>1. CASE \E o \in Object \ Alive : Begin(o)
  BY <1>1, BeginSound
<1>2. CASE \E o \in Alive : Change(o)
  BY <1>2, ChangeSound
<1>3. CASE \E p \in Elements : \/ Close(p)
                               \/ \E handle \in Library \cup {null} : Open(p, handle)
  BY <1>3, CloseSound, OpenSound
<1>4. CASE UNCHANGED vars
  BY <1>4 DEF vars, IInv, World
<1> QED
  BY <1>1, <1>2, <1>3, <1>4 DEF Next

LEMMA SoundBalanced ==
  ASSUME IInv
  PROVE  Balanced
<1>1. Typed /\ owed \in [Library -> Int] /\ World \in Good(Allowed(class), owed)
  BY SoundWorld
<1>2. \A p \in Everywhere : held[p] \in Allowed(class)[p]
  BY <1>1, GoodWorld DEF World
<1>3. ASSUME NEW p \in Elements
      PROVE  held[p] \in {null} \cup IF Type(p) = "library" THEN Library ELSE Text
  BY <1>1, <1>2, ElementAllowed DEF Content
<1>4. ASSUME NEW p \in Everywhere \ Elements
      PROVE  held[p] = null
  <2>1. ~ Part(class, p)
    BY DEF Part, Elements, IsElement, Size
  <2> QED
    BY <1>2, <2>1 DEF Allowed
<1>5. ASSUME NEW l \in Library
      PROVE  loads[l] = Cardinality({p \in Elements : held[p] = l}) + owed[l]
  <2>1. Holders(World, l) = {p \in Elements : held[p] = l}
    BY <1>1, <1>4, ElementAllowed, NullAllowed DEF Holders, World
  <2>2. loads[l] = Cardinality(Holders(World, l)) + owed[l]
    BY <1>1, GoodWorld DEF Counted, World
  <2> QED
    BY <2>1, <2>2
<1> QED
  BY <1>3, <1>4, <1>5 DEF Balanced, Everywhere

-----------------------------------------------------------------------------
(* What operations that are done element by element do to whole objects.   *)

\* After i steps from world w the places P[j] hold L[j], the places Q[j] hold
\* R[j], for j up to i, and the others what they held.
Effect(w, P, Q, L, R, i, x) ==
  /\ \A j \in 1 .. i : x.held[P[j]] = L[j] /\ x.held[Q[j]] = R[j]
  /\ \A q \in Everywhere : (\A j \in 1 .. i : q # P[j] /\ q # Q[j]) => x.held[q] = w.held[q]

\* No step writes where another does.
Apart(P, Q, n) ==
  \A i \in 1 .. n, j \in 1 .. n :
    /\ P[i] \in Everywhere /\ Q[i] \in Everywhere
    /\ i # j => P[i] # P[j] /\ P[i] # Q[j] /\ Q[i] # Q[j]

\* Step i, from x to y, writes P[i] and Q[i].
Writes(P, Q, L, R, i, x, y) ==
  /\ y.held[P[i]] = L[i] /\ y.held[Q[i]] = R[i]
  /\ \A q \in Everywhere : q # P[i] /\ q # Q[i] => y.held[q] = x.held[q]

LEMMA EffectNone ==
  ASSUME NEW w, NEW P, NEW Q, NEW L, NEW R
  PROVE  Effect(w, P, Q, L, R, 0, w)
BY DEF Effect

LEMMA EffectFurther ==
  ASSUME NEW n \in Nat, NEW i \in 1 .. n, NEW w, NEW P, NEW Q, NEW L, NEW R, NEW x, NEW y,
         Apart(P, Q, n), Effect(w, P, Q, L, R, i - 1, x), Writes(P, Q, L, R, i, x, y)
  PROVE  Effect(w, P, Q, L, R, i, y)
<1>1. \A j \in 1 .. i : j = i \/ j \in 1 .. i - 1
  OBVIOUS
<1>2. \A j \in 1 .. i - 1 : j \in 1 .. n /\ j # i /\ j \in 1 .. i
  OBVIOUS
<1>3. ASSUME NEW j \in 1 .. i PROVE y.held[P[j]] = L[j] /\ y.held[Q[j]] = R[j]
  <2>1. CASE j \in 1 .. i - 1
    <3>1. /\ P[j] \in Everywhere /\ P[j] # P[i] /\ P[j] # Q[i]
          /\ Q[j] \in Everywhere /\ Q[j] # P[i] /\ Q[j] # Q[i]
      BY <1>2, <2>1 DEF Apart
    <3>2. x.held[P[j]] = L[j] /\ x.held[Q[j]] = R[j]
      BY <2>1 DEF Effect
    <3> QED
      BY <3>1, <3>2 DEF Writes
  <2>2. y.held[P[i]] = L[i] /\ y.held[Q[i]] = R[i]
    BY DEF Writes
  <2> QED
    BY <1>1, <2>1, <2>2
<1>4. ASSUME NEW q \in Everywhere, \A j \in 1 .. i : q # P[j] /\ q # Q[j]
      PROVE  y.held[q] = w.held[q]
  <2>1. y.held[q] = x.held[q]
    BY <1>4 DEF Writes
  <2>2. \A j \in 1 .. i - 1 : q # P[j] /\ q # Q[j]
    BY <1>2, <1>4
  <2>3. x.held[q] = w.held[q]
    BY <2>2 DEF Effect
  <2> QED
    BY <2>1, <2>3
<1> QED
  BY <1>3, <1>4 DEF Effect

\* One or two places written.
WroteOne(w, p, u, x) ==
  x.held[p] = u /\ \A q \in Everywhere : q # p => x.held[q] = w.held[q]

LEMMA WrittenHolds ==
  ASSUME NEW w \in Worlds, NEW p \in Everywhere, NEW u, NEW x, x = [w EXCEPT !.held[p] = u]
  PROVE  WroteOne(w, p, u, x)
<1>1. w.held \in [Everywhere -> Anything] /\ w = [held |-> w.held, loads |-> w.loads]
  BY DEF Worlds
<1>2. x.held = [w.held EXCEPT ![p] = u]
  BY <1>1
<1> QED
  BY <1>1, <1>2 DEF WroteOne

Wrote(w, p, q, u, v, x) ==
  /\ x.held[q] = v /\ (p # q => x.held[p] = u)
  /\ \A r \in Everywhere : r # p /\ r # q => x.held[r] = w.held[r]

LEMMA TwoWrittenHold ==
  ASSUME NEW w \in Worlds, NEW p \in Everywhere, NEW q \in Everywhere, NEW u, NEW v, NEW x,
         x = [w EXCEPT !.held[p] = u, !.held[q] = v]
  PROVE  Wrote(w, p, q, u, v, x)
<1>1. PICK f, l, y : f = w.held /\ l = w.loads /\ y = [w EXCEPT !.held[p] = u]
  OBVIOUS
<1>2. f \in [Everywhere -> Anything] /\ w = [held |-> f, loads |-> l]
  BY <1>1 DEF Worlds
<1>3. y = [held |-> [f EXCEPT ![p] = u], loads |-> l]
  BY <1>1, <1>2
<1>4. x = [y EXCEPT !.held[q] = v]
  BY <1>1
<1>5. x.held = [[f EXCEPT ![p] = u] EXCEPT ![q] = v]
  BY <1>3, <1>4
<1> QED
  BY <1>1, <1>2, <1>5 DEF Wrote

\* What the two operations on libraries write.
LEMMA LibraryHolds ==
  ASSUME NEW w \in Worlds, NEW p \in Everywhere, NEW q \in Everywhere, NEW x
  PROVE  /\ x = LibraryMoved(w, p, q) => Wrote(w, p, q, w.held[q], null, x)
         /\ x = LibraryAssigned(w, p, q) => Wrote(w, p, q, w.held[q], w.held[p], x)
<1>1. PICK u, v : u = w.held[q] /\ v = w.held[p]
  OBVIOUS
<1>2. ASSUME x = LibraryMoved(w, p, q) PROVE Wrote(w, p, q, u, null, x)
  <2>1. x = [w EXCEPT !.held[p] = u, !.held[q] = null]
    BY <1>1, <1>2 DEF LibraryMoved
  <2> QED
    BY <2>1, TwoWrittenHold
<1>3. ASSUME x = LibraryAssigned(w, p, q) PROVE Wrote(w, p, q, u, v, x)
  <2>1. x = [w EXCEPT !.held[p] = u, !.held[q] = v]
    BY <1>1, <1>3 DEF LibraryAssigned
  <2> QED
    BY <2>1, TwoWrittenHold
<1> QED
  BY <1>1, <1>2, <1>3

LEMMA AssignedHolds ==
  ASSUME NEW w \in Worlds, NEW p \in Everywhere, NEW q \in Everywhere, NEW by, NEW x,
         x = Assigned(w, p, q, by)
  PROVE  /\ by # "move" =>
              /\ x.held[p] = w.held[q]
              /\ \A r \in Everywhere : r # p => x.held[r] = w.held[r]
         /\ by = "move" /\ p # q =>
              /\ x.held[p] = w.held[q]
              /\ x.held[q] = IF Type(q) = "library" THEN w.held[p] ELSE null
              /\ \A r \in Everywhere : r # p /\ r # q => x.held[r] = w.held[r]
<1>1. CASE by # "move"
  <2>1. x = [w EXCEPT !.held[p] = w.held[q]]
    BY <1>1 DEF Assigned, Constructed
  <2>2. WroteOne(w, p, w.held[q], x)
    BY <2>1, WrittenHolds
  <2> QED
    BY <1>1, <2>2 DEF WroteOne
<1>2. CASE by = "move" /\ Type(q) = "library"
  <2>1. Wrote(w, p, q, w.held[q], w.held[p], x)
    BY <1>2, LibraryHolds DEF Assigned
  <2> QED
    BY <1>2, <2>1 DEF Wrote
<1>3. CASE by = "move" /\ Type(q) # "library"
  <2>1. Wrote(w, p, q, w.held[q], null, x)
    BY <1>3, LibraryHolds DEF Assigned, Constructed
  <2> QED
    BY <1>3, <2>1 DEF Wrote
<1> QED
  BY <1>1, <1>2, <1>3

LEMMA SwappedHolds ==
  ASSUME Typed, NEW s, NEW w \in Good(Allowed(class), s),
         NEW p \in Elements, NEW q \in Elements, NEW x, x = Swapped(w, p, q)
  PROVE  /\ x.held[p] = w.held[q] /\ x.held[q] = w.held[p]
         /\ \A r \in Everywhere : r # p /\ r # q => x.held[r] = w.held[r]
<1>1. /\ p \in Everywhere /\ q \in Everywhere /\ temp \in Everywhere /\ p # temp /\ q # temp
      /\ w \in Worlds /\ w.held[temp] = null
  BY ElementAllowed, NullAllowed, LentGood, GoodWorld
<1>2. CASE Type(p) = "library"
  <2>1. PICK w1, w2, w3 : /\ w1 = LibraryMoved(w, temp, p) /\ w2 = LibraryAssigned(w1, p, q)
                          /\ w3 = LibraryAssigned(w2, q, temp)
    OBVIOUS
  <2>2. w1 \in Worlds /\ w2 \in Worlds /\ w3 \in Worlds
    <3>1. w.held \in [Everywhere -> Anything] /\ w.loads \in [Library -> Int]
          /\ null \in Anything
      BY <1>1, NullAllowed DEF Worlds
    <3>2. \A y \in Worlds : \A a, b \in Everywhere : \A u, v \in Anything :
            [y EXCEPT !.held[a] = u, !.held[b] = v] \in Worlds
      BY DEF Worlds
    <3>3. w1 \in Worlds
      BY <1>1, <2>1, <3>1, <3>2 DEF LibraryMoved
    <3>4. w1.held[p] \in Anything /\ w1.held[q] \in Anything
      BY <1>1, <3>3 DEF Worlds
    <3>5. w2 \in Worlds
      BY <1>1, <2>1, <3>2, <3>3, <3>4 DEF LibraryAssigned
    <3>6. w2.held[q] \in Anything /\ w2.held[temp] \in Anything
      BY <1>1, <3>5 DEF Worlds
    <3>7. w3 \in Worlds
      BY <1>1, <2>1, <3>2, <3>5, <3>6 DEF LibraryAssigned
    <3> QED
      BY <3>3, <3>5, <3>7
  <2>3. /\ w1.held[p] = null /\ w1.held[temp] = w.held[p]
        /\ \A r \in Everywhere : r # temp /\ r # p => w1.held[r] = w.held[r]
    BY <1>1, <2>1, LibraryHolds DEF Wrote
  <2>4. /\ w2.held[q] = w1.held[p] /\ (p # q => w2.held[p] = w1.held[q])
        /\ \A r \in Everywhere : r # p /\ r # q => w2.held[r] = w1.held[r]
    BY <1>1, <2>1, <2>2, LibraryHolds DEF Wrote
  <2>5. /\ w3.held[temp] = w2.held[q] /\ w3.held[q] = w2.held[temp]
        /\ \A r \in Everywhere : r # q /\ r # temp => w3.held[r] = w2.held[r]
    BY <1>1, <2>1, <2>2, LibraryHolds DEF Wrote
  <2>6. w3.held[temp] = null
    BY <2>3, <2>4, <2>5
  <2>7. x = [w3 EXCEPT !.held[temp] = null]
    BY <1>2, <2>1, <2>6 DEF Swapped, LibraryDestroyed, is_open
  <2>8. x.held[temp] = null /\ \A r \in Everywhere : r # temp => x.held[r] = w3.held[r]
    <3>1. WroteOne(w3, temp, null, x)
      BY <1>1, <2>2, <2>7, WrittenHolds
    <3> QED
      BY <3>1 DEF WroteOne
  <2>9. x.held[p] = w.held[q]
    BY <1>1, <2>3, <2>4, <2>5, <2>8
  <2>10. x.held[q] = w.held[p]
    BY <1>1, <2>3, <2>4, <2>5, <2>8
  <2>11. ASSUME NEW r \in Everywhere, r # p, r # q PROVE x.held[r] = w.held[r]
    BY <1>1, <2>3, <2>4, <2>5, <2>8, <2>11
  <2> QED
    BY <2>9, <2>10, <2>11
<1>3. CASE Type(p) # "library"
  <2>1. x = [w EXCEPT !.held[p] = w.held[q], !.held[q] = w.held[p]]
    BY <1>3 DEF Swapped
  <2>2. Wrote(w, p, q, w.held[q], w.held[p], x)
    BY <1>1, <2>1, LibraryHolds DEF LibraryAssigned
  <2> QED
    BY <2>2 DEF Wrote
<1> QED
  BY <1>2, <1>3

LEMMA ConsumedHolds ==
  ASSUME Typed, NEW s, NEW w \in Good(Allowed(class), s),
         NEW p \in Elements, NEW x, x = Consumed(w, p)
  PROVE  /\ x.held[p] = null
         /\ \A r \in Everywhere : r # p => x.held[r] = w.held[r]
<1>1. /\ p \in Everywhere /\ temp \in Everywhere /\ p # temp
      /\ w \in Worlds /\ w.held[temp] = null
  BY ElementAllowed, NullAllowed, LentGood, GoodWorld
<1>2. PICK w1 : w1 = LibraryMoved(w, temp, p)
  OBVIOUS
<1>3. /\ w1.held[p] = null
      /\ \A r \in Everywhere : r # temp /\ r # p => w1.held[r] = w.held[r]
  BY <1>1, <1>2, LibraryHolds DEF Wrote
<1>4. w1 \in Good(Lent(Allowed(class), p), s)
  <2>1. /\ w \in Good(Lent(Allowed(class), p), s)
        /\ Lent(Allowed(class), p)[temp] = Allowed(class)[p]
        /\ Lent(Allowed(class), p)[p] = Allowed(class)[p]
    BY <1>1, LentGood
  <2>2. /\ temp \in Everywhere /\ p \in Everywhere /\ w.held[temp] \notin Library
        /\ null \in Lent(Allowed(class), p)[p]
        /\ Lent(Allowed(class), p)[temp] = Lent(Allowed(class), p)[p]
    BY <1>1, <2>1, NullAllowed
  <2> QED
    BY <1>1, <1>2, <2>1, <2>2, MovedGood
<1>5. x.held = [w1.held EXCEPT ![temp] = null]
  BY <1>1, <1>2, <1>4, DroppedHolds DEF Consumed
<1>6. w1.held \in [Everywhere -> Anything]
  BY <1>4, GoodWorld
<1>7. x.held[temp] = null /\ \A r \in Everywhere : r # temp => x.held[r] = w1.held[r]
  BY <1>1, <1>5, <1>6
<1>8. x.held[p] = null
  BY <1>1, <1>3, <1>7
<1>9. ASSUME NEW r \in Everywhere, r # p PROVE x.held[r] = w.held[r]
  BY <1>1, <1>3, <1>7, <1>9
<1> QED
  BY <1>8, <1>9

\* The same places as pairs and as tuples.
LEMMA PairIsTuple ==
  ASSUME NEW w, NEW P, NEW Q, NEW by, Len(P) = 2
  PROVE  /\ PairAssigned(w, P, Q, by) = TupleAssigned(w, P, Q, by)
         /\ PairSwapped(w, P, Q) = TupleSwapped(w, P, Q)
<1>1. PairAssigned(w, P, Q, by) = TupleAssigned(w, P, Q, by)
  <2> DEFINE w1 == Assigned(w, P[1], Q[1], by)
             w2 == Assigned(w1, P[2], Q[2], by)
             Goal == [i \in 0 .. 2 |-> IF i = 0 THEN {w} ELSE IF i = 1 THEN {w1} ELSE {w2}]
  <2>1. Goal[0] = {w} /\ Goal[1] = {w1} /\ Goal[2] = {w2}
    OBVIOUS
  <2> HIDE DEF Goal
  <2>2. \A i \in 1 .. 2 : \A x \in Goal[i - 1] : Assigned(x, P[i], Q[i], by) \in Goal[i]
    <3>1. \A i \in 1 .. 2 : (i = 1 /\ i - 1 = 0) \/ (i = 2 /\ i - 1 = 1)
      OBVIOUS
    <3> QED
      BY <2>1, <3>1
  <2>3. TupleAssigned(w, P, Q, by) \in Goal[2]
    BY <2>1, <2>2, EachAssigned
  <2> QED
    BY <2>1, <2>3 DEF PairAssigned
<1>2. PairSwapped(w, P, Q) = TupleSwapped(w, P, Q)
  <2> DEFINE w1 == Swapped(w, P[1], Q[1])
             w2 == Swapped(w1, P[2], Q[2])
             Goal == [i \in 0 .. 2 |-> IF i = 0 THEN {w} ELSE IF i = 1 THEN {w1} ELSE {w2}]
  <2>1. Goal[0] = {w} /\ Goal[1] = {w1} /\ Goal[2] = {w2}
    OBVIOUS
  <2> HIDE DEF Goal
  <2>2. \A i \in 1 .. 2 : \A x \in Goal[i - 1] : Swapped(x, P[i], Q[i]) \in Goal[i]
    <3>1. \A i \in 1 .. 2 : (i = 1 /\ i - 1 = 0) \/ (i = 2 /\ i - 1 = 1)
      OBVIOUS
    <3> QED
      BY <2>1, <3>1
  <2>3. TupleSwapped(w, P, Q) \in Goal[2]
    BY <2>1, <2>2, EachSwapped
  <2> QED
    BY <2>1, <2>3 DEF PairSwapped
<1> QED
  BY <1>1, <1>2

\* Whole objects, and references to elements that are tied.
LEMMA CopiesHold ==
  ASSUME NEW w \in Worlds, NEW n \in Nat, NEW P, NEW Q, NEW L, NEW by, by # "move", Len(P) = n,
         Apart(P, P, n),
         \A i \in 1 .. n : /\ Q[i] \in Everywhere /\ L[i] = w.held[Q[i]]
                           /\ \A j \in 1 .. n : i # j => Q[i] # P[j]
  PROVE  Effect(w, P, P, L, L, n, TupleAssigned(w, P, Q, by))
<1> DEFINE Goal == [i \in 0 .. n |-> {x \in Worlds : Effect(w, P, P, L, L, i, x)}]
<1>1. w \in Goal[0]
  BY EffectNone
<1>2. ASSUME NEW i \in 1 .. n, NEW x \in Goal[i - 1]
      PROVE  Assigned(x, P[i], Q[i], by) \in Goal[i]
  <2>1. PICK p, q, y : p = P[i] /\ q = Q[i] /\ y = Assigned(x, p, q, by)
    OBVIOUS
  <2>2. i - 1 \in 0 .. n /\ i \in 0 .. n
    OBVIOUS
  <2>3. x \in Worlds /\ Effect(w, P, P, L, L, i - 1, x)
    BY <2>2
  <2>4. p \in Everywhere /\ q \in Everywhere
    BY <2>1 DEF Apart
  <2>5. x.held[q] = L[i]
    <3>1. \A j \in 1 .. i - 1 : j \in 1 .. n /\ j # i
      OBVIOUS
    <3>2. \A j \in 1 .. i - 1 : q # P[j]
      BY <2>1, <3>1
    <3>3. x.held[q] = w.held[q]
      BY <2>3, <2>4, <3>2 DEF Effect
    <3> QED
      BY <2>1, <3>3
  <2>6. y.held[p] = x.held[q] /\ \A r \in Everywhere : r # p => y.held[r] = x.held[r]
    BY <2>1, <2>3, <2>4, AssignedHolds
  <2>7. Effect(w, P, P, L, L, i, y)
    <3>1. Writes(P, P, L, L, i, x, y)
      BY <2>1, <2>5, <2>6 DEF Writes
    <3> QED
      BY <2>3, <3>1, EffectFurther
  <2>8. y \in Worlds
    <3>1. y = [x EXCEPT !.held[p] = x.held[q]]
      BY <2>1 DEF Assigned, Constructed
    <3> QED
      BY <2>3, <2>4, <3>1 DEF Worlds
  <2> QED
    BY <2>1, <2>2, <2>7, <2>8
<1>3. TupleAssigned(w, P, Q, by) \in Goal[n]
  <2> HIDE DEF Goal
  <2> QED
    BY <1>1, <1>2, EachAssigned
<1> QED
  BY <1>3

LEMMA ConstructsHold ==
  ASSUME NEW w \in Worlds, NEW n \in Nat, NEW P, NEW Q, NEW L, NEW by, by # "move", Len(P) = n,
         Apart(P, P, n),
         \A i \in 1 .. n : /\ Q[i] \in Everywhere /\ L[i] = w.held[Q[i]]
                           /\ \A j \in 1 .. n : i # j => Q[i] # P[j]
  PROVE  Effect(w, P, P, L, L, n, AllConstructed(w, P, Q, by))
<1> DEFINE Goal == [i \in 0 .. n |-> {x \in Worlds : Effect(w, P, P, L, L, i, x)}]
<1>1. w \in Goal[0]
  BY EffectNone
<1>2. ASSUME NEW i \in 1 .. n, NEW x \in Goal[i - 1]
      PROVE  Constructed(x, P[i], Q[i], by) \in Goal[i]
  <2>1. PICK p, q, y : p = P[i] /\ q = Q[i] /\ y = Constructed(x, p, q, by)
    OBVIOUS
  <2>2. i - 1 \in 0 .. n /\ i \in 0 .. n
    OBVIOUS
  <2>3. x \in Worlds /\ Effect(w, P, P, L, L, i - 1, x)
    BY <2>2
  <2>4. p \in Everywhere /\ q \in Everywhere
    BY <2>1 DEF Apart
  <2>5. x.held[q] = L[i]
    <3>1. \A j \in 1 .. i - 1 : j \in 1 .. n /\ j # i
      OBVIOUS
    <3>2. \A j \in 1 .. i - 1 : q # P[j]
      BY <2>1, <3>1
    <3>3. x.held[q] = w.held[q]
      BY <2>3, <2>4, <3>2 DEF Effect
    <3> QED
      BY <2>1, <3>3
  <2>6. y = [x EXCEPT !.held[p] = x.held[q]]
    BY <2>1 DEF Constructed
  <2>7. Effect(w, P, P, L, L, i, y)
    <3>1. y.held[p] = x.held[q] /\ \A r \in Everywhere : r # p => y.held[r] = x.held[r]
      <4>1. PICK u : u = x.held[q]
        OBVIOUS
      <4>2. y = [x EXCEPT !.held[p] = u]
        BY <2>6, <4>1
      <4>3. WroteOne(x, p, u, y)
        BY <2>3, <2>4, <4>2, WrittenHolds
      <4> QED
        BY <4>1, <4>3 DEF WroteOne
    <3>2. Writes(P, P, L, L, i, x, y)
      BY <2>1, <2>5, <3>1 DEF Writes
    <3> QED
      BY <2>3, <3>2, EffectFurther
  <2>8. y \in Worlds
    BY <2>3, <2>4, <2>6 DEF Worlds
  <2> QED
    BY <2>1, <2>2, <2>7, <2>8
<1>3. AllConstructed(w, P, Q, by) \in Goal[n]
  <2> HIDE DEF Goal
  <2> QED
    BY <1>1, <1>2, EachConstructed
<1> QED
  BY <1>3

LEMMA MovesHold ==
  ASSUME Typed, NEW s, NEW w \in Good(Allowed(class), s),
         NEW n \in Nat, NEW P, NEW Q, NEW L, NEW R, Len(P) = n, Apart(P, Q, n),
         \A i \in 1 .. n : /\ P[i] \in Elements /\ Q[i] \in Elements /\ P[i] # Q[i]
                           /\ Type(P[i]) = Type(Q[i]) /\ L[i] = w.held[Q[i]]
                           /\ R[i] = IF Type(Q[i]) = "library" THEN w.held[P[i]] ELSE null
  PROVE  Effect(w, P, Q, L, R, n, TupleAssigned(w, P, Q, "move"))
<1> DEFINE G    == Good(Allowed(class), s)
           Goal == [i \in 0 .. n |-> {x \in G : Effect(w, P, Q, L, R, i, x)}]
<1>1. w \in Goal[0]
  BY EffectNone
<1>2. ASSUME NEW i \in 1 .. n, NEW x \in Goal[i - 1]
      PROVE  Assigned(x, P[i], Q[i], "move") \in Goal[i]
  <2>1. PICK p, q, y : p = P[i] /\ q = Q[i] /\ y = Assigned(x, p, q, "move")
    OBVIOUS
  <2>2. i - 1 \in 0 .. n /\ i \in 0 .. n
    OBVIOUS
  <2>3. x \in G /\ Effect(w, P, Q, L, R, i - 1, x)
    BY <2>2
  <2>4. p \in Everywhere /\ q \in Everywhere /\ p # q /\ p \in Elements /\ q \in Elements
    BY <2>1 DEF Apart
  <2>5. x.held[p] = w.held[p] /\ x.held[q] = w.held[q]
    <3>1. \A j \in 1 .. i - 1 : j \in 1 .. n /\ j # i
      OBVIOUS
    <3>2. \A j \in 1 .. i - 1 : q # P[j] /\ q # Q[j] /\ p # P[j] /\ p # Q[j]
      BY <2>1, <3>1 DEF Apart
    <3> QED
      BY <2>3, <2>4, <3>2 DEF Effect
  <2>6. /\ y.held[p] = x.held[q]
        /\ y.held[q] = IF Type(q) = "library" THEN x.held[p] ELSE null
        /\ \A r \in Everywhere : r # p /\ r # q => y.held[r] = x.held[r]
    <3>1. x \in Worlds
      BY <2>3, GoodWorld
    <3> QED
      BY <2>1, <2>4, <3>1, AssignedHolds
  <2>7. Effect(w, P, Q, L, R, i, y)
    <3>1. Writes(P, Q, L, R, i, x, y)
      BY <2>1, <2>5, <2>6 DEF Writes
    <3>2. Effect(w, P, Q, L, R, i - 1, x)
      BY <2>3
    <3> HIDE DEF Goal, G
    <3> QED
      BY <3>1, <3>2, EffectFurther
  <2>8. y \in G
    BY <2>1, <2>3, <2>4, AssignedGood
  <2> QED
    BY <2>1, <2>2, <2>7, <2>8
<1>3. TupleAssigned(w, P, Q, "move") \in Goal[n]
  <2> HIDE DEF Goal
  <2> QED
    BY <1>1, <1>2, EachAssigned
<1> QED
  BY <1>3

LEMMA SwapsHold ==
  ASSUME Typed, NEW s, NEW w \in Good(Allowed(class), s),
         NEW n \in Nat, NEW P, NEW Q, NEW L, NEW R, Len(P) = n, Apart(P, Q, n),
         \A i \in 1 .. n : /\ P[i] \in Elements /\ Q[i] \in Elements
                           /\ Type(P[i]) = Type(Q[i])
                           /\ L[i] = w.held[Q[i]] /\ R[i] = w.held[P[i]]
  PROVE  Effect(w, P, Q, L, R, n, TupleSwapped(w, P, Q))
<1> DEFINE G    == Good(Allowed(class), s)
           Goal == [i \in 0 .. n |-> {x \in G : Effect(w, P, Q, L, R, i, x)}]
<1>1. w \in Goal[0]
  BY EffectNone
<1>2. ASSUME NEW i \in 1 .. n, NEW x \in Goal[i - 1]
      PROVE  Swapped(x, P[i], Q[i]) \in Goal[i]
  <2>1. PICK p, q, y : p = P[i] /\ q = Q[i] /\ y = Swapped(x, p, q)
    OBVIOUS
  <2>2. i - 1 \in 0 .. n /\ i \in 0 .. n
    OBVIOUS
  <2>3. x \in G /\ Effect(w, P, Q, L, R, i - 1, x)
    BY <2>2
  <2>4. p \in Everywhere /\ q \in Everywhere /\ p \in Elements /\ q \in Elements
    BY <2>1 DEF Apart
  <2>5. x.held[p] = w.held[p] /\ x.held[q] = w.held[q]
    <3>1. \A j \in 1 .. i - 1 : j \in 1 .. n /\ j # i
      OBVIOUS
    <3>2. \A j \in 1 .. i - 1 : q # P[j] /\ q # Q[j] /\ p # P[j] /\ p # Q[j]
      BY <2>1, <3>1 DEF Apart
    <3> QED
      BY <2>3, <2>4, <3>2 DEF Effect
  <2>6. /\ y.held[p] = x.held[q] /\ y.held[q] = x.held[p]
        /\ \A r \in Everywhere : r # p /\ r # q => y.held[r] = x.held[r]
    BY <2>1, <2>3, <2>4, SwappedHolds
  <2>7. Effect(w, P, Q, L, R, i, y)
    <3>1. Writes(P, Q, L, R, i, x, y)
      BY <2>1, <2>5, <2>6 DEF Writes
    <3>2. Effect(w, P, Q, L, R, i - 1, x)
      BY <2>3
    <3> HIDE DEF Goal, G
    <3> QED
      BY <3>1, <3>2, EffectFurther
  <2>8. y \in G
    BY <2>1, <2>3, <2>4, SwappedGood
  <2> QED
    BY <2>1, <2>2, <2>7, <2>8
<1>3. TupleSwapped(w, P, Q) \in Goal[n]
  <2> HIDE DEF Goal
  <2> QED
    BY <1>1, <1>2, EachSwapped
<1> QED
  BY <1>3

\* A call of an rvalue leaves nothing of its elements.
LEMMA ConsumesHold ==
  ASSUME IInv, NEW o \in Alive, NEW i \in 1 .. Size(o)
  PROVE  AllConsumed(World, o).held[<<o, i>>] = null
<1> DEFINE n    == Size(o)
           G    == Good(Allowed(class), owed)
           P    == [j \in 1 .. n |-> <<o, j>>]
           L    == [j \in 1 .. n |-> null]
           Goal == [j \in 0 .. n |-> {x \in G : Effect(World, P, P, L, L, j, x)}]
<1>1. Typed /\ World \in G /\ n \in Nat
  BY SoundWorld, AliveLength
<1>2. \A j \in 1 .. n : get(o, j) = P[j] /\ P[j] \in Elements
  BY PlacesOfElements
<1>3. Apart(P, P, n)
  BY <1>1, <1>2, ElementAllowed DEF Apart
<1>4. World \in Goal[0]
  BY <1>1, EffectNone
<1>5. ASSUME NEW j \in 1 .. n, NEW x \in Goal[j - 1]
      PROVE  Consumed(x, get(o, j)) \in Goal[j]
  <2>1. PICK p, y : p = get(o, j) /\ y = Consumed(x, p)
    OBVIOUS
  <2>2. j - 1 \in 0 .. n /\ j \in 0 .. n
    BY <1>1
  <2>3. x \in G /\ Effect(World, P, P, L, L, j - 1, x)
    BY <2>2
  <2>4. p = P[j] /\ p \in Elements
    BY <1>2, <2>1
  <2>5. y.held[p] = null /\ \A r \in Everywhere : r # p => y.held[r] = x.held[r]
    <3> HIDE DEF P, L
    <3> QED
      BY <1>1, <2>1, <2>3, <2>4, ConsumedHolds
  <2>6. Effect(World, P, P, L, L, j, y)
    <3>1. Writes(P, P, L, L, j, x, y)
      BY <2>4, <2>5 DEF Writes
    <3> HIDE DEF P, L
    <3> QED
      BY <1>1, <1>3, <2>3, <3>1, EffectFurther
  <2>7. y \in G
    BY <1>1, <2>1, <2>3, <2>4, ConsumedGood
  <2> QED
    BY <2>1, <2>2, <2>6, <2>7
<1>6. AllConsumed(World, o) \in Goal[n]
  <2> HIDE DEF Goal
  <2> QED
    BY <1>1, <1>4, <1>5, EachConsumed
<1>7. Effect(World, P, P, L, L, n, AllConsumed(World, o))
  BY <1>1, <1>6
<1> QED
  BY <1>7 DEF Effect

-----------------------------------------------------------------------------
(* The values of objects.                                                   *)

OnFirst(f, n) == f = [i \in 1 .. n |-> f[i]]

IsValue(o, n, f) == OnFirst(f, n) /\ \A i \in 1 .. n : held[<<o, i>>] = f[i]

LEMMA ValueIs ==
  ASSUME NEW o, NEW n, n = Size(o), NEW f, f = Value(o)
  PROVE  IsValue(o, n, f)
BY DEF Value, OnFirst, IsValue

LEMMA ValueBecomes ==
  ASSUME UNCHANGED class, NEW o, NEW n, n = Size(o), NEW f, OnFirst(f, n),
         \A i \in 1 .. n : held'[<<o, i>>] = f[i]
  PROVE  Value(o)' = f
<1>1. Value(o)' = [i \in 1 .. n |-> held'[<<o, i>>]]
  BY DEF Value, Size
<1> QED
  BY <1>1 DEF OnFirst

\* Objects of which no element is written.
LEMMA OthersAre ==
  ASSUME IInv, UNCHANGED class, NEW x, Becomes(x), NEW n, NEW P, NEW Q, NEW L, NEW R,
         Effect(World, P, Q, L, R, n, x),
         NEW os, \A j \in 1 .. n : P[j][1] \in os /\ Q[j][1] \in os
  PROVE  OthersKeep(os)
<1> SUFFICES ASSUME NEW o \in Alive, o \notin os PROVE Value(o)' = Value(o)
  BY DEF OthersKeep
<1>1. ASSUME NEW i \in 1 .. Size(o) PROVE held'[<<o, i>>] = held[<<o, i>>]
  <2>1. PICK q : q = <<o, i>>
    OBVIOUS
  <2>2. q \in Everywhere
    BY <2>1, SoundWorld, PlacesOf, ElementAllowed
  <2>3. \A j \in 1 .. n : q # P[j] /\ q # Q[j]
    BY <2>1
  <2>4. x.held[q] = World.held[q]
    BY <2>2, <2>3 DEF Effect
  <2> QED
    BY <2>1, <2>4 DEF World, Becomes
<1>2. PICK f : f = Value(o)
  OBVIOUS
<1>3. OnFirst(f, Size(o)) /\ \A i \in 1 .. Size(o) : held'[<<o, i>>] = f[i]
  BY <1>1, <1>2, ValueIs DEF IsValue
<1> QED
  BY <1>2, <1>3, ValueBecomes

\* The elements of two usable objects are apart.
LEMMA PlacesApart ==
  ASSUME IInv, NEW o1 \in Alive, NEW o2 \in Alive, Size(o2) = Size(o1)
  PROVE  /\ Apart(Places(o1), Places(o2), Size(o1))
         /\ \A i \in 1 .. Size(o1) :
              Places(o1)[i] \in Elements /\ Places(o2)[i] \in Elements
<1>1. ASSUME NEW i \in 1 .. Size(o1)
      PROVE  /\ Places(o1)[i] = <<o1, i>> /\ Places(o1)[i] \in Elements
             /\ Places(o2)[i] = <<o2, i>> /\ Places(o2)[i] \in Elements
             /\ Places(o1)[i] \in Everywhere /\ Places(o2)[i] \in Everywhere
  <2>1. /\ Places(o1)[i] = <<o1, i>> /\ Places(o1)[i] \in Elements
        /\ Places(o2)[i] = <<o2, i>> /\ Places(o2)[i] \in Elements
    BY PlacesOfElements
  <2> QED
    BY <2>1, SoundWorld, ElementAllowed
<1> QED
  BY <1>1 DEF Apart

LEMMA CopyKeeps ==
  ASSUME IInv, NEW to \in Alive, NEW from \in Alive, Assign(to, from, "copy")
  PROVE  Value(to)' = Value(from) /\ OthersKeep({to})
<1>1. PICK w, x, P, Q, n, L :
         /\ w = World /\ x = TupleAssigned(World, P, Q, "copy") /\ P = Places(to) /\ Q = Places(from)
         /\ n = Size(to) /\ L = [i \in 1 .. n |-> w.held[Q[i]]]
  OBVIOUS
<1>2. /\ n \in Nat /\ n = Size(from) /\ Len(P) = n /\ (class[to].template = "Pair" => Len(P) = 2)
      /\ UNCHANGED class /\ w \in Worlds
  BY <1>1, AliveLength, SoundWorld, GoodWorld DEF Assign, Size
<1>3. \A i \in 1 .. n : /\ P[i] = <<to, i>> /\ Q[i] = <<from, i>>
                        /\ P[i] \in Everywhere /\ Q[i] \in Everywhere
  <2>1. \A i \in 1 .. n : /\ P[i] = <<to, i>> /\ Q[i] = <<from, i>>
                           /\ P[i] \in Elements /\ Q[i] \in Elements
    BY <1>1, <1>2, PlacesOfElements
  <2> QED
    BY <2>1, SoundWorld, ElementAllowed
<1>4. Becomes(x)
  BY <1>1, <1>2, PairIsTuple DEF Assign, ObjectAssigned
<1>5. Effect(w, P, P, L, L, n, x)
  <2>1. Apart(P, P, n)
    BY <1>3 DEF Apart
  <2>2. \A i \in 1 .. n : /\ Q[i] \in Everywhere /\ L[i] = w.held[Q[i]]
                          /\ \A j \in 1 .. n : i # j => Q[i] # P[j]
    BY <1>1, <1>3
  <2> QED
    BY <1>1, <1>2, <2>1, <2>2, CopiesHold
<1>6. \A i \in 1 .. n : held'[<<to, i>>] = held[<<from, i>>]
  <2>1. \A i \in 1 .. n : x.held[P[i]] = L[i]
    BY <1>5 DEF Effect
  <2> QED
    BY <1>1, <1>3, <1>4, <2>1 DEF Becomes, World
<1>7. Value(to)' = Value(from)
  <2>1. PICK f : f = Value(from)
    OBVIOUS
  <2>2. IsValue(from, n, f)
    BY <1>1, <1>2, <2>1, ValueIs
  <2>3. OnFirst(f, n) /\ \A i \in 1 .. n : held'[<<to, i>>] = f[i]
    BY <1>6, <2>2 DEF IsValue
  <2> QED
    BY <1>1, <1>2, <2>1, <2>3, ValueBecomes
<1>8. \A j \in 1 .. n : P[j][1] \in {to}
  BY <1>3
<1>9. OthersKeep({to})
  BY <1>1, <1>2, <1>4, <1>5, <1>8, OthersAre
<1> QED
  BY <1>7, <1>9

LEMMA MoveKeeps ==
  ASSUME IInv, NEW to \in Alive, NEW from \in Alive, Assign(to, from, "move")
  PROVE  /\ Value(to)' = Value(from) /\ OthersKeep({to, from})
         /\ Value(from)' =
              [i \in 1 .. Size(to) |-> IF class[to].of[i] = "library" THEN Value(to)[i] ELSE null]
<1>1. PICK w, x, P, Q, n, L, R :
         /\ w = World /\ x = TupleAssigned(World, P, Q, "move") /\ P = Places(to) /\ Q = Places(from)
         /\ n = Size(to) /\ L = [i \in 1 .. n |-> w.held[Q[i]]]
         /\ R = [i \in 1 .. n |-> IF Type(Q[i]) = "library" THEN w.held[P[i]] ELSE null]
  OBVIOUS
<1>2. /\ n \in Nat /\ n = Size(from) /\ Len(P) = n /\ (class[to].template = "Pair" => Len(P) = 2)
      /\ UNCHANGED class /\ to # from /\ class[to].of = class[from].of
  BY <1>1, AliveLength DEF Assign, Size
<1>3. \A i \in 1 .. n : /\ P[i] = <<to, i>> /\ Q[i] = <<from, i>>
                        /\ P[i] \in Elements /\ Q[i] \in Elements
                        /\ Type(P[i]) = class[to].of[i] /\ Type(Q[i]) = class[to].of[i]
  BY <1>1, <1>2, PlacesOfElements
<1>4. Becomes(x)
  BY <1>1, <1>2, PairIsTuple DEF Assign, ObjectAssigned
<1>5. Effect(w, P, Q, L, R, n, x)
  <2>1. Apart(P, Q, n)
    BY <1>1, <1>2, PlacesApart
  <2>2. \A i \in 1 .. n : /\ P[i] \in Elements /\ Q[i] \in Elements /\ P[i] # Q[i]
                          /\ Type(P[i]) = Type(Q[i]) /\ L[i] = w.held[Q[i]]
                          /\ R[i] = IF Type(Q[i]) = "library" THEN w.held[P[i]] ELSE null
    BY <1>1, <1>2, <1>3
  <2>3. Typed /\ w \in Good(Allowed(class), owed)
    BY <1>1, SoundWorld
  <2> QED
    BY <1>1, <1>2, <2>1, <2>2, <2>3, MovesHold
<1>6. ASSUME NEW i \in 1 .. n
      PROVE  /\ held'[<<to, i>>] = held[<<from, i>>]
             /\ held'[<<from, i>>] = IF class[to].of[i] = "library" THEN held[<<to, i>>] ELSE null
  <2>1. x.held[P[i]] = L[i] /\ x.held[Q[i]] = R[i]
    BY <1>5 DEF Effect
  <2> QED
    BY <1>1, <1>3, <1>4, <2>1 DEF Becomes, World
<1>7. Value(to)' = Value(from)
  <2>1. PICK f : f = Value(from)
    OBVIOUS
  <2>2. IsValue(from, n, f)
    BY <1>1, <1>2, <2>1, ValueIs
  <2>3. OnFirst(f, n) /\ \A i \in 1 .. n : held'[<<to, i>>] = f[i]
    BY <1>6, <2>2 DEF IsValue
  <2> QED
    BY <1>1, <1>2, <2>1, <2>3, ValueBecomes
<1>8. Value(from)' =
        [i \in 1 .. Size(to) |-> IF class[to].of[i] = "library" THEN Value(to)[i] ELSE null]
  <2>1. PICK f : f = [i \in 1 .. Size(to) |-> IF class[to].of[i] = "library" THEN Value(to)[i] ELSE null]
    OBVIOUS
  <2>2. OnFirst(f, n)
    BY <1>1, <2>1 DEF OnFirst
  <2>3. PICK v : v = Value(to)
    OBVIOUS
  <2>4. \A i \in 1 .. n : held[<<to, i>>] = v[i]
    BY <1>1, <2>3, ValueIs DEF IsValue
  <2>5. \A i \in 1 .. n : held'[<<from, i>>] = f[i]
    BY <1>1, <1>6, <2>1, <2>3, <2>4
  <2> QED
    BY <1>1, <1>2, <2>1, <2>2, <2>5, ValueBecomes
<1>9. \A j \in 1 .. n : P[j][1] \in {to, from} /\ Q[j][1] \in {to, from}
  BY <1>3
<1>10. OthersKeep({to, from})
  BY <1>1, <1>2, <1>4, <1>5, <1>9, OthersAre
<1> QED
  BY <1>7, <1>8, <1>10

LEMMA SwapKeeps ==
  ASSUME IInv, NEW to \in Alive, NEW from \in Alive, Swap(to, from)
  PROVE  Value(to)' = Value(from) /\ Value(from)' = Value(to) /\ OthersKeep({to, from})
<1>1. PICK w, x, P, Q, n, L, R :
         /\ w = World /\ x = TupleSwapped(World, P, Q) /\ P = Places(to) /\ Q = Places(from)
         /\ n = Size(to) /\ L = [i \in 1 .. n |-> w.held[Q[i]]] /\ R = [i \in 1 .. n |-> w.held[P[i]]]
  OBVIOUS
<1>2. /\ n \in Nat /\ n = Size(from) /\ Len(P) = n /\ (class[to].template = "Pair" => Len(P) = 2)
      /\ UNCHANGED class /\ class[to] = class[from]
  BY <1>1, AliveLength DEF Swap, Size
<1>3. \A i \in 1 .. n : /\ P[i] = <<to, i>> /\ Q[i] = <<from, i>>
                        /\ P[i] \in Elements /\ Q[i] \in Elements
                        /\ Type(P[i]) = class[to].of[i] /\ Type(Q[i]) = class[to].of[i]
  BY <1>1, <1>2, PlacesOfElements
<1>4. Becomes(x)
  BY <1>1, <1>2, PairIsTuple DEF Swap, ObjectsSwapped
<1>5. Effect(w, P, Q, L, R, n, x)
  <2>1. Apart(P, Q, n)
    BY <1>1, <1>2, PlacesApart
  <2>2. \A i \in 1 .. n : /\ P[i] \in Elements /\ Q[i] \in Elements
                          /\ Type(P[i]) = Type(Q[i])
                          /\ L[i] = w.held[Q[i]] /\ R[i] = w.held[P[i]]
    BY <1>1, <1>2, <1>3
  <2>3. Typed /\ w \in Good(Allowed(class), owed)
    BY <1>1, SoundWorld
  <2> QED
    BY <1>1, <1>2, <2>1, <2>2, <2>3, SwapsHold
<1>6. ASSUME NEW i \in 1 .. n
      PROVE  held'[<<to, i>>] = held[<<from, i>>] /\ held'[<<from, i>>] = held[<<to, i>>]
  <2>1. x.held[P[i]] = L[i] /\ x.held[Q[i]] = R[i]
    BY <1>5 DEF Effect
  <2> QED
    BY <1>1, <1>3, <1>4, <2>1 DEF Becomes, World
<1>7. Value(to)' = Value(from)
  <2>1. PICK f : f = Value(from)
    OBVIOUS
  <2>2. IsValue(from, n, f)
    BY <1>1, <1>2, <2>1, ValueIs
  <2>3. OnFirst(f, n) /\ \A i \in 1 .. n : held'[<<to, i>>] = f[i]
    BY <1>6, <2>2 DEF IsValue
  <2> QED
    BY <1>1, <1>2, <2>1, <2>3, ValueBecomes
<1>10. Value(from)' = Value(to)
  <2>1. PICK f : f = Value(to)
    OBVIOUS
  <2>2. IsValue(to, n, f)
    BY <1>1, <1>2, <2>1, ValueIs
  <2>3. OnFirst(f, n) /\ \A i \in 1 .. n : held'[<<from, i>>] = f[i]
    BY <1>6, <2>2 DEF IsValue
  <2> QED
    BY <1>1, <1>2, <2>1, <2>3, ValueBecomes
<1>8. \A j \in 1 .. n : P[j][1] \in {to, from} /\ Q[j][1] \in {to, from}
  BY <1>3
<1>9. OthersKeep({to, from})
  BY <1>1, <1>2, <1>4, <1>5, <1>8, OthersAre
<1> QED
  BY <1>7, <1>9, <1>10

LEMMA TieKeeps ==
  ASSUME IInv, NEW from \in TupleLike, NEW to \in [1 .. Size(from) -> {p \in Elements : p[1] # from}],
         IsInjective(to), TieAssign(to, from, "copy")
  PROVE  Value(from)' = Value(from) /\ \A i \in DOMAIN to : held'[to[i]] = Value(from)[i]
<1>1. PICK w, x, Q, n, L :
         /\ w = World /\ x = TupleAssigned(World, to, Q, "copy") /\ Q = Places(from)
         /\ n = Size(from) /\ L = [i \in 1 .. n |-> w.held[Q[i]]]
  OBVIOUS
<1>2. /\ from \in Alive /\ n \in Nat /\ Len(to) = n /\ DOMAIN to = 1 .. n
      /\ UNCHANGED class /\ w \in Worlds /\ Becomes(x)
  BY <1>1, AliveLength, SoundWorld, GoodWorld DEF TieAssign, TupleLike
<1>3. \A i \in 1 .. n : /\ to[i][1] # from /\ Q[i] = <<from, i>>
                        /\ to[i] \in Everywhere /\ Q[i] \in Everywhere
  <2>1. \A i \in 1 .. n : /\ to[i][1] # from /\ Q[i] = <<from, i>>
                           /\ to[i] \in Elements /\ Q[i] \in Elements
    BY <1>1, <1>2, PlacesOfElements
  <2> QED
    BY <2>1, SoundWorld, ElementAllowed
<1>4. \A i, j \in 1 .. n : i # j => to[i] # to[j]
  BY <1>2 DEF IsInjective
<1>5. Effect(w, to, to, L, L, n, x)
  <2>1. Apart(to, to, n)
    BY <1>3, <1>4 DEF Apart
  <2>2. \A i \in 1 .. n : /\ Q[i] \in Everywhere /\ L[i] = w.held[Q[i]]
                          /\ \A j \in 1 .. n : i # j => Q[i] # to[j]
    BY <1>1, <1>3
  <2> QED
    BY <1>1, <1>2, <2>1, <2>2, CopiesHold
<1>6. \A i \in 1 .. n : held'[to[i]] = held[<<from, i>>]
  <2>1. \A i \in 1 .. n : x.held[to[i]] = L[i]
    BY <1>5 DEF Effect
  <2> QED
    BY <1>1, <1>2, <1>3, <2>1 DEF Becomes, World
<1>7. Value(from)' = Value(from)
  <2>1. PICK os : os = Object \ {from}
    OBVIOUS
  <2>2. \A j \in 1 .. n : to[j][1] \in os
    BY <1>2, <1>3, <2>1 DEF Elements, Place
  <2>3. OthersKeep(os)
    BY <1>1, <1>2, <1>5, <2>2, OthersAre
  <2> QED
    BY <1>2, <2>1, <2>3 DEF OthersKeep
<1>8. PICK f : f = Value(from)
  OBVIOUS
<1>9. \A i \in 1 .. n : held[<<from, i>>] = f[i]
  BY <1>1, <1>8, ValueIs DEF IsValue
<1> QED
  BY <1>2, <1>6, <1>7, <1>8, <1>9

\* Calls: by reference nothing changes.
LEMMA CallKeeps ==
  ASSUME IInv, NEW o \in Alive, NEW args
  PROVE  /\ Call(o, "reference", args) => seen' = args /\ Value(o)' = Value(o)
         /\ Call(o, "move", args) => Value(o)' = [i \in 1 .. Size(o) |-> null]
<1>1. ASSUME Call(o, "reference", args) PROVE seen' = args /\ Value(o)' = Value(o)
  BY <1>1 DEF Call, Becomes, World, Value, Size
<1>2. ASSUME Call(o, "move", args) PROVE Value(o)' = [i \in 1 .. Size(o) |-> null]
  <2>1. UNCHANGED class /\ Becomes(AllConsumed(World, o))
    BY <1>2 DEF Call
  <2>2. \A i \in 1 .. Size(o) : held'[<<o, i>>] = null
    BY <2>1, ConsumesHold DEF Becomes
  <2>3. PICK f : f = [i \in 1 .. Size(o) |-> null]
    OBVIOUS
  <2>4. OnFirst(f, Size(o)) /\ \A i \in 1 .. Size(o) : held'[<<o, i>>] = f[i]
    BY <2>2, <2>3 DEF OnFirst
  <2> QED
    BY <2>1, <2>3, <2>4, ValueBecomes
<1> QED
  BY <1>1, <1>2

LEMMA ChangesKeep ==
  ASSUME IInv
  PROVE  MovesKeep /\ TiesKeep /\ CallsPass
<1>1. MovesKeep
  BY CopyKeeps, MoveKeeps, SwapKeeps DEF MovesKeep
<1>2. TiesKeep
  BY TieKeeps DEF TiesKeep
<1>3. CallsPass
  BY CallKeeps DEF CallsPass, CallFront, CallBack
<1> QED
  BY <1>1, <1>2, <1>3

-----------------------------------------------------------------------------
(* tuple_cat.                                                               *)

\* One sequence after the other.
Followed(x, y) == x \o y
Joint(s, n, g) == g = [i \in 0 .. n |-> IF i = 0 THEN <<>> ELSE Followed(g[i - 1], s[i])]

LEMMA JointExists ==
  ASSUME NEW n \in Nat, NEW A, NEW s, \A i \in 1 .. n : s[i] \in Seq(A)
  PROVE  \E g : Joint(s, n, g)
<1> DEFINE S    == Seq(A)
           f    == [pair \in S \X (1 .. n) |-> Followed(pair[1], s[pair[2]])]
           Goal == [i \in 0 .. n |-> S]
<1>1. PICK e : e = <<>>
  OBVIOUS
<1>2. e \in S /\ \A i \in 1 .. n : \A x \in S : Followed(x, s[i]) \in S
  BY <1>1 DEF Followed
<1>3. \A i \in 0 .. n : Goal[i] = S
  OBVIOUS
<1> HIDE DEF S
<1>4. \A i \in 1 .. n : \A x \in S : f[<<x, i>>] = Followed(x, s[i])
  OBVIOUS
<1> HIDE DEF f, Goal
<1>5. PICK g : Run(f, e, n, g) /\ \A i \in 0 .. n : g[i] \in S
  <2>1. \A i \in 1 .. n : i \in 0 .. n /\ i - 1 \in 0 .. n
    OBVIOUS
  <2>2. e \in Goal[0] /\ \A i \in 1 .. n : \A x \in Goal[i - 1] : f[<<x, i>>] \in Goal[i]
    BY <1>2, <1>3, <1>4, <2>1
  <2>3. PICK g : Run(f, e, n, g) /\ \A i \in 0 .. n : g[i] \in Goal[i]
    BY <2>2, RunMeets
  <2> QED
    BY <1>3, <2>3
<1>6. \A i \in 0 .. n : i # 0 => f[<<g[i - 1], i>>] = Followed(g[i - 1], s[i])
  BY <1>4, <1>5
<1>7. g = [i \in 0 .. n |-> IF i = 0 THEN e ELSE Followed(g[i - 1], s[i])]
  BY <1>5, <1>6 DEF Run
<1> QED
  BY <1>1, <1>7 DEF Joint

LEMMA FlattenIs ==
  ASSUME NEW n \in Nat, n # 0, NEW A, NEW s \in [1 .. n -> Seq(A)]
  PROVE  \E g : Joint(s, n, g) /\ FlattenSeq(s) = g[n]
<1> DEFINE F(h) == [i \in 1 .. n |-> IF i = 1 THEN s[i] ELSE Followed(h[i - 1], s[i])]
<1>1. PICK g : Joint(s, n, g)
  BY JointExists
<1>2. g[0] = <<>> /\ \A i \in 1 .. n : g[i] = Followed(g[i - 1], s[i])
  BY <1>1 DEF Joint
<1>3. g[1] = s[1]
  <2>1. g[1] = Followed(g[0], s[1]) /\ s[1] \in Seq(A)
    BY <1>2
  <2> QED
    BY <1>2, <2>1 DEF Followed
<1>4. PICK h : h = [i \in 1 .. n |-> g[i]]
  OBVIOUS
<1>5. h = F(h)
  BY <1>2, <1>3, <1>4
<1>6. PICK a : a = CHOOSE x : x = F(x)
  OBVIOUS
<1>7. a = F(a)
  BY <1>5, <1>6
<1>8. a[1] = s[1] /\ \A i \in 1 .. n : i # 1 => a[i] = Followed(a[i - 1], s[i])
  BY <1>7
<1>9. Len(s) = n
  OBVIOUS
<1> HIDE DEF F
<1>10. FlattenSeq(s) = a[n]
  BY <1>6, <1>9 DEF FlattenSeq, F, Followed
<1>11. a[n] = g[n]
  <2> DEFINE S == {k \in Nat : k \in 1 .. n => a[k] = g[k]}
  <2>1. 0 \in S
    OBVIOUS
  <2>2. ASSUME NEW k \in Nat, k \in S PROVE k + 1 \in S
    <3>1. PICK j : j = k + 1
      OBVIOUS
    <3>2. j \in Nat /\ j - 1 = k /\ (j \in 1 .. n => j = 1 \/ k \in 1 .. n)
      BY <3>1
    <3>3. j \in 1 .. n => a[j] = g[j]
      BY <1>2, <1>3, <1>8, <2>2, <3>2
    <3> QED
      BY <3>1, <3>2, <3>3
  <2>3. Nat \subseteq S
    BY <2>1, <2>2, Induction
  <2> QED
    BY <2>3
<1> QED
  BY <1>1, <1>10, <1>11

\* The indices of the elements of parts[i], and of the tuple.
Outer(parts, n) == [i \in 1 .. n |-> [j \in 1 .. Size(parts[i]) |-> j]]
Inner(parts, n) == [i \in 1 .. n |-> [j \in 1 .. Size(parts[i]) |-> i]]

LEMMA IndicesAre ==
  ASSUME IInv, NEW n \in Nat, NEW parts \in [1 .. n -> Alive]
  PROVE  /\ \E g : Joint(Outer(parts, n), n, g) /\ OuterIndices(parts) = g[n]
         /\ \E g : Joint(Inner(parts, n), n, g) /\ InnerIndices(parts) = g[n]
<1>1. Len(parts) = n /\ \A i \in 1 .. n : Size(parts[i]) \in Nat
  BY AliveLength
<1>2. \E g : Joint(Outer(parts, n), n, g) /\ OuterIndices(parts) = g[n]
  <2> DEFINE F(h) == [i \in 0 .. n |-> IF i = 0 THEN <<>>
                                       ELSE Followed(h[i - 1], [j \in 1 .. Size(parts[i]) |-> j])]
  <2>1. \A i \in 1 .. n : Outer(parts, n)[i] \in Seq(Nat)
    BY <1>1 DEF Outer
  <2>2. PICK g : Joint(Outer(parts, n), n, g)
    BY <2>1, JointExists
  <2>3. g = F(g)
    <3>1. g = [i \in 0 .. n |-> IF i = 0 THEN <<>> ELSE Followed(g[i - 1], Outer(parts, n)[i])]
      BY <2>2 DEF Joint
    <3>2. ASSUME NEW i \in 0 .. n, i # 0
          PROVE  Outer(parts, n)[i] = [j \in 1 .. Size(parts[i]) |-> j]
      <4>1. i \in 1 .. n
        BY <3>2
      <4> QED
        BY <4>1 DEF Outer
    <3> QED
      BY <3>1, <3>2
  <2>4. PICK a : a = CHOOSE h : h = F(h)
    OBVIOUS
  <2>5. a = F(a)
    BY <2>3, <2>4
  <2>6. Joint(Outer(parts, n), n, a)
    BY <2>5 DEF Joint, Outer
  <2> HIDE DEF F
  <2>7. OuterIndices(parts) = a[n]
    BY <1>1, <2>4 DEF OuterIndices, Each, F, Followed
  <2> QED
    BY <2>6, <2>7
<1>3. \E g : Joint(Inner(parts, n), n, g) /\ InnerIndices(parts) = g[n]
  <2> DEFINE F(h) == [i \in 0 .. n |-> IF i = 0 THEN <<>>
                                       ELSE Followed(h[i - 1], [j \in 1 .. Size(parts[i]) |-> i])]
  <2>1. \A i \in 1 .. n : Inner(parts, n)[i] \in Seq(Nat)
    BY <1>1 DEF Inner
  <2>2. PICK g : Joint(Inner(parts, n), n, g)
    BY <2>1, JointExists
  <2>3. g = F(g)
    <3>1. g = [i \in 0 .. n |-> IF i = 0 THEN <<>> ELSE Followed(g[i - 1], Inner(parts, n)[i])]
      BY <2>2 DEF Joint
    <3>2. ASSUME NEW i \in 0 .. n, i # 0
          PROVE  Inner(parts, n)[i] = [j \in 1 .. Size(parts[i]) |-> i]
      <4>1. i \in 1 .. n
        BY <3>2
      <4> QED
        BY <4>1 DEF Inner
    <3> QED
      BY <3>1, <3>2
  <2>4. PICK a : a = CHOOSE h : h = F(h)
    OBVIOUS
  <2>5. a = F(a)
    BY <2>3, <2>4
  <2>6. Joint(Inner(parts, n), n, a)
    BY <2>5 DEF Joint, Inner
  <2> HIDE DEF F
  <2>7. InnerIndices(parts) = a[n]
    BY <1>1, <2>4 DEF InnerIndices, Each, F, Followed
  <2> QED
    BY <2>6, <2>7
<1> QED
  BY <1>2, <1>3

FollowsOn(x, y, l, m, z) ==
  /\ Len(z) = l + m
  /\ \A j \in 1 .. l + m : z[j] = IF j <= l THEN x[j] ELSE y[j - l]

LEMMA FollowedIs ==
  ASSUME NEW A, NEW x \in Seq(A), NEW y \in Seq(A), NEW l, l = Len(x), NEW m, m = Len(y),
         NEW z, z = Followed(x, y)
  PROVE  z \in Seq(A) /\ FollowsOn(x, y, l, m, z)
<1>1. z = x \o y
  BY DEF Followed
<1> QED
  BY <1>1, ConcatProperties DEF FollowsOn

\* The j-th element of the first i objects' values, and where it is.
Located(parts, i, outer, inner, flat) ==
  /\ outer \in Seq(Nat) /\ inner \in Seq(Nat) /\ flat \in Seq(Anything)
  /\ Len(outer) = Len(flat) /\ Len(inner) = Len(flat)
  /\ \A j \in 1 .. Len(flat) :
       /\ inner[j] \in 1 .. i /\ outer[j] \in 1 .. Size(parts[inner[j]])
       /\ flat[j] = held[<<parts[inner[j]], outer[j]>>]

LEMMA LocatedFurther ==
  ASSUME IInv, NEW n \in Nat, NEW parts \in [1 .. n -> Alive], NEW i \in 1 .. n,
         NEW x, NEW y, NEW z, Located(parts, i - 1, x, y, z),
         NEW s, NEW t, NEW v, s = Outer(parts, n)[i], t = Inner(parts, n)[i], v = Value(parts[i]),
         v \in Seq(Anything)
  PROVE  Located(parts, i, Followed(x, s), Followed(y, t), Followed(z, v))
<1>1. PICK o, m : o = parts[i] /\ m = Size(o)
  OBVIOUS
<1>2. m \in Nat
  BY <1>1, AliveLength
<1>3. s = [j \in 1 .. m |-> j] /\ t = [j \in 1 .. m |-> i] /\ v = [j \in 1 .. m |-> held[<<o, j>>]]
  BY <1>1 DEF Outer, Inner, Value
<1>4. /\ s \in Seq(Nat) /\ t \in Seq(Nat) /\ Len(s) = m /\ Len(t) = m /\ Len(v) = m
      /\ \A j \in 1 .. m : s[j] = j /\ t[j] = i /\ v[j] = held[<<o, j>>]
  BY <1>2, <1>3
<1>5. PICK l : l = Len(z)
  OBVIOUS
<1>6. /\ x \in Seq(Nat) /\ y \in Seq(Nat) /\ z \in Seq(Anything)
      /\ Len(x) = l /\ Len(y) = l /\ Len(z) = l /\ l \in Nat
  BY <1>5 DEF Located
<1>7. PICK a, b, c : a = Followed(x, s) /\ b = Followed(y, t) /\ c = Followed(z, v)
  OBVIOUS
<1>8. /\ a \in Seq(Nat) /\ b \in Seq(Nat) /\ c \in Seq(Anything)
      /\ Len(a) = l + m /\ Len(b) = l + m /\ Len(c) = l + m
      /\ \A j \in 1 .. l + m : /\ a[j] = IF j <= l THEN x[j] ELSE s[j - l]
                               /\ b[j] = IF j <= l THEN y[j] ELSE t[j - l]
                               /\ c[j] = IF j <= l THEN z[j] ELSE v[j - l]
  <2>1. a \in Seq(Nat) /\ FollowsOn(x, s, l, m, a)
    BY <1>4, <1>6, <1>7, FollowedIs
  <2>2. b \in Seq(Nat) /\ FollowsOn(y, t, l, m, b)
    BY <1>4, <1>6, <1>7, FollowedIs
  <2>3. c \in Seq(Anything) /\ FollowsOn(z, v, l, m, c)
    BY <1>4, <1>6, <1>7, FollowedIs
  <2> QED
    BY <2>1, <2>2, <2>3 DEF FollowsOn
<1>9. ASSUME NEW j \in 1 .. l + m
      PROVE  /\ b[j] \in 1 .. i /\ a[j] \in 1 .. Size(parts[b[j]])
             /\ c[j] = held[<<parts[b[j]], a[j]>>]
  <2>1. CASE j <= l
    <3>1. j \in 1 .. l /\ a[j] = x[j] /\ b[j] = y[j] /\ c[j] = z[j]
      BY <1>2, <1>6, <1>8, <2>1
    <3>2. /\ y[j] \in 1 .. i - 1 /\ x[j] \in 1 .. Size(parts[y[j]])
          /\ z[j] = held[<<parts[y[j]], x[j]>>]
      BY <1>5, <3>1 DEF Located
    <3>3. y[j] \in 1 .. i
      BY <3>2
    <3> QED
      BY <3>1, <3>2, <3>3
  <2>2. CASE ~ j <= l
    <3>1. PICK q : q = j - l
      OBVIOUS
    <3>2. q \in 1 .. m /\ a[j] = s[q] /\ b[j] = t[q] /\ c[j] = v[q]
      BY <1>2, <1>6, <1>8, <2>2, <3>1
    <3>3. a[j] = q /\ b[j] = i /\ c[j] = held[<<o, q>>]
      BY <1>4, <3>2
    <3> QED
      BY <1>1, <3>2, <3>3
  <2> QED
    BY <2>1, <2>2
<1> QED
  BY <1>7, <1>8, <1>9 DEF Located

LEMMA CatPlacesAre ==
  ASSUME IInv, NEW n \in Nat, n # 0, NEW parts \in [1 .. n -> Alive], NEW flat,
         flat = FlattenSeq([j \in 1 .. n |-> Value(parts[j])])
  PROVE  /\ flat \in Seq(Anything) /\ DOMAIN CatPlaces(parts) = 1 .. Len(flat)
         /\ \A j \in 1 .. Len(flat) : flat[j] = held[CatPlaces(parts)[j]]
<1>1. PICK s : s = [j \in 1 .. n |-> Value(parts[j])]
  OBVIOUS
<1>2. \A j \in 1 .. n : Value(parts[j]) \in Seq(Anything)
  <2> SUFFICES ASSUME NEW j \in 1 .. n PROVE Value(parts[j]) \in Seq(Anything)
    OBVIOUS
  <2>1. PICK o, m : o = parts[j] /\ m = Size(o)
    OBVIOUS
  <2>2. o \in Alive /\ m \in Nat
    BY <2>1, AliveLength
  <2>3. \A i \in 1 .. m : <<o, i>> \in Everywhere
    BY <2>1, <2>2, SoundWorld, PlacesOf, ElementAllowed
  <2>4. held \in [Everywhere -> Anything]
    BY SoundWorld, GoodWorld DEF World
  <2>5. \A i \in 1 .. m : held[<<o, i>>] \in Anything
    BY <2>3, <2>4
  <2>6. [i \in 1 .. m |-> held[<<o, i>>]] \in Seq(Anything)
    BY <2>2, <2>5
  <2> QED
    BY <2>1, <2>6 DEF Value
<1>3. s \in [1 .. n -> Seq(Anything)] /\ \A i \in 1 .. n : s[i] = Value(parts[i]) /\ s[i] \in Seq(Anything)
  BY <1>1, <1>2
<1>4. PICK c : Joint(s, n, c) /\ flat = c[n]
  BY <1>1, <1>3, FlattenIs
<1>5. PICK a : Joint(Outer(parts, n), n, a) /\ OuterIndices(parts) = a[n]
  BY IndicesAre
<1>6. PICK b : Joint(Inner(parts, n), n, b) /\ InnerIndices(parts) = b[n]
  BY IndicesAre
<1>7. /\ a[0] = <<>> /\ b[0] = <<>> /\ c[0] = <<>>
      /\ \A i \in 1 .. n : /\ a[i] = Followed(a[i - 1], Outer(parts, n)[i])
                           /\ b[i] = Followed(b[i - 1], Inner(parts, n)[i])
                           /\ c[i] = Followed(c[i - 1], s[i])
  BY <1>4, <1>5, <1>6 DEF Joint
<1>8. \A i \in Nat : i <= n => Located(parts, i, a[i], b[i], c[i])
  <2> DEFINE S == {i \in Nat : i <= n => Located(parts, i, a[i], b[i], c[i])}
  <2>1. 0 \in S
    <3>1. Located(parts, 0, <<>>, <<>>, <<>>)
      BY DEF Located
    <3> QED
      BY <1>7, <3>1
  <2>2. ASSUME NEW k \in Nat, k \in S PROVE k + 1 \in S
    <3>1. PICK i : i = k + 1
      OBVIOUS
    <3>2. i \in Nat /\ i - 1 = k /\ (i <= n => i \in 1 .. n /\ k <= n)
      BY <3>1
    <3>3. ASSUME i <= n PROVE Located(parts, i, a[i], b[i], c[i])
      <4>1. i \in 1 .. n /\ Located(parts, i - 1, a[k], b[k], c[k])
        BY <2>2, <3>2, <3>3
      <4>2. Located(parts, i, Followed(a[k], Outer(parts, n)[i]), Followed(b[k], Inner(parts, n)[i]),
                    Followed(c[k], s[i]))
        BY <1>3, <4>1, LocatedFurther
      <4> QED
        BY <1>7, <3>2, <4>1, <4>2
    <3> QED
      BY <3>1, <3>2, <3>3
  <2>3. Nat \subseteq S
    BY <2>1, <2>2, Induction
  <2> QED
    BY <2>3
<1>9. Located(parts, n, a[n], b[n], flat)
  BY <1>4, <1>8
<1>10. PICK outer, inner : outer = a[n] /\ inner = b[n]
  OBVIOUS
<1>11. /\ outer \in Seq(Nat) /\ Len(outer) = Len(flat) /\ flat \in Seq(Anything)
       /\ \A j \in 1 .. Len(flat) : /\ inner[j] \in 1 .. n /\ outer[j] \in 1 .. Size(parts[inner[j]])
                                    /\ flat[j] = held[<<parts[inner[j]], outer[j]>>]
  BY <1>9, <1>10 DEF Located
<1>12. DOMAIN outer = 1 .. Len(flat)
  BY <1>11
<1>13. CatPlaces(parts) = [j \in DOMAIN outer |-> get(parts[inner[j]], outer[j])]
  BY <1>5, <1>6, <1>10 DEF CatPlaces
<1>14. ASSUME NEW j \in 1 .. Len(flat) PROVE flat[j] = held[CatPlaces(parts)[j]]
  <2>1. PICK o, i : o = parts[inner[j]] /\ i = outer[j]
    OBVIOUS
  <2>2. o \in Alive /\ i \in 1 .. Size(o) /\ flat[j] = held[<<o, i>>]
    BY <1>11, <2>1
  <2>3. get(o, i) = <<o, i>>
    BY <2>2, SoundWorld, PlacesOf
  <2> QED
    BY <1>12, <1>13, <2>1, <2>2, <2>3
<1> QED
  BY <1>11, <1>12, <1>13, <1>14

LEMMA SequenceIs ==
  ASSUME NEW A, NEW s \in Seq(A)
  PROVE  Len(s) \in Nat /\ OnFirst(s, Len(s))
BY DEF OnFirst

LEMMA CatJoins ==
  ASSUME IInv, NEW o \in Object \ Alive, NEW k \in Classes, NEW n \in Nat, n # 0,
         NEW parts \in [1 .. n -> TupleLike], Concatenate(o, k, parts)
  PROVE  Value(o)' = FlattenSeq([j \in 1 .. n |-> Value(parts[j])]) /\ OthersKeep({})
<1>1. PICK w, x, P, Q, m, flat :
         /\ w = World /\ x = AllConstructed(World, P, Q, "copy") /\ Q = CatPlaces(parts)
         /\ P = [i \in DOMAIN Q |-> <<o, i>>]
         /\ m = Len(flat) /\ flat = FlattenSeq([j \in 1 .. n |-> Value(parts[j])])
  OBVIOUS
<1>2. parts \in [1 .. n -> Alive]
  BY DEF TupleLike
<1>3. flat \in Seq(Anything) /\ DOMAIN Q = 1 .. m /\ \A j \in 1 .. m : flat[j] = held[Q[j]]
  BY <1>1, <1>2, CatPlacesAre
<1>4. m \in Nat /\ OnFirst(flat, m) /\ Len(P) = m /\ \A i \in 1 .. m : P[i] = <<o, i>>
  <2>1. m \in Nat /\ OnFirst(flat, m)
    <3>1. m = Len(flat)
      BY <1>1
    <3> QED
      BY <1>3, <3>1, SequenceIs
  <2>2. P = [i \in 1 .. m |-> <<o, i>>]
    BY <1>1, <1>3
  <2> QED
    BY <2>1, <2>2
<1>5. /\ Becomes(x) /\ class' = [class EXCEPT ![o] = k]
      /\ k.of = [i \in DOMAIN Q |-> Type(Q[i])] /\ \A i \in DOMAIN Q : Q[i] \in Elements
  BY <1>1 DEF Concatenate, Make, Begins, AreElements
<1>6. Len(k.of) = m
  BY <1>3, <1>4, <1>5
<1>7. /\ \A i \in 1 .. m : P[i] \in Everywhere
      /\ \A p \in Elements : p \in Everywhere /\ p[1] # o
  <2>1. \A i \in 1 .. Len(k.of) : <<o, i>> \in Everywhere
    BY BeginsSound
  <2>2. \A p \in Elements : p \in Everywhere /\ p[1] # o
    BY BeginsSound
  <2> QED
    BY <1>4, <1>6, <2>1, <2>2
<1>8. Effect(w, P, P, flat, flat, m, x)
  <2>1. Apart(P, P, m)
    BY <1>4, <1>7 DEF Apart
  <2>2. \A i \in 1 .. m : /\ Q[i] \in Everywhere /\ flat[i] = w.held[Q[i]]
                          /\ \A j \in 1 .. m : i # j => Q[i] # P[j]
    <3> SUFFICES ASSUME NEW i \in 1 .. m
                 PROVE  /\ Q[i] \in Everywhere /\ flat[i] = w.held[Q[i]]
                        /\ \A j \in 1 .. m : i # j => Q[i] # P[j]
      OBVIOUS
    <3>1. Q[i] \in Elements
      BY <1>3, <1>5
    <3>2. Q[i] \in Everywhere /\ Q[i][1] # o
      BY <1>7, <3>1
    <3>3. flat[i] = w.held[Q[i]]
      BY <1>1, <1>3 DEF World
    <3>4. \A j \in 1 .. m : Q[i] # P[j]
      BY <1>4, <3>2
    <3> QED
      BY <3>2, <3>3, <3>4
  <2>3. w \in Worlds
    BY <1>1, SoundWorld, GoodWorld
  <2>4. x = AllConstructed(w, P, Q, "copy") /\ "copy" # "move"
    BY <1>1
  <2>5. m \in Nat /\ Len(P) = m
    BY <1>4
  <2>6. Effect(w, P, P, flat, flat, m, AllConstructed(w, P, Q, "copy"))
    BY <2>1, <2>2, <2>3, <2>4, <2>5, ConstructsHold
  <2> QED
    BY <2>4, <2>6
<1>9. Typed /\ class'[o] = k /\ \A p \in Alive : p # o /\ class'[p] = class[p]
  BY <1>5, SoundWorld DEF Typed, Alive
<1>10. Value(o)' = flat
  <2>1. Value(o)' = [i \in 1 .. m |-> held'[<<o, i>>]]
    BY <1>6, <1>9 DEF Value, Size
  <2>2. \A i \in 1 .. m : held'[<<o, i>>] = flat[i]
    BY <1>4, <1>5, <1>8 DEF Effect, Becomes
  <2> QED
    BY <1>4, <2>1, <2>2 DEF OnFirst
<1>11. OthersKeep({})
  <2> SUFFICES ASSUME NEW p \in Alive PROVE Value(p)' = Value(p)
    BY DEF OthersKeep
  <2>1. PICK l : l = Size(p)
    OBVIOUS
  <2>2. ASSUME NEW i \in 1 .. l PROVE held'[<<p, i>>] = held[<<p, i>>]
    <3>1. PICK q : q = <<p, i>>
      OBVIOUS
    <3>2. q \in Everywhere
      BY <1>9, <2>1, <3>1, PlacesOf, ElementAllowed
    <3>3. \A j \in 1 .. m : q # P[j]
      BY <1>4, <1>9, <3>1
    <3>4. x.held[q] = w.held[q]
      BY <1>8, <3>2, <3>3 DEF Effect
    <3> QED
      BY <1>1, <1>5, <3>1, <3>4 DEF Becomes, World
  <2>3. Value(p) = [i \in 1 .. l |-> held[<<p, i>>]]
    BY <2>1 DEF Value
  <2>4. Value(p)' = [i \in 1 .. l |-> held'[<<p, i>>]]
    BY <1>9, <2>1 DEF Value, Size
  <2> QED
    BY <2>2, <2>3, <2>4
<1> QED
  BY <1>1, <1>10, <1>11

LEMMA PromisedStep ==
  ASSUME IInv
  PROVE  IF class' # class THEN CatsJoin ELSE MovesKeep /\ TiesKeep /\ CallsPass
<1>1. CatsJoin
  <2>1. \A n \in 2 .. 3 : n \in Nat /\ n # 0
    OBVIOUS
  <2> QED
    BY <2>1, CatJoins DEF CatsJoin
<1> QED
  BY <1>1, ChangesKeep

LEMMA InvariantHolds == Spec => []IInv
<1>1. Init => IInv
  BY InitSound
<1>2. IInv /\ [Next]_vars => IInv'
  BY NextSound
<1> QED
  BY <1>1, <1>2, PTL DEF Spec

(* The loader has a library open as often as elements of pairs, tuples and  *)
(* bound arguments hold it (shared_library.hpp, pair.hpp, tuple.hpp,        *)
(* bind.hpp): no move, assignment, swap, call or end of an object loses a   *)
(* handle or closes one that an element has, of how many elements and in    *)
(* whatever order they are passed on; and what is no element holds nothing. *)
THEOREM BalancedCorrect == Spec => []Balanced
<1>1. IInv => Balanced
  BY SoundBalanced
<1> QED
  BY <1>1, InvariantHolds, PTL

(* Operations on whole objects do to each element what they say: what is    *)
(* assigned, swapped, tied or concatenated (tuple_cat) has the values of    *)
(* the other object's elements, no other object changes, an object that was *)
(* moved from has what the move left of it, and a function that is called   *)
(* gets the bound arguments (pair.hpp, tuple.hpp, bind.hpp).                *)
THEOREM PromisedCorrect == Spec => Promised
<1>1. IInv /\ [Next]_vars =>
        [IF class' # class THEN CatsJoin ELSE MovesKeep /\ TiesKeep /\ CallsPass]_vars
  BY PromisedStep
<1> QED
  BY <1>1, InvariantHolds, PTL DEF Spec, Promised
===============================================================================
