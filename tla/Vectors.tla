------------------------------- MODULE Vectors -------------------------------
(***************************************************************************)
(* xme::math::Vector and the functions on vectors.  The template           *)
(* (vector.hpp) is a sequence of components, which the code counts from 0; *)
(* its specialisations for 2, 3 and 4 components, each written out by hand *)
(* in a file of its own, are records.  The arithmetic of the components is *)
(* a parameter: what holds of every Arith holds of one that rounds.        *)
(***************************************************************************)
EXTENDS Integers, Sequences

CONSTANTS Scalar,         \* the values of a component, the integers -1, 0, 1 among them
          Arith(_, _, _)  \* a op b, for op one of Ops

Ops == {"+", "-", "*", "/"}

ASSUME ScalarAssumption ==
  /\ {-1, 0, 1} \subseteq Scalar
  /\ \A op \in Ops, a \in Scalar, b \in Scalar : Arith(op, a, b) \in Scalar

a \oplus b  == Arith("+", a, b)
a \ominus b == Arith("-", a, b)
a \otimes b == Arith("*", a, b)
a \oslash b == Arith("/", a, b)
Neg(a) == 0 \ominus a

-----------------------------------------------------------------------------
(* Vector<T, Size>.  The operators with a scalar are those with a vector   *)
(* filled with it; the ones that assign read no component but their own,   *)
(* and the scalar is a copy, so that v op= v and v op= v[0] are no special *)
(* cases.                                                                  *)

Filled(n, s) == [i \in 1 .. n |-> s]
VecOpShort(op, v, u) ==   \* mutant: the loop ends one component early
  [i \in 1 .. Len(v) - 1 |-> Arith(op, v[i], u[i])]
VecOp(op, v, u)     == [i \in DOMAIN v |-> Arith(op, v[i], u[i])]
VecSelfOp(op, v, u) == [i \in DOMAIN v |-> Arith(op, v[i], u[i])]
VecNegated(v)       == [i \in DOMAIN v |-> Neg(v[i])]
VecAssigned(v, u)   == [i \in DOMAIN v |-> u[i]]

-----------------------------------------------------------------------------
(* Vector<T, 2>. *)

Vec2(x, y) == [x |-> x, y |-> y]
Vec2Op(op, v, u) == Vec2(Arith(op, v.x, u.x), Arith(op, v.y, u.y))
Vec2SelfOp(op, v, u) ==
  [x |-> Arith(op, v.x, u.x), y |-> Arith(op, v.y, u.y)]
Vec2Negated(v) == Vec2(Neg(v.x), Neg(v.y))
Vec2Assigned(v, u) == Vec2(u.x, u.y)
Vec2At(v) == <<v.x, v.y>>   \* operator[]: the members as they follow in memory

(* Vector<T, 3>, also of a scalar and a vector of 2 in either order.       *)

Vec3(x, y, z) == [x |-> x, y |-> y, z |-> z]
Vec3SV(s, v) == Vec3(s, v.x, v.y)
Vec3VS(v, s) == Vec3(v.x, v.y, s)
Vec3Op(op, v, u) == Vec3(Arith(op, v.x, u.x), Arith(op, v.y, u.y), Arith(op, v.z, u.z))
Vec3SelfOp(op, v, u) ==
  [x |-> Arith(op, v.x, u.x), y |-> Arith(op, v.y, u.y),
   z |-> Arith(op, v.z, u.z)]
Vec3Negated(v) == Vec3(Neg(v.x), Neg(v.y), Neg(v.z))
Vec3Assigned(v, u) == Vec3(u.x, u.y, u.z)
Vec3At(v) == <<v.x, v.y, v.z>>

(* Vector<T, 4>, also of scalars and smaller vectors.                      *)

Vec4(x, y, z, w) == [x |-> x, y |-> y, z |-> z, w |-> w]
Vec4SSV(s1, s2, v) == Vec4(s1, s2, v.x, v.y)
Vec4SVS(s1, v, s2) == Vec4(s1, v.x, v.y, s2)
Vec4VSS(v, s1, s2) == Vec4(v.x, v.y, s1, s2)
Vec4VV(v1, v2)     == Vec4(v1.x, v1.y, v2.x, v2.y)
Vec4SV(s, v)       == Vec4(s, v.x, v.y, v.z)
Vec4VS(v, s)       == Vec4(v.x, v.y, v.z, s)
Vec4Op(op, v, u) ==
  Vec4(Arith(op, v.x, u.x), Arith(op, v.y, u.y), Arith(op, v.z, u.z), Arith(op, v.w, u.w))
Vec4SelfOpSlip(op, v, u) ==   \* mutant: a line copied and not changed
  [x |-> Arith(op, v.x, u.x), y |-> Arith(op, v.y, u.y),
   z |-> Arith(op, v.z, u.z), w |-> Arith(op, v.w, u.z)]
Vec4SelfOp(op, v, u) ==
  [x |-> Arith(op, v.x, u.x), y |-> Arith(op, v.y, u.y),
   z |-> Arith(op, v.z, u.z), w |-> Arith(op, v.w, u.w)]
Vec4Negated(v) == Vec4(Neg(v.x), Neg(v.y), Neg(v.z), Neg(v.w))
Vec4Assigned(v, u) == Vec4(u.x, u.y, u.z, u.w)
Vec4At(v) == <<v.x, v.y, v.z, v.w>>

-----------------------------------------------------------------------------
(* Functions on vectors of any size. *)

Plus(v, u)  == VecOp("+", v, u)
Minus(v, u) == VecOp("-", v, u)
Times(v, s) == VecOp("*", v, Filled(Len(v), s))

dot(v, u) ==
  LET result[i \in 0 .. Len(v)] == IF i = 0 THEN 0 ELSE result[i - 1] \oplus v[i] \otimes u[i]
  IN  result[Len(v)]

CrossUnsigned(v, u) ==   \* mutant: the middle component has the wrong sign
  <<v[2] \otimes u[3] \ominus v[3] \otimes u[2],
    v[1] \otimes u[3] \ominus v[3] \otimes u[1],
    v[1] \otimes u[2] \ominus v[2] \otimes u[1]>>
cross(v, u) == <<v[2] \otimes u[3] \ominus v[3] \otimes u[2],
                 v[3] \otimes u[1] \ominus v[1] \otimes u[3],
                 v[1] \otimes u[2] \ominus v[2] \otimes u[1]>>

faceforward(v, i, n) == IF dot(n, i) < 0 THEN v ELSE VecNegated(v)

ReflectOnce(v, n) == Minus(v, Times(n, dot(v, n)))   \* mutant: the part along n is not doubled
reflect(v, n) == Minus(v, Times(Times(n, dot(v, n)), 1 \oplus 1))

LerpSwapped(v, u, percent) ==   \* mutant
  Plus(Times(v, percent), Times(u, 1 \ominus percent))
lerp(v, u, percent) == Plus(Times(u, percent), Times(v, 1 \ominus percent))
LerpEach(v, u, percent) ==
  [i \in DOMAIN v |-> u[i] \otimes percent[i] \oplus v[i] \otimes (1 \ominus percent[i])]
LerpBool(v, u, percent) == [i \in DOMAIN v |-> IF percent[i] THEN u[i] ELSE v[i]]

sign(n) == (IF 0 < n THEN 1 ELSE 0) - (IF n < 0 THEN 1 ELSE 0)
VecSign(v) == [i \in DOMAIN v |-> sign(v[i])]
=============================================================================
