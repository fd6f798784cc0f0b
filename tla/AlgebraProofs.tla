---------------------------- MODULE AlgebraProofs ----------------------------
(***************************************************************************)
(* The specialisations of xme::math compute what their templates do, for   *)
(* every arithmetic of the components: nothing is used of Arith, what is   *)
(* compared is which component goes where.  In an exact arithmetic the     *)
(* functions on vectors, matrices and quaternions and the transformations  *)
(* obey the laws of Algebra: the components are replaced by integers that  *)
(* they are the values of, and a law becomes an identity of polynomials.   *)
(* Where it also divides, the projections fill the clip volume.            *)
(***************************************************************************)
EXTENDS Algebra, TLAPS

IsVector(v, n) == v = [i \in 1 .. n |-> v[i]]
IsMatrix(m) == IsVector(m, 4) /\ \A i \in 1 .. 4 : IsVector(m[i], 4)

\* The type invariant, but for the values of the components, which do not matter.
Shape == \/ kind = "vector" /\ \E n \in 2 .. 4 : IsVector(general, n)
         \/ kind = "matrix" /\ IsMatrix(general)
         \/ kind = "quaternion"

-----------------------------------------------------------------------------
(* Vectors. *)

\* A function on 1 .. n is a sequence of length n.
LEMMA VectorLength ==
  ASSUME NEW n \in Nat, NEW v, IsVector(v, n)
  PROVE  Len(v) = n /\ DOMAIN v = 1 .. n
<1> DEFINE S == {v[i] : i \in 1 .. n}
<1>1. v \in [1 .. n -> S]
  <2>1. \A i \in 1 .. n : v[i] \in S
    OBVIOUS
  <2>2. [i \in 1 .. n |-> v[i]] \in [1 .. n -> S]
    BY <2>1
  <2> QED
    BY <2>2 DEF IsVector
<1> HIDE DEF S
<1> QED
  BY <1>1

\* The operands of an operation have its size.
LEMMA OperandShape ==
  ASSUME NEW n \in 2 .. 4, NEW u \in Operands(n)
  PROVE  IsVector(u, n)
<1>1. CASE u \in SomeVectors /\ Len(u) = n
  <2>1. PICK k \in 2 .. 4 : u \in [1 .. k -> Scalar]
    BY <1>1, OperandsAssumption DEF VectorOf
  <2>2. IsVector(u, k)
    BY <2>1 DEF IsVector
  <2>3. k = n
    BY <1>1, <2>2, VectorLength
  <2> QED
    BY <2>2, <2>3
<1>2. CASE \E s \in SomeScalars : u = Filled(n, s)
  BY <1>2 DEF Filled, IsVector
<1> QED
  BY <1>1, <1>2 DEF Operands

\* The record of a vector holds its components, and operator[] reads them.
LEMMA MakeParts ==
  ASSUME NEW v
  PROVE  /\ IsVector(v, 2) => Make(v) = Vec2(v[1], v[2]) /\ Vec2At(Make(v)) = v
         /\ IsVector(v, 3) => Make(v) = Vec3(v[1], v[2], v[3]) /\ Vec3At(Make(v)) = v
         /\ IsVector(v, 4) => Make(v) = Vec4(v[1], v[2], v[3], v[4]) /\ Vec4At(Make(v)) = v
<1>1. ASSUME IsVector(v, 2) PROVE Make(v) = Vec2(v[1], v[2]) /\ Vec2At(Make(v)) = v
  <2>0. Len(v) = 2
    BY <1>1, VectorLength
  <2>1. Make(v) = Vec2(v[1], v[2])
    BY <2>0 DEF Make
  <2>2. <<v[1], v[2]>> = [i \in 1 .. 2 |-> v[i]]
    OBVIOUS
  <2> QED
    BY <1>1, <2>1, <2>2 DEF IsVector, Vec2, Vec2At
<1>2. ASSUME IsVector(v, 3) PROVE Make(v) = Vec3(v[1], v[2], v[3]) /\ Vec3At(Make(v)) = v
  <2>0. Len(v) = 3
    BY <1>2, VectorLength
  <2>1. Make(v) = Vec3(v[1], v[2], v[3])
    BY <2>0 DEF Make
  <2>2. <<v[1], v[2], v[3]>> = [i \in 1 .. 3 |-> v[i]]
    OBVIOUS
  <2> QED
    BY <1>2, <2>1, <2>2 DEF IsVector, Vec3, Vec3At
<1>3. ASSUME IsVector(v, 4) PROVE Make(v) = Vec4(v[1], v[2], v[3], v[4]) /\ Vec4At(Make(v)) = v
  <2>0. Len(v) = 4
    BY <1>3, VectorLength
  <2>1. Make(v) = Vec4(v[1], v[2], v[3], v[4])
    BY <2>0 DEF Make
  <2>2. <<v[1], v[2], v[3], v[4]>> = [i \in 1 .. 4 |-> v[i]]
    OBVIOUS
  <2> QED
    BY <1>3, <2>1, <2>2 DEF IsVector, Vec4, Vec4At
<1> QED
  BY <1>1, <1>2, <1>3

LEMMA AtMake ==
  ASSUME NEW n \in 2 .. 4, NEW v, IsVector(v, n)
  PROVE  At(n, Make(v)) = v
<1>1. n = 2 \/ n = 3 \/ n = 4
  OBVIOUS
<1> QED
  BY <1>1, MakeParts DEF At

\* Each operator of the specialisations, on the records of two vectors.
LEMMA OpAgrees ==
  ASSUME NEW n \in 2 .. 4, NEW op, NEW v, NEW u, IsVector(v, n), IsVector(u, n)
  PROVE  /\ IsVector(VecOp(op, v, u), n)
         /\ SpecialOp(n, op, Make(v), Make(u)) = Make(VecOp(op, v, u))
         /\ SpecialSelfOp(n, op, Make(v), Make(u)) = Make(VecOp(op, v, u))
<1> DEFINE r == VecOp(op, v, u)
<1>1. DOMAIN v = 1 .. n
  BY VectorLength
<1>2. r = [i \in 1 .. n |-> Arith(op, v[i], u[i])]
  BY <1>1 DEF VecOp
<1>3. IsVector(r, n) /\ \A i \in 1 .. n : r[i] = Arith(op, v[i], u[i])
  BY <1>2 DEF IsVector
<1> HIDE DEF r
<1>4. CASE n = 2
  <2>1. Make(r) = Vec2(Arith(op, v[1], u[1]), Arith(op, v[2], u[2]))
    BY <1>3, <1>4, MakeParts
  <2>2. Make(v) = Vec2(v[1], v[2]) /\ Make(u) = Vec2(u[1], u[2])
    BY <1>4, MakeParts
  <2>3. SpecialOp(n, op, Make(v), Make(u)) = Make(r)
    BY <1>4, <2>1, <2>2 DEF SpecialOp, Vec2Op, Vec2
  <2>4. SpecialSelfOp(n, op, Make(v), Make(u)) = Make(r)
    BY <1>4, <2>1, <2>2 DEF SpecialSelfOp, Vec2SelfOp, Vec2
  <2> QED
    BY <1>3, <2>3, <2>4 DEF r
<1>5. CASE n = 3
  <2>1. Make(r) = Vec3(Arith(op, v[1], u[1]), Arith(op, v[2], u[2]), Arith(op, v[3], u[3]))
    BY <1>3, <1>5, MakeParts
  <2>2. Make(v) = Vec3(v[1], v[2], v[3]) /\ Make(u) = Vec3(u[1], u[2], u[3])
    BY <1>5, MakeParts
  <2>3. SpecialOp(n, op, Make(v), Make(u)) = Make(r)
    BY <1>5, <2>1, <2>2 DEF SpecialOp, Vec3Op, Vec3
  <2>4. SpecialSelfOp(n, op, Make(v), Make(u)) = Make(r)
    BY <1>5, <2>1, <2>2 DEF SpecialSelfOp, Vec3SelfOp, Vec3
  <2> QED
    BY <1>3, <2>3, <2>4 DEF r
<1>6. CASE n = 4
  <2>1. Make(r) = Vec4(Arith(op, v[1], u[1]), Arith(op, v[2], u[2]),
                       Arith(op, v[3], u[3]), Arith(op, v[4], u[4]))
    BY <1>3, <1>6, MakeParts
  <2>2. Make(v) = Vec4(v[1], v[2], v[3], v[4]) /\ Make(u) = Vec4(u[1], u[2], u[3], u[4])
    BY <1>6, MakeParts
  <2>3. SpecialOp(n, op, Make(v), Make(u)) = Make(r)
    BY <1>6, <2>1, <2>2 DEF SpecialOp, Vec4Op, Vec4
  <2>4. SpecialSelfOp(n, op, Make(v), Make(u)) = Make(r)
    BY <1>6, <2>1, <2>2 DEF SpecialSelfOp, Vec4SelfOp, Vec4
  <2> QED
    BY <1>3, <2>3, <2>4 DEF r
<1> QED
  BY <1>4, <1>5, <1>6

LEMMA NegatedAndAssignedAgree ==
  ASSUME NEW n \in 2 .. 4, NEW v, NEW u, IsVector(v, n), IsVector(u, n)
  PROVE  /\ IsVector(VecNegated(v), n)
         /\ SpecialNegated(n, Make(v)) = Make(VecNegated(v))
         /\ IsVector(VecAssigned(v, u), n)
         /\ SpecialAssigned(n, Make(v), Make(u)) = Make(VecAssigned(v, u))
<1> DEFINE r == VecNegated(v)
           c == VecAssigned(v, u)
<1>1. r = [i \in 1 .. n |-> Neg(v[i])] /\ c = [i \in 1 .. n |-> u[i]]
  BY VectorLength DEF VecNegated, VecAssigned
<1>2. IsVector(r, n) /\ IsVector(c, n) /\ c = u /\ \A i \in 1 .. n : r[i] = Neg(v[i])
  BY <1>1 DEF IsVector
<1> HIDE DEF r, c
<1>3. CASE n = 2
  <2>1. Make(v) = Vec2(v[1], v[2]) /\ Make(u) = Vec2(u[1], u[2])
    BY <1>3, MakeParts
  <2>2. Make(r) = Vec2(Neg(v[1]), Neg(v[2]))
    BY <1>2, <1>3, MakeParts
  <2>3. Make(c) = Make(u)
    BY <1>2
  <2>4. SpecialNegated(n, Make(v)) = Make(r)
    BY <1>3, <2>1, <2>2 DEF SpecialNegated, Vec2Negated, Vec2
  <2>5. SpecialAssigned(n, Make(v), Make(u)) = Make(c)
    BY <1>3, <2>1, <2>3 DEF SpecialAssigned, Vec2Assigned, Vec2
  <2> QED
    BY <1>2, <2>4, <2>5 DEF r, c
<1>4. CASE n = 3
  <2>1. Make(v) = Vec3(v[1], v[2], v[3]) /\ Make(u) = Vec3(u[1], u[2], u[3])
    BY <1>4, MakeParts
  <2>2. Make(r) = Vec3(Neg(v[1]), Neg(v[2]), Neg(v[3]))
    BY <1>2, <1>4, MakeParts
  <2>3. Make(c) = Make(u)
    BY <1>2
  <2>4. SpecialNegated(n, Make(v)) = Make(r)
    BY <1>4, <2>1, <2>2 DEF SpecialNegated, Vec3Negated, Vec3
  <2>5. SpecialAssigned(n, Make(v), Make(u)) = Make(c)
    BY <1>4, <2>1, <2>3 DEF SpecialAssigned, Vec3Assigned, Vec3
  <2> QED
    BY <1>2, <2>4, <2>5 DEF r, c
<1>5. CASE n = 4
  <2>1. Make(v) = Vec4(v[1], v[2], v[3], v[4]) /\ Make(u) = Vec4(u[1], u[2], u[3], u[4])
    BY <1>5, MakeParts
  <2>2. Make(r) = Vec4(Neg(v[1]), Neg(v[2]), Neg(v[3]), Neg(v[4]))
    BY <1>2, <1>5, MakeParts
  <2>3. Make(c) = Make(u)
    BY <1>2
  <2>4. SpecialNegated(n, Make(v)) = Make(r)
    BY <1>5, <2>1, <2>2 DEF SpecialNegated, Vec4Negated, Vec4
  <2>5. SpecialAssigned(n, Make(v), Make(u)) = Make(c)
    BY <1>5, <2>1, <2>3 DEF SpecialAssigned, Vec4Assigned, Vec4
  <2> QED
    BY <1>2, <2>4, <2>5 DEF r, c
<1> QED
  BY <1>3, <1>4, <1>5

\* A vector given by its components.
LEMMA Tuple3 ==
  ASSUME NEW a, NEW b, NEW c
  PROVE  IsVector(<<a, b, c>>, 3) /\ Make(<<a, b, c>>) = Vec3(a, b, c)
<1> DEFINE t == <<a, b, c>>
<1>1. IsVector(t, 3) /\ t[1] = a /\ t[2] = b /\ t[3] = c
  BY DEF IsVector
<1> HIDE DEF t
<1>2. Make(t) = Vec3(a, b, c)
  BY <1>1, MakeParts
<1> QED
  BY <1>1, <1>2 DEF t

LEMMA Tuple4 ==
  ASSUME NEW a, NEW b, NEW c, NEW d
  PROVE  IsVector(<<a, b, c, d>>, 4) /\ Make(<<a, b, c, d>>) = Vec4(a, b, c, d)
<1> DEFINE t == <<a, b, c, d>>
<1>1. IsVector(t, 4) /\ t[1] = a /\ t[2] = b /\ t[3] = c /\ t[4] = d
  BY DEF IsVector
<1> HIDE DEF t
<1>2. Make(t) = Vec4(a, b, c, d)
  BY <1>1, MakeParts
<1> QED
  BY <1>1, <1>2 DEF t

\* The functions on vectors return a vector of the size of theirs.
LEMMA FunctionShape ==
  ASSUME NEW n \in 2 .. 4, NEW v, NEW u, IsVector(v, n), IsVector(u, n)
  PROVE  /\ IsVector(reflect(v, u), n)
         /\ \A i : IsVector(faceforward(v, i, u), n)
         /\ \A percent : /\ IsVector(lerp(v, u, percent), n)
                         /\ IsVector(LerpEach(v, u, percent), n)
                         /\ IsVector(LerpBool(v, u, percent), n)
         /\ IsVector(VecSign(v), n)
<1>1. DOMAIN v = 1 .. n /\ DOMAIN u = 1 .. n
  BY VectorLength
<1>2. IsVector(reflect(v, u), n)
  BY <1>1 DEF reflect, Minus, VecOp, IsVector
<1>3. ASSUME NEW i PROVE IsVector(faceforward(v, i, u), n)
  <2>1. IsVector(VecNegated(v), n)
    BY <1>1 DEF VecNegated, IsVector
  <2> QED
    BY <2>1 DEF faceforward
<1>4. ASSUME NEW percent
      PROVE  /\ IsVector(lerp(v, u, percent), n)
             /\ IsVector(LerpEach(v, u, percent), n)
             /\ IsVector(LerpBool(v, u, percent), n)
  <2>1. IsVector(lerp(v, u, percent), n)
    <3> DEFINE w == Times(u, percent)
    <3>1. DOMAIN w = 1 .. n
      BY <1>1 DEF Times, VecOp
    <3> HIDE DEF w
    <3>2. \A x : IsVector(Plus(w, x), n)
      BY <3>1 DEF Plus, VecOp, IsVector
    <3> QED
      BY <3>2 DEF lerp, w
  <2>2. IsVector(LerpEach(v, u, percent), n)
    BY <1>1 DEF LerpEach, IsVector
  <2>3. IsVector(LerpBool(v, u, percent), n)
    BY <1>1 DEF LerpBool, IsVector
  <2> QED
    BY <2>1, <2>2, <2>3
<1>5. IsVector(VecSign(v), n)
  BY <1>1 DEF VecSign, IsVector
<1> QED
  BY <1>2, <1>3, <1>4, <1>5

-----------------------------------------------------------------------------
(* Matrices. *)

LEMMA MatrixParts ==
  ASSUME NEW m, IsMatrix(m)
  PROVE  /\ DOMAIN m = 1 .. 4 /\ Len(m) = 4
         /\ \A i \in 1 .. 4 : DOMAIN m[i] = 1 .. 4 /\ Len(m[i]) = 4
         /\ m = <<m[1], m[2], m[3], m[4]>>
<1>1. DOMAIN m = 1 .. 4 /\ Len(m) = 4
  BY VectorLength DEF IsMatrix
<1>2. \A i \in 1 .. 4 : DOMAIN m[i] = 1 .. 4 /\ Len(m[i]) = 4
  BY VectorLength DEF IsMatrix
<1>3. [i \in 1 .. 4 |-> m[i]] = <<m[1], m[2], m[3], m[4]>>
  OBVIOUS
<1> QED
  BY <1>1, <1>2, <1>3 DEF IsMatrix, IsVector

LEMMA MatrixOfColumns ==
  ASSUME NEW a, NEW b, NEW c, NEW d,
         IsVector(a, 4), IsVector(b, 4), IsVector(c, 4), IsVector(d, 4)
  PROVE  IsMatrix(<<a, b, c, d>>)
<1>1. IsVector(<<a, b, c, d>>, 4)
  BY Tuple4
<1>2. \A i \in 1 .. 4 : i = 1 \/ i = 2 \/ i = 3 \/ i = 4
  OBVIOUS
<1> QED
  BY <1>1, <1>2 DEF IsMatrix

\* A loop over four columns is the four of them.
LEMMA Unrolled ==
  ASSUME NEW f, f = [i \in 1 .. 4 |-> f[i]]
  PROVE  f = <<f[1], f[2], f[3], f[4]>>
OBVIOUS

LEMMA MatrixOperationsAgree ==
  ASSUME NEW m, IsMatrix(m), NEW k, IsMatrix(k), NEW op
  PROVE  /\ IsMatrix(MatOp(op, m, k)) /\ Mat4Op(op, m, k) = MatOp(op, m, k)
         /\ IsMatrix(MatSelfOp(op, m, k)) /\ Mat4SelfOp(op, m, k) = MatSelfOp(op, m, k)
         /\ IsMatrix(MatNegated(m)) /\ Mat4Negated(m) = MatNegated(m)
         /\ MatAssigned(m, k) = k /\ Mat4Assigned(m, k) = k
<1>1. DOMAIN m = 1 .. 4 /\ Rows(m) = 4
  BY MatrixParts DEF Rows
<1>2. \A i \in 1 .. 4 : \A u : /\ IsVector(VecOp(op, m[i], u), 4)
                               /\ IsVector(VecSelfOp(op, m[i], u), 4)
                               /\ IsVector(VecNegated(m[i]), 4)
  BY MatrixParts DEF VecOp, VecSelfOp, VecNegated, IsVector
<1>3. IsMatrix(MatOp(op, m, k)) /\ Mat4Op(op, m, k) = MatOp(op, m, k)
  <2> DEFINE f == MatOp(op, m, k)
  <2>1. f = [i \in 1 .. 4 |-> VecOp(op, m[i], k[i])]
    BY <1>1 DEF MatOp
  <2> HIDE DEF f
  <2>2. f = [i \in 1 .. 4 |-> f[i]] /\ \A i \in 1 .. 4 : f[i] = VecOp(op, m[i], k[i])
    BY <2>1
  <2>3. f = <<f[1], f[2], f[3], f[4]>>
    BY <2>2, Unrolled
  <2>4. f = Mat4Op(op, m, k)
    BY <2>2, <2>3 DEF Mat4Op
  <2>5. IsMatrix(f)
    BY <1>2, <2>2 DEF IsMatrix, IsVector
  <2> QED
    BY <2>4, <2>5 DEF f
<1>4. IsMatrix(MatSelfOp(op, m, k)) /\ Mat4SelfOp(op, m, k) = MatSelfOp(op, m, k)
  <2>1. Mat4SelfOp(op, m, k) = MatSelfOp(op, m, k)
    BY <1>1 DEF MatSelfOp, Mat4SelfOp
  <2>2. IsMatrix(Mat4SelfOp(op, m, k))
    BY <1>2 DEF IsMatrix, IsVector, Mat4SelfOp
  <2> QED
    BY <2>1, <2>2
<1>5. IsMatrix(MatNegated(m)) /\ Mat4Negated(m) = MatNegated(m)
  <2> DEFINE f == MatNegated(m)
  <2>1. f = [i \in 1 .. 4 |-> VecNegated(m[i])]
    BY <1>1 DEF MatNegated
  <2> HIDE DEF f
  <2>2. f = [i \in 1 .. 4 |-> f[i]] /\ \A i \in 1 .. 4 : f[i] = VecNegated(m[i])
    BY <2>1
  <2>3. f = <<f[1], f[2], f[3], f[4]>>
    BY <2>2, Unrolled
  <2>4. f = Mat4Negated(m)
    BY <2>2, <2>3 DEF Mat4Negated
  <2>5. IsMatrix(f)
    BY <1>2, <2>2 DEF IsMatrix, IsVector
  <2> QED
    BY <2>4, <2>5 DEF f
<1>6. MatAssigned(m, k) = k
  <2>1. \A i \in 1 .. 4 : VecAssigned(m[i], k[i]) = k[i]
    BY MatrixParts DEF VecAssigned, IsMatrix, IsVector
  <2>2. MatAssigned(m, k) = [i \in 1 .. 4 |-> k[i]]
    BY <1>1, <2>1 DEF MatAssigned
  <2> QED
    BY <2>2 DEF IsMatrix, IsVector
<1>7. Mat4Assigned(m, k) = k
  <2>1. k = <<k[1], k[2], k[3], k[4]>>
    BY MatrixParts
  <2> QED
    BY <2>1, <1>1 DEF Mat4Assigned
<1> QED
  BY <1>3, <1>4, <1>5, <1>6, <1>7

LEMMA MatrixScalarsAgree ==
  ASSUME NEW m, IsMatrix(m), NEW op, NEW s
  PROVE  /\ IsMatrix(MatOpScalar(op, m, s)) /\ Mat4OpScalar(op, m, s) = MatOpScalar(op, m, s)
         /\ IsMatrix(MatSelfOpScalar(op, m, s))
         /\ Mat4SelfOpScalar(op, m, s) = MatSelfOpScalar(op, m, s)
<1>1. DOMAIN m = 1 .. 4 /\ Rows(m) = 4
  BY MatrixParts DEF Rows
<1>2. \A i \in 1 .. 4 : \A u : /\ IsVector(VecOp(op, m[i], u), 4)
                               /\ IsVector(VecSelfOp(op, m[i], u), 4)
  BY MatrixParts DEF VecOp, VecSelfOp, IsVector
<1>3. IsMatrix(MatOpScalar(op, m, s)) /\ Mat4OpScalar(op, m, s) = MatOpScalar(op, m, s)
  <2> DEFINE f == MatOpScalar(op, m, s)
  <2>1. f = [i \in 1 .. 4 |-> VecOp(op, m[i], Filled(4, s))]
    BY <1>1 DEF MatOpScalar
  <2> HIDE DEF f
  <2>2. /\ f = [i \in 1 .. 4 |-> f[i]]
        /\ \A i \in 1 .. 4 : f[i] = VecOp(op, m[i], Filled(4, s))
    BY <2>1
  <2>3. f = <<f[1], f[2], f[3], f[4]>>
    BY <2>2, Unrolled
  <2>4. f = Mat4OpScalar(op, m, s)
    BY <2>2, <2>3 DEF Mat4OpScalar
  <2>5. IsMatrix(f)
    BY <1>2, <2>2 DEF IsMatrix, IsVector
  <2> QED
    BY <2>4, <2>5 DEF f
<1>4. /\ IsMatrix(MatSelfOpScalar(op, m, s))
      /\ Mat4SelfOpScalar(op, m, s) = MatSelfOpScalar(op, m, s)
  <2>1. Mat4SelfOpScalar(op, m, s) = MatSelfOpScalar(op, m, s)
    BY <1>1 DEF MatSelfOpScalar, Mat4SelfOpScalar
  <2>2. IsMatrix(Mat4SelfOpScalar(op, m, s))
    BY <1>2 DEF IsMatrix, IsVector, Mat4SelfOpScalar
  <2> QED
    BY <2>1, <2>2
<1> QED
  BY <1>3, <1>4

\* A row picked by a loop and one written out.
LEMMA RowsAgree ==
  ASSUME NEW m, IsMatrix(m), NEW j
  PROVE  row(m, j) = row4(m, j)
<1> DEFINE f == row(m, j)
<1>1. f = [i \in 1 .. 4 |-> m[i][j]]
  BY MatrixParts DEF row
<1> HIDE DEF f
<1>2. f = [i \in 1 .. 4 |-> f[i]] /\ \A i \in 1 .. 4 : f[i] = m[i][j]
  BY <1>1
<1>3. f = <<f[1], f[2], f[3], f[4]>>
  BY <1>2, Unrolled
<1> QED
  BY <1>2, <1>3 DEF f, row4

LEMMA ProductsAgree ==
  ASSUME NEW m, IsMatrix(m), NEW k, IsMatrix(k), NEW v
  PROVE  /\ IsMatrix(MatMat(m, k)) /\ Mat4Mat(m, k) = MatMat(m, k)
         /\ IsVector(MatVec(m, v), 4) /\ Mat4Vec(m, v) = MatVec(m, v)
<1>1. Rows(m) = 4 /\ Columns(k) = 4
  BY MatrixParts DEF Rows, Columns
<1>2. Mat4Mat(m, k) = MatMat(m, k)
  BY <1>1, RowsAgree DEF Mat4Mat, MatMat
<1>3. IsMatrix(MatMat(m, k))
  BY <1>1 DEF MatMat, IsMatrix, IsVector
<1> DEFINE f == MatVec(m, v)
<1>4. f = [j \in 1 .. 4 |-> dot(row4(m, j), v)]
  BY <1>1, RowsAgree DEF MatVec
<1> HIDE DEF f
<1>5. f = [i \in 1 .. 4 |-> f[i]] /\ \A j \in 1 .. 4 : f[j] = dot(row4(m, j), v)
  BY <1>4
<1>6. f = <<f[1], f[2], f[3], f[4]>>
  BY <1>5, Unrolled
<1>7. IsVector(f, 4) /\ Mat4Vec(m, v) = f
  BY <1>5, <1>6 DEF IsVector, Mat4Vec
<1> QED
  BY <1>2, <1>3, <1>7 DEF f

\* Scalars on the diagonal, and the matrix of 3 by 3 bordered by the identity.
LEMMA DiagonalsAgree ==
  ASSUME NEW s
  PROVE  IsMatrix(Diagonal(4, 4, s)) /\ Diagonal4(s) = Diagonal(4, 4, s)
<1> DEFINE f == Diagonal(4, 4, s)
           col(i) == [j \in 1 .. 4 |-> IF i = j THEN s ELSE 0]
<1>1. f = [i \in 1 .. 4 |-> col(i)]
  BY DEF Diagonal
<1>2. IsMatrix(f)
  BY <1>1 DEF IsMatrix, IsVector
<1>3. /\ col(1) = <<s, 0, 0, 0>> /\ col(2) = <<0, s, 0, 0>>
      /\ col(3) = <<0, 0, s, 0>> /\ col(4) = <<0, 0, 0, s>>
  OBVIOUS
<1> HIDE DEF f, col
<1>4. /\ f = [i \in 1 .. 4 |-> f[i]]
      /\ f[1] = col(1) /\ f[2] = col(2) /\ f[3] = col(3) /\ f[4] = col(4)
  BY <1>1
<1>5. f = <<f[1], f[2], f[3], f[4]>>
  BY <1>4, Unrolled
<1> QED
  BY <1>2, <1>3, <1>4, <1>5 DEF f, Diagonal4

LEMMA From3Agrees ==
  ASSUME NEW m, IsMatrix(m)
  PROVE  IsMatrix(Bordered(m)) /\ Mat4From3(Upper(m)) = Bordered(m)
<1> DEFINE f == Bordered(m)
<1>1. \A i \in 1 .. 3, j \in 1 .. 3 : Upper(m)[i][j] = m[i][j]
  BY MatrixParts DEF Upper
<1>2. /\ f[1] = <<m[1][1], m[1][2], m[1][3], 0>> /\ f[2] = <<m[2][1], m[2][2], m[2][3], 0>>
      /\ f[3] = <<m[3][1], m[3][2], m[3][3], 0>> /\ f[4] = <<0, 0, 0, 1>>
  BY DEF Bordered
<1>3. f = [i \in 1 .. 4 |-> f[i]] /\ IsMatrix(f)
  BY DEF Bordered, IsMatrix, IsVector
<1> HIDE DEF f
<1>4. f = <<f[1], f[2], f[3], f[4]>>
  BY <1>3, Unrolled
<1>5. Mat4From3(Upper(m)) = f
  BY <1>1, <1>2, <1>4 DEF Mat4From3
<1> QED
  BY <1>3, <1>5 DEF f

\* The functions on matrices return a matrix of 4 by 4.
LEMMA MatrixFunctionShape ==
  ASSUME NEW m, IsMatrix(m)
  PROVE  /\ IsMatrix(transpose(m))
         /\ \A k : IsMatrix(hadamard_product(m, k))
         /\ \A v : IsMatrix(translate(m, v)) /\ IsMatrix(scale(m, v))
         /\ \A s, c, n : IsMatrix(rotate(m, s, c, n))
<1>1. IsMatrix(transpose(m))
  <2>1. Rows(m) = 4 /\ Columns(m) = 4
    BY MatrixParts DEF Rows, Columns
  <2> QED
    BY <2>1 DEF transpose, IsMatrix, IsVector
<1>2. ASSUME NEW k PROVE IsMatrix(hadamard_product(m, k))
  <2>1. DOMAIN m = 1 .. 4 /\ \A i \in 1 .. 4 : \A u : IsVector(VecOp("*", m[i], u), 4)
    BY MatrixParts DEF VecOp, IsVector
  <2> QED
    BY <2>1 DEF hadamard_product, IsMatrix, IsVector
<1>3. \A i \in 1 .. 4 : \A a : IsVector(Times(m[i], a), 4)
  BY MatrixParts DEF Times, VecOp, IsVector
<1>4. \A v, u : IsVector(v, 4) => IsVector(Plus(v, u), 4)
  BY VectorLength DEF Plus, VecOp, IsVector
<1>5. \A i \in 1 .. 4 : IsVector(m[i], 4)
  BY DEF IsMatrix
<1>6. ASSUME NEW v PROVE IsMatrix(translate(m, v)) /\ IsMatrix(scale(m, v))
  BY <1>3, <1>4, <1>5, MatrixOfColumns DEF translate, scale
<1>7. ASSUME NEW s, NEW c, NEW n PROVE IsMatrix(rotate(m, s, c, n))
  BY <1>3, <1>4, <1>5, MatrixOfColumns DEF rotate
<1> QED
  BY <1>1, <1>2, <1>6, <1>7

LEMMA OuterShape ==
  ASSUME NEW v, NEW u, IsVector(v, 4), IsVector(u, 4)
  PROVE  IsMatrix(outer_product(v, u))
<1>1. DOMAIN u = 1 .. 4 /\ DOMAIN v = 1 .. 4
  BY VectorLength
<1>2. \A a : IsVector(Times(v, a), 4)
  BY <1>1 DEF Times, VecOp, IsVector
<1> QED
  BY <1>1, <1>2 DEF outer_product, IsMatrix, IsVector

LEMMA ProjectionShape ==
  ASSUME NEW a, NEW b, NEW c, NEW d, NEW e, NEW f, NEW g
  PROVE  IsMatrix(Projection(a, b, c, d, e, f, g))
<1>1. /\ IsVector(<<a, 0, 0, 0>>, 4) /\ IsVector(<<0, b, 0, 0>>, 4)
      /\ IsVector(<<c, d, e, f>>, 4) /\ IsVector(<<0, 0, g, 0>>, 4)
  BY Tuple4
<1> QED
  BY <1>1, MatrixOfColumns DEF Projection

LEMMA OrthoShape ==
  ASSUME NEW depth, NEW left, NEW right, NEW bottom, NEW top, NEW near, NEW far
  PROVE  IsMatrix(OrthoOf(depth, left, right, bottom, top, near, far))
<1>1. \A a, b, c, d : IsVector(<<a, b, c, d>>, 4)
  BY Tuple4
<1> QED
  BY <1>1, MatrixOfColumns DEF OrthoOf

-----------------------------------------------------------------------------
(* The specification. *)

IInv == Shape /\ Agree

\* What a step has to establish for each kind of object.
LEMMA VectorHolds ==
  ASSUME NEW n \in 2 .. 4, kind = "vector", IsVector(general, n), special = Make(general)
  PROVE  IInv
<1>1. Len(general) = n /\ At(n, special) = general
  BY VectorLength, AtMake
<1> QED
  BY <1>1 DEF IInv, Shape, Agree

LEMMA MatrixHolds ==
  ASSUME kind = "matrix", IsMatrix(general), special = general
  PROVE  IInv
BY DEF IInv, Shape, Agree

LEMMA InitHolds == Init => IInv
<1> SUFFICES ASSUME Init PROVE IInv
  OBVIOUS
<1>1. CASE kind = "vector"
  <2>1. general \in SomeVectors /\ special = Make(general)
    BY <1>1 DEF Init
  <2>2. PICK n \in 2 .. 4 : general \in [1 .. n -> Scalar]
    BY <2>1, OperandsAssumption DEF VectorOf
  <2>3. IsVector(general, n)
    BY <2>2 DEF IsVector
  <2> QED
    BY <1>1, <2>1, <2>3, VectorHolds
<1>2. CASE kind = "matrix"
  <2>1. IsMatrix(general) /\ special = general
    <3>1. CASE general \in SomeMatrices /\ special = general
      BY <3>1, OperandsAssumption DEF MatrixOf, VectorOf, IsMatrix, IsVector
    <3>2. CASE \E s \in SomeScalars : general = Diagonal(4, 4, s) /\ special = Diagonal4(s)
      BY <3>2, DiagonalsAgree
    <3> QED
      BY <1>2, <3>1, <3>2 DEF Init
  <2> QED
    BY <1>2, <2>1, MatrixHolds
<1>3. CASE kind = "quaternion"
  BY <1>3 DEF Init, IInv, Shape, Agree
<1> QED
  BY <1>1, <1>2, <1>3 DEF Init

LEMMA VectorStep ==
  ASSUME IInv, VectorNext
  PROVE  IInv'
<1>1. kind = "vector" /\ kind' = "vector"
  BY DEF VectorNext, VectorOperation, VectorSelfOperation, VectorAssign, VectorFunction,
         VectorCompute, VectorNegate, VectorPrefix, VectorSuffix, VectorSurround, VectorJoin,
         VectorMapped, Calling
<1>2. PICK n \in 2 .. 4 : IsVector(general, n)
  BY <1>1 DEF IInv, Shape
<1>3. Len(general) = n /\ special = Make(general) /\ At(n, special) = general
  BY <1>1, <1>2, VectorLength DEF IInv, Agree
<1>4. SUFFICES \E k \in 2 .. 4 : IsVector(general', k) /\ special' = Make(general')
  <2>1. ASSUME NEW k \in 2 .. 4, IsVector(general', k), special' = Make(general') PROVE IInv'
    <3>1. Len(general') = k /\ At(k, special') = general'
      BY <2>1, VectorLength, AtMake
    <3> QED
      BY <1>1, <2>1, <3>1 DEF IInv, Shape, Agree
  <2> QED
    BY <2>1
<1>5. ASSUME NEW u \in Operands(n), NEW op, VectorOperation(op, u) \/ VectorSelfOperation(op, u)
      PROVE  IsVector(general', n) /\ special' = Make(general')
  <2>1. IsVector(u, n)
    BY OperandShape
  <2>2. VecSelfOp(op, general, u) = VecOp(op, general, u)
    BY DEF VecOp, VecSelfOp
  <2> QED
    BY <1>2, <1>3, <1>5, <2>1, <2>2, OpAgrees DEF VectorOperation, VectorSelfOperation
<1>6. ASSUME NEW u \in Operands(n), VectorAssign(u) \/ VectorNegate
      PROVE  IsVector(general', n) /\ special' = Make(general')
  BY <1>2, <1>3, <1>6, OperandShape, NegatedAndAssignedAgree DEF VectorAssign, VectorNegate
<1>7. ASSUME VectorNegate
      PROVE  IsVector(general', n) /\ special' = Make(general')
  BY <1>2, <1>3, <1>7, NegatedAndAssignedAgree DEF VectorNegate
<1>8. ASSUME NEW u \in Operands(n), VectorFunction(u)
      PROVE  IsVector(general', n) /\ special' = Make(general')
  <2>1. IsVector(u, n)
    BY OperandShape
  <2>2. special' = Make(general')
    BY <1>8 DEF VectorFunction, VectorCompute
  <2>3. CASE Len(u) = 3 /\ VectorCompute(cross(general, u))
    <3>1. n = 3
      BY <2>1, <2>3, VectorLength
    <3>2. IsVector(cross(general, u), 3)
      BY Tuple3 DEF cross
    <3> QED
      BY <2>2, <2>3, <3>1, <3>2 DEF VectorCompute
  <2>4. CASE ~(Len(u) = 3 /\ VectorCompute(cross(general, u)))
    BY <1>2, <1>8, <2>1, <2>2, <2>4, FunctionShape DEF VectorFunction, VectorCompute
  <2> QED
    BY <2>3, <2>4
<1>9. ASSUME NEW s, VectorPrefix(s) \/ VectorSuffix(s)
      PROVE  \E k \in 2 .. 4 : IsVector(general', k) /\ special' = Make(general')
  <2>1. CASE n = 2
    <3>1. special = Vec2(general[1], general[2])
      BY <1>2, <1>3, <2>1, MakeParts
    <3>2. IsVector(general', 3) /\ special' = Make(general')
      BY <1>3, <1>9, <2>1, <3>1, Tuple3 DEF VectorPrefix, VectorSuffix, Vec3SV, Vec3VS, Vec2
    <3> QED
      BY <3>2
  <2>2. CASE n = 3
    <3>1. special = Vec3(general[1], general[2], general[3])
      BY <1>2, <1>3, <2>2, MakeParts
    <3>2. IsVector(general', 4) /\ special' = Make(general')
      BY <1>3, <1>9, <2>2, <3>1, Tuple4 DEF VectorPrefix, VectorSuffix, Vec4SV, Vec4VS, Vec3
    <3> QED
      BY <3>2
  <2> QED
    BY <1>3, <1>9, <2>1, <2>2 DEF VectorPrefix, VectorSuffix
<1>10. ASSUME NEW s1, NEW s2, VectorSurround(s1, s2)
       PROVE  IsVector(general', 4) /\ special' = Make(general')
  <2>1. special = Vec2(general[1], general[2])
    BY <1>2, <1>3, <1>10, MakeParts DEF VectorSurround
  <2> QED
    BY <1>10, <2>1, Tuple4 DEF VectorSurround, Vec4SSV, Vec4SVS, Vec4VSS, Vec2
<1>11. ASSUME NEW u \in Operands(2), VectorJoin(u)
       PROVE  IsVector(general', 4) /\ special' = Make(general')
  <2>1. special = Vec2(general[1], general[2])
    BY <1>2, <1>3, <1>11, MakeParts DEF VectorJoin
  <2>2. Make(u) = Vec2(u[1], u[2])
    BY OperandShape, MakeParts
  <2> QED
    BY <1>11, <2>1, <2>2, Tuple4 DEF VectorJoin, Vec4VV, Vec2
<1>12. ASSUME NEW m \in SomeMatrices, VectorMapped(m)
       PROVE  IsVector(general', 4) /\ special' = Make(general')
  <2>1. IsMatrix(m)
    BY OperandsAssumption DEF MatrixOf, VectorOf, IsMatrix, IsVector
  <2>2. Vec4At(special) = general
    BY <1>3, <1>12 DEF VectorMapped, At
  <2> QED
    BY <1>12, <2>1, <2>2, ProductsAgree DEF VectorMapped
<1> QED
  BY <1>3, <1>5, <1>6, <1>7, <1>8, <1>9, <1>10, <1>11, <1>12 DEF VectorNext

LEMMA MatrixStep ==
  ASSUME IInv, MatrixNext
  PROVE  IInv'
<1>1. kind = "matrix" /\ kind' = "matrix"
  BY DEF MatrixNext, MatrixOperation, MatrixNegate, MatrixAssign, MatrixTimes, MatrixFrom3,
         MatrixCompute, Transpose, Hadamard, Outer, Translate, Scale, Rotate, PerspectiveRH,
         PerspectiveLH, Perspective, FrustumRH, FrustumLH, Frustum, OrthoRH, OrthoLH, Ortho,
         MatrixCall, Calling
<1>2. IsMatrix(general) /\ special = general
  BY <1>1 DEF IInv, Shape, Agree
<1>3. SUFFICES IsMatrix(general') /\ special' = general'
  BY <1>1 DEF IInv, Shape, Agree
<1>4. ASSUME NEW m \in MatrixOperands PROVE IsMatrix(m)
  <2>1. CASE m \in SomeMatrices
    BY <2>1, OperandsAssumption DEF MatrixOf, VectorOf, IsMatrix, IsVector
  <2>2. CASE \E s \in SomeScalars : m = Diagonal(4, 4, s)
    BY <2>2, DiagonalsAgree
  <2> QED
    BY <2>1, <2>2 DEF MatrixOperands
<1>5. ASSUME NEW op, MatrixOperation(op) PROVE IsMatrix(general') /\ special' = general'
  <2>1. ASSUME NEW m \in MatrixOperands,
               \/ MatrixCall(MatOp(op, general, m), Mat4Op(op, special, m))
               \/ MatrixCall(MatSelfOp(op, general, m), Mat4SelfOp(op, special, m))
        PROVE  IsMatrix(general') /\ special' = general'
    <3>1. IsMatrix(m)
      BY <1>4
    <3> QED
      BY <1>2, <2>1, <3>1, MatrixOperationsAgree DEF MatrixCall
  <2>2. ASSUME NEW s,
               \/ MatrixCall(MatOpScalar(op, general, s), Mat4OpScalar(op, special, s))
               \/ MatrixCall(MatSelfOpScalar(op, general, s), Mat4SelfOpScalar(op, special, s))
        PROVE  IsMatrix(general') /\ special' = general'
    BY <1>2, <2>2, MatrixScalarsAgree DEF MatrixCall
  <2> QED
    BY <1>5, <2>1, <2>2 DEF MatrixOperation
<1>6. ASSUME MatrixNegate PROVE IsMatrix(general') /\ special' = general'
  BY <1>2, <1>6, MatrixOperationsAgree DEF MatrixNegate, MatrixCall
<1>7. ASSUME NEW m \in MatrixOperands, MatrixAssign(m) \/ MatrixTimes(m) \/ MatrixFrom3(m)
      PROVE  IsMatrix(general') /\ special' = general'
  <2>1. IsMatrix(m)
    BY <1>4
  <2> QED
    BY <1>2, <1>7, <2>1, MatrixOperationsAgree, ProductsAgree, From3Agrees
       DEF MatrixAssign, MatrixTimes, MatrixFrom3, MatrixCall
<1>8. ASSUME NEW v \in Vectors4, NEW u \in Vectors4, Outer(v, u)
      PROVE  IsMatrix(general') /\ special' = general'
  <2>1. IsVector(v, 4) /\ IsVector(u, 4)
    BY OperandShape DEF Vectors4, Operands
  <2> QED
    BY <1>8, <2>1, OuterShape DEF Outer, MatrixCompute, MatrixCall
<1>9. ASSUME \/ Transpose
             \/ \E m : Hadamard(m)
             \/ \E v : Translate(v) \/ Scale(v)
             \/ \E angle, n : Rotate(angle, n)
      PROVE  IsMatrix(general') /\ special' = general'
  BY <1>2, <1>9, MatrixFunctionShape
     DEF Transpose, Hadamard, Translate, Scale, Rotate, MatrixCompute, MatrixCall
<1>10. ASSUME NEW c, PerspectiveRH(c) \/ PerspectiveLH(c) \/ (\E clip_lh : Perspective(c, clip_lh))
       PROVE  IsMatrix(general') /\ special' = general'
  BY <1>10, ProjectionShape
     DEF PerspectiveRH, PerspectiveLH, Perspective, perspective_rh, perspective_lh, perspective,
         MatrixCompute, MatrixCall
<1>11. ASSUME NEW b, FrustumRH(b) \/ FrustumLH(b) \/ (\E clip_lh : Frustum(b, clip_lh))
       PROVE  IsMatrix(general') /\ special' = general'
  BY <1>11, ProjectionShape
     DEF FrustumRH, FrustumLH, Frustum, frustum_rh, frustum_lh, frustum, MatrixCompute, MatrixCall
<1>12. ASSUME NEW b, OrthoRH(b) \/ OrthoLH(b) \/ (\E clip_lh : Ortho(b, clip_lh))
       PROVE  IsMatrix(general') /\ special' = general'
  BY <1>12, OrthoShape DEF OrthoRH, OrthoLH, Ortho, ortho_rh, ortho_lh, ortho, MatrixCompute, MatrixCall
<1> QED
  BY <1>5, <1>6, <1>7, <1>8, <1>9, <1>10, <1>11, <1>12 DEF MatrixNext

LEMMA InvHolds == Spec => []IInv
<1>1. IInv /\ [Next]_vars => IInv'
  <2> SUFFICES ASSUME IInv, [Next]_vars PROVE IInv'
    OBVIOUS
  <2>1. CASE VectorNext
    BY <2>1, VectorStep
  <2>2. CASE MatrixNext
    BY <2>2, MatrixStep
  <2>3. CASE QuaternionNext
    BY <2>3 DEF QuaternionNext, QuaternionCall, Calling, IInv, Shape, Agree
  <2>4. CASE UNCHANGED vars
    BY <2>4 DEF vars, IInv, Shape, Agree
  <2> QED
    BY <2>1, <2>2, <2>3, <2>4 DEF Next, Done
<1> QED
  BY <1>1, InitHolds, PTL DEF Spec

\* The specialisations for 2, 3 and 4 components and for matrices of 4 by 4
\* hold the same components as the templates after any calls, whatever the
\* arithmetic of a component is.
THEOREM SpecialisationsAgree == Spec => []Agree
<1>1. IInv => Agree
  BY DEF IInv
<1> QED
  BY <1>1, InvHolds, PTL

-----------------------------------------------------------------------------
(* The type invariant: components that are values of a component. *)

Typed == \/ kind = "vector" /\ \E n \in 2 .. 4 : general \in VectorOf(n)
         \/ kind = "matrix" /\ general \in MatrixOf(4, 4)
         \/ kind = "quaternion" /\ special \in QuaternionSet

LEMMA ScalarsClosed ==
  /\ 0 \in Scalar /\ 1 \in Scalar /\ -1 \in Scalar
  /\ \A a \in Scalar, b \in Scalar :
       /\ a \oplus b \in Scalar /\ a \ominus b \in Scalar
       /\ a \otimes b \in Scalar /\ a \oslash b \in Scalar
  /\ \A a \in Scalar : Neg(a) \in Scalar
<1>1. 0 \in Scalar /\ 1 \in Scalar /\ -1 \in Scalar
  BY ScalarAssumption
<1>2. \A a \in Scalar, b \in Scalar :
       /\ a \oplus b \in Scalar /\ a \ominus b \in Scalar
       /\ a \otimes b \in Scalar /\ a \oslash b \in Scalar
  BY ScalarAssumption DEF Ops, \oplus, \ominus, \otimes, \oslash
<1> QED
  BY <1>1, <1>2 DEF Neg

LEMMA VectorsClosed ==
  ASSUME NEW n \in Nat, NEW v \in VectorOf(n), NEW u \in VectorOf(n)
  PROVE  /\ DOMAIN v = 1 .. n /\ Len(v) = n /\ \A i \in 1 .. n : v[i] \in Scalar
         /\ \A op \in Ops : VecOp(op, v, u) \in VectorOf(n) /\ VecSelfOp(op, v, u) \in VectorOf(n)
         /\ Plus(v, u) \in VectorOf(n) /\ Minus(v, u) \in VectorOf(n)
         /\ \A s \in Scalar : Filled(n, s) \in VectorOf(n) /\ Times(v, s) \in VectorOf(n)
         /\ VecNegated(v) \in VectorOf(n) /\ VecAssigned(v, u) \in VectorOf(n)
<1>1. DOMAIN v = 1 .. n /\ Len(v) = n /\ \A i \in 1 .. n : v[i] \in Scalar /\ u[i] \in Scalar
  BY DEF VectorOf
<1>2. ASSUME NEW op \in Ops, NEW w, \A i \in 1 .. n : w[i] \in Scalar
      PROVE  VecOp(op, v, w) \in VectorOf(n) /\ VecSelfOp(op, v, w) \in VectorOf(n)
  <2>1. \A i \in 1 .. n : Arith(op, v[i], w[i]) \in Scalar
    BY <1>1, <1>2, ScalarAssumption
  <2> QED
    BY <1>1, <2>1 DEF VecOp, VecSelfOp, VectorOf
<1>3. Plus(v, u) \in VectorOf(n) /\ Minus(v, u) \in VectorOf(n)
  <2>1. "+" \in Ops /\ "-" \in Ops
    BY DEF Ops
  <2> QED
    BY <1>1, <1>2, <2>1 DEF Plus, Minus
<1>4. ASSUME NEW s \in Scalar PROVE Filled(n, s) \in VectorOf(n) /\ Times(v, s) \in VectorOf(n)
  <2>1. Filled(n, s) \in VectorOf(n) /\ \A i \in 1 .. n : Filled(n, s)[i] \in Scalar
    BY DEF Filled, VectorOf
  <2>2. "*" \in Ops
    BY DEF Ops
  <2> QED
    BY <1>1, <1>2, <2>1, <2>2 DEF Times
<1>5. VecNegated(v) \in VectorOf(n) /\ VecAssigned(v, u) \in VectorOf(n)
  BY <1>1, ScalarsClosed DEF VecNegated, VecAssigned, VectorOf
<1> QED
  BY <1>1, <1>2, <1>3, <1>4, <1>5

LEMMA VectorParts ==
  ASSUME NEW n \in Nat, NEW v \in VectorOf(n)
  PROVE  DOMAIN v = 1 .. n /\ Len(v) = n /\ \A i \in 1 .. n : v[i] \in Scalar
BY VectorsClosed

LEMMA SumClosed ==
  ASSUME NEW n \in Nat, NEW v \in VectorOf(n), NEW u \in VectorOf(n)
  PROVE  Plus(v, u) \in VectorOf(n) /\ Minus(v, u) \in VectorOf(n)
BY VectorsClosed

LEMMA TimesClosed ==
  ASSUME NEW n \in Nat, NEW v \in VectorOf(n), NEW s \in Scalar
  PROVE  Times(v, s) \in VectorOf(n)
BY VectorsClosed

\* The recursion of dot, unrolled.
LEMMA DotUnrolled ==
  ASSUME NEW v, NEW u, NEW n \in 2 .. 4, Len(v) = n
  PROVE  /\ n = 2 => dot(v, u) = (0 \oplus v[1] \otimes u[1]) \oplus v[2] \otimes u[2]
         /\ n = 3 => dot(v, u) = ((0 \oplus v[1] \otimes u[1]) \oplus v[2] \otimes u[2])
                                 \oplus v[3] \otimes u[3]
         /\ n = 4 => dot(v, u) = (((0 \oplus v[1] \otimes u[1]) \oplus v[2] \otimes u[2])
                                  \oplus v[3] \otimes u[3]) \oplus v[4] \otimes u[4]
<1> DEFINE p(i) == v[i] \otimes u[i]
           Step(r) == [i \in 0 .. n |-> IF i = 0 THEN 0 ELSE r[i - 1] \oplus p(i)]
           total == CHOOSE r : r = Step(r)
           s1 == 0 \oplus p(1)
           s2 == s1 \oplus p(2)
           s3 == s2 \oplus p(3)
           s4 == s3 \oplus p(4)
           sums == [i \in 0 .. n |-> IF i = 0 THEN 0 ELSE IF i = 1 THEN s1 ELSE IF i = 2 THEN s2
                                     ELSE IF i = 3 THEN s3 ELSE s4]
<1>1. dot(v, u) = total[n]
  BY DEF dot
<1>2. total = Step(total)
  <2> HIDE DEF p
  <2>1. sums = Step(sums)
    <3>1. \A i \in 0 .. n : i = 0 \/ i = 1 \/ i = 2 \/ i = 3 \/ i = 4
      OBVIOUS
    <3>2. /\ 1 - 1 = 0 /\ 2 - 1 = 1 /\ 3 - 1 = 2 /\ 4 - 1 = 3
      OBVIOUS
    <3>3. \A i \in 0 .. n : sums[i] = IF i = 0 THEN 0 ELSE sums[i - 1] \oplus p(i)
      BY <3>1
    <3> HIDE DEF s1, s2, s3, s4
    <3> QED
      BY <3>3
  <2> HIDE DEF sums, Step
  <2> QED
    BY <2>1
<1> HIDE DEF total, p
<1>3. total[0] = 0 /\ \A i \in 1 .. n : total[i] = total[i - 1] \oplus p(i)
  BY <1>2
<1>4. total[1] = s1 /\ total[2] = s2
  <2>1. total[1] = total[0] \oplus p(1) /\ total[2] = total[1] \oplus p(2)
    BY <1>3
  <2> QED
    BY <1>3, <2>1
<1>5. n >= 3 => total[3] = s3
  BY <1>3, <1>4
<1>6. n = 4 => total[4] = s4
  BY <1>3, <1>5
<1> QED
  BY <1>1, <1>4, <1>5, <1>6 DEF p

LEMMA DotClosed ==
  ASSUME NEW n \in 2 .. 4, NEW v \in VectorOf(n), NEW u \in VectorOf(n)
  PROVE  dot(v, u) \in Scalar
<1>1. Len(v) = n /\ \A i \in 1 .. n : v[i] \in Scalar /\ u[i] \in Scalar
  BY DEF VectorOf
<1>2. \A i \in 1 .. n : v[i] \otimes u[i] \in Scalar
  BY <1>1, ScalarsClosed
<1>3. 0 \oplus v[1] \otimes u[1] \in Scalar
  BY <1>2, ScalarsClosed
<1>4. (0 \oplus v[1] \otimes u[1]) \oplus v[2] \otimes u[2] \in Scalar
  BY <1>2, <1>3, ScalarsClosed
<1>5. CASE n = 2
  BY <1>1, <1>4, <1>5, DotUnrolled
<1>6. n >= 3 => ((0 \oplus v[1] \otimes u[1]) \oplus v[2] \otimes u[2]) \oplus v[3] \otimes u[3]
                \in Scalar
  BY <1>2, <1>4, ScalarsClosed
<1>7. CASE n = 3
  BY <1>1, <1>6, <1>7, DotUnrolled
<1>8. CASE n = 4
  <2>1. v[4] \otimes u[4] \in Scalar
    BY <1>2, <1>8
  <2>2. (((0 \oplus v[1] \otimes u[1]) \oplus v[2] \otimes u[2]) \oplus v[3] \otimes u[3])
        \oplus v[4] \otimes u[4] \in Scalar
    BY <1>6, <1>8, <2>1, ScalarsClosed
  <2> QED
    BY <1>1, <1>8, <2>2, DotUnrolled
<1> QED
  BY <1>5, <1>7, <1>8

LEMMA Tuple3Closed ==
  ASSUME NEW a \in Scalar, NEW b \in Scalar, NEW c \in Scalar
  PROVE  <<a, b, c>> \in VectorOf(3)
BY DEF VectorOf

LEMMA Tuple4Closed ==
  ASSUME NEW a \in Scalar, NEW b \in Scalar, NEW c \in Scalar, NEW d \in Scalar
  PROVE  <<a, b, c, d>> \in VectorOf(4)
BY DEF VectorOf

LEMMA FunctionsClosed ==
  ASSUME NEW n \in 2 .. 4, NEW v \in VectorOf(n), NEW u \in VectorOf(n)
  PROVE  /\ reflect(v, u) \in VectorOf(n)
         /\ \A i : faceforward(v, i, u) \in VectorOf(n)
         /\ \A percent \in Scalar : lerp(v, u, percent) \in VectorOf(n)
         /\ \A percent \in VectorOf(n) : LerpEach(v, u, percent) \in VectorOf(n)
         /\ \A percent : LerpBool(v, u, percent) \in VectorOf(n)
         /\ n = 3 => cross(v, u) \in VectorOf(n)
         /\ VecSign(v) \in VectorOf(n)
<1>0. n \in Nat
  OBVIOUS
<1>1. DOMAIN v = 1 .. n /\ \A i \in 1 .. n : v[i] \in Scalar /\ u[i] \in Scalar
  BY DEF VectorOf
<1>2. reflect(v, u) \in VectorOf(n)
  <2>1. PICK d \in Scalar : d = dot(v, u)
    BY DotClosed
  <2>2. PICK w \in VectorOf(n) : w = Times(u, d)
    BY <1>0, TimesClosed
  <2>3. PICK t \in Scalar : t = 1 \oplus 1
    BY ScalarsClosed
  <2>4. PICK x \in VectorOf(n) : x = Times(w, t)
    BY <1>0, TimesClosed
  <2>5. Minus(v, x) \in VectorOf(n)
    BY <1>0, SumClosed
  <2> QED
    BY <2>1, <2>2, <2>3, <2>4, <2>5 DEF reflect
<1>3. \A i : faceforward(v, i, u) \in VectorOf(n)
  <2>1. VecNegated(v) \in VectorOf(n)
    BY <1>0, VectorsClosed
  <2> QED
    BY <2>1 DEF faceforward
<1>4. ASSUME NEW percent \in Scalar PROVE lerp(v, u, percent) \in VectorOf(n)
  <2>1. PICK w \in VectorOf(n) : w = Times(u, percent)
    BY <1>0, TimesClosed
  <2>2. PICK t \in Scalar : t = 1 \ominus percent
    BY ScalarsClosed
  <2>3. PICK x \in VectorOf(n) : x = Times(v, t)
    BY <1>0, TimesClosed
  <2>4. Plus(w, x) \in VectorOf(n)
    BY <1>0, SumClosed
  <2> QED
    BY <2>1, <2>2, <2>3, <2>4 DEF lerp
<1>5. ASSUME NEW percent \in VectorOf(n) PROVE LerpEach(v, u, percent) \in VectorOf(n)
  <2>1. \A i \in 1 .. n : percent[i] \in Scalar
    BY DEF VectorOf
  <2>2. \A i \in 1 .. n : u[i] \otimes percent[i] \in Scalar
    BY <1>1, <2>1, ScalarsClosed
  <2>3. \A i \in 1 .. n : v[i] \otimes (1 \ominus percent[i]) \in Scalar
    BY <1>1, <2>1, ScalarsClosed
  <2>4. \A i \in 1 .. n : u[i] \otimes percent[i] \oplus v[i] \otimes (1 \ominus percent[i]) \in Scalar
    BY <2>2, <2>3, ScalarsClosed
  <2> QED
    BY <1>1, <2>4 DEF LerpEach, VectorOf
<1>6. \A percent : LerpBool(v, u, percent) \in VectorOf(n)
  BY <1>1 DEF LerpBool, VectorOf
<1>7. ASSUME n = 3 PROVE cross(v, u) \in VectorOf(n)
  <2>1. \A i \in 1 .. 3, j \in 1 .. 3 : v[i] \otimes u[j] \ominus v[j] \otimes u[i] \in Scalar
    <3>1. \A i \in 1 .. 3, j \in 1 .. 3 : v[i] \otimes u[j] \in Scalar
      BY <1>1, <1>7, ScalarsClosed
    <3> QED
      BY <3>1, ScalarsClosed
  <2> QED
    BY <1>7, <2>1, Tuple3Closed DEF cross
<1>8. VecSign(v) \in VectorOf(n)
  <2>1. \A a : sign(a) \in {-1, 0, 1}
    BY DEF sign
  <2>2. \A a : sign(a) \in Scalar
    BY <2>1, ScalarsClosed
  <2> QED
    BY <1>1, <2>2 DEF VecSign, VectorOf
<1> QED
  BY <1>2, <1>3, <1>4, <1>5, <1>6, <1>7, <1>8

LEMMA ColumnsClosed ==
  ASSUME NEW a \in VectorOf(4), NEW b \in VectorOf(4), NEW c \in VectorOf(4), NEW d \in VectorOf(4)
  PROVE  <<a, b, c, d>> \in MatrixOf(4, 4)
BY DEF MatrixOf

LEMMA MatricesClosed ==
  ASSUME NEW m \in MatrixOf(4, 4), NEW k \in MatrixOf(4, 4)
  PROVE  /\ DOMAIN m = 1 .. 4 /\ Len(m) = 4 /\ Rows(m) = 4 /\ Columns(m) = 4
         /\ \A i \in 1 .. 4 : m[i] \in VectorOf(4)
         /\ \A op \in Ops : MatOp(op, m, k) \in MatrixOf(4, 4) /\ MatSelfOp(op, m, k) \in MatrixOf(4, 4)
         /\ \A op \in Ops, s \in Scalar : /\ MatOpScalar(op, m, s) \in MatrixOf(4, 4)
                                          /\ MatSelfOpScalar(op, m, s) \in MatrixOf(4, 4)
         /\ MatNegated(m) \in MatrixOf(4, 4) /\ MatAssigned(m, k) \in MatrixOf(4, 4)
         /\ hadamard_product(m, k) \in MatrixOf(4, 4)
         /\ transpose(m) \in MatrixOf(4, 4)
         /\ Bordered(m) \in MatrixOf(4, 4)
<1>1. DOMAIN m = 1 .. 4 /\ Len(m) = 4 /\ \A i \in 1 .. 4 : m[i] \in VectorOf(4) /\ k[i] \in VectorOf(4)
  BY DEF MatrixOf
<1>2. Rows(m) = 4 /\ Columns(m) = 4
  <2>1. m[1] \in VectorOf(4)
    BY <1>1
  <2> QED
    BY <1>1, <2>1, VectorParts DEF Rows, Columns
<1>3. ASSUME NEW op \in Ops
      PROVE  MatOp(op, m, k) \in MatrixOf(4, 4) /\ MatSelfOp(op, m, k) \in MatrixOf(4, 4)
  BY <1>1, VectorsClosed DEF MatOp, MatSelfOp, MatrixOf
<1>4. ASSUME NEW op \in Ops, NEW s \in Scalar
      PROVE  MatOpScalar(op, m, s) \in MatrixOf(4, 4) /\ MatSelfOpScalar(op, m, s) \in MatrixOf(4, 4)
  <2>1. PICK f \in VectorOf(4) : f = Filled(4, s)
    BY DEF Filled, VectorOf
  <2>2. \A i \in 1 .. 4 : VecOp(op, m[i], f) \in VectorOf(4) /\ VecSelfOp(op, m[i], f) \in VectorOf(4)
    BY <1>1, VectorsClosed
  <2> QED
    BY <1>1, <1>2, <2>1, <2>2 DEF MatOpScalar, MatSelfOpScalar, MatrixOf
<1>5. MatNegated(m) \in MatrixOf(4, 4) /\ MatAssigned(m, k) \in MatrixOf(4, 4)
  BY <1>1, VectorsClosed DEF MatNegated, MatAssigned, MatrixOf
<1>6. hadamard_product(m, k) \in MatrixOf(4, 4)
  <2>1. "*" \in Ops
    BY DEF Ops
  <2> QED
    BY <1>1, <2>1, VectorsClosed DEF hadamard_product, MatrixOf
<1>7. \A i \in 1 .. 4, j \in 1 .. 4 : m[i][j] \in Scalar
  BY <1>1, VectorParts
<1>8. transpose(m) \in MatrixOf(4, 4)
  BY <1>2, <1>7 DEF transpose, MatrixOf, VectorOf
<1>9. Bordered(m) \in MatrixOf(4, 4)
  BY <1>7, ScalarsClosed DEF Bordered, MatrixOf, VectorOf
<1> QED
  BY <1>1, <1>2, <1>3, <1>4, <1>5, <1>6, <1>8, <1>9

LEMMA RowClosed ==
  ASSUME NEW m \in MatrixOf(4, 4), NEW j \in 1 .. 4
  PROVE  row(m, j) \in VectorOf(4)
<1>1. DOMAIN m = 1 .. 4 /\ \A i \in 1 .. 4 : m[i] \in VectorOf(4)
  BY DEF MatrixOf
<1>2. \A i \in 1 .. 4 : m[i][j] \in Scalar
  BY <1>1, VectorsClosed
<1> QED
  BY <1>1, <1>2 DEF row, VectorOf

LEMMA ProductsClosed ==
  ASSUME NEW m \in MatrixOf(4, 4)
  PROVE  /\ \A k \in MatrixOf(4, 4) : MatMat(m, k) \in MatrixOf(4, 4)
         /\ \A v \in VectorOf(4) : MatVec(m, v) \in VectorOf(4)
<1>1. Rows(m) = 4
  BY MatricesClosed
<1>2. \A j \in 1 .. 4 : \A v \in VectorOf(4) : dot(row(m, j), v) \in Scalar
  BY RowClosed, DotClosed
<1>3. ASSUME NEW v \in VectorOf(4) PROVE MatVec(m, v) \in VectorOf(4)
  <2>1. [j \in 1 .. 4 |-> dot(row(m, j), v)] \in [1 .. 4 -> Scalar]
    BY <1>2
  <2> QED
    BY <1>1, <2>1 DEF MatVec, VectorOf
<1>4. ASSUME NEW k \in MatrixOf(4, 4) PROVE MatMat(m, k) \in MatrixOf(4, 4)
  <2>1. Columns(k) = 4 /\ \A i \in 1 .. 4 : k[i] \in VectorOf(4)
    BY MatricesClosed
  <2>2. ASSUME NEW i \in 1 .. 4
        PROVE  [j \in 1 .. 4 |-> dot(row(m, j), k[i])] \in VectorOf(4)
    <3>1. \A j \in 1 .. 4 : dot(row(m, j), k[i]) \in Scalar
      BY <1>2, <2>1
    <3> QED
      BY <3>1 DEF VectorOf
  <2> QED
    BY <1>1, <2>1, <2>2 DEF MatMat, MatrixOf
<1> QED
  BY <1>3, <1>4

LEMMA OperandTyped ==
  /\ \A n \in 2 .. 4 : \A u \in Operands(n) : u \in VectorOf(n)
  /\ \A m \in MatrixOperands : m \in MatrixOf(4, 4)
  /\ \A s \in SomeScalars : s \in Scalar
<1>0. \A s \in SomeScalars : s \in Scalar
  BY OperandsAssumption
<1>1. ASSUME NEW n \in 2 .. 4, NEW u \in Operands(n) PROVE u \in VectorOf(n)
  <2>1. CASE u \in SomeVectors /\ Len(u) = n
    <3>1. PICK k \in 2 .. 4 : u \in VectorOf(k)
      BY <2>1, OperandsAssumption
    <3>2. Len(u) = k
      BY <3>1, VectorParts
    <3> QED
      BY <2>1, <3>1, <3>2
  <2>2. CASE \E s \in SomeScalars : u = Filled(n, s)
    BY <1>0, <2>2 DEF Filled, VectorOf
  <2> QED
    BY <2>1, <2>2 DEF Operands
<1>2. ASSUME NEW m \in MatrixOperands PROVE m \in MatrixOf(4, 4)
  <2>1. CASE m \in SomeMatrices
    BY <2>1, OperandsAssumption
  <2>2. CASE \E s \in SomeScalars : m = Diagonal(4, 4, s)
    <3>1. PICK s \in Scalar : m = Diagonal(4, 4, s)
      BY <1>0, <2>2
    <3>2. 0 \in Scalar
      BY ScalarsClosed
    <3> QED
      BY <3>1, <3>2 DEF Diagonal, MatrixOf, VectorOf
  <2> QED
    BY <2>1, <2>2 DEF MatrixOperands
<1> QED
  BY <1>0, <1>1, <1>2

LEMMA InitTyped == Init => Typed
<1> SUFFICES ASSUME Init PROVE Typed
  OBVIOUS
<1>1. CASE kind = "vector"
  <2>1. \E n \in 2 .. 4 : general \in VectorOf(n)
    BY <1>1, OperandsAssumption DEF Init
  <2> QED
    BY <1>1, <2>1 DEF Typed
<1>2. CASE kind = "matrix"
  <2>1. general \in MatrixOperands
    BY <1>2 DEF Init, MatrixOperands
  <2> QED
    BY <1>2, <2>1, OperandTyped DEF Typed
<1>3. CASE kind = "quaternion"
  <2>1. special \in QuaternionSet
    BY <1>3, OperandsAssumption DEF Init
  <2> QED
    BY <1>3, <2>1 DEF Typed
<1> QED
  BY <1>1, <1>2, <1>3 DEF Init

LEMMA VectorTyped ==
  ASSUME Typed, VectorNext
  PROVE  Typed'
<1>1. kind = "vector" /\ kind' = "vector"
  BY DEF VectorNext, VectorOperation, VectorSelfOperation, VectorAssign, VectorFunction,
         VectorCompute, VectorNegate, VectorPrefix, VectorSuffix, VectorSurround, VectorJoin,
         VectorMapped, Calling
<1>2. PICK n \in 2 .. 4 : general \in VectorOf(n)
  BY <1>1 DEF Typed
<1>3. n \in Nat /\ Len(general) = n /\ \A i \in 1 .. n : general[i] \in Scalar
  BY <1>2, VectorParts
<1>4. SUFFICES \E k \in 2 .. 4 : general' \in VectorOf(k)
  BY <1>1 DEF Typed
<1>5. ASSUME NEW u \in VectorOf(n), NEW op \in Ops,
             VectorOperation(op, u) \/ VectorSelfOperation(op, u)
      PROVE  general' \in VectorOf(n)
  <2>1. VecOp(op, general, u) \in VectorOf(n) /\ VecSelfOp(op, general, u) \in VectorOf(n)
    BY <1>2, <1>3, VectorsClosed
  <2> QED
    BY <1>5, <2>1 DEF VectorOperation, VectorSelfOperation
<1>6. ASSUME NEW u \in VectorOf(n), VectorAssign(u) PROVE general' \in VectorOf(n)
  BY <1>2, <1>3, <1>6, VectorsClosed DEF VectorAssign
<1>7. ASSUME VectorNegate PROVE general' \in VectorOf(n)
  BY <1>2, <1>3, <1>7, VectorsClosed DEF VectorNegate
<1>8. ASSUME NEW u \in VectorOf(n), VectorFunction(u) PROVE general' \in VectorOf(n)
  <2>1. n = 3 <=> Len(u) = 3
    BY <1>3, VectorParts
  <2>2. ASSUME NEW percent \in Operands(n) PROVE percent \in VectorOf(n)
    BY OperandTyped
  <2>3. ASSUME NEW percent \in SomeScalars PROVE percent \in Scalar
    BY OperandTyped
  <2>4. CASE \E percent \in SomeScalars : general' = lerp(general, u, percent)
    <3>1. \A percent \in Scalar : lerp(general, u, percent) \in VectorOf(n)
      BY <1>2, FunctionsClosed
    <3> QED
      BY <2>3, <2>4, <3>1
  <2>5. CASE \E percent \in Operands(n) : general' = LerpEach(general, u, percent)
    <3>1. \A percent \in VectorOf(n) : LerpEach(general, u, percent) \in VectorOf(n)
      BY <1>2, FunctionsClosed
    <3> QED
      BY <2>2, <2>5, <3>1
  <2>6. CASE \E percent : general' = LerpBool(general, u, percent)
    <3>1. \A percent : LerpBool(general, u, percent) \in VectorOf(n)
      BY <1>2, FunctionsClosed
    <3> QED
      BY <2>6, <3>1
  <2>7. CASE \E i : general' = faceforward(general, i, u)
    <3>1. \A i : faceforward(general, i, u) \in VectorOf(n)
      BY <1>2, FunctionsClosed
    <3> QED
      BY <2>7, <3>1
  <2>8. CASE general' = reflect(general, u) \/ general' = VecSign(general)
    BY <1>2, <2>8, FunctionsClosed
  <2>9. CASE Len(u) = 3 /\ general' = cross(general, u)
    BY <1>2, <2>1, <2>9, FunctionsClosed
  <2> QED
    BY <1>3, <1>8, <2>4, <2>5, <2>6, <2>7, <2>8, <2>9 DEF VectorFunction, VectorCompute
<1>9. ASSUME NEW s \in Scalar, VectorPrefix(s) \/ VectorSuffix(s)
      PROVE  \E k \in 2 .. 4 : general' \in VectorOf(k)
  <2>1. CASE n = 2
    BY <1>3, <1>9, <2>1, Tuple3Closed DEF VectorPrefix, VectorSuffix
  <2>2. CASE n = 3
    BY <1>3, <1>9, <2>2, Tuple4Closed DEF VectorPrefix, VectorSuffix
  <2> QED
    BY <1>3, <1>9, <2>1, <2>2 DEF VectorPrefix, VectorSuffix
<1>10. ASSUME NEW s1 \in Scalar, NEW s2 \in Scalar, VectorSurround(s1, s2)
       PROVE  general' \in VectorOf(4)
  <2>1. n = 2
    BY <1>3, <1>10 DEF VectorSurround
  <2> QED
    BY <1>3, <1>10, <2>1, Tuple4Closed DEF VectorSurround
<1>11. ASSUME NEW u \in VectorOf(2), VectorJoin(u) PROVE general' \in VectorOf(4)
  <2>1. n = 2 /\ u[1] \in Scalar /\ u[2] \in Scalar
    BY <1>3, <1>11, VectorParts DEF VectorJoin
  <2> QED
    BY <1>3, <1>11, <2>1, Tuple4Closed DEF VectorJoin
<1>12. ASSUME NEW m \in SomeMatrices, VectorMapped(m) PROVE general' \in VectorOf(4)
  <2>1. m \in MatrixOf(4, 4) /\ general \in VectorOf(4)
    BY <1>2, <1>3, <1>12, OperandsAssumption DEF VectorMapped
  <2> QED
    BY <1>12, <2>1, ProductsClosed DEF VectorMapped
<1>13. ASSUME NEW u \in Operands(Len(general)),
              \/ \E op \in Ops : VectorOperation(op, u) \/ VectorSelfOperation(op, u)
              \/ VectorAssign(u)
              \/ VectorFunction(u)
       PROVE  general' \in VectorOf(n)
  <2>1. u \in VectorOf(n)
    BY <1>3, OperandTyped
  <2> QED
    BY <1>5, <1>6, <1>8, <1>13, <2>1
<1>14. \A u \in Operands(2) : u \in VectorOf(2)
  BY OperandTyped
<1>15. \A s \in SomeScalars : s \in Scalar
  BY OperandTyped
<1> QED
  BY <1>7, <1>9, <1>10, <1>11, <1>12, <1>13, <1>14, <1>15 DEF VectorNext

LEMMA TransformsClosed ==
  ASSUME NEW m \in MatrixOf(4, 4)
  PROVE  /\ \A v \in VectorOf(3) : translate(m, v) \in MatrixOf(4, 4) /\ scale(m, v) \in MatrixOf(4, 4)
         /\ \A s \in Scalar, c \in Scalar, n \in VectorOf(3) : rotate(m, s, c, n) \in MatrixOf(4, 4)
<1>1. \A i \in 1 .. 4 : m[i] \in VectorOf(4)
  BY MatricesClosed
<1>2. ASSUME NEW i \in 1 .. 4, NEW a \in Scalar PROVE Times(m[i], a) \in VectorOf(4)
  BY <1>1, TimesClosed
<1>3. ASSUME NEW a \in Scalar, NEW b \in Scalar, NEW c \in Scalar
      PROVE  Plus(Plus(Times(m[1], a), Times(m[2], b)), Times(m[3], c)) \in VectorOf(4)
  <2>1. Plus(Times(m[1], a), Times(m[2], b)) \in VectorOf(4)
    BY <1>2, SumClosed
  <2> QED
    BY <1>2, <2>1, SumClosed
<1>4. ASSUME NEW v \in VectorOf(3)
      PROVE  translate(m, v) \in MatrixOf(4, 4) /\ scale(m, v) \in MatrixOf(4, 4)
  <2>1. v[1] \in Scalar /\ v[2] \in Scalar /\ v[3] \in Scalar
    BY VectorParts
  <2>2. Plus(Plus(Plus(Times(m[1], v[1]), Times(m[2], v[2])), Times(m[3], v[3])), m[4]) \in VectorOf(4)
    BY <1>1, <1>3, <2>1, SumClosed
  <2>3. translate(m, v) \in MatrixOf(4, 4)
    BY <1>1, <2>2, ColumnsClosed DEF translate
  <2>4. scale(m, v) \in MatrixOf(4, 4)
    BY <1>1, <1>2, <2>1, ColumnsClosed DEF scale
  <2> QED
    BY <2>3, <2>4
<1>5. ASSUME NEW s \in Scalar, NEW c \in Scalar, NEW n \in VectorOf(3)
      PROVE  rotate(m, s, c, n) \in MatrixOf(4, 4)
  <2> DEFINE R == Rotation(s, c, n)
  <2>1. \A i \in 1 .. 3, j \in 1 .. 3 : R[i][j] \in Scalar
    <3>1. PICK w \in VectorOf(3) : w = Times(n, 1 \ominus c)
      BY ScalarsClosed, TimesClosed
    <3>2. \A i \in 1 .. 3 : w[i] \in Scalar /\ n[i] \in Scalar
      BY VectorParts
    <3>3. \A i \in 1 .. 3, j \in 1 .. 3 : w[i] \otimes n[j] \in Scalar /\ s \otimes n[j] \in Scalar
      BY <3>2, ScalarsClosed
    <3>4. \A i \in 1 .. 3, j \in 1 .. 3, k \in 1 .. 3 :
            /\ w[i] \otimes n[j] \oplus s \otimes n[k] \in Scalar
            /\ w[i] \otimes n[j] \ominus s \otimes n[k] \in Scalar
            /\ c \oplus w[i] \otimes n[j] \in Scalar
      BY <3>3, ScalarsClosed
    <3>5. R = <<<<c \oplus w[1] \otimes n[1], w[1] \otimes n[2] \oplus s \otimes n[3],
                  w[1] \otimes n[3] \ominus s \otimes n[2]>>,
                <<w[2] \otimes n[1] \ominus s \otimes n[3], c \oplus w[2] \otimes n[2],
                  w[2] \otimes n[3] \oplus s \otimes n[1]>>,
                <<w[3] \otimes n[1] \oplus s \otimes n[2], w[3] \otimes n[2] \ominus s \otimes n[1],
                  c \oplus w[3] \otimes n[3]>>>>
      BY <3>1 DEF Rotation
    <3> HIDE DEF R
    <3>6. \A i \in 1 .. 3 : i = 1 \/ i = 2 \/ i = 3
      OBVIOUS
    <3>7. R[1] \in VectorOf(3) /\ R[2] \in VectorOf(3) /\ R[3] \in VectorOf(3)
      BY <3>4, <3>5, Tuple3Closed
    <3> QED
      BY <3>6, <3>7, VectorParts
  <2> DEFINE turned(i) == Plus(Plus(Times(m[1], R[i][1]), Times(m[2], R[i][2])), Times(m[3], R[i][3]))
  <2>2. rotate(m, s, c, n) = <<turned(1), turned(2), turned(3), m[4]>>
    BY DEF rotate
  <2>3. \A i \in 1 .. 3 : turned(i) \in VectorOf(4)
    <3> HIDE DEF R
    <3> QED
      BY <1>3, <2>1
  <2> HIDE DEF turned
  <2> QED
    BY <1>1, <2>2, <2>3, ColumnsClosed
<1> QED
  BY <1>4, <1>5

LEMMA OuterClosed ==
  ASSUME NEW v \in VectorOf(4), NEW u \in VectorOf(4)
  PROVE  outer_product(v, u) \in MatrixOf(4, 4)
<1>1. DOMAIN u = 1 .. 4 /\ \A i \in 1 .. 4 : u[i] \in Scalar
  BY VectorParts
<1>2. \A i \in 1 .. 4 : Times(v, u[i]) \in VectorOf(4)
  BY <1>1, TimesClosed
<1> QED
  BY <1>1, <1>2 DEF outer_product, MatrixOf

LEMMA ProjectionClosed ==
  ASSUME NEW a \in Scalar, NEW b \in Scalar, NEW c \in Scalar, NEW d \in Scalar, NEW e \in Scalar,
         NEW f \in Scalar, NEW g \in Scalar
  PROVE  Projection(a, b, c, d, e, f, g) \in MatrixOf(4, 4)
<1>1. 0 \in Scalar
  BY ScalarsClosed
<1>2. /\ <<a, 0, 0, 0>> \in VectorOf(4) /\ <<0, b, 0, 0>> \in VectorOf(4)
      /\ <<c, d, e, f>> \in VectorOf(4) /\ <<0, 0, g, 0>> \in VectorOf(4)
  BY <1>1, Tuple4Closed
<1> QED
  BY <1>2, ColumnsClosed DEF Projection

LEMMA DepthClosed ==
  ASSUME NEW near \in Scalar, NEW far \in Scalar
  PROVE  Depth(near, far) \in Scalar /\ Shift(near, far) \in Scalar /\ Two \in Scalar
<1>1. Two \in Scalar /\ far \oplus near \in Scalar /\ far \ominus near \in Scalar
  BY ScalarsClosed DEF Two
<1>2. Two \otimes far \in Scalar
  BY <1>1, ScalarsClosed
<1>3. Two \otimes far \otimes near \in Scalar
  BY <1>2, ScalarsClosed
<1>4. Neg(Two \otimes far \otimes near) \in Scalar
  BY <1>3, ScalarsClosed
<1> QED
  BY <1>1, <1>4, ScalarsClosed DEF Depth, Shift

LEMMA PerspectivesClosed ==
  ASSUME NEW c \in Cameras, NEW clip_lh \in BOOLEAN
  PROVE  /\ perspective_rh(c.tan, c.aspect, c.near, c.far) \in MatrixOf(4, 4)
         /\ perspective_lh(c.tan, c.aspect, c.near, c.far) \in MatrixOf(4, 4)
         /\ perspective(clip_lh, c.tan, c.aspect, c.near, c.far) \in MatrixOf(4, 4)
<1>1. ASSUME NEW t \in Scalar, NEW a \in Scalar, NEW near \in Scalar, NEW far \in Scalar
      PROVE  /\ perspective_rh(t, a, near, far) \in MatrixOf(4, 4)
             /\ perspective_lh(t, a, near, far) \in MatrixOf(4, 4)
  <2>1. /\ 0 \in Scalar /\ 1 \in Scalar /\ Neg(1) \in Scalar
        /\ Depth(near, far) \in Scalar /\ Shift(near, far) \in Scalar
    BY ScalarsClosed, DepthClosed
  <2>2. Neg(Depth(near, far)) \in Scalar
    BY <2>1, ScalarsClosed
  <2>3. a \otimes t \in Scalar /\ 1 \oslash t \in Scalar
    BY <2>1, ScalarsClosed
  <2>4. 1 \oslash (a \otimes t) \in Scalar
    BY <2>1, <2>3, ScalarsClosed
  <2> QED
    BY <2>1, <2>2, <2>3, <2>4, ProjectionClosed DEF perspective_rh, perspective_lh
<1>2. c.tan \in Scalar /\ c.aspect \in Scalar /\ c.near \in Scalar /\ c.far \in Scalar
  BY OperandsAssumption
<1> QED
  BY <1>1, <1>2 DEF perspective

LEMMA BoxesClosed ==
  ASSUME NEW b \in Boxes, NEW clip_lh \in BOOLEAN
  PROVE  /\ frustum_rh(b.left, b.right, b.bottom, b.top, b.near, b.far) \in MatrixOf(4, 4)
         /\ frustum_lh(b.left, b.right, b.bottom, b.top, b.near, b.far) \in MatrixOf(4, 4)
         /\ frustum(clip_lh, b.left, b.right, b.bottom, b.top, b.near, b.far) \in MatrixOf(4, 4)
         /\ ortho_rh(b.left, b.right, b.bottom, b.top, b.near, b.far) \in MatrixOf(4, 4)
         /\ ortho_lh(b.left, b.right, b.bottom, b.top, b.near, b.far) \in MatrixOf(4, 4)
         /\ ortho(clip_lh, b.left, b.right, b.bottom, b.top, b.near, b.far) \in MatrixOf(4, 4)
<1>1. PICK left \in Scalar, right \in Scalar, bottom \in Scalar, top \in Scalar, near \in Scalar,
           far \in Scalar :
        /\ b.left = left /\ b.right = right /\ b.bottom = bottom
        /\ b.top = top /\ b.near = near /\ b.far = far
  BY OperandsAssumption
<1>2. /\ 0 \in Scalar /\ 1 \in Scalar /\ Neg(1) \in Scalar /\ Two \in Scalar
      /\ Depth(near, far) \in Scalar /\ Shift(near, far) \in Scalar
  BY ScalarsClosed, DepthClosed
<1>3. Neg(Depth(near, far)) \in Scalar /\ Neg(Two) \in Scalar
  BY <1>2, ScalarsClosed
<1>4. PICK width \in Scalar, height \in Scalar, slip \in Scalar, length \in Scalar :
        /\ width = right \ominus left /\ height = top \ominus bottom
        /\ slip = right \ominus near /\ length = far \ominus near
  BY ScalarsClosed
<1>5. PICK across \in Scalar, up \in Scalar, twice \in Scalar :
        /\ across = right \oplus left /\ up = top \oplus bottom /\ twice = Two \otimes near
  BY <1>2, ScalarsClosed
<1>6. Neg(across) \in Scalar /\ Neg(up) \in Scalar
  BY ScalarsClosed
<1>7. \A x \in Scalar, y \in Scalar : x \oslash y \in Scalar
  BY ScalarsClosed
<1>8. /\ frustum_rh(left, right, bottom, top, near, far) \in MatrixOf(4, 4)
      /\ frustum_lh(left, right, bottom, top, near, far) \in MatrixOf(4, 4)
  BY <1>2, <1>3, <1>4, <1>5, <1>6, <1>7, ProjectionClosed DEF frustum_rh, frustum_lh
<1>9. ASSUME NEW depth \in Scalar
      PROVE  OrthoOf(depth, left, right, bottom, top, near, far) \in MatrixOf(4, 4)
  <2>1. /\ Two \oslash width \in Scalar /\ Neg(across) \oslash width \in Scalar
        /\ Neg(up) \oslash height \in Scalar
    BY <1>2, <1>6, <1>7
  <2>2. /\ <<Two \oslash width, 0, 0, 0>> \in VectorOf(4) /\ <<0, depth, 0, 0>> \in VectorOf(4)
        /\ <<Neg(across) \oslash width, Neg(up) \oslash height, Neg(Depth(near, far)), 0>> \in VectorOf(4)
        /\ <<0, 0, 0, 1>> \in VectorOf(4)
    BY <1>2, <1>3, <2>1, Tuple4Closed
  <2> QED
    BY <1>4, <1>5, <2>2, ColumnsClosed DEF OrthoOf
<1>10. Two \oslash length \in Scalar /\ Neg(Two) \oslash length \in Scalar
  BY <1>2, <1>3, <1>7
<1>11. /\ ortho_rh(left, right, bottom, top, near, far) \in MatrixOf(4, 4)
       /\ ortho_lh(left, right, bottom, top, near, far) \in MatrixOf(4, 4)
  BY <1>4, <1>9, <1>10 DEF ortho_rh, ortho_lh
<1> QED
  BY <1>1, <1>8, <1>11 DEF frustum, ortho

LEMMA MatrixTyped ==
  ASSUME IInv, Typed, MatrixNext
  PROVE  Typed'
<1>1. kind = "matrix" /\ kind' = "matrix"
  BY DEF MatrixNext, MatrixOperation, MatrixNegate, MatrixAssign, MatrixTimes, MatrixFrom3,
         MatrixCompute, Transpose, Hadamard, Outer, Translate, Scale, Rotate, PerspectiveRH,
         PerspectiveLH, Perspective, FrustumRH, FrustumLH, Frustum, OrthoRH, OrthoLH, Ortho,
         MatrixCall, Calling
<1>2. general \in MatrixOf(4, 4)
  BY <1>1 DEF Typed
<1>3. SUFFICES general' \in MatrixOf(4, 4)
  BY <1>1 DEF Typed
<1>4. \A m \in MatrixOperands : m \in MatrixOf(4, 4)
  BY OperandTyped
<1>5. ASSUME NEW op \in Ops, MatrixOperation(op) PROVE general' \in MatrixOf(4, 4)
  <2>1. ASSUME NEW m \in MatrixOperands, general' = MatOp(op, general, m) \/ general' = MatSelfOp(op, general, m)
        PROVE  general' \in MatrixOf(4, 4)
    <3>1. m \in MatrixOf(4, 4)
      BY <1>4
    <3>2. MatOp(op, general, m) \in MatrixOf(4, 4) /\ MatSelfOp(op, general, m) \in MatrixOf(4, 4)
      BY <1>2, <3>1, MatricesClosed
    <3> QED
      BY <2>1, <3>2
  <2>2. ASSUME NEW s \in SomeScalars,
               general' = MatOpScalar(op, general, s) \/ general' = MatSelfOpScalar(op, general, s)
        PROVE  general' \in MatrixOf(4, 4)
    <3>1. s \in Scalar
      BY OperandTyped
    <3>2. /\ MatOpScalar(op, general, s) \in MatrixOf(4, 4)
          /\ MatSelfOpScalar(op, general, s) \in MatrixOf(4, 4)
      BY <1>2, <3>1, MatricesClosed
    <3> QED
      BY <2>2, <3>2
  <2> QED
    BY <1>5, <2>1, <2>2 DEF MatrixOperation, MatrixCall
<1>6. ASSUME MatrixNegate \/ Transpose PROVE general' \in MatrixOf(4, 4)
  <2>1. MatNegated(general) \in MatrixOf(4, 4) /\ transpose(general) \in MatrixOf(4, 4)
    BY <1>2, MatricesClosed
  <2> QED
    BY <1>6, <2>1 DEF MatrixNegate, Transpose, MatrixCompute, MatrixCall
<1>7. ASSUME NEW m \in MatrixOperands, MatrixAssign(m) \/ MatrixTimes(m) \/ MatrixFrom3(m) \/ Hadamard(m)
      PROVE  general' \in MatrixOf(4, 4)
  <2>1. m \in MatrixOf(4, 4)
    BY <1>4
  <2>2. /\ MatAssigned(general, m) \in MatrixOf(4, 4) /\ Bordered(m) \in MatrixOf(4, 4)
        /\ hadamard_product(general, m) \in MatrixOf(4, 4)
    BY <1>2, <2>1, MatricesClosed
  <2>3. MatMat(general, m) \in MatrixOf(4, 4)
    BY <1>2, <2>1, ProductsClosed
  <2> QED
    BY <1>7, <2>2, <2>3
       DEF MatrixAssign, MatrixTimes, MatrixFrom3, Hadamard, MatrixCompute, MatrixCall
<1>8. ASSUME NEW v \in Vectors4, NEW u \in Vectors4, Outer(v, u)
      PROVE  general' \in MatrixOf(4, 4)
  <2>1. v \in VectorOf(4) /\ u \in VectorOf(4)
    BY OperandTyped DEF Vectors4, Operands
  <2> QED
    BY <1>8, <2>1, OuterClosed DEF Outer, MatrixCompute, MatrixCall
<1>9. ASSUME NEW v \in Vectors3, Translate(v) \/ Scale(v)
      PROVE  general' \in MatrixOf(4, 4)
  <2>1. v \in VectorOf(3)
    BY OperandTyped DEF Vectors3, Operands
  <2>2. translate(general, v) \in MatrixOf(4, 4) /\ scale(general, v) \in MatrixOf(4, 4)
    BY <1>2, <2>1, TransformsClosed
  <2> QED
    BY <1>9, <2>2 DEF Translate, Scale, MatrixCompute, MatrixCall
<1>10. ASSUME NEW angle \in Angles, NEW n \in Axes, Rotate(angle, n)
       PROVE  general' \in MatrixOf(4, 4)
  <2>1. angle[1] \in Scalar /\ angle[2] \in Scalar /\ n \in VectorOf(3)
    BY OperandsAssumption
  <2>2. rotate(general, angle[1], angle[2], n) \in MatrixOf(4, 4)
    BY <1>2, <2>1, TransformsClosed
  <2> QED
    BY <1>10, <2>2 DEF Rotate, MatrixCompute, MatrixCall
<1>11. ASSUME NEW c \in Cameras, NEW clip_lh \in BOOLEAN,
              PerspectiveRH(c) \/ PerspectiveLH(c) \/ Perspective(c, clip_lh)
       PROVE  general' \in MatrixOf(4, 4)
  BY <1>11, PerspectivesClosed DEF PerspectiveRH, PerspectiveLH, Perspective, MatrixCompute, MatrixCall
<1>12. ASSUME NEW b \in Boxes, NEW clip_lh \in BOOLEAN,
              \/ FrustumRH(b) \/ FrustumLH(b) \/ Frustum(b, clip_lh)
              \/ OrthoRH(b) \/ OrthoLH(b) \/ Ortho(b, clip_lh)
       PROVE  general' \in MatrixOf(4, 4)
  BY <1>12, BoxesClosed
     DEF FrustumRH, FrustumLH, Frustum, OrthoRH, OrthoLH, Ortho, MatrixCompute, MatrixCall
<1> QED
  BY <1>5, <1>6, <1>7, <1>8, <1>9, <1>10, <1>11, <1>12 DEF MatrixNext

LEMMA QuaternionsClosed ==
  ASSUME NEW p \in QuaternionSet, NEW q \in QuaternionSet
  PROVE  /\ QuatPlus(p, q) \in QuaternionSet /\ QuatMinus(p, q) \in QuaternionSet
         /\ QuatTimes(p, q) \in QuaternionSet
<1>1. /\ p.w \in Scalar /\ p.x \in Scalar /\ p.y \in Scalar /\ p.z \in Scalar
      /\ q.w \in Scalar /\ q.x \in Scalar /\ q.y \in Scalar /\ q.z \in Scalar
  BY DEF QuaternionSet
<1>2. QuatPlus(p, q) \in QuaternionSet /\ QuatMinus(p, q) \in QuaternionSet
  BY <1>1, ScalarsClosed DEF QuatPlus, QuatMinus, Quaternion, QuaternionSet
<1>3. \A a \in Scalar, b \in Scalar : a \otimes b \in Scalar /\ a \oplus b \in Scalar /\ a \ominus b \in Scalar
  BY ScalarsClosed
<1>4. QuatTimes(p, q) \in QuaternionSet
  BY <1>1, <1>3 DEF QuatTimes, Quaternion, QuaternionSet
<1> QED
  BY <1>2, <1>4

\* Every component of what a program computes is a value of a component.
THEOREM TypesCorrect == Spec => []Typed
<1>1. IInv /\ Typed /\ [Next]_vars => Typed'
  <2> SUFFICES ASSUME IInv, Typed, [Next]_vars PROVE Typed'
    OBVIOUS
  <2>1. CASE VectorNext
    BY <2>1, VectorTyped
  <2>2. CASE MatrixNext
    BY <2>2, MatrixTyped
  <2>3. CASE QuaternionNext
    <3>1. kind = "quaternion" /\ kind' = kind /\ special \in QuaternionSet
      BY <2>3 DEF QuaternionNext, QuaternionCall, Calling, Typed
    <3>2. special' \in QuaternionSet
      BY <2>3, <3>1, OperandsAssumption, QuaternionsClosed DEF QuaternionNext, QuaternionCall
    <3> QED
      BY <3>1, <3>2 DEF Typed
  <2>4. CASE UNCHANGED vars
    BY <2>4 DEF vars, Typed
  <2> QED
    BY <2>1, <2>2, <2>3, <2>4 DEF Next, Done
<1> QED
  BY <1>1, InvHolds, InitTyped, PTL DEF Spec

-----------------------------------------------------------------------------
(* Exact arithmetic: the integers, or their residues. *)

\* The component an integer is the value of: itself, or its residue.
Value == CHOOSE value : value \in [Int -> Scalar] /\ ExactOn(Int, value)
Of(a) == Value[a]

LEMMA OfIsExact ==
  ASSUME ExactArithmetic
  PROVE  /\ \A a \in Int : Of(a) \in Scalar
         /\ \A s \in Scalar : s \in Int /\ Of(s) = s
         /\ \A a \in Int, b \in Int : /\ Of(a) \oplus Of(b) = Of(a + b)
                                      /\ Of(a) \ominus Of(b) = Of(a - b)
                                      /\ Of(a) \otimes Of(b) = Of(a * b)
         /\ \A a \in Int : Neg(Of(a)) = Of(-a)
         /\ Of(0) = 0 /\ Of(1) = 1 /\ Of(-1) = -1
<1>1. Value \in [Int -> Scalar] /\ ExactOn(Int, Value)
  BY DEF ExactArithmetic, Value
<1>2. /\ \A a \in Int : Of(a) \in Scalar
      /\ \A s \in Scalar : s \in Int /\ Of(s) = s
      /\ \A a \in Int, b \in Int : /\ Of(a) \oplus Of(b) = Of(a + b)
                                   /\ Of(a) \ominus Of(b) = Of(a - b)
                                   /\ Of(a) \otimes Of(b) = Of(a * b)
  BY <1>1 DEF ExactOn, Of
<1>3. Of(0) = 0 /\ Of(1) = 1 /\ Of(-1) = -1
  BY <1>2, ScalarsClosed
<1>4. ASSUME NEW a \in Int PROVE Neg(Of(a)) = Of(-a)
  <2>1. Of(0) \ominus Of(a) = Of(0 - a)
    BY <1>2
  <2>2. 0 - a = -a
    OBVIOUS
  <2> QED
    BY <1>3, <2>1, <2>2 DEF Neg
<1> QED
  BY <1>2, <1>3, <1>4

\* Sums of products, as dot and the determinants make them.
LEMMA OfSum2 ==
  ASSUME ExactArithmetic, NEW a \in Int, NEW b \in Int, NEW c \in Int, NEW d \in Int
  PROVE  /\ Of(a) \otimes Of(b) \oplus Of(c) \otimes Of(d) = Of(a * b + c * d)
         /\ Of(a) \otimes Of(b) \ominus Of(c) \otimes Of(d) = Of(a * b - c * d)
<1>1. Of(a) \otimes Of(b) = Of(a * b) /\ Of(c) \otimes Of(d) = Of(c * d)
  BY OfIsExact
<1>2. a * b \in Int /\ c * d \in Int
  OBVIOUS
<1> QED
  BY <1>1, <1>2, OfIsExact

Dot3(x, y) == x[1] * y[1] + x[2] * y[2] + x[3] * y[3]
Dot4(x, y) == x[1] * y[1] + x[2] * y[2] + x[3] * y[3] + x[4] * y[4]

LEMMA OfProduct ==
  ASSUME ExactArithmetic, NEW a \in Int, NEW b \in Int
  PROVE  /\ Of(a) \otimes Of(b) = Of(a * b) /\ a * b \in Int
         /\ Of(a) \oplus Of(b) = Of(a + b) /\ a + b \in Int
         /\ Of(a) \ominus Of(b) = Of(a - b) /\ a - b \in Int
<1>1. /\ Of(a) \otimes Of(b) = Of(a * b) /\ Of(a) \oplus Of(b) = Of(a + b)
      /\ Of(a) \ominus Of(b) = Of(a - b)
  BY OfIsExact
<1>2. a * b \in Int /\ a + b \in Int /\ a - b \in Int
  OBVIOUS
<1> QED
  BY <1>1, <1>2

\* A sum as dot forms it.
LEMMA OfTotal ==
  ASSUME ExactArithmetic, NEW p1 \in Int, NEW p2 \in Int, NEW p3 \in Int
  PROVE  ((0 \oplus Of(p1)) \oplus Of(p2)) \oplus Of(p3) = Of(p1 + p2 + p3)
<1>1. Of(0) \oplus Of(p1) = Of(0 + p1) /\ 0 + p1 = p1 /\ Of(0) = 0
  BY OfIsExact
<1>2. Of(p1) \oplus Of(p2) = Of(p1 + p2) /\ p1 + p2 \in Int
  BY OfProduct
<1>3. Of(p1 + p2) \oplus Of(p3) = Of(p1 + p2 + p3)
  BY <1>2, OfProduct
<1> QED
  BY <1>1, <1>2, <1>3

\* The components of v are the values of the integers in x.
Represents(n, x, v) == x \in [1 .. n -> Int] /\ \A i \in 1 .. n : v[i] = Of(x[i])

LEMMA OfDot3 ==
  ASSUME ExactArithmetic, NEW x, NEW y, NEW v, NEW u, Len(v) = 3,
         Represents(3, x, v), Represents(3, y, u)
  PROVE  dot(v, u) = Of(Dot3(x, y)) /\ Dot3(x, y) \in Int
<1>1. ASSUME NEW i \in 1 .. 3 PROVE v[i] \otimes u[i] = Of(x[i] * y[i]) /\ x[i] * y[i] \in Int
  <2>1. PICK a \in Int, b \in Int : a = x[i] /\ b = y[i] /\ v[i] = Of(a) /\ u[i] = Of(b)
    BY DEF Represents
  <2>2. Of(a) \otimes Of(b) = Of(a * b) /\ a * b \in Int
    BY OfProduct
  <2> QED
    BY <2>1, <2>2
<1>2. PICK p1 \in Int, p2 \in Int, p3 \in Int :
        /\ p1 = x[1] * y[1] /\ p2 = x[2] * y[2] /\ p3 = x[3] * y[3]
        /\ v[1] \otimes u[1] = Of(p1) /\ v[2] \otimes u[2] = Of(p2) /\ v[3] \otimes u[3] = Of(p3)
  BY <1>1
<1>3. dot(v, u) = ((0 \oplus v[1] \otimes u[1]) \oplus v[2] \otimes u[2]) \oplus v[3] \otimes u[3]
  BY DotUnrolled
<1>4. PICK k \in Int : k = p1 + p2 + p3
  OBVIOUS
<1>5. ((0 \oplus Of(p1)) \oplus Of(p2)) \oplus Of(p3) = Of(k)
  BY <1>4, OfTotal
<1>6. Dot3(x, y) = k
  BY <1>2, <1>4 DEF Dot3
<1> QED
  BY <1>2, <1>3, <1>5, <1>6

LEMMA OfDot4 ==
  ASSUME ExactArithmetic, NEW x, NEW y, NEW v, NEW u, Len(v) = 4,
         Represents(4, x, v), Represents(4, y, u)
  PROVE  dot(v, u) = Of(Dot4(x, y)) /\ Dot4(x, y) \in Int
<1>1. ASSUME NEW i \in 1 .. 4 PROVE v[i] \otimes u[i] = Of(x[i] * y[i]) /\ x[i] * y[i] \in Int
  <2>1. PICK a \in Int, b \in Int : a = x[i] /\ b = y[i] /\ v[i] = Of(a) /\ u[i] = Of(b)
    BY DEF Represents
  <2>2. Of(a) \otimes Of(b) = Of(a * b) /\ a * b \in Int
    BY OfProduct
  <2> QED
    BY <2>1, <2>2
<1>2. PICK p1 \in Int, p2 \in Int, p3 \in Int, p4 \in Int :
        /\ p1 = x[1] * y[1] /\ p2 = x[2] * y[2] /\ p3 = x[3] * y[3] /\ p4 = x[4] * y[4]
        /\ v[1] \otimes u[1] = Of(p1) /\ v[2] \otimes u[2] = Of(p2)
        /\ v[3] \otimes u[3] = Of(p3) /\ v[4] \otimes u[4] = Of(p4)
  BY <1>1
<1>3. dot(v, u) = (((0 \oplus v[1] \otimes u[1]) \oplus v[2] \otimes u[2]) \oplus v[3] \otimes u[3])
                  \oplus v[4] \otimes u[4]
  BY DotUnrolled
<1>4. PICK k \in Int, l \in Int : k = p1 + p2 + p3 /\ l = k + p4
  OBVIOUS
<1>5. ((0 \oplus Of(p1)) \oplus Of(p2)) \oplus Of(p3) = Of(k)
  BY <1>4, OfTotal
<1>6. Of(k) \oplus Of(p4) = Of(l)
  BY <1>4, OfProduct
<1>7. Dot4(x, y) = l
  BY <1>2, <1>4 DEF Dot4
<1> QED
  BY <1>2, <1>3, <1>5, <1>6, <1>7

\* Two rows of a determinant.
Cofactor(a, b, c, d) == a * d - c * b

Det3(x) ==
  x[1][1] * Cofactor(x[2][2], x[2][3], x[3][2], x[3][3])
  - x[2][1] * Cofactor(x[1][2], x[1][3], x[3][2], x[3][3])
  + x[3][1] * Cofactor(x[1][2], x[1][3], x[2][2], x[2][3])

LEMMA OfCofactor ==
  ASSUME ExactArithmetic, NEW a \in Int, NEW b \in Int, NEW c \in Int, NEW d \in Int
  PROVE  /\ Of(a) \otimes Of(d) \ominus Of(c) \otimes Of(b) = Of(Cofactor(a, b, c, d))
         /\ Cofactor(a, b, c, d) \in Int
BY OfSum2 DEF Cofactor

LEMMA OfAlternating3 ==
  ASSUME ExactArithmetic, NEW a \in Int, NEW b \in Int, NEW c \in Int,
         NEW p \in Int, NEW q \in Int, NEW r \in Int
  PROVE  /\ (Of(a) \otimes Of(p) \ominus Of(b) \otimes Of(q)) \oplus Of(c) \otimes Of(r)
              = Of(a * p - b * q + c * r)
         /\ a * p - b * q + c * r \in Int
<1>1. Of(a) \otimes Of(p) \ominus Of(b) \otimes Of(q) = Of(a * p - b * q)
  BY OfSum2
<1>2. PICK k \in Int : k = a * p - b * q
  OBVIOUS
<1>3. PICK l \in Int : l = c * r
  OBVIOUS
<1>4. Of(c) \otimes Of(r) = Of(l)
  BY <1>3, OfProduct
<1>5. Of(k) \oplus Of(l) = Of(k + l)
  BY OfProduct
<1>6. k + l = a * p - b * q + c * r
  BY <1>2, <1>3
<1>7. (Of(a) \otimes Of(p) \ominus Of(b) \otimes Of(q)) \oplus Of(c) \otimes Of(r) = Of(k) \oplus Of(l)
  BY <1>1, <1>2, <1>4
<1> QED
  BY <1>5, <1>6, <1>7

\* The columns of m are those of an integer matrix.
RepresentsAll(n, x, m) == \A i \in 1 .. n : Represents(n, x[i], m[i])

LEMMA OfDet3 ==
  ASSUME ExactArithmetic, NEW x, NEW m, RepresentsAll(3, x, m)
  PROVE  determinant3(m) = Of(Det3(x)) /\ Det3(x) \in Int
<1>1. PICK x11 \in Int, x12 \in Int, x13 \in Int, x21 \in Int, x22 \in Int, x23 \in Int,
           x31 \in Int, x32 \in Int, x33 \in Int :
        /\ x[1][1] = x11 /\ x[1][2] = x12 /\ x[1][3] = x13
        /\ x[2][1] = x21 /\ x[2][2] = x22 /\ x[2][3] = x23
        /\ x[3][1] = x31 /\ x[3][2] = x32 /\ x[3][3] = x33
  <2>1. /\ x[1][1] \in Int /\ x[1][2] \in Int /\ x[1][3] \in Int
        /\ x[2][1] \in Int /\ x[2][2] \in Int /\ x[2][3] \in Int
        /\ x[3][1] \in Int /\ x[3][2] \in Int /\ x[3][3] \in Int
    BY DEF RepresentsAll, Represents
  <2> QED
    BY <2>1
<1>2. /\ m[1][1] = Of(x11) /\ m[1][2] = Of(x12) /\ m[1][3] = Of(x13)
      /\ m[2][1] = Of(x21) /\ m[2][2] = Of(x22) /\ m[2][3] = Of(x23)
      /\ m[3][1] = Of(x31) /\ m[3][2] = Of(x32) /\ m[3][3] = Of(x33)
  BY <1>1 DEF RepresentsAll, Represents
<1>3. PICK p \in Int, q \in Int, r \in Int :
        /\ p = Cofactor(x22, x23, x32, x33) /\ q = Cofactor(x12, x13, x32, x33)
        /\ r = Cofactor(x12, x13, x22, x23)
  BY OfCofactor
<1>4. /\ Of(x22) \otimes Of(x33) \ominus Of(x32) \otimes Of(x23) = Of(p)
      /\ Of(x12) \otimes Of(x33) \ominus Of(x32) \otimes Of(x13) = Of(q)
      /\ Of(x12) \otimes Of(x23) \ominus Of(x22) \otimes Of(x13) = Of(r)
  BY <1>3, OfCofactor
<1>5. determinant3(m) = (Of(x11) \otimes Of(p) \ominus Of(x21) \otimes Of(q)) \oplus Of(x31) \otimes Of(r)
  BY <1>2, <1>4 DEF determinant3
<1>6. Det3(x) = x11 * p - x21 * q + x31 * r
  BY <1>1, <1>3 DEF Det3
<1>7. /\ (Of(x11) \otimes Of(p) \ominus Of(x21) \otimes Of(q)) \oplus Of(x31) \otimes Of(r)
           = Of(x11 * p - x21 * q + x31 * r)
      /\ x11 * p - x21 * q + x31 * r \in Int
  BY OfAlternating3
<1>8. Of(x11 * p - x21 * q + x31 * r) = Of(Det3(x))
  BY <1>6
<1> QED
  BY <1>5, <1>6, <1>7, <1>8

LEMMA OfDifference ==
  ASSUME ExactArithmetic, NEW a \in Int, NEW b \in Int, NEW c \in Int, NEW d \in Int
  PROVE  \E z \in Int : /\ z = a * b - c * d
                       /\ Of(a) \otimes Of(b) \ominus Of(c) \otimes Of(d) = Of(z)
<1>1. a * b - c * d \in Int
  OBVIOUS
<1> QED
  BY <1>1, OfSum2

\* The product of two integer vectors that is orthogonal to both.
IsCross(x, y, z) == /\ z[1] = x[2] * y[3] - x[3] * y[2]
                    /\ z[2] = x[3] * y[1] - x[1] * y[3]
                    /\ z[3] = x[1] * y[2] - x[2] * y[1]

LEMMA OfCross ==
  ASSUME ExactArithmetic, NEW x, NEW y, NEW v, NEW u, Represents(3, x, v), Represents(3, y, u)
  PROVE  \E z \in [1 .. 3 -> Int] : IsCross(x, y, z) /\ Represents(3, z, cross(v, u))
<1>1. PICK x1 \in Int, x2 \in Int, x3 \in Int, y1 \in Int, y2 \in Int, y3 \in Int :
        /\ x[1] = x1 /\ x[2] = x2 /\ x[3] = x3 /\ y[1] = y1 /\ y[2] = y2 /\ y[3] = y3
        /\ v[1] = Of(x1) /\ v[2] = Of(x2) /\ v[3] = Of(x3)
        /\ u[1] = Of(y1) /\ u[2] = Of(y2) /\ u[3] = Of(y3)
  <2>1. PICK x1 \in Int, x2 \in Int, x3 \in Int :
          /\ x[1] = x1 /\ x[2] = x2 /\ x[3] = x3
          /\ v[1] = Of(x1) /\ v[2] = Of(x2) /\ v[3] = Of(x3)
    BY DEF Represents
  <2>2. PICK y1 \in Int, y2 \in Int, y3 \in Int :
          /\ y[1] = y1 /\ y[2] = y2 /\ y[3] = y3
          /\ u[1] = Of(y1) /\ u[2] = Of(y2) /\ u[3] = Of(y3)
    BY DEF Represents
  <2> QED
    BY <2>1, <2>2
<1>2. PICK z1 \in Int : z1 = x2 * y3 - x3 * y2 /\ Of(x2) \otimes Of(y3) \ominus Of(x3) \otimes Of(y2) = Of(z1)
  BY OfDifference
<1>3. PICK z2 \in Int : z2 = x3 * y1 - x1 * y3 /\ Of(x3) \otimes Of(y1) \ominus Of(x1) \otimes Of(y3) = Of(z2)
  BY OfDifference
<1>4. PICK z3 \in Int : z3 = x1 * y2 - x2 * y1 /\ Of(x1) \otimes Of(y2) \ominus Of(x2) \otimes Of(y1) = Of(z3)
  BY OfDifference
<1>5. cross(v, u) = <<Of(z1), Of(z2), Of(z3)>>
  BY <1>1, <1>2, <1>3, <1>4 DEF cross
<1> DEFINE z == [i \in 1 .. 3 |-> IF i = 1 THEN z1 ELSE IF i = 2 THEN z2 ELSE z3]
<1>6. z \in [1 .. 3 -> Int] /\ z[1] = z1 /\ z[2] = z2 /\ z[3] = z3
  OBVIOUS
<1> HIDE DEF z
<1>7. \A i \in 1 .. 3 : i = 1 \/ i = 2 \/ i = 3
  OBVIOUS
<1>8. Represents(3, z, cross(v, u))
  BY <1>5, <1>6, <1>7 DEF Represents
<1>9. IsCross(x, y, z)
  BY <1>1, <1>2, <1>3, <1>4, <1>6 DEF IsCross
<1> QED
  BY <1>6, <1>8, <1>9

LEMMA ScalarsRepresent ==
  ASSUME ExactArithmetic, NEW n \in Nat, NEW v \in VectorOf(n)
  PROVE  Represents(n, v, v)
BY OfIsExact DEF Represents, VectorOf

LEMMA CrossIdentities ==
  ASSUME NEW x \in [1 .. 3 -> Int], NEW y \in [1 .. 3 -> Int], NEW z, IsCross(x, y, z)
  PROVE  /\ Dot3(z, x) = 0 /\ Dot3(z, y) = 0
         /\ \A w \in [1 .. 3 -> Int] : Dot3(z, w) = Det3(<<x, y, w>>)
<1>1. PICK x1 \in Int, x2 \in Int, x3 \in Int, y1 \in Int, y2 \in Int, y3 \in Int :
        x[1] = x1 /\ x[2] = x2 /\ x[3] = x3 /\ y[1] = y1 /\ y[2] = y2 /\ y[3] = y3
  OBVIOUS
<1>2. z[1] = x2 * y3 - x3 * y2 /\ z[2] = x3 * y1 - x1 * y3 /\ z[3] = x1 * y2 - x2 * y1
  BY <1>1 DEF IsCross
<1>3. /\ (x2 * y3 - x3 * y2) * x1 + (x3 * y1 - x1 * y3) * x2 + (x1 * y2 - x2 * y1) * x3 = 0
      /\ (x2 * y3 - x3 * y2) * y1 + (x3 * y1 - x1 * y3) * y2 + (x1 * y2 - x2 * y1) * y3 = 0
  OBVIOUS
<1>4. ASSUME NEW w \in [1 .. 3 -> Int] PROVE Dot3(z, w) = Det3(<<x, y, w>>)
  <2>1. PICK w1 \in Int, w2 \in Int, w3 \in Int : w[1] = w1 /\ w[2] = w2 /\ w[3] = w3
    OBVIOUS
  <2>2. Dot3(z, w) = (x2 * y3 - x3 * y2) * w1 + (x3 * y1 - x1 * y3) * w2 + (x1 * y2 - x2 * y1) * w3
    BY <1>2, <2>1 DEF Dot3
  <2>3. Det3(<<x, y, w>>) = x1 * (y2 * w3 - w2 * y3) - y1 * (x2 * w3 - w2 * x3) + w1 * (x2 * y3 - y2 * x3)
    BY <1>1, <2>1 DEF Det3, Cofactor
  <2>4. (x2 * y3 - x3 * y2) * w1 + (x3 * y1 - x1 * y3) * w2 + (x1 * y2 - x2 * y1) * w3
          = x1 * (y2 * w3 - w2 * y3) - y1 * (x2 * w3 - w2 * x3) + w1 * (x2 * y3 - y2 * x3)
    OBVIOUS
  <2> QED
    BY <2>2, <2>3, <2>4
<1> QED
  BY <1>1, <1>2, <1>3, <1>4 DEF Dot3

LEMMA CrossIsOrthogonal ==
  ASSUME ExactArithmetic, NEW v \in VectorOf(3), NEW u \in VectorOf(3)
  PROVE  /\ dot(cross(v, u), v) = 0 /\ dot(cross(v, u), u) = 0
         /\ \A w \in VectorOf(3) : dot(cross(v, u), w) = determinant3(<<v, u, w>>)
<1>1. Represents(3, v, v) /\ Represents(3, u, u)
  BY ScalarsRepresent
<1>2. PICK z \in [1 .. 3 -> Int] : IsCross(v, u, z) /\ Represents(3, z, cross(v, u))
  BY <1>1, OfCross
<1>3. Len(cross(v, u)) = 3
  BY DEF cross
<1>4. v \in [1 .. 3 -> Int] /\ u \in [1 .. 3 -> Int]
  BY <1>1 DEF Represents
<1>5. dot(cross(v, u), v) = Of(Dot3(z, v)) /\ dot(cross(v, u), u) = Of(Dot3(z, u))
  BY <1>1, <1>2, <1>3, OfDot3
<1>6. Dot3(z, v) = 0 /\ Dot3(z, u) = 0
  BY <1>2, <1>4, CrossIdentities
<1>7. ASSUME NEW w \in VectorOf(3) PROVE dot(cross(v, u), w) = determinant3(<<v, u, w>>)
  <2>1. Represents(3, w, w)
    BY ScalarsRepresent
  <2>2. dot(cross(v, u), w) = Of(Dot3(z, w))
    BY <1>2, <1>3, <2>1, OfDot3
  <2>3. w \in [1 .. 3 -> Int]
    BY <2>1 DEF Represents
  <2>4. Dot3(z, w) = Det3(<<v, u, w>>)
    BY <1>2, <1>4, <2>3, CrossIdentities
  <2> DEFINE m == <<v, u, w>>
  <2>5. RepresentsAll(3, m, m)
    <3>1. m[1] = v /\ m[2] = u /\ m[3] = w /\ \A i \in 1 .. 3 : i = 1 \/ i = 2 \/ i = 3
      OBVIOUS
    <3> HIDE DEF m
    <3> QED
      BY <1>1, <2>1, <3>1 DEF RepresentsAll
  <2> HIDE DEF m
  <2>6. determinant3(m) = Of(Det3(m))
    BY <2>5, OfDet3
  <2> QED
    BY <2>2, <2>4, <2>6 DEF m
<1>8. Of(0) = 0
  BY OfIsExact
<1> QED
  BY <1>5, <1>6, <1>7, <1>8

\* A length of 1 does not change what it multiplies.
LEMMA UnitCancels ==
  ASSUME ExactArithmetic, NEW a \in Int, NEW b \in Int, NEW unit \in Int, Of(unit) = 1
  PROVE  Of(a + b * (unit - 1)) = Of(a)
<1>0. 1 \in Int /\ 0 \in Int /\ b * 1 = b /\ a + 0 = a
  OBVIOUS
<1>1. PICK p \in Int, r \in Int : p = b * unit /\ r = p - b
  OBVIOUS
<1>2. Of(b) \otimes Of(unit) = Of(p) /\ Of(b) \otimes Of(1) = Of(b)
  <2>1. Of(b) \otimes Of(unit) = Of(b * unit)
    BY OfProduct
  <2>2. Of(b) \otimes Of(1) = Of(b * 1)
    BY <1>0, OfProduct
  <2> QED
    BY <1>0, <1>1, <2>1, <2>2
<1>3. Of(unit) = Of(1)
  BY OfIsExact
<1>4. Of(p) = Of(b)
  BY <1>2, <1>3
<1>5. Of(p) \ominus Of(b) = Of(r) /\ Of(b) \ominus Of(b) = Of(0)
  <2>1. Of(p) \ominus Of(b) = Of(p - b)
    BY OfProduct
  <2>2. Of(b) \ominus Of(b) = Of(b - b) /\ b - b = 0
    BY OfProduct
  <2> QED
    BY <1>1, <2>1, <2>2
<1>6. Of(r) = Of(0)
  BY <1>4, <1>5
<1>7. Of(a) \oplus Of(r) = Of(a + r) /\ Of(a) \oplus Of(0) = Of(a)
  <2>1. Of(a) \oplus Of(r) = Of(a + r)
    BY OfProduct
  <2>2. Of(a) \oplus Of(0) = Of(a + 0)
    BY <1>0, OfProduct
  <2> QED
    BY <1>0, <2>1, <2>2
<1>8. a + r = a + b * (unit - 1)
  BY <1>1
<1> QED
  BY <1>6, <1>7, <1>8

IsReflected(x, n, d, y) == /\ y[1] = x[1] - n[1] * d * 2
                           /\ y[2] = x[2] - n[2] * d * 2
                           /\ y[3] = x[3] - n[3] * d * 2

LEMMA ReflectedEntry ==
  ASSUME ExactArithmetic, NEW a \in Int, NEW b \in Int, NEW d \in Int
  PROVE  \E e \in Int : e = a - b * d * 2 /\ Of(a) \ominus ((Of(b) \otimes Of(d)) \otimes (1 \oplus 1)) = Of(e)
<1>1. 1 \oplus 1 = Of(2)
  <2>1. Of(1) \oplus Of(1) = Of(1 + 1) /\ 1 + 1 = 2 /\ Of(1) = 1
    BY OfIsExact
  <2> QED
    BY <2>1
<1>2. PICK p \in Int : p = b * d /\ Of(b) \otimes Of(d) = Of(p)
  BY OfProduct
<1>3. PICK q \in Int : q = p * 2 /\ Of(p) \otimes Of(2) = Of(q)
  BY OfProduct
<1>4. PICK e \in Int : e = a - q /\ Of(a) \ominus Of(q) = Of(e)
  BY OfProduct
<1>5. e = a - b * d * 2
  BY <1>2, <1>3, <1>4
<1> QED
  BY <1>1, <1>2, <1>3, <1>4, <1>5

LEMMA OfReflect ==
  ASSUME ExactArithmetic, NEW v \in VectorOf(3), NEW n \in VectorOf(3)
  PROVE  \E y \in [1 .. 3 -> Int] : /\ IsReflected(v, n, Dot3(v, n), y)
                                    /\ Represents(3, y, reflect(v, n))
<1>1. Represents(3, v, v) /\ Represents(3, n, n)
  BY ScalarsRepresent
<1>2. PICK d \in Int : d = Dot3(v, n) /\ dot(v, n) = Of(d)
  <2>1. Len(v) = 3
    BY VectorParts
  <2> QED
    BY <1>1, <2>1, OfDot3
<1>3. reflect(v, n) = [i \in 1 .. 3 |-> v[i] \ominus ((n[i] \otimes Of(d)) \otimes (1 \oplus 1))]
  <2>1. DOMAIN v = 1 .. 3 /\ DOMAIN n = 1 .. 3 /\ Len(n) = 3
    BY VectorParts
  <2>2. Times(n, Of(d)) = [i \in 1 .. 3 |-> n[i] \otimes Of(d)]
    BY <2>1 DEF Times, VecOp, Filled, \otimes
  <2> DEFINE w == Times(n, Of(d))
  <2>3. DOMAIN w = 1 .. 3 /\ Len(w) = 3 /\ \A i \in 1 .. 3 : w[i] = n[i] \otimes Of(d)
    BY <2>2
  <2> HIDE DEF w
  <2>4. Times(w, 1 \oplus 1) = [i \in 1 .. 3 |-> w[i] \otimes (1 \oplus 1)]
    BY <2>3 DEF Times, VecOp, Filled, \otimes
  <2>5. Minus(v, Times(w, 1 \oplus 1)) = [i \in 1 .. 3 |-> v[i] \ominus (w[i] \otimes (1 \oplus 1))]
    BY <2>1, <2>4 DEF Minus, VecOp, \ominus
  <2> QED
    BY <1>2, <2>3, <2>5 DEF reflect, w
<1>4. \A i \in 1 .. 3 : \E e \in Int :
        e = v[i] - n[i] * d * 2 /\ reflect(v, n)[i] = Of(e)
  <2> SUFFICES ASSUME NEW i \in 1 .. 3
               PROVE  \E e \in Int : e = v[i] - n[i] * d * 2 /\ reflect(v, n)[i] = Of(e)
    OBVIOUS
  <2>1. PICK a \in Int, b \in Int : a = v[i] /\ b = n[i] /\ v[i] = Of(a) /\ n[i] = Of(b)
    BY <1>1 DEF Represents
  <2>2. PICK e \in Int :
          e = a - b * d * 2 /\ Of(a) \ominus ((Of(b) \otimes Of(d)) \otimes (1 \oplus 1)) = Of(e)
    BY ReflectedEntry
  <2>3. reflect(v, n)[i] = v[i] \ominus ((n[i] \otimes Of(d)) \otimes (1 \oplus 1))
    BY <1>3
  <2> QED
    BY <2>1, <2>2, <2>3
<1> DEFINE y == [i \in 1 .. 3 |-> v[i] - n[i] * d * 2]
<1>5. y \in [1 .. 3 -> Int] /\ \A i \in 1 .. 3 : y[i] = v[i] - n[i] * d * 2
  <2>1. \A i \in 1 .. 3 : v[i] - n[i] * d * 2 \in Int
    BY <1>4
  <2> QED
    BY <2>1
<1> HIDE DEF y
<1>6. \A i \in 1 .. 3 : reflect(v, n)[i] = Of(y[i])
  BY <1>4, <1>5
<1>7. Represents(3, y, reflect(v, n)) /\ IsReflected(v, n, d, y)
  BY <1>5, <1>6 DEF Represents, IsReflected
<1> QED
  BY <1>2, <1>5, <1>7

LEMMA ReflectIdentities ==
  ASSUME NEW x \in [1 .. 3 -> Int], NEW n \in [1 .. 3 -> Int], NEW d \in Int, d = Dot3(x, n),
         NEW y, IsReflected(x, n, d, y)
  PROVE  /\ Dot3(y, n) = -d + (-2 * d) * (Dot3(n, n) - 1)
         /\ Dot3(y, y) = Dot3(x, x) + (4 * d * d) * (Dot3(n, n) - 1)
         /\ \A z : IsCross(x, n, z) <=> IsCross(y, n, z)
<1>1. PICK x1 \in Int, x2 \in Int, x3 \in Int, n1 \in Int, n2 \in Int, n3 \in Int :
        x[1] = x1 /\ x[2] = x2 /\ x[3] = x3 /\ n[1] = n1 /\ n[2] = n2 /\ n[3] = n3
  OBVIOUS
<1>2. PICK k \in Int : k = x1 * n1 + x2 * n2 + x3 * n3
  OBVIOUS
<1>3. d = k
  BY <1>1, <1>2 DEF Dot3
<1>4. y[1] = x1 - n1 * k * 2 /\ y[2] = x2 - n2 * k * 2 /\ y[3] = x3 - n3 * k * 2
  BY <1>1, <1>3 DEF IsReflected
<1>5. (x1 - n1 * k * 2) * n1 + (x2 - n2 * k * 2) * n2 + (x3 - n3 * k * 2) * n3
        = (x1 * n1 + x2 * n2 + x3 * n3) - 2 * k * (n1 * n1 + n2 * n2 + n3 * n3)
  OBVIOUS
<1>6. Dot3(n, n) = n1 * n1 + n2 * n2 + n3 * n3 /\ Dot3(x, x) = x1 * x1 + x2 * x2 + x3 * x3
  BY <1>1 DEF Dot3
<1>7. Dot3(y, n) = -d + (-2 * d) * (Dot3(n, n) - 1)
  <2>1. Dot3(y, n) = k - 2 * k * (n1 * n1 + n2 * n2 + n3 * n3)
    BY <1>1, <1>2, <1>4, <1>5 DEF Dot3
  <2>2. PICK m \in Int : m = n1 * n1 + n2 * n2 + n3 * n3
    OBVIOUS
  <2>3. k - 2 * k * m = -k + (-2 * k) * (m - 1)
    OBVIOUS
  <2> QED
    BY <1>3, <1>6, <2>1, <2>2, <2>3
<1>8. Dot3(y, y) = Dot3(x, x) + (4 * d * d) * (Dot3(n, n) - 1)
  <2>1. Dot3(y, y) = (x1 - n1 * k * 2) * (x1 - n1 * k * 2) + (x2 - n2 * k * 2) * (x2 - n2 * k * 2)
                     + (x3 - n3 * k * 2) * (x3 - n3 * k * 2)
    BY <1>4 DEF Dot3
  <2>2. (x1 - n1 * k * 2) * (x1 - n1 * k * 2) + (x2 - n2 * k * 2) * (x2 - n2 * k * 2)
          + (x3 - n3 * k * 2) * (x3 - n3 * k * 2)
        = (x1 * x1 + x2 * x2 + x3 * x3) - 4 * k * (x1 * n1 + x2 * n2 + x3 * n3)
          + 4 * k * k * (n1 * n1 + n2 * n2 + n3 * n3)
    OBVIOUS
  <2>3. PICK m \in Int, l \in Int : m = n1 * n1 + n2 * n2 + n3 * n3 /\ l = x1 * x1 + x2 * x2 + x3 * x3
    OBVIOUS
  <2>4. l - 4 * k * k + 4 * k * k * m = l + (4 * k * k) * (m - 1)
    OBVIOUS
  <2> QED
    BY <1>2, <1>3, <1>6, <2>1, <2>2, <2>3, <2>4
<1>9. /\ (x2 - n2 * k * 2) * n3 - (x3 - n3 * k * 2) * n2 = x2 * n3 - x3 * n2
      /\ (x3 - n3 * k * 2) * n1 - (x1 - n1 * k * 2) * n3 = x3 * n1 - x1 * n3
      /\ (x1 - n1 * k * 2) * n2 - (x2 - n2 * k * 2) * n1 = x1 * n2 - x2 * n1
  OBVIOUS
<1>10. \A z : IsCross(x, n, z) <=> IsCross(y, n, z)
  BY <1>1, <1>4, <1>9 DEF IsCross
<1> QED
  BY <1>7, <1>8, <1>10

LEMMA CrossOfSame ==
  ASSUME NEW v, NEW u, NEW y, NEW z \in [1 .. 3 -> Int], NEW n \in [1 .. 3 -> Int],
         Represents(3, z, cross(v, u)), NEW w \in [1 .. 3 -> Int], IsCross(y, n, z), IsCross(y, n, w),
         NEW t, Represents(3, w, cross(t, u))
  PROVE  cross(v, u) = cross(t, u)
<1>1. z[1] = w[1] /\ z[2] = w[2] /\ z[3] = w[3]
  BY DEF IsCross
<1>2. /\ cross(v, u)[1] = cross(t, u)[1] /\ cross(v, u)[2] = cross(t, u)[2]
      /\ cross(v, u)[3] = cross(t, u)[3]
  BY <1>1 DEF Represents
<1>3. \A a, b : cross(a, b) = <<cross(a, b)[1], cross(a, b)[2], cross(a, b)[3]>>
  BY DEF cross
<1>4. /\ cross(v, u) = <<cross(v, u)[1], cross(v, u)[2], cross(v, u)[3]>>
      /\ cross(t, u) = <<cross(t, u)[1], cross(t, u)[2], cross(t, u)[3]>>
  BY <1>3
<1> QED
  BY <1>2, <1>4

LEMMA ReflectKeeps ==
  ASSUME ExactArithmetic, NEW v \in VectorOf(3), NEW n \in VectorOf(3), dot(n, n) = 1
  PROVE  /\ dot(reflect(v, n), n) = Neg(dot(v, n))
         /\ cross(reflect(v, n), n) = cross(v, n)
         /\ dot(reflect(v, n), reflect(v, n)) = dot(v, v)
<1>1. /\ Represents(3, v, v) /\ v \in [1 .. 3 -> Int] /\ Len(v) = 3
      /\ Represents(3, n, n) /\ n \in [1 .. 3 -> Int] /\ Len(n) = 3
  BY ScalarsRepresent, VectorParts DEF Represents
<1>2. PICK d \in Int : d = Dot3(v, n)
  BY <1>1, OfDot3
<1>3. PICK y \in [1 .. 3 -> Int] : IsReflected(v, n, d, y) /\ Represents(3, y, reflect(v, n))
  BY <1>2, OfReflect
<1>4. Len(reflect(v, n)) = 3
  <2>1. 3 \in 2 .. 4 /\ 3 \in Nat
    OBVIOUS
  <2>2. reflect(v, n) \in VectorOf(3)
    BY <2>1, FunctionsClosed
  <2> QED
    BY <2>1, <2>2, VectorParts
<1>5. PICK unit \in Int : unit = Dot3(n, n) /\ Of(unit) = 1
  <2>1. dot(n, n) = Of(Dot3(n, n)) /\ Dot3(n, n) \in Int
    BY <1>1, OfDot3
  <2> QED
    BY <2>1
<1>6. /\ Dot3(y, n) = -d + (-2 * d) * (unit - 1)
      /\ Dot3(y, y) = Dot3(v, v) + (4 * d * d) * (unit - 1)
      /\ \A z : IsCross(v, n, z) <=> IsCross(y, n, z)
  BY <1>1, <1>2, <1>3, <1>5, ReflectIdentities
<1>7. dot(reflect(v, n), n) = Neg(dot(v, n))
  <2>1. dot(reflect(v, n), n) = Of(Dot3(y, n)) /\ dot(v, n) = Of(d)
    BY <1>1, <1>2, <1>3, <1>4, OfDot3
  <2>2. PICK a \in Int, b \in Int : a = -d /\ b = -2 * d
    OBVIOUS
  <2>3. Of(a + b * (unit - 1)) = Of(a)
    BY <1>5, UnitCancels
  <2>4. Neg(Of(d)) = Of(-d)
    BY OfIsExact
  <2> QED
    BY <1>6, <2>1, <2>2, <2>3, <2>4
<1>8. dot(reflect(v, n), reflect(v, n)) = dot(v, v)
  <2>1. dot(reflect(v, n), reflect(v, n)) = Of(Dot3(y, y))
    BY <1>3, <1>4, OfDot3
  <2>2. dot(v, v) = Of(Dot3(v, v)) /\ Dot3(v, v) \in Int
    BY <1>1, OfDot3
  <2>3. PICK a \in Int, b \in Int : a = Dot3(v, v) /\ b = 4 * d * d
    BY <2>2
  <2>4. Of(a + b * (unit - 1)) = Of(a)
    BY <1>5, UnitCancels
  <2> QED
    BY <1>6, <2>1, <2>2, <2>3, <2>4
<1>9. cross(reflect(v, n), n) = cross(v, n)
  <2>1. PICK z \in [1 .. 3 -> Int] : IsCross(v, n, z) /\ Represents(3, z, cross(v, n))
    BY <1>1, OfCross
  <2>2. PICK w \in [1 .. 3 -> Int] : IsCross(y, n, w) /\ Represents(3, w, cross(reflect(v, n), n))
    BY <1>1, <1>3, OfCross
  <2>3. IsCross(y, n, z)
    BY <1>6, <2>1
  <2> QED
    BY <1>1, <2>1, <2>2, <2>3, CrossOfSame
<1> QED
  BY <1>7, <1>8, <1>9

LEMMA FacesForward ==
  ASSUME ExactArithmetic, Signed, NEW v \in VectorOf(3), NEW n \in VectorOf(3)
  PROVE  dot(faceforward(n, v, n), v) <= 0
<1>1. Represents(3, v, v) /\ Represents(3, n, n) /\ Len(n) = 3 /\ DOMAIN n = 1 .. 3
  BY ScalarsRepresent, VectorParts
<1>2. PICK e \in Int : e = Dot3(n, v) /\ dot(n, v) = Of(e)
  BY <1>1, OfDot3
<1>3. Of(e) \in Scalar /\ Of(e) \in Int
  BY OfIsExact
<1>4. CASE Of(e) < 0
  <2>1. faceforward(n, v, n) = n
    BY <1>2, <1>4 DEF faceforward
  <2> QED
    BY <1>2, <1>3, <1>4, <2>1
<1>5. CASE ~(Of(e) < 0)
  <2> DEFINE m == VecNegated(n)
             y == [i \in 1 .. 3 |-> -n[i]]
  <2>1. m = [i \in 1 .. 3 |-> Neg(n[i])]
    BY <1>1 DEF VecNegated
  <2>2. Len(m) = 3 /\ \A i \in 1 .. 3 : m[i] = Neg(n[i])
    BY <2>1
  <2>3. \A i \in 1 .. 3 : n[i] \in Int /\ n[i] = Of(n[i])
    BY <1>1 DEF Represents
  <2>4. y \in [1 .. 3 -> Int] /\ \A i \in 1 .. 3 : y[i] = -n[i]
    BY <2>3
  <2> HIDE DEF m, y
  <2>5. \A i \in 1 .. 3 : m[i] = Of(y[i])
    <3> SUFFICES ASSUME NEW i \in 1 .. 3 PROVE m[i] = Of(y[i])
      OBVIOUS
    <3>1. PICK a \in Int : a = n[i] /\ n[i] = Of(a)
      BY <2>3
    <3>2. Neg(Of(a)) = Of(-a)
      BY OfIsExact
    <3> QED
      BY <2>2, <2>4, <3>1, <3>2
  <2>6. Represents(3, y, m)
    BY <2>4, <2>5 DEF Represents
  <2>7. dot(m, v) = Of(Dot3(y, v))
    BY <1>1, <2>2, <2>6, OfDot3
  <2>8. Dot3(y, v) = -e
    <3>1. PICK n1 \in Int, n2 \in Int, n3 \in Int, v1 \in Int, v2 \in Int, v3 \in Int :
            n[1] = n1 /\ n[2] = n2 /\ n[3] = n3 /\ v[1] = v1 /\ v[2] = v2 /\ v[3] = v3
      BY <1>1 DEF Represents
    <3>2. (-n1) * v1 + (-n2) * v2 + (-n3) * v3 = -(n1 * v1 + n2 * v2 + n3 * v3)
      OBVIOUS
    <3>3. y[1] = -n1 /\ y[2] = -n2 /\ y[3] = -n3
      BY <2>4, <3>1
    <3> QED
      BY <1>2, <3>1, <3>2, <3>3 DEF Dot3
  <2>9. Neg(Of(e)) = Of(-e)
    BY OfIsExact
  <2>10. faceforward(n, v, n) = m
    BY <1>2, <1>5 DEF faceforward, m
  <2>11. Neg(Of(e)) <= 0
    BY <1>3, <1>5 DEF Signed
  <2> QED
    BY <2>7, <2>8, <2>9, <2>10, <2>11
<1> QED
  BY <1>4, <1>5

\* A component between a and b, and the same from the other end.
LEMMA LerpEntry ==
  ASSUME ExactArithmetic, NEW a \in Scalar, NEW b \in Scalar, NEW t \in Scalar
  PROVE  /\ (b \otimes t \oplus a \otimes (1 \ominus t)) \ominus a = (b \ominus a) \otimes t
         /\ b \otimes t \oplus a \otimes (1 \ominus t)
              = a \otimes (1 \ominus t) \oplus b \otimes (1 \ominus (1 \ominus t))
         /\ t = 1 => b \otimes t \oplus a \otimes (1 \ominus t) = b
         /\ t = 0 => b \otimes t \oplus a \otimes (1 \ominus t) = a
<1>1. a \in Int /\ b \in Int /\ t \in Int /\ Of(a) = a /\ Of(b) = b /\ Of(t) = t /\ Of(1) = 1
  BY OfIsExact
<1>2. PICK k \in Int : k = 1 - t /\ 1 \ominus t = Of(k)
  <2>1. Of(1) \ominus Of(t) = Of(1 - t) /\ 1 - t \in Int
    BY <1>1, OfProduct
  <2> QED
    BY <1>1, <2>1
<1>3. PICK p \in Int : p = b * t /\ b \otimes t = Of(p)
  <2>1. Of(b) \otimes Of(t) = Of(b * t) /\ b * t \in Int
    BY <1>1, OfProduct
  <2> QED
    BY <1>1, <2>1
<1>4. PICK q \in Int : q = a * k /\ a \otimes Of(k) = Of(q)
  <2>1. Of(a) \otimes Of(k) = Of(a * k) /\ a * k \in Int
    BY <1>1, OfProduct
  <2> QED
    BY <1>1, <2>1
<1>5. PICK r \in Int : r = p + q /\ Of(p) \oplus Of(q) = Of(r)
  BY OfProduct
<1>6. b \otimes t \oplus a \otimes (1 \ominus t) = Of(r)
  BY <1>2, <1>3, <1>4, <1>5
<1>7. Of(r) \ominus a = (b \ominus a) \otimes t
  <2>1. PICK e \in Int : e = r - a /\ Of(r) \ominus Of(a) = Of(e)
    BY <1>1, OfProduct
  <2>2. PICK f \in Int : f = b - a /\ Of(b) \ominus Of(a) = Of(f)
    BY <1>1, OfProduct
  <2>3. PICK g \in Int : g = f * t /\ Of(f) \otimes Of(t) = Of(g)
    BY <1>1, OfProduct
  <2>4. e = g
    BY <1>1, <1>2, <1>3, <1>4, <1>5, <2>1, <2>2, <2>3
  <2> QED
    BY <1>1, <2>1, <2>2, <2>3, <2>4
<1>8. a \otimes (1 \ominus t) \oplus b \otimes (1 \ominus (1 \ominus t)) = Of(r)
  <2>1. PICK l \in Int : l = 1 - k /\ Of(1) \ominus Of(k) = Of(l)
    BY OfProduct
  <2>2. l = t
    BY <1>1, <1>2, <2>1
  <2>3. b \otimes (1 \ominus (1 \ominus t)) = Of(p)
    BY <1>1, <1>2, <1>3, <2>1, <2>2
  <2>4. Of(q) \oplus Of(p) = Of(q + p) /\ q + p = r
    BY <1>5, OfProduct
  <2> QED
    BY <1>2, <1>4, <2>3, <2>4
<1>9. t = 1 => r = b
  BY <1>1, <1>2, <1>3, <1>4, <1>5
<1>10. t = 0 => r = a
  BY <1>1, <1>2, <1>3, <1>4, <1>5
<1> QED
  BY <1>1, <1>6, <1>7, <1>8, <1>9, <1>10

Lerped(n, v, u, t) == [i \in 1 .. n |-> u[i] \otimes t \oplus v[i] \otimes (1 \ominus t)]

LEMMA LerpParts ==
  ASSUME NEW n \in 2 .. 4, NEW v \in VectorOf(n), NEW u \in VectorOf(n), NEW t
  PROVE  lerp(v, u, t) = Lerped(n, v, u, t)
<1>1. DOMAIN v = 1 .. n /\ DOMAIN u = 1 .. n /\ Len(v) = n /\ Len(u) = n
  BY VectorParts
<1>2. \A s : /\ Times(u, s) = [i \in 1 .. n |-> u[i] \otimes s]
             /\ Times(v, s) = [i \in 1 .. n |-> v[i] \otimes s]
  BY <1>1 DEF Times, VecOp, Filled, \otimes
<1> QED
  BY <1>2 DEF lerp, Lerped, Plus, VecOp, \oplus

LEMMA LerpIsBetween ==
  ASSUME ExactArithmetic, NEW n \in 2 .. 4, NEW v \in VectorOf(n), NEW u \in VectorOf(n),
         NEW t \in Scalar
  PROVE  /\ Minus(lerp(v, u, t), v) = Times(Minus(u, v), t)
         /\ lerp(v, u, t) = lerp(u, v, 1 \ominus t)
         /\ lerp(v, u, t) = LerpEach(v, u, Filled(n, t))
         /\ \A percent \in [1 .. n -> {0, 1}] :
              LerpEach(v, u, percent) = LerpBool(v, u, [i \in 1 .. n |-> percent[i] = 1])
<1>1. /\ DOMAIN v = 1 .. n /\ DOMAIN u = 1 .. n /\ Len(v) = n /\ Len(u) = n
      /\ \A i \in 1 .. n : v[i] \in Scalar /\ u[i] \in Scalar
  BY VectorParts
<1> DEFINE between(i) == u[i] \otimes t \oplus v[i] \otimes (1 \ominus t)
<1>2. lerp(v, u, t) = [i \in 1 .. n |-> between(i)]
  <2>1. lerp(v, u, t) = Lerped(n, v, u, t)
    BY LerpParts
  <2> QED
    BY <2>1 DEF Lerped
<1>3. \A i \in 1 .. n : /\ between(i) \ominus v[i] = (u[i] \ominus v[i]) \otimes t
                        /\ between(i) = v[i] \otimes (1 \ominus t) \oplus u[i] \otimes (1 \ominus (1 \ominus t))
  BY <1>1, LerpEntry
<1>4. LerpEach(v, u, Filled(n, t)) = [i \in 1 .. n |-> between(i)]
  BY <1>1 DEF LerpEach, Filled
<1>5. lerp(u, v, 1 \ominus t) = [i \in 1 .. n |-> v[i] \otimes (1 \ominus t)
                                                   \oplus u[i] \otimes (1 \ominus (1 \ominus t))]
  <2>1. lerp(u, v, 1 \ominus t) = Lerped(n, u, v, 1 \ominus t)
    BY LerpParts
  <2> QED
    BY <2>1 DEF Lerped
<1> HIDE DEF between
<1>6. Minus(lerp(v, u, t), v) = [i \in 1 .. n |-> between(i) \ominus v[i]]
  BY <1>2 DEF Minus, VecOp, \ominus
<1>7. Times(Minus(u, v), t) = [i \in 1 .. n |-> (u[i] \ominus v[i]) \otimes t]
  <2> DEFINE w == Minus(u, v)
  <2>1. w = [i \in 1 .. n |-> u[i] \ominus v[i]]
    BY <1>1 DEF Minus, VecOp, \ominus
  <2>2. DOMAIN w = 1 .. n /\ Len(w) = n /\ \A i \in 1 .. n : w[i] = u[i] \ominus v[i]
    BY <2>1
  <2> HIDE DEF w
  <2>3. Times(w, t) = [i \in 1 .. n |-> w[i] \otimes t]
    BY <2>2 DEF Times, VecOp, Filled, \otimes
  <2> QED
    BY <2>2, <2>3 DEF w
<1>8. ASSUME NEW percent \in [1 .. n -> {0, 1}]
      PROVE  LerpEach(v, u, percent) = LerpBool(v, u, [i \in 1 .. n |-> percent[i] = 1])
  <2>1. ASSUME NEW i \in 1 .. n
        PROVE  u[i] \otimes percent[i] \oplus v[i] \otimes (1 \ominus percent[i])
                 = IF percent[i] = 1 THEN u[i] ELSE v[i]
    <3>1. PICK p \in Scalar : p = percent[i] /\ (p = 0 \/ p = 1)
      BY ScalarsClosed
    <3>2. PICK a \in Scalar, b \in Scalar : a = v[i] /\ b = u[i]
      BY <1>1
    <3>3. /\ p = 1 => b \otimes p \oplus a \otimes (1 \ominus p) = b
          /\ p = 0 => b \otimes p \oplus a \otimes (1 \ominus p) = a
      BY LerpEntry
    <3> QED
      BY <3>1, <3>2, <3>3
  <2> QED
    BY <1>1, <2>1 DEF LerpEach, LerpBool
<1> QED
  BY <1>2, <1>3, <1>4, <1>5, <1>6, <1>7, <1>8

LEMMA VectorsObey ==
  ASSUME ExactArithmetic, UnitAxes, Signed, Typed
  PROVE  VectorLaws
<1>1. CrossIsNormal
  <2> SUFFICES ASSUME kind = "vector", Len(general) = 3, NEW u \in Vectors3
               PROVE  /\ dot(cross(general, u), general) = 0 /\ dot(cross(general, u), u) = 0
                      /\ \A v \in Vectors3 : dot(cross(general, u), v) = determinant3(<<general, u, v>>)
    BY DEF CrossIsNormal
  <2>1. general \in VectorOf(3)
    BY VectorParts DEF Typed
  <2>2. \A v \in Vectors3 : v \in VectorOf(3)
    BY OperandTyped DEF Vectors3, Operands
  <2> QED
    BY <2>1, <2>2, CrossIsOrthogonal
<1>2. ReflectMirrors
  <2> SUFFICES ASSUME kind = "vector", Len(general) = 3, NEW n \in Axes
               PROVE  /\ dot(reflect(general, n), n) = Neg(dot(general, n))
                      /\ cross(reflect(general, n), n) = cross(general, n)
                      /\ dot(reflect(general, n), reflect(general, n)) = dot(general, general)
                      /\ dot(faceforward(n, general, n), general) <= 0
                      /\ dot(n, general) = 0 => faceforward(n, general, n) = VecNegated(n)
    BY DEF ReflectMirrors
  <2>1. general \in VectorOf(3)
    <3>1. PICK k \in 2 .. 4 : general \in VectorOf(k)
      BY DEF Typed
    <3> QED
      BY <3>1, VectorParts
  <2>2. n \in VectorOf(3) /\ dot(n, n) = 1
    BY OperandsAssumption DEF UnitAxes
  <2>3. dot(n, general) = 0 => faceforward(n, general, n) = VecNegated(n)
    BY DEF faceforward
  <2> QED
    BY <2>1, <2>2, <2>3, ReflectKeeps, FacesForward
<1>3. LerpBetween
  <2> SUFFICES ASSUME kind = "vector",
                      NEW u \in Operands(Len(general)), NEW t \in SomeScalars \cup {0, 1}
               PROVE  LET n == Len(general)
                          between == lerp(general, u, t)
                      IN  /\ Minus(between, general) = Times(Minus(u, general), t)
                          /\ between = lerp(u, general, 1 \ominus t)
                          /\ between = LerpEach(general, u, Filled(n, t))
                          /\ \A percent \in [1 .. n -> {0, 1}] :
                               LerpEach(general, u, percent) =
                               LerpBool(general, u, [i \in 1 .. n |-> percent[i] = 1])
    BY DEF LerpBetween
  <2>1. PICK n \in 2 .. 4 : general \in VectorOf(n)
    BY DEF Typed
  <2>2. Len(general) = n
    BY <2>1, VectorParts
  <2>3. u \in VectorOf(n) /\ t \in Scalar
    BY <2>2, OperandTyped, ScalarsClosed
  <2> QED
    BY <2>1, <2>2, <2>3, LerpIsBetween
<1> QED
  BY <1>1, <1>2, <1>3 DEF VectorLaws

\* In an exact arithmetic of a signed type, and with axes of length 1, cross
\* returns the vector orthogonal to both, reflect mirrors at the normal and
\* keeps the length, and lerp goes in a straight line, for every vector a
\* program reaches and every operand (geometry.hpp, functions.hpp).
THEOREM VectorLawsHold ==
  ASSUME ExactArithmetic, UnitAxes, Signed
  PROVE  Spec => []VectorLaws
<1>1. Typed => VectorLaws
  BY VectorsObey
<1> QED
  BY <1>1, TypesCorrect, PTL

-----------------------------------------------------------------------------
(* Determinants of 4 by 4, in the components and in the integers. *)

Cofactor4(m, j, k) == m[j][3] \otimes m[k][4] \ominus m[k][3] \otimes m[j][4]
Minor4(m, i, j, k) ==
  (m[i][2] \otimes Cofactor4(m, j, k) \ominus m[j][2] \otimes Cofactor4(m, i, k))
  \oplus m[k][2] \otimes Cofactor4(m, i, j)

IntCofactor(x, j, k) == x[j][3] * x[k][4] - x[k][3] * x[j][4]
IntMinor(x, i, j, k) ==
  x[i][2] * IntCofactor(x, j, k) - x[j][2] * IntCofactor(x, i, k) + x[k][2] * IntCofactor(x, i, j)
Det4(x) == x[1][1] * IntMinor(x, 2, 3, 4) - x[2][1] * IntMinor(x, 1, 3, 4)
           + x[3][1] * IntMinor(x, 1, 2, 4) - x[4][1] * IntMinor(x, 1, 2, 3)

LEMMA OfEntry ==
  ASSUME NEW x, NEW m, RepresentsAll(4, x, m), NEW i \in 1 .. 4, NEW j \in 1 .. 4
  PROVE  x[i][j] \in Int /\ m[i][j] = Of(x[i][j])
BY DEF RepresentsAll, Represents

LEMMA OfCofactor4 ==
  ASSUME ExactArithmetic, NEW x, NEW m, RepresentsAll(4, x, m), NEW j \in 1 .. 4, NEW k \in 1 .. 4
  PROVE  IntCofactor(x, j, k) \in Int /\ Cofactor4(m, j, k) = Of(IntCofactor(x, j, k))
<1>1. PICK a \in Int, b \in Int, c \in Int, d \in Int :
        /\ x[j][3] = a /\ x[k][4] = b /\ x[k][3] = c /\ x[j][4] = d
        /\ m[j][3] = Of(a) /\ m[k][4] = Of(b) /\ m[k][3] = Of(c) /\ m[j][4] = Of(d)
  <2>1. x[j][3] \in Int /\ m[j][3] = Of(x[j][3])
    BY OfEntry
  <2>2. x[k][4] \in Int /\ m[k][4] = Of(x[k][4])
    BY OfEntry
  <2>3. x[k][3] \in Int /\ m[k][3] = Of(x[k][3])
    BY OfEntry
  <2>4. x[j][4] \in Int /\ m[j][4] = Of(x[j][4])
    BY OfEntry
  <2> QED
    BY <2>1, <2>2, <2>3, <2>4
<1>2. PICK z \in Int : z = a * b - c * d /\ Of(a) \otimes Of(b) \ominus Of(c) \otimes Of(d) = Of(z)
  BY OfDifference
<1> QED
  BY <1>1, <1>2 DEF IntCofactor, Cofactor4

LEMMA OfAlternating3Is ==
  ASSUME ExactArithmetic, NEW a \in Int, NEW b \in Int, NEW c \in Int,
         NEW p \in Int, NEW q \in Int, NEW r \in Int
  PROVE  \E z \in Int :
           /\ z = a * p - b * q + c * r
           /\ (Of(a) \otimes Of(p) \ominus Of(b) \otimes Of(q)) \oplus Of(c) \otimes Of(r) = Of(z)
BY OfAlternating3

LEMMA OfMinor4 ==
  ASSUME ExactArithmetic, NEW x, NEW m, RepresentsAll(4, x, m),
         NEW i \in 1 .. 4, NEW j \in 1 .. 4, NEW k \in 1 .. 4
  PROVE  IntMinor(x, i, j, k) \in Int /\ Minor4(m, i, j, k) = Of(IntMinor(x, i, j, k))
<1>1. PICK a \in Int, b \in Int, c \in Int :
        /\ x[i][2] = a /\ x[j][2] = b /\ x[k][2] = c
        /\ m[i][2] = Of(a) /\ m[j][2] = Of(b) /\ m[k][2] = Of(c)
  BY OfEntry
<1>2. PICK p \in Int, q \in Int, r \in Int :
        /\ IntCofactor(x, j, k) = p /\ IntCofactor(x, i, k) = q /\ IntCofactor(x, i, j) = r
        /\ Cofactor4(m, j, k) = Of(p) /\ Cofactor4(m, i, k) = Of(q) /\ Cofactor4(m, i, j) = Of(r)
  BY OfCofactor4
<1>3. PICK z \in Int :
        /\ z = a * p - b * q + c * r
        /\ (Of(a) \otimes Of(p) \ominus Of(b) \otimes Of(q)) \oplus Of(c) \otimes Of(r) = Of(z)
  <2> HIDE <1>1, <1>2
  <2> QED
    BY OfAlternating3Is, SMTT(20)
<1>4. IntMinor(x, i, j, k) = z
  BY <1>1, <1>2, <1>3 DEF IntMinor
<1>5. Minor4(m, i, j, k) = Of(z)
  BY <1>1, <1>2, <1>3 DEF Minor4
<1> QED
  BY <1>4, <1>5

LEMMA OfDet4 ==
  ASSUME ExactArithmetic, NEW x, NEW m, RepresentsAll(4, x, m)
  PROVE  Det4(x) \in Int /\ determinant4(m) = Of(Det4(x))
<1>1. PICK a \in Int, b \in Int, c \in Int, d \in Int :
        /\ x[1][1] = a /\ x[2][1] = b /\ x[3][1] = c /\ x[4][1] = d
        /\ m[1][1] = Of(a) /\ m[2][1] = Of(b) /\ m[3][1] = Of(c) /\ m[4][1] = Of(d)
  <2>1. \A i \in 1 .. 4 : x[i][1] \in Int /\ m[i][1] = Of(x[i][1])
    BY OfEntry
  <2> QED
    BY <2>1
<1>2. PICK p \in Int : p = IntMinor(x, 2, 3, 4) /\ Minor4(m, 2, 3, 4) = Of(p)
  BY OfMinor4
<1>3. PICK q \in Int : q = IntMinor(x, 1, 3, 4) /\ Minor4(m, 1, 3, 4) = Of(q)
  BY OfMinor4
<1>4. PICK r \in Int : r = IntMinor(x, 1, 2, 4) /\ Minor4(m, 1, 2, 4) = Of(r)
  BY OfMinor4
<1>5. PICK s \in Int : s = IntMinor(x, 1, 2, 3) /\ Minor4(m, 1, 2, 3) = Of(s)
  BY OfMinor4
<1>6. PICK z \in Int :
        /\ z = a * p - b * q + c * r
        /\ (Of(a) \otimes Of(p) \ominus Of(b) \otimes Of(q)) \oplus Of(c) \otimes Of(r) = Of(z)
  <2> HIDE <1>1, <1>2, <1>3, <1>4, <1>5
  <2> QED
    BY OfAlternating3Is, SMTT(20)
<1>7. PICK t \in Int : t = d * s /\ Of(d) \otimes Of(s) = Of(t)
  BY OfProduct
<1>8. PICK w \in Int : w = z - t /\ Of(z) \ominus Of(t) = Of(w)
  BY OfProduct
<1>9. determinant4(m) = ((m[1][1] \otimes Minor4(m, 2, 3, 4) \ominus m[2][1] \otimes Minor4(m, 1, 3, 4))
                         \oplus m[3][1] \otimes Minor4(m, 1, 2, 4)) \ominus m[4][1] \otimes Minor4(m, 1, 2, 3)
  BY DEF determinant4, Minor, Minor4, Cofactor4
<1>10. determinant4(m) = Of(w)
  BY <1>1, <1>2, <1>3, <1>4, <1>5, <1>6, <1>7, <1>8, <1>9
<1>11. Det4(x) = w
  BY <1>1, <1>2, <1>3, <1>4, <1>5, <1>6, <1>7, <1>8 DEF Det4
<1> QED
  BY <1>10, <1>11

\* x is an integer matrix of n by n, and p the product of two.
IntSquare(n, x) == \A i \in 1 .. n : x[i] \in [1 .. n -> Int]
IsProduct3(x, y, p) ==
  \A i \in 1 .. 3, j \in 1 .. 3 : p[i][j] = x[1][j] * y[i][1] + x[2][j] * y[i][2] + x[3][j] * y[i][3]
IsProduct4(x, y, p) ==
  \A i \in 1 .. 4, j \in 1 .. 4 :
    p[i][j] = x[1][j] * y[i][1] + x[2][j] * y[i][2] + x[3][j] * y[i][3] + x[4][j] * y[i][4]

LEMMA IntEntries4 ==
  ASSUME NEW x, IntSquare(4, x)
  PROVE  /\ x[1][1] \in Int /\ x[1][2] \in Int /\ x[1][3] \in Int /\ x[1][4] \in Int
         /\ x[2][1] \in Int /\ x[2][2] \in Int /\ x[2][3] \in Int /\ x[2][4] \in Int
         /\ x[3][1] \in Int /\ x[3][2] \in Int /\ x[3][3] \in Int /\ x[3][4] \in Int
         /\ x[4][1] \in Int /\ x[4][2] \in Int /\ x[4][3] \in Int /\ x[4][4] \in Int
BY DEF IntSquare

LEMMA IntEntries3 ==
  ASSUME NEW x, IntSquare(3, x)
  PROVE  /\ x[1][1] \in Int /\ x[1][2] \in Int /\ x[1][3] \in Int
         /\ x[2][1] \in Int /\ x[2][2] \in Int /\ x[2][3] \in Int
         /\ x[3][1] \in Int /\ x[3][2] \in Int /\ x[3][3] \in Int
BY DEF IntSquare

LEMMA Det4OfProduct ==
  ASSUME NEW x, NEW y, NEW p, IntSquare(4, x), IntSquare(4, y), IsProduct4(x, y, p)
  PROVE  Det4(p) = Det4(x) * Det4(y)
<1>1. PICK a11 \in Int, a12 \in Int, a13 \in Int, a14 \in Int,
           a21 \in Int, a22 \in Int, a23 \in Int, a24 \in Int,
           a31 \in Int, a32 \in Int, a33 \in Int, a34 \in Int,
           a41 \in Int, a42 \in Int, a43 \in Int, a44 \in Int :
        /\ x[1][1] = a11 /\ x[1][2] = a12 /\ x[1][3] = a13 /\ x[1][4] = a14
        /\ x[2][1] = a21 /\ x[2][2] = a22 /\ x[2][3] = a23 /\ x[2][4] = a24
        /\ x[3][1] = a31 /\ x[3][2] = a32 /\ x[3][3] = a33 /\ x[3][4] = a34
        /\ x[4][1] = a41 /\ x[4][2] = a42 /\ x[4][3] = a43 /\ x[4][4] = a44
  BY IntEntries4
<1>2. PICK b11 \in Int, b12 \in Int, b13 \in Int, b14 \in Int,
           b21 \in Int, b22 \in Int, b23 \in Int, b24 \in Int,
           b31 \in Int, b32 \in Int, b33 \in Int, b34 \in Int,
           b41 \in Int, b42 \in Int, b43 \in Int, b44 \in Int :
        /\ y[1][1] = b11 /\ y[1][2] = b12 /\ y[1][3] = b13 /\ y[1][4] = b14
        /\ y[2][1] = b21 /\ y[2][2] = b22 /\ y[2][3] = b23 /\ y[2][4] = b24
        /\ y[3][1] = b31 /\ y[3][2] = b32 /\ y[3][3] = b33 /\ y[3][4] = b34
        /\ y[4][1] = b41 /\ y[4][2] = b42 /\ y[4][3] = b43 /\ y[4][4] = b44
  BY IntEntries4
<1>3. PICK c11 \in Int, c12 \in Int, c13 \in Int, c14 \in Int :
        /\ p[1][1] = c11 /\ p[1][2] = c12 /\ p[1][3] = c13 /\ p[1][4] = c14
        /\ c11 = a11 * b11 + a21 * b12 + a31 * b13 + a41 * b14
        /\ c12 = a12 * b11 + a22 * b12 + a32 * b13 + a42 * b14
        /\ c13 = a13 * b11 + a23 * b12 + a33 * b13 + a43 * b14
        /\ c14 = a14 * b11 + a24 * b12 + a34 * b13 + a44 * b14
  <2>1. /\ p[1][1] = x[1][1] * y[1][1] + x[2][1] * y[1][2] + x[3][1] * y[1][3] + x[4][1] * y[1][4]
        /\ p[1][2] = x[1][2] * y[1][1] + x[2][2] * y[1][2] + x[3][2] * y[1][3] + x[4][2] * y[1][4]
        /\ p[1][3] = x[1][3] * y[1][1] + x[2][3] * y[1][2] + x[3][3] * y[1][3] + x[4][3] * y[1][4]
        /\ p[1][4] = x[1][4] * y[1][1] + x[2][4] * y[1][2] + x[3][4] * y[1][3] + x[4][4] * y[1][4]
    BY DEF IsProduct4
  <2>2. /\ p[1][1] = a11 * b11 + a21 * b12 + a31 * b13 + a41 * b14
        /\ p[1][2] = a12 * b11 + a22 * b12 + a32 * b13 + a42 * b14
        /\ p[1][3] = a13 * b11 + a23 * b12 + a33 * b13 + a43 * b14
        /\ p[1][4] = a14 * b11 + a24 * b12 + a34 * b13 + a44 * b14
    BY <1>1, <1>2, <2>1
  <2> QED
    BY <2>2
<1>4. PICK c21 \in Int, c22 \in Int, c23 \in Int, c24 \in Int :
        /\ p[2][1] = c21 /\ p[2][2] = c22 /\ p[2][3] = c23 /\ p[2][4] = c24
        /\ c21 = a11 * b21 + a21 * b22 + a31 * b23 + a41 * b24
        /\ c22 = a12 * b21 + a22 * b22 + a32 * b23 + a42 * b24
        /\ c23 = a13 * b21 + a23 * b22 + a33 * b23 + a43 * b24
        /\ c24 = a14 * b21 + a24 * b22 + a34 * b23 + a44 * b24
  <2>1. /\ p[2][1] = x[1][1] * y[2][1] + x[2][1] * y[2][2] + x[3][1] * y[2][3] + x[4][1] * y[2][4]
        /\ p[2][2] = x[1][2] * y[2][1] + x[2][2] * y[2][2] + x[3][2] * y[2][3] + x[4][2] * y[2][4]
        /\ p[2][3] = x[1][3] * y[2][1] + x[2][3] * y[2][2] + x[3][3] * y[2][3] + x[4][3] * y[2][4]
        /\ p[2][4] = x[1][4] * y[2][1] + x[2][4] * y[2][2] + x[3][4] * y[2][3] + x[4][4] * y[2][4]
    BY DEF IsProduct4
  <2>2. /\ p[2][1] = a11 * b21 + a21 * b22 + a31 * b23 + a41 * b24
        /\ p[2][2] = a12 * b21 + a22 * b22 + a32 * b23 + a42 * b24
        /\ p[2][3] = a13 * b21 + a23 * b22 + a33 * b23 + a43 * b24
        /\ p[2][4] = a14 * b21 + a24 * b22 + a34 * b23 + a44 * b24
    BY <1>1, <1>2, <2>1
  <2> QED
    BY <2>2
<1>5. PICK c31 \in Int, c32 \in Int, c33 \in Int, c34 \in Int :
        /\ p[3][1] = c31 /\ p[3][2] = c32 /\ p[3][3] = c33 /\ p[3][4] = c34
        /\ c31 = a11 * b31 + a21 * b32 + a31 * b33 + a41 * b34
        /\ c32 = a12 * b31 + a22 * b32 + a32 * b33 + a42 * b34
        /\ c33 = a13 * b31 + a23 * b32 + a33 * b33 + a43 * b34
        /\ c34 = a14 * b31 + a24 * b32 + a34 * b33 + a44 * b34
  <2>1. /\ p[3][1] = x[1][1] * y[3][1] + x[2][1] * y[3][2] + x[3][1] * y[3][3] + x[4][1] * y[3][4]
        /\ p[3][2] = x[1][2] * y[3][1] + x[2][2] * y[3][2] + x[3][2] * y[3][3] + x[4][2] * y[3][4]
        /\ p[3][3] = x[1][3] * y[3][1] + x[2][3] * y[3][2] + x[3][3] * y[3][3] + x[4][3] * y[3][4]
        /\ p[3][4] = x[1][4] * y[3][1] + x[2][4] * y[3][2] + x[3][4] * y[3][3] + x[4][4] * y[3][4]
    BY DEF IsProduct4
  <2>2. /\ p[3][1] = a11 * b31 + a21 * b32 + a31 * b33 + a41 * b34
        /\ p[3][2] = a12 * b31 + a22 * b32 + a32 * b33 + a42 * b34
        /\ p[3][3] = a13 * b31 + a23 * b32 + a33 * b33 + a43 * b34
        /\ p[3][4] = a14 * b31 + a24 * b32 + a34 * b33 + a44 * b34
    BY <1>1, <1>2, <2>1
  <2> QED
    BY <2>2
<1>6. PICK c41 \in Int, c42 \in Int, c43 \in Int, c44 \in Int :
        /\ p[4][1] = c41 /\ p[4][2] = c42 /\ p[4][3] = c43 /\ p[4][4] = c44
        /\ c41 = a11 * b41 + a21 * b42 + a31 * b43 + a41 * b44
        /\ c42 = a12 * b41 + a22 * b42 + a32 * b43 + a42 * b44
        /\ c43 = a13 * b41 + a23 * b42 + a33 * b43 + a43 * b44
        /\ c44 = a14 * b41 + a24 * b42 + a34 * b43 + a44 * b44
  <2>1. /\ p[4][1] = x[1][1] * y[4][1] + x[2][1] * y[4][2] + x[3][1] * y[4][3] + x[4][1] * y[4][4]
        /\ p[4][2] = x[1][2] * y[4][1] + x[2][2] * y[4][2] + x[3][2] * y[4][3] + x[4][2] * y[4][4]
        /\ p[4][3] = x[1][3] * y[4][1] + x[2][3] * y[4][2] + x[3][3] * y[4][3] + x[4][3] * y[4][4]
        /\ p[4][4] = x[1][4] * y[4][1] + x[2][4] * y[4][2] + x[3][4] * y[4][3] + x[4][4] * y[4][4]
    BY DEF IsProduct4
  <2>2. /\ p[4][1] = a11 * b41 + a21 * b42 + a31 * b43 + a41 * b44
        /\ p[4][2] = a12 * b41 + a22 * b42 + a32 * b43 + a42 * b44
        /\ p[4][3] = a13 * b41 + a23 * b42 + a33 * b43 + a43 * b44
        /\ p[4][4] = a14 * b41 + a24 * b42 + a34 * b43 + a44 * b44
    BY <1>1, <1>2, <2>1
  <2> QED
    BY <2>2
<1>7. Det4(x) = a11 * (a22 * (a33 * a44 - a43 * a34) - a32 * (a23 * a44 - a43 * a24) + a42 * (a23 * a34 - a33 * a24)) - a21 * (a12 * (a33 * a44 - a43 * a34) - a32 * (a13 * a44 - a43 * a14) + a42 * (a13 * a34 - a33 * a14))
      + a31 * (a12 * (a23 * a44 - a43 * a24) - a22 * (a13 * a44 - a43 * a14) + a42 * (a13 * a24 - a23 * a14)) - a41 * (a12 * (a23 * a34 - a33 * a24) - a22 * (a13 * a34 - a33 * a14) + a32 * (a13 * a24 - a23 * a14))
  BY <1>1 DEF Det4, IntMinor, IntCofactor
<1>8. Det4(y) = b11 * (b22 * (b33 * b44 - b43 * b34) - b32 * (b23 * b44 - b43 * b24) + b42 * (b23 * b34 - b33 * b24)) - b21 * (b12 * (b33 * b44 - b43 * b34) - b32 * (b13 * b44 - b43 * b14) + b42 * (b13 * b34 - b33 * b14))
      + b31 * (b12 * (b23 * b44 - b43 * b24) - b22 * (b13 * b44 - b43 * b14) + b42 * (b13 * b24 - b23 * b14)) - b41 * (b12 * (b23 * b34 - b33 * b24) - b22 * (b13 * b34 - b33 * b14) + b32 * (b13 * b24 - b23 * b14))
  BY <1>2 DEF Det4, IntMinor, IntCofactor
<1>9. Det4(p) = c11 * (c22 * (c33 * c44 - c43 * c34) - c32 * (c23 * c44 - c43 * c24) + c42 * (c23 * c34 - c33 * c24)) - c21 * (c12 * (c33 * c44 - c43 * c34) - c32 * (c13 * c44 - c43 * c14) + c42 * (c13 * c34 - c33 * c14))
      + c31 * (c12 * (c23 * c44 - c43 * c24) - c22 * (c13 * c44 - c43 * c14) + c42 * (c13 * c24 - c23 * c14)) - c41 * (c12 * (c23 * c34 - c33 * c24) - c22 * (c13 * c34 - c33 * c14) + c32 * (c13 * c24 - c23 * c14))
  BY <1>3, <1>4, <1>5, <1>6 DEF Det4, IntMinor, IntCofactor
<1>10. c11 * (c22 * (c33 * c44 - c43 * c34) - c32 * (c23 * c44 - c43 * c24) + c42 * (c23 * c34 - c33 * c24)) - c21 * (c12 * (c33 * c44 - c43 * c34) - c32 * (c13 * c44 - c43 * c14) + c42 * (c13 * c34 - c33 * c14))
      + c31 * (c12 * (c23 * c44 - c43 * c24) - c22 * (c13 * c44 - c43 * c14) + c42 * (c13 * c24 - c23 * c14)) - c41 * (c12 * (c23 * c34 - c33 * c24) - c22 * (c13 * c34 - c33 * c14) + c32 * (c13 * c24 - c23 * c14))
    = (a11 * (a22 * (a33 * a44 - a43 * a34) - a32 * (a23 * a44 - a43 * a24) + a42 * (a23 * a34 - a33 * a24)) - a21 * (a12 * (a33 * a44 - a43 * a34) - a32 * (a13 * a44 - a43 * a14) + a42 * (a13 * a34 - a33 * a14))
      + a31 * (a12 * (a23 * a44 - a43 * a24) - a22 * (a13 * a44 - a43 * a14) + a42 * (a13 * a24 - a23 * a14)) - a41 * (a12 * (a23 * a34 - a33 * a24) - a22 * (a13 * a34 - a33 * a14) + a32 * (a13 * a24 - a23 * a14)))
      * (b11 * (b22 * (b33 * b44 - b43 * b34) - b32 * (b23 * b44 - b43 * b24) + b42 * (b23 * b34 - b33 * b24)) - b21 * (b12 * (b33 * b44 - b43 * b34) - b32 * (b13 * b44 - b43 * b14) + b42 * (b13 * b34 - b33 * b14))
      + b31 * (b12 * (b23 * b44 - b43 * b24) - b22 * (b13 * b44 - b43 * b14) + b42 * (b13 * b24 - b23 * b14)) - b41 * (b12 * (b23 * b34 - b33 * b24) - b22 * (b13 * b34 - b33 * b14) + b32 * (b13 * b24 - b23 * b14)))
  BY <1>3, <1>4, <1>5, <1>6
<1> QED
  BY <1>7, <1>8, <1>9, <1>10

-----------------------------------------------------------------------------
(* Products of matrices, in the components and in the integers. *)

IntDot(n, x, y) == IF n = 3 THEN Dot3(x, y) ELSE Dot4(x, y)
IntRow(n, x, j) == [k \in 1 .. n |-> x[k][j]]
IntMatVec(n, x, y) == [j \in 1 .. n |-> IntDot(n, IntRow(n, x, j), y)]
IntMatMat(n, x, y) == [i \in 1 .. n |-> IntMatVec(n, x, y[i])]

LEMMA OfDot ==
  ASSUME ExactArithmetic, NEW n \in 3 .. 4, NEW x, NEW y, NEW v, NEW u, Len(v) = n,
         Represents(n, x, v), Represents(n, y, u)
  PROVE  dot(v, u) = Of(IntDot(n, x, y)) /\ IntDot(n, x, y) \in Int
<1>1. CASE n = 3
  BY <1>1, OfDot3 DEF IntDot
<1>2. CASE n = 4
  BY <1>2, OfDot4 DEF IntDot
<1> QED
  BY <1>1, <1>2

LEMMA OfRow ==
  ASSUME ExactArithmetic, NEW n \in 3 .. 4, NEW x, NEW m, RepresentsAll(n, x, m), DOMAIN m = 1 .. n,
         NEW j \in 1 .. n
  PROVE  Len(row(m, j)) = n /\ Represents(n, IntRow(n, x, j), row(m, j))
<1>1. \A k \in 1 .. n : x[k][j] \in Int /\ m[k][j] = Of(x[k][j])
  BY DEF RepresentsAll, Represents
<1>2. row(m, j) = [k \in 1 .. n |-> m[k][j]]
  BY DEF row
<1>3. IntRow(n, x, j) \in [1 .. n -> Int] /\ \A k \in 1 .. n : IntRow(n, x, j)[k] = x[k][j]
  BY <1>1 DEF IntRow
<1> QED
  BY <1>1, <1>2, <1>3 DEF Represents

LEMMA OfMatVec ==
  ASSUME ExactArithmetic, NEW n \in 3 .. 4, NEW x, NEW m, RepresentsAll(n, x, m), DOMAIN m = 1 .. n,
         Rows(m) = n, NEW y, NEW v, Represents(n, y, v)
  PROVE  Represents(n, IntMatVec(n, x, y), MatVec(m, v)) /\ DOMAIN MatVec(m, v) = 1 .. n
<1>1. ASSUME NEW j \in 1 .. n
      PROVE  /\ dot(row(m, j), v) = Of(IntDot(n, IntRow(n, x, j), y))
             /\ IntDot(n, IntRow(n, x, j), y) \in Int
  <2>1. Len(row(m, j)) = n /\ Represents(n, IntRow(n, x, j), row(m, j))
    BY OfRow
  <2> QED
    BY <2>1, OfDot
<1>2. MatVec(m, v) = [j \in 1 .. n |-> dot(row(m, j), v)]
  BY DEF MatVec
<1>3. IntMatVec(n, x, y) \in [1 .. n -> Int]
  BY <1>1 DEF IntMatVec
<1>4. \A j \in 1 .. n : IntMatVec(n, x, y)[j] = IntDot(n, IntRow(n, x, j), y)
  BY DEF IntMatVec
<1> QED
  BY <1>1, <1>2, <1>3, <1>4 DEF Represents

LEMMA OfMatMat ==
  ASSUME ExactArithmetic, NEW n \in 3 .. 4, NEW x, NEW m, RepresentsAll(n, x, m), DOMAIN m = 1 .. n,
         Rows(m) = n, NEW y, NEW k, RepresentsAll(n, y, k), Columns(k) = n
  PROVE  RepresentsAll(n, IntMatMat(n, x, y), MatMat(m, k))
<1> SUFFICES ASSUME NEW i \in 1 .. n
             PROVE  Represents(n, IntMatMat(n, x, y)[i], MatMat(m, k)[i])
  BY DEF RepresentsAll
<1>1. MatMat(m, k)[i] = MatVec(m, k[i]) /\ IntMatMat(n, x, y)[i] = IntMatVec(n, x, y[i])
  BY DEF MatMat, MatVec, IntMatMat
<1>2. Represents(n, y[i], k[i])
  BY DEF RepresentsAll
<1>3. Represents(n, IntMatVec(n, x, y[i]), MatVec(m, k[i]))
  BY <1>2, OfMatVec
<1> QED
  BY <1>1, <1>3

\* Integer matrices.
IntMatrix(n) == [1 .. n -> [1 .. n -> Int]]
IntTranspose(n, x) == [j \in 1 .. n |-> [i \in 1 .. n |-> x[i][j]]]

LEMMA IntProducts ==
  ASSUME NEW n \in 3 .. 4, NEW x \in IntMatrix(n)
  PROVE  /\ \A y \in [1 .. n -> Int] : IntMatVec(n, x, y) \in [1 .. n -> Int]
         /\ \A y \in IntMatrix(n) : IntMatMat(n, x, y) \in IntMatrix(n)
<1>1. ASSUME NEW y \in [1 .. n -> Int], NEW z \in [1 .. n -> Int] PROVE IntDot(n, y, z) \in Int
  <2>1. CASE n = 3
    <3>1. y[1] \in Int /\ y[2] \in Int /\ y[3] \in Int /\ z[1] \in Int /\ z[2] \in Int /\ z[3] \in Int
      BY <2>1
    <3> QED
      BY <2>1, <3>1 DEF IntDot, Dot3
  <2>2. CASE n = 4
    <3>1. /\ y[1] \in Int /\ y[2] \in Int /\ y[3] \in Int /\ y[4] \in Int
          /\ z[1] \in Int /\ z[2] \in Int /\ z[3] \in Int /\ z[4] \in Int
      BY <2>2
    <3> QED
      BY <2>2, <3>1 DEF IntDot, Dot4
  <2> QED
    BY <2>1, <2>2
<1>2. \A j \in 1 .. n : IntRow(n, x, j) \in [1 .. n -> Int]
  BY DEF IntRow, IntMatrix
<1>3. \A y \in [1 .. n -> Int] : IntMatVec(n, x, y) \in [1 .. n -> Int]
  BY <1>1, <1>2 DEF IntMatVec
<1>4. \A y \in IntMatrix(n) : \A i \in 1 .. n : y[i] \in [1 .. n -> Int]
  BY DEF IntMatrix
<1>5. \A y \in IntMatrix(n) : IntMatMat(n, x, y) \in IntMatrix(n)
  BY <1>3, <1>4 DEF IntMatMat, IntMatrix
<1> QED
  BY <1>3, <1>5

\* What the same integers represent is the same.
LEMMA SameVector ==
  ASSUME NEW n, NEW x, NEW S, NEW v \in [1 .. n -> S], NEW u \in [1 .. n -> S],
         Represents(n, x, v), Represents(n, x, u)
  PROVE  v = u
<1>1. \A i \in 1 .. n : v[i] = u[i]
  BY DEF Represents
<1>2. v = [i \in 1 .. n |-> v[i]] /\ u = [i \in 1 .. n |-> u[i]]
  OBVIOUS
<1> QED
  BY <1>1, <1>2, Zenon

LEMMA SameMatrix ==
  ASSUME NEW x, NEW m \in MatrixOf(4, 4), NEW k \in MatrixOf(4, 4),
         RepresentsAll(4, x, m), RepresentsAll(4, x, k)
  PROVE  m = k
<1>1. ASSUME NEW i \in 1 .. 4 PROVE m[i] = k[i]
  <2>1. m[i] \in [1 .. 4 -> Scalar] /\ k[i] \in [1 .. 4 -> Scalar]
    BY DEF MatrixOf, VectorOf
  <2>2. Represents(4, x[i], m[i]) /\ Represents(4, x[i], k[i])
    BY DEF RepresentsAll
  <2> QED
    BY <2>1, <2>2, SameVector
<1> QED
  BY <1>1 DEF MatrixOf

LEMMA MatrixRepresents ==
  ASSUME ExactArithmetic, NEW m \in MatrixOf(4, 4)
  PROVE  /\ m \in IntMatrix(4) /\ RepresentsAll(4, m, m)
         /\ DOMAIN m = 1 .. 4 /\ Rows(m) = 4 /\ Columns(m) = 4
<1>1. \A i \in 1 .. 4 : m[i] \in VectorOf(4)
  BY DEF MatrixOf
<1>2. \A i \in 1 .. 4 : Represents(4, m[i], m[i])
  BY <1>1, ScalarsRepresent
<1>3. RepresentsAll(4, m, m)
  BY <1>2 DEF RepresentsAll
<1>4. \A i \in 1 .. 4 : m[i] \in [1 .. 4 -> Int]
  BY <1>2 DEF Represents
<1>5. m \in IntMatrix(4)
  BY <1>4 DEF IntMatrix, MatrixOf
<1> QED
  BY <1>3, <1>5, MatricesClosed

LEMMA IntEntries ==
  ASSUME NEW x \in IntMatrix(4), NEW i \in 1 .. 4
  PROVE  /\ x[1][i] \in Int /\ x[2][i] \in Int /\ x[3][i] \in Int /\ x[4][i] \in Int
         /\ x[i][1] \in Int /\ x[i][2] \in Int /\ x[i][3] \in Int /\ x[i][4] \in Int
BY DEF IntMatrix

LEMMA IntTransposes ==
  ASSUME NEW x \in IntMatrix(4), NEW y \in IntMatrix(4)
  PROVE  IntTranspose(4, IntMatMat(4, x, y)) = IntMatMat(4, IntTranspose(4, y), IntTranspose(4, x))
<1> DEFINE p == IntMatMat(4, x, y)
           q == IntMatMat(4, IntTranspose(4, y), IntTranspose(4, x))
<1>1. ASSUME NEW i \in 1 .. 4, NEW j \in 1 .. 4 PROVE p[j][i] = q[i][j]
  <2>1. p[j][i] = x[1][i] * y[j][1] + x[2][i] * y[j][2] + x[3][i] * y[j][3] + x[4][i] * y[j][4]
    BY DEF IntMatMat, IntMatVec, IntDot, IntRow, Dot4
  <2>2. q[i][j] = y[j][1] * x[1][i] + y[j][2] * x[2][i] + y[j][3] * x[3][i] + y[j][4] * x[4][i]
    BY DEF IntMatMat, IntMatVec, IntDot, IntRow, Dot4, IntTranspose
  <2>3. PICK x1 \in Int, x2 \in Int, x3 \in Int, x4 \in Int :
          x[1][i] = x1 /\ x[2][i] = x2 /\ x[3][i] = x3 /\ x[4][i] = x4
    BY IntEntries
  <2>4. PICK y1 \in Int, y2 \in Int, y3 \in Int, y4 \in Int :
          y[j][1] = y1 /\ y[j][2] = y2 /\ y[j][3] = y3 /\ y[j][4] = y4
    BY IntEntries
  <2>5. x1 * y1 + x2 * y2 + x3 * y3 + x4 * y4 = y1 * x1 + y2 * x2 + y3 * x3 + y4 * x4
    OBVIOUS
  <2> QED
    BY <2>1, <2>2, <2>3, <2>4, <2>5
<1>2. q = [i \in 1 .. 4 |-> [j \in 1 .. 4 |-> q[i][j]]]
  BY DEF IntMatMat, IntMatVec
<1> HIDE DEF p, q
<1>3. IntTranspose(4, p) = [i \in 1 .. 4 |-> [j \in 1 .. 4 |-> p[j][i]]]
  BY DEF IntTranspose
<1>4. IntTranspose(4, p) = q
  BY <1>1, <1>2, <1>3
<1> QED
  BY <1>4 DEF p, q

LEMMA IntComposes ==
  ASSUME NEW x \in IntMatrix(4), NEW y \in IntMatrix(4), NEW z \in [1 .. 4 -> Int]
  PROVE  IntMatVec(4, IntMatMat(4, x, y), z) = IntMatVec(4, x, IntMatVec(4, y, z))
<1> DEFINE p == IntMatMat(4, x, y)
           w == IntMatVec(4, y, z)
<1>1. PICK z1 \in Int, z2 \in Int, z3 \in Int, z4 \in Int : z[1] = z1 /\ z[2] = z2 /\ z[3] = z3 /\ z[4] = z4
  OBVIOUS
<1>2. \A i \in 1 .. 4, j \in 1 .. 4 :
        p[i][j] = x[1][j] * y[i][1] + x[2][j] * y[i][2] + x[3][j] * y[i][3] + x[4][j] * y[i][4]
  BY DEF IntMatMat, IntMatVec, IntDot, IntRow, Dot4
<1>3. \A k \in 1 .. 4 : w[k] = y[1][k] * z[1] + y[2][k] * z[2] + y[3][k] * z[3] + y[4][k] * z[4]
  BY DEF IntMatVec, IntDot, IntRow, Dot4
<1> HIDE DEF p, w
<1>4. ASSUME NEW j \in 1 .. 4 PROVE IntMatVec(4, p, z)[j] = IntMatVec(4, x, w)[j]
  <2>1. IntMatVec(4, p, z)[j] = p[1][j] * z[1] + p[2][j] * z[2] + p[3][j] * z[3] + p[4][j] * z[4]
    BY DEF IntMatVec, IntDot, IntRow, Dot4
  <2>2. IntMatVec(4, x, w)[j] = x[1][j] * w[1] + x[2][j] * w[2] + x[3][j] * w[3] + x[4][j] * w[4]
    BY DEF IntMatVec, IntDot, IntRow, Dot4
  <2>3. PICK x1 \in Int, x2 \in Int, x3 \in Int, x4 \in Int :
          x[1][j] = x1 /\ x[2][j] = x2 /\ x[3][j] = x3 /\ x[4][j] = x4
    BY IntEntries
  <2>4. PICK y11 \in Int, y12 \in Int, y13 \in Int, y14 \in Int,
             y21 \in Int, y22 \in Int, y23 \in Int, y24 \in Int,
             y31 \in Int, y32 \in Int, y33 \in Int, y34 \in Int,
             y41 \in Int, y42 \in Int, y43 \in Int, y44 \in Int :
          /\ y[1][1] = y11 /\ y[1][2] = y12 /\ y[1][3] = y13 /\ y[1][4] = y14
          /\ y[2][1] = y21 /\ y[2][2] = y22 /\ y[2][3] = y23 /\ y[2][4] = y24
          /\ y[3][1] = y31 /\ y[3][2] = y32 /\ y[3][3] = y33 /\ y[3][4] = y34
          /\ y[4][1] = y41 /\ y[4][2] = y42 /\ y[4][3] = y43 /\ y[4][4] = y44
    <3>1. IntSquare(4, y)
      BY DEF IntSquare, IntMatrix
    <3> QED
      BY <3>1, IntEntries4
  <2>5. /\ p[1][j] = x1 * y11 + x2 * y12 + x3 * y13 + x4 * y14
        /\ p[2][j] = x1 * y21 + x2 * y22 + x3 * y23 + x4 * y24
        /\ p[3][j] = x1 * y31 + x2 * y32 + x3 * y33 + x4 * y34
        /\ p[4][j] = x1 * y41 + x2 * y42 + x3 * y43 + x4 * y44
    BY <1>2, <2>3, <2>4
  <2>6. /\ w[1] = y11 * z1 + y21 * z2 + y31 * z3 + y41 * z4
        /\ w[2] = y12 * z1 + y22 * z2 + y32 * z3 + y42 * z4
        /\ w[3] = y13 * z1 + y23 * z2 + y33 * z3 + y43 * z4
        /\ w[4] = y14 * z1 + y24 * z2 + y34 * z3 + y44 * z4
    BY <1>1, <1>3, <2>4
  <2>7. (x1 * y11 + x2 * y12 + x3 * y13 + x4 * y14) * z1
        + (x1 * y21 + x2 * y22 + x3 * y23 + x4 * y24) * z2
        + (x1 * y31 + x2 * y32 + x3 * y33 + x4 * y34) * z3
        + (x1 * y41 + x2 * y42 + x3 * y43 + x4 * y44) * z4
        = x1 * (y11 * z1 + y21 * z2 + y31 * z3 + y41 * z4)
        + x2 * (y12 * z1 + y22 * z2 + y32 * z3 + y42 * z4)
        + x3 * (y13 * z1 + y23 * z2 + y33 * z3 + y43 * z4)
        + x4 * (y14 * z1 + y24 * z2 + y34 * z3 + y44 * z4)
    OBVIOUS
  <2> QED
    BY <1>1, <2>1, <2>2, <2>3, <2>5, <2>6, <2>7
<1>5. IntMatVec(4, p, z) = IntMatVec(4, x, w)
  BY <1>4 DEF IntMatVec
<1> QED
  BY <1>5 DEF p, w

IntOuter(v, u) == [i \in 1 .. 4 |-> [j \in 1 .. 4 |-> v[j] * u[i]]]

LEMMA IntScales ==
  ASSUME NEW x \in IntMatrix(4), NEW v \in [1 .. 4 -> Int], NEW u \in [1 .. 4 -> Int]
  PROVE  IntMatMat(4, x, IntOuter(v, u)) = IntOuter(IntMatVec(4, x, v), u)
<1> DEFINE o == IntOuter(v, u)
           w == IntMatVec(4, x, v)
<1>1. \A i \in 1 .. 4, j \in 1 .. 4 : o[i][j] = v[j] * u[i]
  BY DEF IntOuter
<1>2. \A j \in 1 .. 4 : w[j] = x[1][j] * v[1] + x[2][j] * v[2] + x[3][j] * v[3] + x[4][j] * v[4]
  BY DEF IntMatVec, IntDot, IntRow, Dot4
<1> HIDE DEF o, w
<1>3. ASSUME NEW i \in 1 .. 4, NEW j \in 1 .. 4 PROVE IntMatMat(4, x, o)[i][j] = w[j] * u[i]
  <2>1. IntMatMat(4, x, o)[i][j] = x[1][j] * o[i][1] + x[2][j] * o[i][2] + x[3][j] * o[i][3] + x[4][j] * o[i][4]
    BY DEF IntMatMat, IntMatVec, IntDot, IntRow, Dot4
  <2>2. PICK x1 \in Int, x2 \in Int, x3 \in Int, x4 \in Int :
          x[1][j] = x1 /\ x[2][j] = x2 /\ x[3][j] = x3 /\ x[4][j] = x4
    BY IntEntries
  <2>3. PICK v1 \in Int, v2 \in Int, v3 \in Int, v4 \in Int, b \in Int :
          v[1] = v1 /\ v[2] = v2 /\ v[3] = v3 /\ v[4] = v4 /\ u[i] = b
    OBVIOUS
  <2>4. o[i][1] = v1 * b /\ o[i][2] = v2 * b /\ o[i][3] = v3 * b /\ o[i][4] = v4 * b
    <3>1. o[i][1] = v[1] * u[i] /\ o[i][2] = v[2] * u[i] /\ o[i][3] = v[3] * u[i] /\ o[i][4] = v[4] * u[i]
      BY <1>1
    <3> QED
      BY <2>3, <3>1
  <2>5. w[j] = x1 * v1 + x2 * v2 + x3 * v3 + x4 * v4
    BY <1>2, <2>2, <2>3
  <2>6. x1 * (v1 * b) + x2 * (v2 * b) + x3 * (v3 * b) + x4 * (v4 * b)
          = (x1 * v1 + x2 * v2 + x3 * v3 + x4 * v4) * b
    OBVIOUS
  <2> QED
    BY <2>1, <2>2, <2>3, <2>4, <2>5, <2>6
<1>4. IntMatMat(4, x, o) = [i \in 1 .. 4 |-> [j \in 1 .. 4 |-> IntMatMat(4, x, o)[i][j]]]
  BY DEF IntMatMat, IntMatVec
<1>5. IntOuter(w, u) = [i \in 1 .. 4 |-> [j \in 1 .. 4 |-> w[j] * u[i]]]
  BY DEF IntOuter
<1>6. IntMatMat(4, x, o) = IntOuter(w, u)
  BY <1>3, <1>4, <1>5
<1> QED
  BY <1>6 DEF o, w

LEMMA OfTranspose ==
  ASSUME NEW x \in IntMatrix(4), NEW m, RepresentsAll(4, x, m), Columns(m) = 4, Rows(m) = 4
  PROVE  /\ IntTranspose(4, x) \in IntMatrix(4)
         /\ RepresentsAll(4, IntTranspose(4, x), transpose(m))
<1>1. \A i \in 1 .. 4, j \in 1 .. 4 : x[i][j] \in Int /\ m[i][j] = Of(x[i][j])
  BY OfEntry
<1>2. transpose(m) = [j \in 1 .. 4 |-> [i \in 1 .. 4 |-> m[i][j]]]
  BY DEF transpose
<1>3. IntTranspose(4, x) \in IntMatrix(4)
  BY <1>1 DEF IntTranspose, IntMatrix
<1>4. ASSUME NEW j \in 1 .. 4
      PROVE  Represents(4, IntTranspose(4, x)[j], transpose(m)[j])
  <2>1. IntTranspose(4, x)[j] = [i \in 1 .. 4 |-> x[i][j]]
    BY DEF IntTranspose
  <2>2. transpose(m)[j] = [i \in 1 .. 4 |-> m[i][j]]
    BY <1>2
  <2> QED
    BY <1>1, <2>1, <2>2 DEF Represents
<1> QED
  BY <1>3, <1>4 DEF RepresentsAll

LEMMA OfOuter ==
  ASSUME ExactArithmetic, NEW x, NEW v, Represents(4, x, v), DOMAIN v = 1 .. 4, Len(v) = 4,
         NEW y, NEW u, Represents(4, y, u), DOMAIN u = 1 .. 4
  PROVE  RepresentsAll(4, IntOuter(x, y), outer_product(v, u))
<1> SUFFICES ASSUME NEW i \in 1 .. 4
             PROVE  Represents(4, IntOuter(x, y)[i], outer_product(v, u)[i])
  BY DEF RepresentsAll
<1>1. outer_product(v, u)[i] = [j \in 1 .. 4 |-> v[j] \otimes u[i]]
  BY DEF outer_product, Times, VecOp, Filled, \otimes
<1>2. IntOuter(x, y)[i] = [j \in 1 .. 4 |-> x[j] * y[i]]
  BY DEF IntOuter
<1>3. ASSUME NEW j \in 1 .. 4 PROVE v[j] \otimes u[i] = Of(x[j] * y[i]) /\ x[j] * y[i] \in Int
  <2>1. PICK a \in Int, b \in Int : a = x[j] /\ b = y[i] /\ v[j] = Of(a) /\ u[i] = Of(b)
    BY DEF Represents
  <2>2. Of(a) \otimes Of(b) = Of(a * b) /\ a * b \in Int
    BY OfProduct
  <2> QED
    BY <2>1, <2>2
<1> QED
  BY <1>1, <1>2, <1>3 DEF Represents

LEMMA Composes ==
  ASSUME ExactArithmetic, NEW g \in MatrixOf(4, 4), NEW m \in MatrixOf(4, 4)
  PROVE  /\ transpose(MatMat(g, m)) = MatMat(transpose(m), transpose(g))
         /\ \A v \in VectorOf(4) :
              /\ MatVec(MatMat(g, m), v) = MatVec(g, MatVec(m, v))
              /\ \A u \in VectorOf(4) :
                   MatMat(g, outer_product(v, u)) = outer_product(MatVec(g, v), u)
<1>1. /\ g \in IntMatrix(4) /\ RepresentsAll(4, g, g) /\ DOMAIN g = 1 .. 4 /\ Rows(g) = 4 /\ Columns(g) = 4
      /\ m \in IntMatrix(4) /\ RepresentsAll(4, m, m) /\ DOMAIN m = 1 .. 4 /\ Rows(m) = 4 /\ Columns(m) = 4
  BY MatrixRepresents
<1>2. 4 \in 3 .. 4 /\ 4 \in 2 .. 4 /\ 4 \in Nat
  OBVIOUS
<1>3. PICK p \in MatrixOf(4, 4) : p = MatMat(g, m)
  BY ProductsClosed
<1>4. PICK x \in IntMatrix(4) : x = IntMatMat(4, g, m)
  BY <1>1, <1>2, IntProducts
<1>5. /\ RepresentsAll(4, x, p) /\ DOMAIN p = 1 .. 4 /\ Rows(p) = 4 /\ Columns(p) = 4
  BY <1>1, <1>2, <1>3, <1>4, OfMatMat, MatricesClosed
<1>6. transpose(p) = MatMat(transpose(m), transpose(g))
  <2>1. transpose(p) \in MatrixOf(4, 4) /\ transpose(m) \in MatrixOf(4, 4) /\ transpose(g) \in MatrixOf(4, 4)
    BY MatricesClosed
  <2>2. PICK tg \in MatrixOf(4, 4), tm \in MatrixOf(4, 4) : tg = transpose(g) /\ tm = transpose(m)
    BY <2>1
  <2>3. /\ DOMAIN tm = 1 .. 4 /\ Rows(tm) = 4 /\ Columns(tg) = 4
        /\ MatMat(tm, tg) \in MatrixOf(4, 4)
    BY MatricesClosed, ProductsClosed
  <2>4. RepresentsAll(4, IntTranspose(4, x), transpose(p))
    BY <1>5, OfTranspose
  <2>5. RepresentsAll(4, IntTranspose(4, m), tm) /\ RepresentsAll(4, IntTranspose(4, g), tg)
    BY <1>1, <2>2, OfTranspose
  <2>6. RepresentsAll(4, IntMatMat(4, IntTranspose(4, m), IntTranspose(4, g)), MatMat(tm, tg))
    BY <1>2, <2>3, <2>5, OfMatMat
  <2>7. IntTranspose(4, x) = IntMatMat(4, IntTranspose(4, m), IntTranspose(4, g))
    BY <1>1, <1>4, IntTransposes
  <2> QED
    BY <2>1, <2>2, <2>3, <2>4, <2>6, <2>7, SameMatrix
<1>7. ASSUME NEW v \in VectorOf(4)
      PROVE  /\ MatVec(p, v) = MatVec(g, MatVec(m, v))
             /\ \A u \in VectorOf(4) :
                  MatMat(g, outer_product(v, u)) = outer_product(MatVec(g, v), u)
  <2>1. Represents(4, v, v) /\ v \in [1 .. 4 -> Int] /\ DOMAIN v = 1 .. 4 /\ Len(v) = 4
    BY <1>2, ScalarsRepresent, VectorParts DEF Represents
  <2>2. PICK w \in VectorOf(4), d \in VectorOf(4) : w = MatVec(m, v) /\ d = MatVec(g, v)
    BY ProductsClosed
  <2>3. Represents(4, IntMatVec(4, m, v), w) /\ Represents(4, IntMatVec(4, g, v), d)
    BY <1>1, <1>2, <2>1, <2>2, OfMatVec
  <2>4. MatVec(p, v) = MatVec(g, w)
    <3>1. Represents(4, IntMatVec(4, x, v), MatVec(p, v))
      BY <1>2, <1>5, <2>1, OfMatVec
    <3>2. Represents(4, IntMatVec(4, g, IntMatVec(4, m, v)), MatVec(g, w))
      BY <1>1, <1>2, <2>3, OfMatVec
    <3>3. IntMatVec(4, x, v) = IntMatVec(4, g, IntMatVec(4, m, v))
      BY <1>1, <1>4, <2>1, IntComposes
    <3>4. MatVec(p, v) \in [1 .. 4 -> Scalar] /\ MatVec(g, w) \in [1 .. 4 -> Scalar]
      BY ProductsClosed DEF VectorOf
    <3> QED
      BY <3>1, <3>2, <3>3, <3>4, SameVector
  <2>5. ASSUME NEW u \in VectorOf(4)
        PROVE  MatMat(g, outer_product(v, u)) = outer_product(d, u)
    <3>1. Represents(4, u, u) /\ u \in [1 .. 4 -> Int] /\ DOMAIN u = 1 .. 4
      BY <1>2, ScalarsRepresent, VectorParts DEF Represents
    <3>2. PICK o \in MatrixOf(4, 4) : o = outer_product(v, u)
      BY OuterClosed
    <3>3. RepresentsAll(4, IntOuter(v, u), o) /\ Columns(o) = 4
      BY <2>1, <3>1, <3>2, OfOuter, MatricesClosed
    <3>4. RepresentsAll(4, IntMatMat(4, g, IntOuter(v, u)), MatMat(g, o))
      BY <1>1, <1>2, <3>3, OfMatMat
    <3>5. DOMAIN d = 1 .. 4 /\ Len(d) = 4
      BY <1>2, VectorParts
    <3>6. RepresentsAll(4, IntOuter(IntMatVec(4, g, v), u), outer_product(d, u))
      BY <2>3, <3>1, <3>5, OfOuter
    <3>7. IntMatMat(4, g, IntOuter(v, u)) = IntOuter(IntMatVec(4, g, v), u)
      BY <1>1, <2>1, <3>1, IntScales
    <3>8. MatMat(g, o) \in MatrixOf(4, 4) /\ outer_product(d, u) \in MatrixOf(4, 4)
      BY ProductsClosed, OuterClosed
    <3> QED
      BY <3>2, <3>4, <3>6, <3>7, <3>8, SameMatrix
  <2> QED
    BY <2>2, <2>4, <2>5
<1> QED
  BY <1>3, <1>6, <1>7

LEMMA ProductIs ==
  ASSUME NEW x, NEW y
  PROVE  IsProduct3(x, y, IntMatMat(3, x, y)) /\ IsProduct4(x, y, IntMatMat(4, x, y))
<1>1. IsProduct4(x, y, IntMatMat(4, x, y))
  <2> SUFFICES ASSUME NEW i \in 1 .. 4, NEW j \in 1 .. 4
               PROVE  IntMatMat(4, x, y)[i][j]
                      = x[1][j] * y[i][1] + x[2][j] * y[i][2] + x[3][j] * y[i][3] + x[4][j] * y[i][4]
    BY DEF IsProduct4
  <2> QED
    BY DEF IntMatMat, IntMatVec, IntDot, IntRow, Dot4
<1>2. IsProduct3(x, y, IntMatMat(3, x, y))
  <2> SUFFICES ASSUME NEW i \in 1 .. 3, NEW j \in 1 .. 3
               PROVE  IntMatMat(3, x, y)[i][j] = x[1][j] * y[i][1] + x[2][j] * y[i][2] + x[3][j] * y[i][3]
    BY DEF IsProduct3
  <2> QED
    BY DEF IntMatMat, IntMatVec, IntDot, IntRow, Dot3
<1> QED
  BY <1>1, <1>2

LEMMA Det3OfProduct ==
  ASSUME NEW x, NEW y, NEW p, IntSquare(3, x), IntSquare(3, y), IsProduct3(x, y, p)
  PROVE  Det3(p) = Det3(x) * Det3(y)
<1>1. PICK a11 \in Int, a12 \in Int, a13 \in Int,
           a21 \in Int, a22 \in Int, a23 \in Int,
           a31 \in Int, a32 \in Int, a33 \in Int :
        /\ x[1][1] = a11 /\ x[1][2] = a12 /\ x[1][3] = a13
        /\ x[2][1] = a21 /\ x[2][2] = a22 /\ x[2][3] = a23
        /\ x[3][1] = a31 /\ x[3][2] = a32 /\ x[3][3] = a33
  BY IntEntries3
<1>2. PICK b11 \in Int, b12 \in Int, b13 \in Int,
           b21 \in Int, b22 \in Int, b23 \in Int,
           b31 \in Int, b32 \in Int, b33 \in Int :
        /\ y[1][1] = b11 /\ y[1][2] = b12 /\ y[1][3] = b13
        /\ y[2][1] = b21 /\ y[2][2] = b22 /\ y[2][3] = b23
        /\ y[3][1] = b31 /\ y[3][2] = b32 /\ y[3][3] = b33
  BY IntEntries3
<1>3. PICK c11 \in Int, c12 \in Int, c13 \in Int :
        /\ p[1][1] = c11 /\ p[1][2] = c12 /\ p[1][3] = c13
        /\ c11 = a11 * b11 + a21 * b12 + a31 * b13
        /\ c12 = a12 * b11 + a22 * b12 + a32 * b13
        /\ c13 = a13 * b11 + a23 * b12 + a33 * b13
  <2>1. /\ p[1][1] = x[1][1] * y[1][1] + x[2][1] * y[1][2] + x[3][1] * y[1][3]
        /\ p[1][2] = x[1][2] * y[1][1] + x[2][2] * y[1][2] + x[3][2] * y[1][3]
        /\ p[1][3] = x[1][3] * y[1][1] + x[2][3] * y[1][2] + x[3][3] * y[1][3]
    BY DEF IsProduct3
  <2>2. /\ p[1][1] = a11 * b11 + a21 * b12 + a31 * b13
        /\ p[1][2] = a12 * b11 + a22 * b12 + a32 * b13
        /\ p[1][3] = a13 * b11 + a23 * b12 + a33 * b13
    BY <1>1, <1>2, <2>1
  <2> QED
    BY <2>2
<1>4. PICK c21 \in Int, c22 \in Int, c23 \in Int :
        /\ p[2][1] = c21 /\ p[2][2] = c22 /\ p[2][3] = c23
        /\ c21 = a11 * b21 + a21 * b22 + a31 * b23
        /\ c22 = a12 * b21 + a22 * b22 + a32 * b23
        /\ c23 = a13 * b21 + a23 * b22 + a33 * b23
  <2>1. /\ p[2][1] = x[1][1] * y[2][1] + x[2][1] * y[2][2] + x[3][1] * y[2][3]
        /\ p[2][2] = x[1][2] * y[2][1] + x[2][2] * y[2][2] + x[3][2] * y[2][3]
        /\ p[2][3] = x[1][3] * y[2][1] + x[2][3] * y[2][2] + x[3][3] * y[2][3]
    BY DEF IsProduct3
  <2>2. /\ p[2][1] = a11 * b21 + a21 * b22 + a31 * b23
        /\ p[2][2] = a12 * b21 + a22 * b22 + a32 * b23
        /\ p[2][3] = a13 * b21 + a23 * b22 + a33 * b23
    BY <1>1, <1>2, <2>1
  <2> QED
    BY <2>2
<1>5. PICK c31 \in Int, c32 \in Int, c33 \in Int :
        /\ p[3][1] = c31 /\ p[3][2] = c32 /\ p[3][3] = c33
        /\ c31 = a11 * b31 + a21 * b32 + a31 * b33
        /\ c32 = a12 * b31 + a22 * b32 + a32 * b33
        /\ c33 = a13 * b31 + a23 * b32 + a33 * b33
  <2>1. /\ p[3][1] = x[1][1] * y[3][1] + x[2][1] * y[3][2] + x[3][1] * y[3][3]
        /\ p[3][2] = x[1][2] * y[3][1] + x[2][2] * y[3][2] + x[3][2] * y[3][3]
        /\ p[3][3] = x[1][3] * y[3][1] + x[2][3] * y[3][2] + x[3][3] * y[3][3]
    BY DEF IsProduct3
  <2>2. /\ p[3][1] = a11 * b31 + a21 * b32 + a31 * b33
        /\ p[3][2] = a12 * b31 + a22 * b32 + a32 * b33
        /\ p[3][3] = a13 * b31 + a23 * b32 + a33 * b33
    BY <1>1, <1>2, <2>1
  <2> QED
    BY <2>2
<1>6. Det3(x) = a11 * (a22 * a33 - a32 * a23) - a21 * (a12 * a33 - a32 * a13) + a31 * (a12 * a23 - a22 * a13)
  BY <1>1 DEF Det3, Cofactor
<1>7. Det3(y) = b11 * (b22 * b33 - b32 * b23) - b21 * (b12 * b33 - b32 * b13) + b31 * (b12 * b23 - b22 * b13)
  BY <1>2 DEF Det3, Cofactor
<1>8. Det3(p) = c11 * (c22 * c33 - c32 * c23) - c21 * (c12 * c33 - c32 * c13) + c31 * (c12 * c23 - c22 * c13)
  BY <1>3, <1>4, <1>5 DEF Det3, Cofactor
<1>9. c11 * (c22 * c33 - c32 * c23) - c21 * (c12 * c33 - c32 * c13) + c31 * (c12 * c23 - c22 * c13)
      = (a11 * (a22 * a33 - a32 * a23) - a21 * (a12 * a33 - a32 * a13) + a31 * (a12 * a23 - a22 * a13))
        * (b11 * (b22 * b33 - b32 * b23) - b21 * (b12 * b33 - b32 * b13) + b31 * (b12 * b23 - b22 * b13))
  BY <1>3, <1>4, <1>5
<1> QED
  BY <1>6, <1>7, <1>8, <1>9

LEMMA Det4OfTranspose ==
  ASSUME NEW x \in IntMatrix(4)
  PROVE  Det4(IntTranspose(4, x)) = Det4(x)
<1>1. PICK a11 \in Int, a12 \in Int, a13 \in Int, a14 \in Int,
           a21 \in Int, a22 \in Int, a23 \in Int, a24 \in Int,
           a31 \in Int, a32 \in Int, a33 \in Int, a34 \in Int,
           a41 \in Int, a42 \in Int, a43 \in Int, a44 \in Int :
        /\ x[1][1] = a11 /\ x[1][2] = a12 /\ x[1][3] = a13 /\ x[1][4] = a14
        /\ x[2][1] = a21 /\ x[2][2] = a22 /\ x[2][3] = a23 /\ x[2][4] = a24
        /\ x[3][1] = a31 /\ x[3][2] = a32 /\ x[3][3] = a33 /\ x[3][4] = a34
        /\ x[4][1] = a41 /\ x[4][2] = a42 /\ x[4][3] = a43 /\ x[4][4] = a44
  <2>1. IntSquare(4, x)
    BY DEF IntSquare, IntMatrix
  <2> QED
    BY <2>1, IntEntries4
<1> DEFINE t == IntTranspose(4, x)
<1>2. \A i \in 1 .. 4, j \in 1 .. 4 : t[i][j] = x[j][i]
  BY DEF IntTranspose
<1> HIDE DEF t
<1>3. /\ t[1][1] = a11 /\ t[1][2] = a21 /\ t[1][3] = a31 /\ t[1][4] = a41
      /\ t[2][1] = a12 /\ t[2][2] = a22 /\ t[2][3] = a32 /\ t[2][4] = a42
      /\ t[3][1] = a13 /\ t[3][2] = a23 /\ t[3][3] = a33 /\ t[3][4] = a43
      /\ t[4][1] = a14 /\ t[4][2] = a24 /\ t[4][3] = a34 /\ t[4][4] = a44
  <2>1. /\ t[1][1] = x[1][1] /\ t[1][2] = x[2][1] /\ t[1][3] = x[3][1] /\ t[1][4] = x[4][1]
        /\ t[2][1] = x[1][2] /\ t[2][2] = x[2][2] /\ t[2][3] = x[3][2] /\ t[2][4] = x[4][2]
        /\ t[3][1] = x[1][3] /\ t[3][2] = x[2][3] /\ t[3][3] = x[3][3] /\ t[3][4] = x[4][3]
        /\ t[4][1] = x[1][4] /\ t[4][2] = x[2][4] /\ t[4][3] = x[3][4] /\ t[4][4] = x[4][4]
    BY <1>2
  <2> QED
    BY <1>1, <2>1
<1>4. Det4(x) = a11 * (a22 * (a33 * a44 - a43 * a34) - a32 * (a23 * a44 - a43 * a24) + a42 * (a23 * a34 - a33 * a24)) - a21 * (a12 * (a33 * a44 - a43 * a34) - a32 * (a13 * a44 - a43 * a14) + a42 * (a13 * a34 - a33 * a14))
      + a31 * (a12 * (a23 * a44 - a43 * a24) - a22 * (a13 * a44 - a43 * a14) + a42 * (a13 * a24 - a23 * a14)) - a41 * (a12 * (a23 * a34 - a33 * a24) - a22 * (a13 * a34 - a33 * a14) + a32 * (a13 * a24 - a23 * a14))
  BY <1>1 DEF Det4, IntMinor, IntCofactor
<1>5. Det4(t) = a11 * (a22 * (a33 * a44 - a34 * a43) - a23 * (a32 * a44 - a34 * a42) + a24 * (a32 * a43 - a33 * a42)) - a12 * (a21 * (a33 * a44 - a34 * a43) - a23 * (a31 * a44 - a34 * a41) + a24 * (a31 * a43 - a33 * a41))
      + a13 * (a21 * (a32 * a44 - a34 * a42) - a22 * (a31 * a44 - a34 * a41) + a24 * (a31 * a42 - a32 * a41)) - a14 * (a21 * (a32 * a43 - a33 * a42) - a22 * (a31 * a43 - a33 * a41) + a23 * (a31 * a42 - a32 * a41))
  BY <1>3 DEF Det4, IntMinor, IntCofactor
<1>6. a11 * (a22 * (a33 * a44 - a34 * a43) - a23 * (a32 * a44 - a34 * a42) + a24 * (a32 * a43 - a33 * a42)) - a12 * (a21 * (a33 * a44 - a34 * a43) - a23 * (a31 * a44 - a34 * a41) + a24 * (a31 * a43 - a33 * a41))
      + a13 * (a21 * (a32 * a44 - a34 * a42) - a22 * (a31 * a44 - a34 * a41) + a24 * (a31 * a42 - a32 * a41)) - a14 * (a21 * (a32 * a43 - a33 * a42) - a22 * (a31 * a43 - a33 * a41) + a23 * (a31 * a42 - a32 * a41))
      = a11 * (a22 * (a33 * a44 - a43 * a34) - a32 * (a23 * a44 - a43 * a24) + a42 * (a23 * a34 - a33 * a24)) - a21 * (a12 * (a33 * a44 - a43 * a34) - a32 * (a13 * a44 - a43 * a14) + a42 * (a13 * a34 - a33 * a14))
      + a31 * (a12 * (a23 * a44 - a43 * a24) - a22 * (a13 * a44 - a43 * a14) + a42 * (a13 * a24 - a23 * a14)) - a41 * (a12 * (a23 * a34 - a33 * a24) - a22 * (a13 * a34 - a33 * a14) + a32 * (a13 * a24 - a23 * a14))
  OBVIOUS
<1> QED
  BY <1>4, <1>5, <1>6 DEF t

LEMMA UpperClosed ==
  ASSUME NEW n \in 3 .. 4, NEW m \in MatrixOf(n, n)
  PROVE  Upper(m) \in MatrixOf(n - 1, n - 1) /\ \A i \in 1 .. n - 1, j \in 1 .. n - 1 : Upper(m)[i][j] = m[i][j]
<1>1. Len(m) = n /\ \A i \in 1 .. n, j \in 1 .. n : m[i][j] \in Scalar
  BY DEF MatrixOf, VectorOf
<1>2. Upper(m) = [i \in 1 .. n - 1 |-> [j \in 1 .. n - 1 |-> m[i][j]]]
  BY <1>1 DEF Upper
<1>3. \A i \in 1 .. n - 1 : i \in 1 .. n
  OBVIOUS
<1> QED
  BY <1>1, <1>2, <1>3 DEF MatrixOf, VectorOf

LEMMA Matrix3Represents ==
  ASSUME ExactArithmetic, NEW m \in MatrixOf(3, 3)
  PROVE  /\ m \in IntMatrix(3) /\ RepresentsAll(3, m, m)
         /\ DOMAIN m = 1 .. 3 /\ Rows(m) = 3 /\ Columns(m) = 3
<1>1. \A i \in 1 .. 3 : m[i] \in VectorOf(3)
  BY DEF MatrixOf
<1>2. \A i \in 1 .. 3 : Represents(3, m[i], m[i])
  BY <1>1, ScalarsRepresent
<1>3. RepresentsAll(3, m, m)
  BY <1>2 DEF RepresentsAll
<1>4. \A i \in 1 .. 3 : m[i] \in [1 .. 3 -> Int]
  BY <1>2 DEF Represents
<1>5. m \in IntMatrix(3)
  BY <1>4 DEF IntMatrix, MatrixOf
<1>6. Len(m) = 3 /\ DOMAIN m = 1 .. 3
  BY DEF MatrixOf
<1>7. Len(m[1]) = 3
  BY <1>1 DEF VectorOf
<1> QED
  BY <1>3, <1>5, <1>6, <1>7 DEF Rows, Columns

LEMMA FourRepresent ==
  ASSUME NEW a \in Int, NEW c \in Int, NEW d \in Int, NEW e \in Int,
         a = Of(a), c = Of(c), d = Of(d), e = Of(e)
  PROVE  Represents(4, <<a, c, d, e>>, <<a, c, d, e>>)
<1>1. \A i \in 1 .. 4 : i = 1 \/ i = 2 \/ i = 3 \/ i = 4
  OBVIOUS
<1> QED
  BY <1>1 DEF Represents

LEMMA BorderedDeterminant ==
  ASSUME ExactArithmetic, NEW m \in MatrixOf(3, 3)
  PROVE  determinant4(Mat4From3(m)) = determinant3(m)
<1>1. m \in IntMatrix(3) /\ RepresentsAll(3, m, m)
  BY Matrix3Represents
<1>2. Of(0) = 0 /\ Of(1) = 1
  BY OfIsExact
<1> DEFINE b == Mat4From3(m)
<1>3. \A i \in 1 .. 3, j \in 1 .. 3 : m[i][j] \in Int /\ m[i][j] = Of(m[i][j])
  BY <1>1 DEF RepresentsAll, Represents
<1>4. RepresentsAll(4, b, b)
  <2>1. \A i \in 1 .. 4 : i = 1 \/ i = 2 \/ i = 3 \/ i = 4
    OBVIOUS
  <2>3. /\ b[1] = <<m[1][1], m[1][2], m[1][3], 0>> /\ b[2] = <<m[2][1], m[2][2], m[2][3], 0>>
        /\ b[3] = <<m[3][1], m[3][2], m[3][3], 0>> /\ b[4] = <<0, 0, 0, 1>>
    BY DEF Mat4From3
  <2>4. ASSUME NEW i \in 1 .. 3 PROVE Represents(4, <<m[i][1], m[i][2], m[i][3], 0>>, <<m[i][1], m[i][2], m[i][3], 0>>)
    <3>1. PICK a \in Int, c \in Int, d \in Int :
            /\ a = m[i][1] /\ c = m[i][2] /\ d = m[i][3]
            /\ a = Of(a) /\ c = Of(c) /\ d = Of(d)
      BY <1>3
    <3> QED
      BY <1>2, <3>1, FourRepresent
  <2>5. Represents(4, <<0, 0, 0, 1>>, <<0, 0, 0, 1>>)
    BY <1>2, FourRepresent
  <2> HIDE DEF b
  <2> QED
    BY <2>1, <2>3, <2>4, <2>5 DEF RepresentsAll
<1>5. Det4(b) = Det3(m)
  <2>1. PICK a11 \in Int, a12 \in Int, a13 \in Int,
               a21 \in Int, a22 \in Int, a23 \in Int,
               a31 \in Int, a32 \in Int, a33 \in Int :
          /\ m[1][1] = a11 /\ m[1][2] = a12 /\ m[1][3] = a13
          /\ m[2][1] = a21 /\ m[2][2] = a22 /\ m[2][3] = a23
          /\ m[3][1] = a31 /\ m[3][2] = a32 /\ m[3][3] = a33
    <3>1. IntSquare(3, m)
      BY <1>1 DEF IntSquare, IntMatrix
    <3> QED
      BY <3>1, IntEntries3
  <2>2. /\ b[1][1] = a11 /\ b[1][2] = a12 /\ b[1][3] = a13 /\ b[1][4] = 0
        /\ b[2][1] = a21 /\ b[2][2] = a22 /\ b[2][3] = a23 /\ b[2][4] = 0
        /\ b[3][1] = a31 /\ b[3][2] = a32 /\ b[3][3] = a33 /\ b[3][4] = 0
        /\ b[4][1] = 0 /\ b[4][2] = 0 /\ b[4][3] = 0 /\ b[4][4] = 1
    BY <2>1 DEF Mat4From3
  <2> HIDE DEF b
  <2>3. Det3(m) = a11 * (a22 * a33 - a32 * a23) - a21 * (a12 * a33 - a32 * a13) + a31 * (a12 * a23 - a22 * a13)
    BY <2>1 DEF Det3, Cofactor
  <2>4. Det4(b) = a11 * (a22 * (a33 * 1 - 0 * 0) - a32 * (a23 * 1 - 0 * 0) + 0 * (a23 * 0 - a33 * 0)) - a21 * (a12 * (a33 * 1 - 0 * 0) - a32 * (a13 * 1 - 0 * 0) + 0 * (a13 * 0 - a33 * 0))
      + a31 * (a12 * (a23 * 1 - 0 * 0) - a22 * (a13 * 1 - 0 * 0) + 0 * (a13 * 0 - a23 * 0)) - 0 * (a12 * (a23 * 0 - a33 * 0) - a22 * (a13 * 0 - a33 * 0) + a32 * (a13 * 0 - a23 * 0))
    BY <2>2 DEF Det4, IntMinor, IntCofactor
  <2>5. a11 * (a22 * (a33 * 1 - 0 * 0) - a32 * (a23 * 1 - 0 * 0) + 0 * (a23 * 0 - a33 * 0)) - a21 * (a12 * (a33 * 1 - 0 * 0) - a32 * (a13 * 1 - 0 * 0) + 0 * (a13 * 0 - a33 * 0))
      + a31 * (a12 * (a23 * 1 - 0 * 0) - a22 * (a13 * 1 - 0 * 0) + 0 * (a13 * 0 - a23 * 0)) - 0 * (a12 * (a23 * 0 - a33 * 0) - a22 * (a13 * 0 - a33 * 0) + a32 * (a13 * 0 - a23 * 0))
        = a11 * (a22 * a33 - a32 * a23) - a21 * (a12 * a33 - a32 * a13) + a31 * (a12 * a23 - a22 * a13)
    OBVIOUS
  <2> QED
    BY <2>3, <2>4, <2>5
<1> QED
  BY <1>1, <1>4, <1>5, OfDet4, OfDet3

LEMMA Prefixed ==
  ASSUME NEW a \in Int, NEW b \in Int
  PROVE  <<0>> \o <<a, b>> = <<0, a, b>>
<1> DEFINE s == <<0>> \o <<a, b>>
<1>1. s \in Seq(Int) /\ Len(s) = 3
  OBVIOUS
<1>2. s[1] = 0 /\ s[2] = a /\ s[3] = b
  OBVIOUS
<1> HIDE DEF s
<1>3. s = <<0, a, b>>
  BY <1>1, <1>2
<1> QED
  BY <1>3 DEF s

LEMMA Bordered2Determinant ==
  ASSUME ExactArithmetic, NEW m \in MatrixOf(2, 2)
  PROVE  determinant3(<<<<1, 0, 0>>, <<0>> \o m[1], <<0>> \o m[2]>>) = determinant2(m)
<1>1. /\ m[1] \in [1 .. 2 -> Scalar] /\ m[2] \in [1 .. 2 -> Scalar]
      /\ m[1][1] \in Scalar /\ m[1][2] \in Scalar /\ m[2][1] \in Scalar /\ m[2][2] \in Scalar
  BY DEF MatrixOf, VectorOf
<1>2. PICK a \in Int, b \in Int, c \in Int, d \in Int :
        /\ m[1][1] = a /\ m[1][2] = b /\ m[2][1] = c /\ m[2][2] = d
        /\ a = Of(a) /\ b = Of(b) /\ c = Of(c) /\ d = Of(d)
  BY <1>1, OfIsExact
<1>3. Of(0) = 0 /\ Of(1) = 1
  BY OfIsExact
<1>4. <<0>> \o m[1] = <<0, a, b>> /\ <<0>> \o m[2] = <<0, c, d>>
  <2>1. m[1] = <<a, b>> /\ m[2] = <<c, d>>
    BY <1>1, <1>2
  <2>2. <<0>> \o <<a, b>> = <<0, a, b>> /\ <<0>> \o <<c, d>> = <<0, c, d>>
    BY Prefixed
  <2> QED
    BY <2>1, <2>2
<1> DEFINE x == <<<<1, 0, 0>>, <<0, a, b>>, <<0, c, d>>>>
<1>5. RepresentsAll(3, x, x)
  <2>1. \A i \in 1 .. 3 : i = 1 \/ i = 2 \/ i = 3
    OBVIOUS
  <2>2. Represents(3, <<1, 0, 0>>, <<1, 0, 0>>)
    BY <1>3, <2>1 DEF Represents
  <2>3. Represents(3, <<0, a, b>>, <<0, a, b>>)
    BY <1>2, <1>3, <2>1 DEF Represents
  <2>4. Represents(3, <<0, c, d>>, <<0, c, d>>)
    BY <1>2, <1>3, <2>1 DEF Represents
  <2>5. x[1] = <<1, 0, 0>> /\ x[2] = <<0, a, b>> /\ x[3] = <<0, c, d>>
    OBVIOUS
  <2> HIDE DEF x
  <2> QED
    BY <2>1, <2>2, <2>3, <2>4, <2>5 DEF RepresentsAll
<1>6. Det3(x) = a * d - c * b
  <2>1. Det3(x) = 1 * (a * d - c * b) - 0 * (0 * d - c * 0) + 0 * (0 * b - a * 0)
    BY DEF Det3, Cofactor
  <2> QED
    BY <2>1
<1>7. determinant3(x) = Of(Det3(x))
  BY <1>5, OfDet3
<1>8. determinant2(m) = Of(a * d - c * b)
  <2>1. Of(a) \otimes Of(d) \ominus Of(c) \otimes Of(b) = Of(a * d - c * b)
    BY OfSum2
  <2> QED
    BY <1>2, <2>1 DEF determinant2
<1> QED
  BY <1>4, <1>6, <1>7, <1>8

LEMMA Multiplies ==
  ASSUME ExactArithmetic, NEW g \in MatrixOf(4, 4), NEW m \in MatrixOf(4, 4)
  PROVE  /\ determinant4(transpose(g)) = determinant4(g)
         /\ determinant4(MatMat(g, m)) = determinant4(g) \otimes determinant4(m)
         /\ determinant3(MatMat(Upper(g), Upper(m))) = determinant3(Upper(g)) \otimes determinant3(Upper(m))
<1>0. 3 \in 3 .. 4 /\ 4 \in 3 .. 4 /\ 4 - 1 = 3
  OBVIOUS
<1>1. /\ g \in IntMatrix(4) /\ RepresentsAll(4, g, g) /\ DOMAIN g = 1 .. 4 /\ Rows(g) = 4 /\ Columns(g) = 4
      /\ m \in IntMatrix(4) /\ RepresentsAll(4, m, m) /\ DOMAIN m = 1 .. 4 /\ Rows(m) = 4 /\ Columns(m) = 4
  BY MatrixRepresents
<1>2. \A n : \A x \in IntMatrix(n) : IntSquare(n, x)
  BY DEF IntMatrix, IntSquare
<1>3. determinant4(transpose(g)) = determinant4(g)
  <2>1. RepresentsAll(4, IntTranspose(4, g), transpose(g))
    BY <1>1, OfTranspose
  <2>2. Det4(IntTranspose(4, g)) = Det4(g)
    BY <1>1, Det4OfTranspose
  <2> QED
    BY <1>1, <2>1, <2>2, OfDet4
<1>4. determinant4(MatMat(g, m)) = determinant4(g) \otimes determinant4(m)
  <2>1. RepresentsAll(4, IntMatMat(4, g, m), MatMat(g, m))
    BY <1>0, <1>1, OfMatMat
  <2>2. Det4(IntMatMat(4, g, m)) = Det4(g) * Det4(m)
    BY <1>1, <1>2, ProductIs, Det4OfProduct
  <2>3. PICK a \in Int, b \in Int :
          Det4(g) = a /\ Det4(m) = b /\ determinant4(g) = Of(a) /\ determinant4(m) = Of(b)
    BY <1>1, OfDet4
  <2>4. determinant4(MatMat(g, m)) = Of(Det4(IntMatMat(4, g, m)))
    BY <2>1, OfDet4
  <2>5. Of(a) \otimes Of(b) = Of(a * b)
    BY OfProduct
  <2> QED
    BY <2>2, <2>3, <2>4, <2>5
<1>5. PICK g3 \in MatrixOf(3, 3), m3 \in MatrixOf(3, 3) : g3 = Upper(g) /\ m3 = Upper(m)
  BY <1>0, UpperClosed
<1>6. /\ g3 \in IntMatrix(3) /\ RepresentsAll(3, g3, g3) /\ DOMAIN g3 = 1 .. 3 /\ Rows(g3) = 3
      /\ m3 \in IntMatrix(3) /\ RepresentsAll(3, m3, m3) /\ Columns(m3) = 3
  BY Matrix3Represents
<1>7. determinant3(MatMat(g3, m3)) = determinant3(g3) \otimes determinant3(m3)
  <2>1. RepresentsAll(3, IntMatMat(3, g3, m3), MatMat(g3, m3))
    BY <1>0, <1>6, OfMatMat
  <2>2. Det3(IntMatMat(3, g3, m3)) = Det3(g3) * Det3(m3)
    BY <1>2, <1>6, ProductIs, Det3OfProduct
  <2>3. PICK a \in Int, b \in Int :
          Det3(g3) = a /\ Det3(m3) = b /\ determinant3(g3) = Of(a) /\ determinant3(m3) = Of(b)
    BY <1>6, OfDet3
  <2>4. determinant3(MatMat(g3, m3)) = Of(Det3(IntMatMat(3, g3, m3)))
    BY <2>1, OfDet3
  <2>5. Of(a) \otimes Of(b) = Of(a * b)
    BY OfProduct
  <2> QED
    BY <2>2, <2>3, <2>4, <2>5
<1> QED
  BY <1>3, <1>4, <1>5, <1>7

LEMMA MatricesObey ==
  ASSUME ExactArithmetic, Typed
  PROVE  MatrixLaws
<1>1. CASE kind # "matrix"
  BY <1>1 DEF MatrixLaws, ProductComposes, DeterminantMultiplies
<1>2. CASE kind = "matrix"
  <2>1. PICK g \in MatrixOf(4, 4) : general = g
    BY <1>2 DEF Typed
  <2>2. \A m \in MatrixOperands : m \in MatrixOf(4, 4)
    BY OperandTyped
  <2>3. \A v \in Vectors4 : v \in VectorOf(4)
    <3>1. \A v \in Vectors4 : v \in Operands(4)
      BY DEF Vectors4, Operands
    <3>2. 4 \in 2 .. 4
      OBVIOUS
    <3> QED
      BY <3>1, <3>2, OperandTyped
  <2>4. ProductComposes
    BY <2>1, <2>2, <2>3, Composes DEF ProductComposes
  <2>5. DeterminantMultiplies
    <3>1. PICK m3 \in MatrixOf(3, 3) : m3 = Upper(g)
      <4>1. 4 \in 3 .. 4 /\ 4 - 1 = 3
        OBVIOUS
      <4> QED
        BY <4>1, UpperClosed
    <3>2. PICK m2 \in MatrixOf(2, 2) : m2 = Upper(m3)
      <4>1. 3 \in 3 .. 4 /\ 3 - 1 = 2
        OBVIOUS
      <4> QED
        BY <4>1, UpperClosed
    <3>3. determinant4(transpose(g)) = determinant4(g)
      BY Multiplies
    <3>4. determinant4(Mat4From3(m3)) = determinant3(m3)
      BY BorderedDeterminant
    <3>5. determinant3(<<<<1, 0, 0>>, <<0>> \o m2[1], <<0>> \o m2[2]>>) = determinant2(m2)
      BY Bordered2Determinant
    <3>6. \A m \in MatrixOperands :
            /\ determinant4(MatMat(g, m)) = determinant4(g) \otimes determinant4(m)
            /\ determinant3(MatMat(m3, Upper(m))) = determinant3(m3) \otimes determinant3(Upper(m))
      BY <2>2, <3>1, Multiplies
    <3> QED
      BY <2>1, <3>1, <3>2, <3>3, <3>4, <3>5, <3>6 DEF DeterminantMultiplies
  <2> QED
    BY <2>4, <2>5 DEF MatrixLaws
<1> QED
  BY <1>1, <1>2

\* In an exact arithmetic a product of matrices maps a vector as one after the
\* other does, transpose swaps the factors, and the determinant of a product
\* is the product of the determinants, for every matrix a program reaches.
THEOREM MatrixLawsHold ==
  ASSUME ExactArithmetic
  PROVE  Spec => []MatrixLaws
<1>1. Typed => MatrixLaws
  BY MatricesObey
<1> QED
  BY <1>1, TypesCorrect, PTL

-----------------------------------------------------------------------------
(* Quaternions, in the components and in the integers. *)

IsQuatProduct(x, y, z) ==
  /\ z[1] = x[1] * y[1] - x[2] * y[2] - x[3] * y[3] - x[4] * y[4]
  /\ z[2] = x[2] * y[1] + x[1] * y[2] + x[3] * y[4] - x[4] * y[3]
  /\ z[3] = x[1] * y[3] - x[2] * y[4] + x[3] * y[1] + x[4] * y[2]
  /\ z[4] = x[1] * y[4] + x[2] * y[3] - x[3] * y[2] + x[4] * y[1]

LEMMA OfFour ==
  ASSUME ExactArithmetic, NEW a \in Int, NEW b \in Int, NEW c \in Int, NEW d \in Int
  PROVE  /\ ((Of(a) \ominus Of(b)) \ominus Of(c)) \ominus Of(d) = Of(a - b - c - d)
         /\ ((Of(a) \oplus Of(b)) \oplus Of(c)) \ominus Of(d) = Of(a + b + c - d)
         /\ ((Of(a) \ominus Of(b)) \oplus Of(c)) \oplus Of(d) = Of(a - b + c + d)
         /\ ((Of(a) \oplus Of(b)) \ominus Of(c)) \oplus Of(d) = Of(a + b - c + d)
<1>1. PICK p \in Int : p = a + b /\ Of(a) \oplus Of(b) = Of(p)
  BY OfProduct
<1>2. PICK m \in Int : m = a - b /\ Of(a) \ominus Of(b) = Of(m)
  BY OfProduct
<1>3. PICK pp \in Int : pp = p + c /\ Of(p) \oplus Of(c) = Of(pp)
  BY OfProduct
<1>4. PICK pm \in Int : pm = p - c /\ Of(p) \ominus Of(c) = Of(pm)
  BY OfProduct
<1>5. PICK mp \in Int : mp = m + c /\ Of(m) \oplus Of(c) = Of(mp)
  BY OfProduct
<1>6. PICK mm \in Int : mm = m - c /\ Of(m) \ominus Of(c) = Of(mm)
  BY OfProduct
<1>7. Of(mm) \ominus Of(d) = Of(mm - d)
  BY OfProduct
<1>8. Of(pp) \ominus Of(d) = Of(pp - d)
  BY OfProduct
<1>9. Of(mp) \oplus Of(d) = Of(mp + d)
  BY OfProduct
<1>10. Of(pm) \oplus Of(d) = Of(pm + d)
  BY OfProduct
<1> QED
  BY <1>1, <1>2, <1>3, <1>4, <1>5, <1>6, <1>7, <1>8, <1>9, <1>10

LEMMA FourProducts ==
  ASSUME ExactArithmetic, NEW x, NEW y, NEW v, NEW u, Represents(4, x, v), Represents(4, y, u)
  PROVE  \A i \in 1 .. 4, j \in 1 .. 4 :
           x[i] * y[j] \in Int /\ v[i] \otimes u[j] = Of(x[i] * y[j])
<1> SUFFICES ASSUME NEW i \in 1 .. 4, NEW j \in 1 .. 4
             PROVE  x[i] * y[j] \in Int /\ v[i] \otimes u[j] = Of(x[i] * y[j])
  OBVIOUS
<1>1. PICK a \in Int, b \in Int : a = x[i] /\ b = y[j] /\ v[i] = Of(a) /\ u[j] = Of(b)
  BY DEF Represents
<1>2. Of(a) \otimes Of(b) = Of(a * b) /\ a * b \in Int
  BY OfProduct
<1> QED
  BY <1>1, <1>2

Four(a, b, c, d) == [i \in 1 .. 4 |-> IF i = 1 THEN a ELSE IF i = 2 THEN b ELSE IF i = 3 THEN c ELSE d]

LEMMA FourIs ==
  ASSUME NEW a \in Int, NEW b \in Int, NEW c \in Int, NEW d \in Int
  PROVE  /\ Four(a, b, c, d) \in [1 .. 4 -> Int]
         /\ Four(a, b, c, d)[1] = a /\ Four(a, b, c, d)[2] = b
         /\ Four(a, b, c, d)[3] = c /\ Four(a, b, c, d)[4] = d
         /\ Represents(4, Four(a, b, c, d), <<Of(a), Of(b), Of(c), Of(d)>>)
<1>1. \A i \in 1 .. 4 : i = 1 \/ i = 2 \/ i = 3 \/ i = 4
  OBVIOUS
<1> DEFINE f == Four(a, b, c, d)
<1>2. f \in [1 .. 4 -> Int] /\ f[1] = a /\ f[2] = b /\ f[3] = c /\ f[4] = d
  BY DEF Four
<1> HIDE DEF f
<1>3. Represents(4, f, <<Of(a), Of(b), Of(c), Of(d)>>)
  BY <1>1, <1>2 DEF Represents
<1> QED
  BY <1>2, <1>3 DEF f

LEMMA OfQuatTimes ==
  ASSUME ExactArithmetic, NEW p, NEW q, NEW x, NEW y,
         Represents(4, x, QuatAt(p)), Represents(4, y, QuatAt(q))
  PROVE  \E z \in [1 .. 4 -> Int] : IsQuatProduct(x, y, z) /\ Represents(4, z, QuatAt(QuatTimes(p, q)))
<1> DEFINE v == QuatAt(p)
           u == QuatAt(q)
<1>1. /\ p.w = v[1] /\ p.x = v[2] /\ p.y = v[3] /\ p.z = v[4]
      /\ q.w = u[1] /\ q.x = u[2] /\ q.y = u[3] /\ q.z = u[4]
  BY DEF QuatAt
<1> HIDE DEF v, u
<1>2. Represents(4, x, v) /\ Represents(4, y, u)
  BY DEF v, u
<1>3. \A i \in 1 .. 4, j \in 1 .. 4 : x[i] * y[j] \in Int /\ v[i] \otimes u[j] = Of(x[i] * y[j])
  BY <1>2, FourProducts
<1>4. PICK z1 \in Int : z1 = x[1] * y[1] - x[2] * y[2] - x[3] * y[3] - x[4] * y[4] /\ QuatTimes(p, q).w = Of(z1)
  <2>1. PICK a \in Int, b \in Int, c \in Int, d \in Int :
          /\ a = x[1] * y[1] /\ b = x[2] * y[2] /\ c = x[3] * y[3] /\ d = x[4] * y[4]
          /\ v[1] \otimes u[1] = Of(a) /\ v[2] \otimes u[2] = Of(b)
          /\ v[3] \otimes u[3] = Of(c) /\ v[4] \otimes u[4] = Of(d)
    BY <1>3
  <2>2. ((Of(a) \ominus Of(b)) \ominus Of(c)) \ominus Of(d) = Of(a - b - c - d) /\ a - b - c - d \in Int
    BY OfFour
  <2> QED
    BY <1>1, <2>1, <2>2 DEF QuatTimes, Quaternion
<1>5. PICK z2 \in Int : z2 = x[2] * y[1] + x[1] * y[2] + x[3] * y[4] - x[4] * y[3] /\ QuatTimes(p, q).x = Of(z2)
  <2>1. PICK a \in Int, b \in Int, c \in Int, d \in Int :
          /\ a = x[2] * y[1] /\ b = x[1] * y[2] /\ c = x[3] * y[4] /\ d = x[4] * y[3]
          /\ v[2] \otimes u[1] = Of(a) /\ v[1] \otimes u[2] = Of(b)
          /\ v[3] \otimes u[4] = Of(c) /\ v[4] \otimes u[3] = Of(d)
    BY <1>3
  <2>2. ((Of(a) \oplus Of(b)) \oplus Of(c)) \ominus Of(d) = Of(a + b + c - d) /\ a + b + c - d \in Int
    BY OfFour
  <2> QED
    BY <1>1, <2>1, <2>2 DEF QuatTimes, Quaternion
<1>6. PICK z3 \in Int : z3 = x[1] * y[3] - x[2] * y[4] + x[3] * y[1] + x[4] * y[2] /\ QuatTimes(p, q).y = Of(z3)
  <2>1. PICK a \in Int, b \in Int, c \in Int, d \in Int :
          /\ a = x[1] * y[3] /\ b = x[2] * y[4] /\ c = x[3] * y[1] /\ d = x[4] * y[2]
          /\ v[1] \otimes u[3] = Of(a) /\ v[2] \otimes u[4] = Of(b)
          /\ v[3] \otimes u[1] = Of(c) /\ v[4] \otimes u[2] = Of(d)
    BY <1>3
  <2>2. ((Of(a) \ominus Of(b)) \oplus Of(c)) \oplus Of(d) = Of(a - b + c + d) /\ a - b + c + d \in Int
    BY OfFour
  <2> QED
    BY <1>1, <2>1, <2>2 DEF QuatTimes, Quaternion
<1>7. PICK z4 \in Int : z4 = x[1] * y[4] + x[2] * y[3] - x[3] * y[2] + x[4] * y[1] /\ QuatTimes(p, q).z = Of(z4)
  <2>1. PICK a \in Int, b \in Int, c \in Int, d \in Int :
          /\ a = x[1] * y[4] /\ b = x[2] * y[3] /\ c = x[3] * y[2] /\ d = x[4] * y[1]
          /\ v[1] \otimes u[4] = Of(a) /\ v[2] \otimes u[3] = Of(b)
          /\ v[3] \otimes u[2] = Of(c) /\ v[4] \otimes u[1] = Of(d)
    BY <1>3
  <2>2. ((Of(a) \oplus Of(b)) \ominus Of(c)) \oplus Of(d) = Of(a + b - c + d) /\ a + b - c + d \in Int
    BY OfFour
  <2> QED
    BY <1>1, <2>1, <2>2 DEF QuatTimes, Quaternion
<1>8. QuatAt(QuatTimes(p, q)) = <<Of(z1), Of(z2), Of(z3), Of(z4)>>
  BY <1>4, <1>5, <1>6, <1>7 DEF QuatAt
<1>9. PICK z \in [1 .. 4 -> Int] :
        /\ z[1] = z1 /\ z[2] = z2 /\ z[3] = z3 /\ z[4] = z4
        /\ Represents(4, z, <<Of(z1), Of(z2), Of(z3), Of(z4)>>)
  BY FourIs
<1>10. IsQuatProduct(x, y, z)
  BY <1>4, <1>5, <1>6, <1>7, <1>9 DEF IsQuatProduct
<1> QED
  BY <1>8, <1>9, <1>10

LEMMA OfQuatPlus ==
  ASSUME ExactArithmetic, NEW p, NEW q, NEW x, NEW y,
         Represents(4, x, QuatAt(p)), Represents(4, y, QuatAt(q))
  PROVE  \E z \in [1 .. 4 -> Int] : /\ \A i \in 1 .. 4 : z[i] = x[i] + y[i]
                                    /\ Represents(4, z, QuatAt(QuatPlus(p, q)))
<1> DEFINE v == QuatAt(p)
           u == QuatAt(q)
           w == QuatAt(QuatPlus(p, q))
           z == [i \in 1 .. 4 |-> x[i] + y[i]]
<1>1. /\ w[1] = v[1] \oplus u[1] /\ w[2] = v[2] \oplus u[2]
      /\ w[3] = v[3] \oplus u[3] /\ w[4] = v[4] \oplus u[4]
  BY DEF QuatAt, QuatPlus, Quaternion
<1> HIDE DEF v, u, w
<1>2. \A i \in 1 .. 4 : i = 1 \/ i = 2 \/ i = 3 \/ i = 4
  OBVIOUS
<1>3. \A i \in 1 .. 4 : w[i] = v[i] \oplus u[i]
  BY <1>1, <1>2
<1>4. Represents(4, x, v) /\ Represents(4, y, u)
  BY DEF v, u
<1>5. ASSUME NEW i \in 1 .. 4 PROVE x[i] + y[i] \in Int /\ w[i] = Of(x[i] + y[i])
  <2>1. PICK a \in Int, b \in Int : a = x[i] /\ b = y[i] /\ v[i] = Of(a) /\ u[i] = Of(b)
    BY <1>4 DEF Represents
  <2>2. Of(a) \oplus Of(b) = Of(a + b) /\ a + b \in Int
    BY OfProduct
  <2> QED
    BY <1>3, <2>1, <2>2
<1>6. z \in [1 .. 4 -> Int] /\ \A i \in 1 .. 4 : z[i] = x[i] + y[i]
  BY <1>5
<1> HIDE DEF z
<1>7. Represents(4, z, w)
  BY <1>5, <1>6 DEF Represents
<1> QED
  BY <1>6, <1>7 DEF w

LEMMA QuaternionRepresents ==
  ASSUME ExactArithmetic, NEW q \in QuaternionSet
  PROVE  \E x \in [1 .. 4 -> Int] : Represents(4, x, QuatAt(q))
<1>1. PICK a \in Int, b \in Int, c \in Int, d \in Int :
        q.w = Of(a) /\ q.x = Of(b) /\ q.y = Of(c) /\ q.z = Of(d)
  <2>1. q.w \in Scalar /\ q.x \in Scalar /\ q.y \in Scalar /\ q.z \in Scalar
    BY DEF QuaternionSet
  <2>2. \A s \in Scalar : s \in Int /\ s = Of(s)
    BY OfIsExact
  <2> QED
    BY <2>1, <2>2
<1>2. QuatAt(q) = <<Of(a), Of(b), Of(c), Of(d)>>
  BY <1>1 DEF QuatAt
<1> QED
  BY <1>2, FourIs

LEMMA SameQuaternion ==
  ASSUME NEW p \in QuaternionSet, NEW q \in QuaternionSet, NEW x,
         Represents(4, x, QuatAt(p)), Represents(4, x, QuatAt(q))
  PROVE  p = q
<1>1. /\ QuatAt(p)[1] = QuatAt(q)[1] /\ QuatAt(p)[2] = QuatAt(q)[2]
      /\ QuatAt(p)[3] = QuatAt(q)[3] /\ QuatAt(p)[4] = QuatAt(q)[4]
  BY DEF Represents
<1>2. p.w = q.w /\ p.x = q.x /\ p.y = q.y /\ p.z = q.z
  BY <1>1 DEF QuatAt
<1> QED
  BY <1>2 DEF QuaternionSet

LEMMA QuatEntries ==
  ASSUME NEW x \in [1 .. 4 -> Int]
  PROVE  \E a \in Int, b \in Int, c \in Int, d \in Int : x[1] = a /\ x[2] = b /\ x[3] = c /\ x[4] = d
OBVIOUS

LEMMA EulerFourSquares ==
  ASSUME NEW x \in [1 .. 4 -> Int], NEW y \in [1 .. 4 -> Int], NEW z, IsQuatProduct(x, y, z)
  PROVE  Dot4(z, z) = Dot4(x, x) * Dot4(y, y)
<1>1. PICK a \in Int, b \in Int, c \in Int, d \in Int : x[1] = a /\ x[2] = b /\ x[3] = c /\ x[4] = d
  BY QuatEntries
<1>2. PICK e \in Int, f \in Int, g \in Int, h \in Int : y[1] = e /\ y[2] = f /\ y[3] = g /\ y[4] = h
  BY QuatEntries
<1>3. /\ z[1] = a * e - b * f - c * g - d * h /\ z[2] = b * e + a * f + c * h - d * g
      /\ z[3] = a * g - b * h + c * e + d * f /\ z[4] = a * h + b * g - c * f + d * e
  BY <1>1, <1>2 DEF IsQuatProduct
<1>4. (a * e - b * f - c * g - d * h) * (a * e - b * f - c * g - d * h)
      + (b * e + a * f + c * h - d * g) * (b * e + a * f + c * h - d * g)
      + (a * g - b * h + c * e + d * f) * (a * g - b * h + c * e + d * f)
      + (a * h + b * g - c * f + d * e) * (a * h + b * g - c * f + d * e)
      = (a * a + b * b + c * c + d * d) * (e * e + f * f + g * g + h * h)
  OBVIOUS
<1> QED
  BY <1>1, <1>2, <1>3, <1>4 DEF Dot4

LEMMA NormMultiplies ==
  ASSUME ExactArithmetic, NEW p \in QuaternionSet, NEW q \in QuaternionSet
  PROVE  Norm(QuatTimes(p, q)) = Norm(p) \otimes Norm(q)
<1>1. PICK x \in [1 .. 4 -> Int] : Represents(4, x, QuatAt(p))
  BY QuaternionRepresents
<1>2. PICK y \in [1 .. 4 -> Int] : Represents(4, y, QuatAt(q))
  BY QuaternionRepresents
<1>3. PICK z \in [1 .. 4 -> Int] : IsQuatProduct(x, y, z) /\ Represents(4, z, QuatAt(QuatTimes(p, q)))
  BY <1>1, <1>2, OfQuatTimes
<1>4. \A r : Len(QuatAt(r)) = 4
  BY DEF QuatAt
<1>5. PICK a \in Int : Norm(p) = Of(a) /\ a = Dot4(x, x)
  BY <1>1, <1>4, OfDot4 DEF Norm
<1>6. PICK b \in Int : Norm(q) = Of(b) /\ b = Dot4(y, y)
  BY <1>2, <1>4, OfDot4 DEF Norm
<1>7. Norm(QuatTimes(p, q)) = Of(Dot4(z, z))
  BY <1>3, <1>4, OfDot4 DEF Norm
<1>8. Dot4(z, z) = a * b
  BY <1>3, <1>5, <1>6, EulerFourSquares
<1>9. Of(a) \otimes Of(b) = Of(a * b)
  BY OfProduct
<1> QED
  BY <1>5, <1>6, <1>7, <1>8, <1>9

LEMMA QuatDistributes ==
  ASSUME ExactArithmetic, NEW p \in QuaternionSet, NEW q \in QuaternionSet, NEW r \in QuaternionSet
  PROVE  QuatTimes(QuatPlus(p, q), r) = QuatPlus(QuatTimes(p, r), QuatTimes(q, r))
<1>1. PICK x \in [1 .. 4 -> Int] : Represents(4, x, QuatAt(p))
  BY QuaternionRepresents
<1>2. PICK y \in [1 .. 4 -> Int] : Represents(4, y, QuatAt(q))
  BY QuaternionRepresents
<1>3. PICK w \in [1 .. 4 -> Int] : Represents(4, w, QuatAt(r))
  BY QuaternionRepresents
<1>4. PICK s \in [1 .. 4 -> Int] : /\ \A i \in 1 .. 4 : s[i] = x[i] + y[i]
                                    /\ Represents(4, s, QuatAt(QuatPlus(p, q)))
  BY <1>1, <1>2, OfQuatPlus
<1>5. PICK z \in [1 .. 4 -> Int] :
        IsQuatProduct(s, w, z) /\ Represents(4, z, QuatAt(QuatTimes(QuatPlus(p, q), r)))
  BY <1>3, <1>4, OfQuatTimes
<1>6. PICK t \in [1 .. 4 -> Int] : IsQuatProduct(x, w, t) /\ Represents(4, t, QuatAt(QuatTimes(p, r)))
  BY <1>1, <1>3, OfQuatTimes
<1>7. PICK u \in [1 .. 4 -> Int] : IsQuatProduct(y, w, u) /\ Represents(4, u, QuatAt(QuatTimes(q, r)))
  BY <1>2, <1>3, OfQuatTimes
<1>8. PICK v \in [1 .. 4 -> Int] :
        /\ \A i \in 1 .. 4 : v[i] = t[i] + u[i]
        /\ Represents(4, v, QuatAt(QuatPlus(QuatTimes(p, r), QuatTimes(q, r))))
  BY <1>6, <1>7, OfQuatPlus
<1>9. z = v
  <2>1. PICK a1 \in Int, a2 \in Int, a3 \in Int, a4 \in Int : x[1] = a1 /\ x[2] = a2 /\ x[3] = a3 /\ x[4] = a4
    BY QuatEntries
  <2>2. PICK b1 \in Int, b2 \in Int, b3 \in Int, b4 \in Int : y[1] = b1 /\ y[2] = b2 /\ y[3] = b3 /\ y[4] = b4
    BY QuatEntries
  <2>3. PICK c1 \in Int, c2 \in Int, c3 \in Int, c4 \in Int : w[1] = c1 /\ w[2] = c2 /\ w[3] = c3 /\ w[4] = c4
    BY QuatEntries
  <2>4. s[1] = a1 + b1 /\ s[2] = a2 + b2 /\ s[3] = a3 + b3 /\ s[4] = a4 + b4
    BY <1>4, <2>1, <2>2
  <2>5. /\ z[1] = (a1 + b1) * c1 - (a2 + b2) * c2 - (a3 + b3) * c3 - (a4 + b4) * c4
        /\ z[2] = (a2 + b2) * c1 + (a1 + b1) * c2 + (a3 + b3) * c4 - (a4 + b4) * c3
        /\ z[3] = (a1 + b1) * c3 - (a2 + b2) * c4 + (a3 + b3) * c1 + (a4 + b4) * c2
        /\ z[4] = (a1 + b1) * c4 + (a2 + b2) * c3 - (a3 + b3) * c2 + (a4 + b4) * c1
    BY <1>5, <2>3, <2>4 DEF IsQuatProduct
  <2>6. /\ t[1] = a1 * c1 - a2 * c2 - a3 * c3 - a4 * c4 /\ t[2] = a2 * c1 + a1 * c2 + a3 * c4 - a4 * c3
        /\ t[3] = a1 * c3 - a2 * c4 + a3 * c1 + a4 * c2 /\ t[4] = a1 * c4 + a2 * c3 - a3 * c2 + a4 * c1
    BY <1>6, <2>1, <2>3 DEF IsQuatProduct
  <2>7. /\ u[1] = b1 * c1 - b2 * c2 - b3 * c3 - b4 * c4 /\ u[2] = b2 * c1 + b1 * c2 + b3 * c4 - b4 * c3
        /\ u[3] = b1 * c3 - b2 * c4 + b3 * c1 + b4 * c2 /\ u[4] = b1 * c4 + b2 * c3 - b3 * c2 + b4 * c1
    BY <1>7, <2>2, <2>3 DEF IsQuatProduct
  <2>8. v[1] = t[1] + u[1] /\ v[2] = t[2] + u[2] /\ v[3] = t[3] + u[3] /\ v[4] = t[4] + u[4]
    BY <1>8
  <2>9. /\ (a1 + b1) * c1 - (a2 + b2) * c2 - (a3 + b3) * c3 - (a4 + b4) * c4
           = (a1 * c1 - a2 * c2 - a3 * c3 - a4 * c4) + (b1 * c1 - b2 * c2 - b3 * c3 - b4 * c4)
        /\ (a2 + b2) * c1 + (a1 + b1) * c2 + (a3 + b3) * c4 - (a4 + b4) * c3
           = (a2 * c1 + a1 * c2 + a3 * c4 - a4 * c3) + (b2 * c1 + b1 * c2 + b3 * c4 - b4 * c3)
        /\ (a1 + b1) * c3 - (a2 + b2) * c4 + (a3 + b3) * c1 + (a4 + b4) * c2
           = (a1 * c3 - a2 * c4 + a3 * c1 + a4 * c2) + (b1 * c3 - b2 * c4 + b3 * c1 + b4 * c2)
        /\ (a1 + b1) * c4 + (a2 + b2) * c3 - (a3 + b3) * c2 + (a4 + b4) * c1
           = (a1 * c4 + a2 * c3 - a3 * c2 + a4 * c1) + (b1 * c4 + b2 * c3 - b3 * c2 + b4 * c1)
    OBVIOUS
  <2>10. z[1] = v[1] /\ z[2] = v[2] /\ z[3] = v[3] /\ z[4] = v[4]
    BY <2>5, <2>6, <2>7, <2>8, <2>9
  <2> QED
    BY <2>10
<1>10. /\ QuatTimes(QuatPlus(p, q), r) \in QuaternionSet
       /\ QuatPlus(QuatTimes(p, r), QuatTimes(q, r)) \in QuaternionSet
  BY QuaternionsClosed
<1> QED
  BY <1>5, <1>8, <1>9, <1>10, SameQuaternion

LEMMA ThreeScalars ==
  ASSUME ExactArithmetic, NEW v \in VectorOf(3)
  PROVE  \E a \in Int, b \in Int, c \in Int :
           /\ v[1] = Of(a) /\ v[2] = Of(b) /\ v[3] = Of(c)
           /\ a = v[1] /\ b = v[2] /\ c = v[3]
<1>1. v[1] \in Scalar /\ v[2] \in Scalar /\ v[3] \in Scalar
  BY DEF VectorOf
<1>2. \A s \in Scalar : s \in Int /\ s = Of(s)
  BY OfIsExact
<1> QED
  BY <1>1, <1>2

\* Of the nine entries of a rotation, by its sine and its cosine.
IsRotation(s, c, a, b, d, x) ==
  /\ x[1][1] = c + a * (1 - c) * a /\ x[1][2] = a * (1 - c) * b + s * d /\ x[1][3] = a * (1 - c) * d - s * b
  /\ x[2][1] = b * (1 - c) * a - s * d /\ x[2][2] = c + b * (1 - c) * b /\ x[2][3] = b * (1 - c) * d + s * a
  /\ x[3][1] = d * (1 - c) * a + s * b /\ x[3][2] = d * (1 - c) * b - s * a /\ x[3][3] = c + d * (1 - c) * d

LEMMA OfDiagonalEntry ==
  ASSUME ExactArithmetic, NEW c \in Int, NEW a \in Int, NEW b \in Int
  PROVE  \E z \in Int : z = c + a * (1 - c) * b /\ Of(c) \oplus (Of(a) \otimes (1 \ominus Of(c))) \otimes Of(b) = Of(z)
<1>1. PICK k \in Int : k = 1 - c /\ 1 \ominus Of(c) = Of(k)
  <2>1. Of(1) \ominus Of(c) = Of(1 - c) /\ 1 - c \in Int
    BY OfProduct
  <2>2. Of(1) = 1
    BY OfIsExact
  <2> QED
    BY <2>1, <2>2
<1>2. PICK t \in Int : t = a * k /\ Of(a) \otimes Of(k) = Of(t)
  BY OfProduct
<1>3. PICK p \in Int : p = t * b /\ Of(t) \otimes Of(b) = Of(p)
  BY OfProduct
<1>4. PICK z \in Int : z = c + p /\ Of(c) \oplus Of(p) = Of(z)
  BY OfProduct
<1> QED
  BY <1>1, <1>2, <1>3, <1>4

LEMMA OfSideEntry ==
  ASSUME ExactArithmetic, NEW c \in Int, NEW a \in Int, NEW b \in Int, NEW s \in Int, NEW d \in Int
  PROVE  /\ \E z \in Int : /\ z = a * (1 - c) * b + s * d
                           /\ (Of(a) \otimes (1 \ominus Of(c))) \otimes Of(b) \oplus Of(s) \otimes Of(d) = Of(z)
         /\ \E z \in Int : /\ z = a * (1 - c) * b - s * d
                           /\ (Of(a) \otimes (1 \ominus Of(c))) \otimes Of(b) \ominus Of(s) \otimes Of(d) = Of(z)
<1>1. PICK k \in Int : k = 1 - c /\ 1 \ominus Of(c) = Of(k)
  <2>1. Of(1) \ominus Of(c) = Of(1 - c) /\ 1 - c \in Int
    BY OfProduct
  <2>2. Of(1) = 1
    BY OfIsExact
  <2> QED
    BY <2>1, <2>2
<1>2. PICK t \in Int : t = a * k /\ Of(a) \otimes Of(k) = Of(t)
  BY OfProduct
<1>3. PICK p \in Int : p = t * b /\ Of(t) \otimes Of(b) = Of(p)
  BY OfProduct
<1>4. PICK q \in Int : q = s * d /\ Of(s) \otimes Of(d) = Of(q)
  BY OfProduct
<1>5. PICK y \in Int : y = p + q /\ Of(p) \oplus Of(q) = Of(y)
  BY OfProduct
<1>6. PICK z \in Int : z = p - q /\ Of(p) \ominus Of(q) = Of(z)
  BY OfProduct
<1>7. a * (1 - c) * b + s * d = y /\ a * (1 - c) * b - s * d = z
  BY <1>1, <1>2, <1>3, <1>4, <1>5, <1>6
<1> QED
  BY <1>1, <1>2, <1>3, <1>4, <1>5, <1>6, <1>7

Three(a, b, c) == [i \in 1 .. 3 |-> IF i = 1 THEN a ELSE IF i = 2 THEN b ELSE c]

LEMMA ThreeIs ==
  ASSUME NEW a \in Int, NEW b \in Int, NEW c \in Int
  PROVE  /\ Three(a, b, c) \in [1 .. 3 -> Int]
         /\ Three(a, b, c)[1] = a /\ Three(a, b, c)[2] = b /\ Three(a, b, c)[3] = c
         /\ Represents(3, Three(a, b, c), <<Of(a), Of(b), Of(c)>>)
<1>1. \A i \in 1 .. 3 : i = 1 \/ i = 2 \/ i = 3
  OBVIOUS
<1> DEFINE f == Three(a, b, c)
<1>2. f \in [1 .. 3 -> Int] /\ f[1] = a /\ f[2] = b /\ f[3] = c
  BY DEF Three
<1> HIDE DEF f
<1>3. Represents(3, f, <<Of(a), Of(b), Of(c)>>)
  BY <1>1, <1>2 DEF Represents
<1> QED
  BY <1>2, <1>3 DEF f

LEMMA ThreeColumns ==
  ASSUME NEW x1 \in [1 .. 3 -> Int], NEW x2 \in [1 .. 3 -> Int], NEW x3 \in [1 .. 3 -> Int],
         NEW v1, NEW v2, NEW v3,
         Represents(3, x1, v1), Represents(3, x2, v2), Represents(3, x3, v3)
  PROVE  \E x \in IntMatrix(3) : /\ x[1] = x1 /\ x[2] = x2 /\ x[3] = x3
                                 /\ RepresentsAll(3, x, <<v1, v2, v3>>)
<1>1. \A i \in 1 .. 3 : i = 1 \/ i = 2 \/ i = 3
  OBVIOUS
<1> DEFINE x == [i \in 1 .. 3 |-> IF i = 1 THEN x1 ELSE IF i = 2 THEN x2 ELSE x3]
<1>2. x \in IntMatrix(3) /\ x[1] = x1 /\ x[2] = x2 /\ x[3] = x3
  BY DEF IntMatrix
<1> HIDE DEF x
<1>3. RepresentsAll(3, x, <<v1, v2, v3>>)
  <2> DEFINE m == <<v1, v2, v3>>
  <2>1. m[1] = v1 /\ m[2] = v2 /\ m[3] = v3
    OBVIOUS
  <2> HIDE DEF m
  <2>2. Represents(3, x[1], m[1]) /\ Represents(3, x[2], m[2]) /\ Represents(3, x[3], m[3])
    BY <1>2, <2>1
  <2>3. RepresentsAll(3, x, m)
    BY <1>1, <2>2 DEF RepresentsAll
  <2> QED
    BY <2>3 DEF m
<1> QED
  BY <1>2, <1>3

LEMMA OfRotation ==
  ASSUME ExactArithmetic, NEW s \in Int, NEW c \in Int, NEW n \in VectorOf(3),
         NEW a \in Int, NEW b \in Int, NEW d \in Int, n[1] = Of(a), n[2] = Of(b), n[3] = Of(d)
  PROVE  /\ \E x \in IntMatrix(3) : /\ IsRotation(s, c, a, b, d, x)
                                    /\ RepresentsAll(3, x, Rotation(Of(s), Of(c), n))
         /\ DOMAIN Rotation(Of(s), Of(c), n) = 1 .. 3 /\ Rows(Rotation(Of(s), Of(c), n)) = 3
<1> DEFINE k == 1 \ominus Of(c)
<1>1. DOMAIN n = 1 .. 3 /\ Len(n) = 3
  BY VectorParts
<1>2. Times(n, k) = [i \in 1 .. 3 |-> n[i] \otimes k]
  BY <1>1 DEF Times, VecOp, Filled, \otimes
<1>3. /\ Times(n, k)[1] = Of(a) \otimes k /\ Times(n, k)[2] = Of(b) \otimes k
      /\ Times(n, k)[3] = Of(d) \otimes k
  BY <1>2
<1>4. Rotation(Of(s), Of(c), n) =
        <<<<Of(c) \oplus (Of(a) \otimes k) \otimes Of(a),
            (Of(a) \otimes k) \otimes Of(b) \oplus Of(s) \otimes Of(d),
            (Of(a) \otimes k) \otimes Of(d) \ominus Of(s) \otimes Of(b)>>,
          <<(Of(b) \otimes k) \otimes Of(a) \ominus Of(s) \otimes Of(d),
            Of(c) \oplus (Of(b) \otimes k) \otimes Of(b),
            (Of(b) \otimes k) \otimes Of(d) \oplus Of(s) \otimes Of(a)>>,
          <<(Of(d) \otimes k) \otimes Of(a) \oplus Of(s) \otimes Of(b),
            (Of(d) \otimes k) \otimes Of(b) \ominus Of(s) \otimes Of(a),
            Of(c) \oplus (Of(d) \otimes k) \otimes Of(d)>>>>
  <2> HIDE DEF k
  <2> DEFINE temp == Times(n, k)
  <2>1. temp[1] = Of(a) \otimes k /\ temp[2] = Of(b) \otimes k /\ temp[3] = Of(d) \otimes k
    BY <1>3
  <2>2. Rotation(Of(s), Of(c), n) =
          <<<<Of(c) \oplus temp[1] \otimes n[1], temp[1] \otimes n[2] \oplus Of(s) \otimes n[3],
              temp[1] \otimes n[3] \ominus Of(s) \otimes n[2]>>,
            <<temp[2] \otimes n[1] \ominus Of(s) \otimes n[3], Of(c) \oplus temp[2] \otimes n[2],
              temp[2] \otimes n[3] \oplus Of(s) \otimes n[1]>>,
            <<temp[3] \otimes n[1] \oplus Of(s) \otimes n[2],
              temp[3] \otimes n[2] \ominus Of(s) \otimes n[1], Of(c) \oplus temp[3] \otimes n[3]>>>>
    BY DEF Rotation, k
  <2> HIDE DEF temp
  <2> QED
    BY <2>1, <2>2
<1> HIDE <1>1, <1>2, <1>3, <1>4
<1>11. PICK z11 \in Int : z11 = c + a * (1 - c) * a /\ Of(c) \oplus (Of(a) \otimes k) \otimes Of(a) = Of(z11)
  BY OfDiagonalEntry
<1>22. PICK z22 \in Int : z22 = c + b * (1 - c) * b /\ Of(c) \oplus (Of(b) \otimes k) \otimes Of(b) = Of(z22)
  BY OfDiagonalEntry
<1>33. PICK z33 \in Int : z33 = c + d * (1 - c) * d /\ Of(c) \oplus (Of(d) \otimes k) \otimes Of(d) = Of(z33)
  BY OfDiagonalEntry
<1>12. PICK z12 \in Int : /\ z12 = a * (1 - c) * b + s * d
                          /\ (Of(a) \otimes k) \otimes Of(b) \oplus Of(s) \otimes Of(d) = Of(z12)
  BY OfSideEntry
<1>13. PICK z13 \in Int : /\ z13 = a * (1 - c) * d - s * b
                          /\ (Of(a) \otimes k) \otimes Of(d) \ominus Of(s) \otimes Of(b) = Of(z13)
  BY OfSideEntry
<1>21. PICK z21 \in Int : /\ z21 = b * (1 - c) * a - s * d
                          /\ (Of(b) \otimes k) \otimes Of(a) \ominus Of(s) \otimes Of(d) = Of(z21)
  BY OfSideEntry
<1>23. PICK z23 \in Int : /\ z23 = b * (1 - c) * d + s * a
                          /\ (Of(b) \otimes k) \otimes Of(d) \oplus Of(s) \otimes Of(a) = Of(z23)
  BY OfSideEntry
<1>31. PICK z31 \in Int : /\ z31 = d * (1 - c) * a + s * b
                          /\ (Of(d) \otimes k) \otimes Of(a) \oplus Of(s) \otimes Of(b) = Of(z31)
  BY OfSideEntry
<1>32. PICK z32 \in Int : /\ z32 = d * (1 - c) * b - s * a
                          /\ (Of(d) \otimes k) \otimes Of(b) \ominus Of(s) \otimes Of(a) = Of(z32)
  BY OfSideEntry
<1> HIDE DEF k
<1>5. Rotation(Of(s), Of(c), n) = <<<<Of(z11), Of(z12), Of(z13)>>, <<Of(z21), Of(z22), Of(z23)>>,
                                    <<Of(z31), Of(z32), Of(z33)>>>>
  BY <1>4, <1>11, <1>12, <1>13, <1>21, <1>22, <1>23, <1>31, <1>32, <1>33
<1> HIDE <1>5
<1>6. PICK x1 \in [1 .. 3 -> Int] : /\ x1[1] = z11 /\ x1[2] = z12 /\ x1[3] = z13
                                    /\ Represents(3, x1, <<Of(z11), Of(z12), Of(z13)>>)
  BY ThreeIs
<1>7. PICK x2 \in [1 .. 3 -> Int] : /\ x2[1] = z21 /\ x2[2] = z22 /\ x2[3] = z23
                                    /\ Represents(3, x2, <<Of(z21), Of(z22), Of(z23)>>)
  BY ThreeIs
<1>8. PICK x3 \in [1 .. 3 -> Int] : /\ x3[1] = z31 /\ x3[2] = z32 /\ x3[3] = z33
                                    /\ Represents(3, x3, <<Of(z31), Of(z32), Of(z33)>>)
  BY ThreeIs
<1>9. PICK x \in IntMatrix(3) : /\ x[1] = x1 /\ x[2] = x2 /\ x[3] = x3
                                /\ RepresentsAll(3, x, Rotation(Of(s), Of(c), n))
  <2> DEFINE v1 == <<Of(z11), Of(z12), Of(z13)>>
             v2 == <<Of(z21), Of(z22), Of(z23)>>
             v3 == <<Of(z31), Of(z32), Of(z33)>>
  <2>1. Represents(3, x1, v1) /\ Represents(3, x2, v2) /\ Represents(3, x3, v3)
    BY <1>6, <1>7, <1>8
  <2>2. Rotation(Of(s), Of(c), n) = <<v1, v2, v3>>
    BY <1>5
  <2> HIDE DEF v1, v2, v3
  <2>3. \E x \in IntMatrix(3) : /\ x[1] = x1 /\ x[2] = x2 /\ x[3] = x3
                               /\ RepresentsAll(3, x, <<v1, v2, v3>>)
    BY <2>1, ThreeColumns
  <2> QED
    BY <2>2, <2>3, Zenon
<1>10. IsRotation(s, c, a, b, d, x)
  BY <1>6, <1>7, <1>8, <1>9, <1>11, <1>12, <1>13, <1>21, <1>22, <1>23, <1>31, <1>32, <1>33
     DEF IsRotation
<1>40. DOMAIN Rotation(Of(s), Of(c), n) = 1 .. 3 /\ Rows(Rotation(Of(s), Of(c), n)) = 3
  BY <1>5 DEF Rows
<1> QED
  BY <1>9, <1>10, <1>40

\* The product of three quaternions, a half turn, a vector and the half turn
\* back, against the rotation by twice the angle.
IsHalf(c, t, n, h) == h[1] = c /\ h[2] = n[1] * t /\ h[3] = n[2] * t /\ h[4] = n[3] * t
IsPure(v, w) == w[1] = 0 /\ w[2] = v[1] /\ w[3] = v[2] /\ w[4] = v[3]
TurnedEntry(n, v, s, c, x, j) ==
  x[1][j] * v[1] + x[2][j] * v[2] + x[3][j] * v[3]
  + (-s * s * v[j]) * (Dot3(n, n) - 1) + (Dot3(n, v) * n[j]) * (s * s + c * c - 1)

LEMMA TurnIdentities ==
  ASSUME NEW n \in [1 .. 3 -> Int], NEW v \in [1 .. 3 -> Int], NEW s \in Int, NEW c \in Int,
         NEW h, NEW w, NEW k, NEW t, NEW u,
         IsHalf(c, s, n, h), IsPure(v, w), IsHalf(c, -s, n, k),
         IsQuatProduct(h, w, t), IsQuatProduct(t, k, u),
         NEW x, IsRotation(2 * s * c, c * c - s * s, n[1], n[2], n[3], x)
  PROVE  /\ u[1] = 0
         /\ u[2] = TurnedEntry(n, v, s, c, x, 1)
         /\ u[3] = TurnedEntry(n, v, s, c, x, 2)
         /\ u[4] = TurnedEntry(n, v, s, c, x, 3)
<1>1. PICK a \in Int, b \in Int, d \in Int : a = n[1] /\ b = n[2] /\ d = n[3]
  OBVIOUS
<1>2. PICK p \in Int, q \in Int, r \in Int : p = v[1] /\ q = v[2] /\ r = v[3]
  OBVIOUS
<1>3. PICK t1 \in Int, t2 \in Int, t3 \in Int, t4 \in Int :
        /\ t1 = c * 0 - a * s * p - b * s * q - d * s * r
        /\ t2 = a * s * 0 + c * p + b * s * r - d * s * q
        /\ t3 = c * q - a * s * r + b * s * 0 + d * s * p
        /\ t4 = c * r + a * s * q - b * s * p + d * s * 0
  OBVIOUS
<1>4. PICK S \in Int, C \in Int, N \in Int, M \in Int, e \in Int :
        /\ S = 2 * s * c /\ C = c * c - s * s
        /\ N = a * a + b * b + d * d /\ M = s * s + c * c /\ e = a * p + b * q + d * r
  OBVIOUS
<1>5. /\ t1 * c - t2 * (a * (-s)) - t3 * (b * (-s)) - t4 * (d * (-s)) = 0
      /\ t2 * c + t1 * (a * (-s)) + t3 * (d * (-s)) - t4 * (b * (-s))
         = (C + a * (1 - C) * a) * p + (b * (1 - C) * a - S * d) * q + (d * (1 - C) * a + S * b) * r
           + (-s * s * p) * (N - 1) + (e * a) * (M - 1)
      /\ t1 * (b * (-s)) - t2 * (d * (-s)) + t3 * c + t4 * (a * (-s))
         = (a * (1 - C) * b + S * d) * p + (C + b * (1 - C) * b) * q + (d * (1 - C) * b - S * a) * r
           + (-s * s * q) * (N - 1) + (e * b) * (M - 1)
      /\ t1 * (d * (-s)) + t2 * (b * (-s)) - t3 * (a * (-s)) + t4 * c
         = (a * (1 - C) * d - S * b) * p + (b * (1 - C) * d + S * a) * q + (C + d * (1 - C) * d) * r
           + (-s * s * r) * (N - 1) + (e * d) * (M - 1)
  BY <1>3, <1>4
<1>6. t[1] = t1 /\ t[2] = t2 /\ t[3] = t3 /\ t[4] = t4
  <2>1. /\ h[1] = c /\ h[2] = a * s /\ h[3] = b * s /\ h[4] = d * s
        /\ w[1] = 0 /\ w[2] = p /\ w[3] = q /\ w[4] = r
    BY <1>1, <1>2 DEF IsHalf, IsPure
  <2> QED
    BY <1>3, <2>1 DEF IsQuatProduct
<1>7. /\ u[1] = t1 * c - t2 * (a * (-s)) - t3 * (b * (-s)) - t4 * (d * (-s))
      /\ u[2] = t2 * c + t1 * (a * (-s)) + t3 * (d * (-s)) - t4 * (b * (-s))
      /\ u[3] = t1 * (b * (-s)) - t2 * (d * (-s)) + t3 * c + t4 * (a * (-s))
      /\ u[4] = t1 * (d * (-s)) + t2 * (b * (-s)) - t3 * (a * (-s)) + t4 * c
  <2>1. k[1] = c /\ k[2] = a * (-s) /\ k[3] = b * (-s) /\ k[4] = d * (-s)
    BY <1>1 DEF IsHalf
  <2> QED
    BY <1>6, <2>1 DEF IsQuatProduct
<1>8. /\ x[1][1] = C + a * (1 - C) * a /\ x[1][2] = a * (1 - C) * b + S * d /\ x[1][3] = a * (1 - C) * d - S * b
      /\ x[2][1] = b * (1 - C) * a - S * d /\ x[2][2] = C + b * (1 - C) * b /\ x[2][3] = b * (1 - C) * d + S * a
      /\ x[3][1] = d * (1 - C) * a + S * b /\ x[3][2] = d * (1 - C) * b - S * a /\ x[3][3] = C + d * (1 - C) * d
  <2>1. IsRotation(S, C, a, b, d, x)
    BY <1>1, <1>4
  <2> QED
    BY <2>1 DEF IsRotation
<1>9. /\ u[2] = x[1][1] * p + x[2][1] * q + x[3][1] * r + (-s * s * p) * (N - 1) + (e * a) * (M - 1)
      /\ u[3] = x[1][2] * p + x[2][2] * q + x[3][2] * r + (-s * s * q) * (N - 1) + (e * b) * (M - 1)
      /\ u[4] = x[1][3] * p + x[2][3] * q + x[3][3] * r + (-s * s * r) * (N - 1) + (e * d) * (M - 1)
  BY <1>5, <1>7, <1>8
<1>10. Dot3(n, n) = N /\ Dot3(n, v) = e /\ s * s + c * c = M
  BY <1>1, <1>2, <1>4 DEF Dot3
<1>11. /\ TurnedEntry(n, v, s, c, x, 1)
          = x[1][1] * p + x[2][1] * q + x[3][1] * r + (-s * s * p) * (N - 1) + (e * a) * (M - 1)
       /\ TurnedEntry(n, v, s, c, x, 2)
          = x[1][2] * p + x[2][2] * q + x[3][2] * r + (-s * s * q) * (N - 1) + (e * b) * (M - 1)
       /\ TurnedEntry(n, v, s, c, x, 3)
          = x[1][3] * p + x[2][3] * q + x[3][3] * r + (-s * s * r) * (N - 1) + (e * d) * (M - 1)
  <2>1. \A j : TurnedEntry(n, v, s, c, x, j)
               = x[1][j] * v[1] + x[2][j] * v[2] + x[3][j] * v[3]
                 + (-s * s * v[j]) * (N - 1) + (e * n[j]) * (M - 1)
    BY <1>10 DEF TurnedEntry
  <2> QED
    BY <1>1, <1>2, <2>1
<1> QED
  BY <1>5, <1>7, <1>9, <1>11

\* Two lengths of 1 do not change what they multiply.
Cancelling(a, b, c, N, M) ==
  a \in Int /\ b \in Int /\ c \in Int /\ N \in Int /\ M \in Int /\ Of(N) = 1 /\ Of(M) = 1

LEMMA UnitsCancel ==
  ASSUME ExactArithmetic, NEW a, NEW b, NEW c, NEW N, NEW M, Cancelling(a, b, c, N, M)
  PROVE  Of(a + b * (N - 1) + c * (M - 1)) = Of(a)
<1>1. a \in Int /\ b \in Int /\ c \in Int /\ N \in Int /\ M \in Int /\ Of(N) = 1 /\ Of(M) = 1
  BY DEF Cancelling
<1>2. PICK k \in Int : k = a + b * (N - 1)
  BY <1>1
<1>3. Of(a + b * (N - 1)) = Of(a)
  BY <1>1, UnitCancels
<1>4. Of(k + c * (M - 1)) = Of(k)
  BY <1>1, UnitCancels
<1> QED
  BY <1>2, <1>3, <1>4

LEMMA TurnedEntryCancels ==
  ASSUME ExactArithmetic, NEW n \in [1 .. 3 -> Int], NEW v \in [1 .. 3 -> Int],
         NEW s \in Int, NEW c \in Int, NEW x \in IntMatrix(3), NEW j \in 1 .. 3,
         Of(Dot3(n, n)) = 1, Of(s * s + c * c) = 1
  PROVE  Of(TurnedEntry(n, v, s, c, x, j)) = Of(x[1][j] * v[1] + x[2][j] * v[2] + x[3][j] * v[3])
<1>1. /\ n[1] \in Int /\ n[2] \in Int /\ n[3] \in Int /\ v[1] \in Int /\ v[2] \in Int /\ v[3] \in Int
      /\ n[j] \in Int /\ v[j] \in Int
  OBVIOUS
<1>2. x[1][j] \in Int /\ x[2][j] \in Int /\ x[3][j] \in Int
  BY DEF IntMatrix
<1>3. PICK N \in Int : N = Dot3(n, n)
  BY <1>1 DEF Dot3
<1>4. PICK M \in Int : M = s * s + c * c
  OBVIOUS
<1>5. PICK e \in Int : e = Dot3(n, v)
  BY <1>1 DEF Dot3
<1>6. PICK y \in Int : y = x[1][j] * v[1] + x[2][j] * v[2] + x[3][j] * v[3]
  BY <1>1, <1>2
<1>7. PICK f \in Int : f = -s * s * v[j]
  BY <1>1
<1>8. PICK g \in Int : g = e * n[j]
  BY <1>1
<1>9. TurnedEntry(n, v, s, c, x, j) = y + f * (N - 1) + g * (M - 1)
  BY <1>3, <1>4, <1>5, <1>6, <1>7, <1>8 DEF TurnedEntry
<1>10. Cancelling(y, f, g, N, M)
  BY <1>3, <1>4 DEF Cancelling
<1> QED
  BY <1>6, <1>9, <1>10, UnitsCancel

LEMMA OfSquares ==
  ASSUME ExactArithmetic, NEW s \in Int, NEW c \in Int
  PROVE  /\ Of(c) \otimes Of(c) \ominus Of(s) \otimes Of(s) = Of(c * c - s * s)
         /\ Of(s) \otimes Of(s) \oplus Of(c) \otimes Of(c) = Of(s * s + c * c)
         /\ c * c - s * s \in Int /\ s * s + c * c \in Int
<1>1. c * c - s * s \in Int /\ s * s + c * c \in Int
  OBVIOUS
<1> QED
  BY <1>1, OfSum2

\* The quaternion of half an angle.
LEMMA OfHalf ==
  ASSUME ExactArithmetic, NEW angle \in Scalar \X Scalar, NEW n \in VectorOf(3),
         NEW t \in Int, NEW side, side \otimes angle[1] = Of(t)
  PROVE  \E x \in [1 .. 4 -> Int] :
           IsHalf(angle[2], t, n, x) /\ Represents(4, x, QuatAt(Half(angle, n, side)))
<1>1. PICK a \in Int, b \in Int, d \in Int :
        /\ n[1] = Of(a) /\ n[2] = Of(b) /\ n[3] = Of(d) /\ a = n[1] /\ b = n[2] /\ d = n[3]
  BY ThreeScalars
<1>2. PICK c \in Int : c = angle[2] /\ angle[2] = Of(c)
  BY OfIsExact
<1>3. PICK p \in Int : p = a * t /\ Of(a) \otimes Of(t) = Of(p)
  BY OfProduct
<1>4. PICK q \in Int : q = b * t /\ Of(b) \otimes Of(t) = Of(q)
  BY OfProduct
<1>5. PICK r \in Int : r = d * t /\ Of(d) \otimes Of(t) = Of(r)
  BY OfProduct
<1>6. DOMAIN n = 1 .. 3 /\ Len(n) = 3
  BY VectorParts
<1>7. Times(n, Of(t)) = [i \in 1 .. 3 |-> n[i] \otimes Of(t)]
  BY <1>6 DEF Times, VecOp, Filled, \otimes
<1>8. QuatAt(Half(angle, n, side)) = <<Of(c), Of(p), Of(q), Of(r)>>
  <2> DEFINE w == Times(n, Of(t))
  <2>1. w[1] = Of(p) /\ w[2] = Of(q) /\ w[3] = Of(r)
    BY <1>1, <1>3, <1>4, <1>5, <1>7
  <2>2. Half(angle, n, side) = Quaternion(angle[2], w[1], w[2], w[3])
    BY DEF Half
  <2> HIDE DEF w
  <2> QED
    BY <1>2, <2>1, <2>2 DEF Quaternion, QuatAt
<1>9. PICK x \in [1 .. 4 -> Int] : /\ x[1] = c /\ x[2] = p /\ x[3] = q /\ x[4] = r
                                   /\ Represents(4, x, <<Of(c), Of(p), Of(q), Of(r)>>)
  BY FourIs
<1> QED
  BY <1>1, <1>2, <1>3, <1>4, <1>5, <1>8, <1>9 DEF IsHalf

LEMMA OfPure ==
  ASSUME ExactArithmetic, NEW v \in VectorOf(3)
  PROVE  \E w \in [1 .. 4 -> Int] : IsPure(v, w) /\ Represents(4, w, QuatAt(Pure(v)))
<1>1. PICK p \in Int, q \in Int, r \in Int :
        /\ v[1] = Of(p) /\ v[2] = Of(q) /\ v[3] = Of(r) /\ p = v[1] /\ q = v[2] /\ r = v[3]
  BY ThreeScalars
<1>2. Of(0) = 0
  BY OfIsExact
<1>3. QuatAt(Pure(v)) = <<Of(0), Of(p), Of(q), Of(r)>>
  BY <1>1, <1>2 DEF Pure, Quaternion, QuatAt
<1>4. PICK w \in [1 .. 4 -> Int] : /\ w[1] = 0 /\ w[2] = p /\ w[3] = q /\ w[4] = r
                                   /\ Represents(4, w, <<Of(0), Of(p), Of(q), Of(r)>>)
  BY FourIs
<1> QED
  BY <1>1, <1>3, <1>4 DEF IsPure

LEMMA OfRotationOf ==
  ASSUME ExactArithmetic, NEW s \in Int, NEW c \in Int, NEW n \in VectorOf(3)
  PROVE  /\ \E x \in IntMatrix(3) : /\ IsRotation(s, c, n[1], n[2], n[3], x)
                                    /\ RepresentsAll(3, x, Rotation(Of(s), Of(c), n))
         /\ DOMAIN Rotation(Of(s), Of(c), n) = 1 .. 3 /\ Rows(Rotation(Of(s), Of(c), n)) = 3
<1>1. PICK a \in Int, b \in Int, d \in Int :
        /\ n[1] = Of(a) /\ n[2] = Of(b) /\ n[3] = Of(d) /\ a = n[1] /\ b = n[2] /\ d = n[3]
  BY ThreeScalars
<1>2. /\ \E x \in IntMatrix(3) : /\ IsRotation(s, c, a, b, d, x)
                                 /\ RepresentsAll(3, x, Rotation(Of(s), Of(c), n))
      /\ DOMAIN Rotation(Of(s), Of(c), n) = 1 .. 3 /\ Rows(Rotation(Of(s), Of(c), n)) = 3
  BY <1>1, OfRotation
<1> QED
  BY <1>1, <1>2

LEMMA HalfTurnsTwice ==
  ASSUME ExactArithmetic, NEW angle \in Scalar \X Scalar, NEW n \in VectorOf(3), NEW v \in VectorOf(3),
         dot(n, n) = 1, angle[1] \otimes angle[1] \oplus angle[2] \otimes angle[2] = 1
  PROVE  LET turned == QuatTimes(QuatTimes(Half(angle, n, 1), Pure(v)), Half(angle, n, Neg(1)))
             s == (1 \oplus 1) \otimes angle[1] \otimes angle[2]
             c == angle[2] \otimes angle[2] \ominus angle[1] \otimes angle[1]
         IN  turned = Pure(MatVec(Rotation(s, c, n), v))
<1>1. /\ Represents(3, n, n) /\ n \in [1 .. 3 -> Int] /\ Len(n) = 3
      /\ Represents(3, v, v) /\ v \in [1 .. 3 -> Int]
  BY ScalarsRepresent, VectorParts DEF Represents
<1>2. PICK s \in Int, c \in Int : s = angle[1] /\ c = angle[2] /\ angle[1] = Of(s) /\ angle[2] = Of(c)
  <2>1. angle[1] \in Scalar /\ angle[2] \in Scalar
    OBVIOUS
  <2>2. \A z \in Scalar : z \in Int /\ z = Of(z)
    BY OfIsExact
  <2> QED
    BY <2>1, <2>2
<1>3. Of(0) = 0 /\ Of(1) = 1
  BY OfIsExact
<1>4. (1 \oplus 1) \otimes angle[1] \otimes angle[2] = Of(2 * s * c) /\ 2 * s * c \in Int
  <2>1. 1 \oplus 1 = Of(2)
    <3>1. Of(1) \oplus Of(1) = Of(1 + 1) /\ 1 + 1 = 2
      BY OfIsExact
    <3> QED
      BY <1>3, <3>1
  <2>2. PICK z \in Int : z = 2 * s /\ Of(2) \otimes Of(s) = Of(z)
    BY OfProduct
  <2>3. PICK y \in Int : y = z * c /\ Of(z) \otimes Of(c) = Of(y)
    BY OfProduct
  <2> QED
    BY <1>2, <2>1, <2>2, <2>3
<1>5. /\ angle[2] \otimes angle[2] \ominus angle[1] \otimes angle[1] = Of(c * c - s * s)
      /\ Of(s * s + c * c) = 1 /\ s * s + c * c \in Int /\ c * c - s * s \in Int
  <2>1. /\ Of(c) \otimes Of(c) \ominus Of(s) \otimes Of(s) = Of(c * c - s * s)
        /\ Of(s) \otimes Of(s) \oplus Of(c) \otimes Of(c) = Of(s * s + c * c)
        /\ c * c - s * s \in Int /\ s * s + c * c \in Int
    BY OfSquares
  <2> QED
    BY <1>2, <2>1
<1>6. Of(Dot3(n, n)) = 1 /\ Dot3(n, n) \in Int
  BY <1>1, OfDot3
<1>7. PICK h \in [1 .. 4 -> Int] : IsHalf(c, s, n, h) /\ Represents(4, h, QuatAt(Half(angle, n, 1)))
  <2>1. 1 \otimes angle[1] = Of(s)
    <3>1. Of(1) \otimes Of(s) = Of(1 * s) /\ 1 * s = s
      BY OfProduct
    <3> QED
      BY <1>2, <1>3, <3>1
  <2> QED
    BY <1>2, <2>1, OfHalf
<1>8. PICK k \in [1 .. 4 -> Int] : IsHalf(c, -s, n, k) /\ Represents(4, k, QuatAt(Half(angle, n, Neg(1))))
  <2>1. PICK o \in Int : o = -1 /\ Neg(1) = Of(o)
    <3>1. Neg(Of(1)) = Of(-1)
      BY OfIsExact
    <3> QED
      BY <1>3, <3>1
  <2>2. PICK y \in Int : y = -s /\ Of(o) \otimes Of(s) = Of(y)
    <3>1. Of(o) \otimes Of(s) = Of(o * s) /\ o * s \in Int
      BY OfProduct
    <3>2. o * s = -s
      BY <2>1
    <3> QED
      BY <3>1, <3>2
  <2>3. Neg(1) \otimes angle[1] = Of(y)
    BY <1>2, <2>1, <2>2
  <2>4. \E x \in [1 .. 4 -> Int] :
          IsHalf(angle[2], y, n, x) /\ Represents(4, x, QuatAt(Half(angle, n, Neg(1))))
    BY <2>3, OfHalf
  <2> QED
    BY <1>2, <2>2, <2>4
<1>9. PICK w \in [1 .. 4 -> Int] : IsPure(v, w) /\ Represents(4, w, QuatAt(Pure(v)))
  BY OfPure
<1>10. PICK t \in [1 .. 4 -> Int] :
         IsQuatProduct(h, w, t) /\ Represents(4, t, QuatAt(QuatTimes(Half(angle, n, 1), Pure(v))))
  BY <1>7, <1>9, OfQuatTimes
<1> DEFINE turned == QuatTimes(QuatTimes(Half(angle, n, 1), Pure(v)), Half(angle, n, Neg(1)))
           R == Rotation(Of(2 * s * c), Of(c * c - s * s), n)
           m == MatVec(R, v)
<1>11. PICK u \in [1 .. 4 -> Int] : IsQuatProduct(t, k, u) /\ Represents(4, u, QuatAt(turned))
  BY <1>8, <1>10, OfQuatTimes
<1>12. PICK x \in IntMatrix(3) : /\ IsRotation(2 * s * c, c * c - s * s, n[1], n[2], n[3], x)
                                 /\ RepresentsAll(3, x, R) /\ DOMAIN R = 1 .. 3 /\ Rows(R) = 3
  <2>1. PICK S \in Int, C \in Int : S = 2 * s * c /\ C = c * c - s * s
    BY <1>4, <1>5
  <2> QED
    BY <2>1, OfRotationOf
<1> HIDE DEF R
<1>13. Represents(3, IntMatVec(3, x, v), m)
  <2>1. 3 \in 3 .. 4
    OBVIOUS
  <2> QED
    BY <1>1, <1>12, <2>1, OfMatVec
<1> HIDE DEF m, turned
<1>14. ASSUME NEW j \in 1 .. 3
       PROVE  /\ x[1][j] * v[1] + x[2][j] * v[2] + x[3][j] * v[3] \in Int
              /\ m[j] = Of(x[1][j] * v[1] + x[2][j] * v[2] + x[3][j] * v[3])
  <2> DEFINE y == IntMatVec(3, x, v)
  <2>1. y[j] = x[1][j] * v[1] + x[2][j] * v[2] + x[3][j] * v[3]
    BY DEF IntMatVec, IntDot, IntRow, Dot3
  <2>2. y[j] \in Int /\ m[j] = Of(y[j])
    BY <1>13 DEF Represents
  <2> QED
    BY <2>1, <2>2
<1>15. /\ u[1] = 0
       /\ u[2] = TurnedEntry(n, v, s, c, x, 1)
       /\ u[3] = TurnedEntry(n, v, s, c, x, 2)
       /\ u[4] = TurnedEntry(n, v, s, c, x, 3)
  BY <1>1, <1>7, <1>8, <1>9, <1>10, <1>11, <1>12, TurnIdentities
<1>16. ASSUME NEW j \in 1 .. 3 PROVE Of(TurnedEntry(n, v, s, c, x, j)) = m[j]
  <2>1. Of(TurnedEntry(n, v, s, c, x, j)) = Of(x[1][j] * v[1] + x[2][j] * v[2] + x[3][j] * v[3])
    <3>1. Of(s * s + c * c) = 1 /\ Of(Dot3(n, n)) = 1
      BY <1>5, <1>6
    <3>2. n \in [1 .. 3 -> Int] /\ v \in [1 .. 3 -> Int]
      BY <1>1
    <3> QED
      BY <3>1, <3>2, TurnedEntryCancels, ZenonT(30)
  <2> QED
    BY <1>14, <2>1
<1>17. turned = Pure(m)
  <2>1. /\ QuatAt(turned)[1] = Of(u[1]) /\ QuatAt(turned)[2] = Of(u[2])
        /\ QuatAt(turned)[3] = Of(u[3]) /\ QuatAt(turned)[4] = Of(u[4])
    BY <1>11 DEF Represents
  <2>2. Of(u[2]) = m[1] /\ Of(u[3]) = m[2] /\ Of(u[4]) = m[3]
    BY <1>15, <1>16
  <2>3. turned.w = 0 /\ turned.x = m[1] /\ turned.y = m[2] /\ turned.z = m[3]
    BY <1>3, <1>15, <2>1, <2>2 DEF QuatAt
  <2>4. turned = Quaternion(turned.w, turned.x, turned.y, turned.z)
    BY DEF turned, QuatTimes, Quaternion
  <2> QED
    BY <2>3, <2>4 DEF Pure
<1> QED
  BY <1>4, <1>5, <1>17 DEF turned, m, R

LEMMA QuaternionsObey ==
  ASSUME ExactArithmetic, UnitAxes, UnitAngles, Typed
  PROVE  QuaternionsTurn
<1> SUFFICES ASSUME kind = "quaternion"
             PROVE  QuaternionsTurn
  BY DEF QuaternionsTurn
<1>1. PICK g \in QuaternionSet : special = g
  BY DEF Typed
<1>2. \A q \in SomeQuaternions : q \in QuaternionSet
  BY OperandsAssumption
<1>3. ASSUME NEW q \in SomeQuaternions
      PROVE  /\ Norm(QuatTimes(g, q)) = Norm(g) \otimes Norm(q)
             /\ \A p \in SomeQuaternions :
                  QuatTimes(QuatPlus(g, q), p) = QuatPlus(QuatTimes(g, p), QuatTimes(q, p))
  BY <1>2, NormMultiplies, QuatDistributes
<1>4. PICK v \in VectorOf(3) : v = <<g.x, g.y, g.z>>
  BY Tuple3Closed DEF QuaternionSet
<1>5. ASSUME NEW angle \in Angles, NEW n \in Axes
      PROVE  LET turned == QuatTimes(QuatTimes(Half(angle, n, 1), Pure(v)), Half(angle, n, Neg(1)))
                 s == (1 \oplus 1) \otimes angle[1] \otimes angle[2]
                 c == angle[2] \otimes angle[2] \ominus angle[1] \otimes angle[1]
             IN  turned = Pure(MatVec(Rotation(s, c, n), v))
  <2>1. angle \in Scalar \X Scalar /\ n \in VectorOf(3)
    BY OperandsAssumption
  <2>2. dot(n, n) = 1 /\ angle[1] \otimes angle[1] \oplus angle[2] \otimes angle[2] = 1
    BY DEF UnitAxes, UnitAngles
  <2> QED
    BY <2>1, <2>2, HalfTurnsTwice
<1> QED
  BY <1>1, <1>3, <1>4, <1>5 DEF QuaternionsTurn

\* In an exact arithmetic, with axes of length 1 and angles that are a sine and
\* a cosine, the product of quaternions multiplies the lengths, distributes,
\* and turns a vector about an axis as rotate does by twice the angle.
THEOREM QuaternionsTurnHolds ==
  ASSUME ExactArithmetic, UnitAxes, UnitAngles
  PROVE  Spec => []QuaternionsTurn
<1>1. Typed => QuaternionsTurn
  BY QuaternionsObey
<1> QED
  BY <1>1, TypesCorrect, PTL

-----------------------------------------------------------------------------
(* Transformations, in the components and in the integers. *)

IntTimes(n, x, t) == [i \in 1 .. n |-> x[i] * t]
IntPlus(n, x, y) == [i \in 1 .. n |-> x[i] + y[i]]

LEMMA OfTimes ==
  ASSUME ExactArithmetic, NEW n \in Nat, NEW v \in VectorOf(n), NEW x, Represents(n, x, v), NEW t \in Int
  PROVE  Represents(n, IntTimes(n, x, t), Times(v, Of(t)))
<1>1. DOMAIN v = 1 .. n /\ Len(v) = n
  BY VectorParts
<1>2. Times(v, Of(t)) = [i \in 1 .. n |-> v[i] \otimes Of(t)]
  BY <1>1 DEF Times, VecOp, Filled, \otimes
<1>3. ASSUME NEW i \in 1 .. n PROVE x[i] * t \in Int /\ v[i] \otimes Of(t) = Of(x[i] * t)
  <2>1. PICK a \in Int : a = x[i] /\ v[i] = Of(a)
    BY DEF Represents
  <2>2. Of(a) \otimes Of(t) = Of(a * t) /\ a * t \in Int
    BY OfProduct
  <2> QED
    BY <2>1, <2>2
<1> QED
  BY <1>2, <1>3 DEF Represents, IntTimes

LEMMA OfPlus ==
  ASSUME ExactArithmetic, NEW n \in Nat, NEW v \in VectorOf(n), NEW u,
         NEW x, NEW y, Represents(n, x, v), Represents(n, y, u)
  PROVE  Represents(n, IntPlus(n, x, y), Plus(v, u))
<1>1. DOMAIN v = 1 .. n
  BY VectorParts
<1>2. Plus(v, u) = [i \in 1 .. n |-> v[i] \oplus u[i]]
  BY <1>1 DEF Plus, VecOp, \oplus
<1>3. ASSUME NEW i \in 1 .. n PROVE x[i] + y[i] \in Int /\ v[i] \oplus u[i] = Of(x[i] + y[i])
  <2>1. PICK a \in Int, b \in Int : a = x[i] /\ b = y[i] /\ v[i] = Of(a) /\ u[i] = Of(b)
    BY DEF Represents
  <2>2. Of(a) \oplus Of(b) = Of(a + b) /\ a + b \in Int
    BY OfProduct
  <2> QED
    BY <2>1, <2>2
<1> QED
  BY <1>2, <1>3 DEF Represents, IntPlus

Four4(x1, x2, x3, x4) == [i \in 1 .. 4 |-> IF i = 1 THEN x1 ELSE IF i = 2 THEN x2 ELSE IF i = 3 THEN x3 ELSE x4]

LEMMA FourColumns ==
  ASSUME NEW x1, NEW x2, NEW x3, NEW x4, NEW v1, NEW v2, NEW v3, NEW v4,
         Represents(4, x1, v1), Represents(4, x2, v2), Represents(4, x3, v3), Represents(4, x4, v4)
  PROVE  /\ RepresentsAll(4, Four4(x1, x2, x3, x4), <<v1, v2, v3, v4>>)
         /\ Four4(x1, x2, x3, x4)[1] = x1 /\ Four4(x1, x2, x3, x4)[2] = x2
         /\ Four4(x1, x2, x3, x4)[3] = x3 /\ Four4(x1, x2, x3, x4)[4] = x4
<1>1. \A i \in 1 .. 4 : i = 1 \/ i = 2 \/ i = 3 \/ i = 4
  OBVIOUS
<1> DEFINE x == Four4(x1, x2, x3, x4)
           m == <<v1, v2, v3, v4>>
<1>2. x[1] = x1 /\ x[2] = x2 /\ x[3] = x3 /\ x[4] = x4
  BY DEF Four4
<1>3. m[1] = v1 /\ m[2] = v2 /\ m[3] = v3 /\ m[4] = v4
  OBVIOUS
<1> HIDE DEF x, m
<1>4. /\ Represents(4, x[1], m[1]) /\ Represents(4, x[2], m[2])
      /\ Represents(4, x[3], m[3]) /\ Represents(4, x[4], m[4])
  BY <1>2, <1>3
<1>5. RepresentsAll(4, x, m)
  BY <1>1, <1>4 DEF RepresentsAll
<1> QED
  BY <1>2, <1>5 DEF x, m

LEMMA Appended ==
  ASSUME NEW w \in VectorOf(3), NEW s \in Scalar
  PROVE  Append(w, s) = <<w[1], w[2], w[3], s>> /\ Append(w, s) \in VectorOf(4)
<1>1. PICK a \in Scalar, b \in Scalar, c \in Scalar : a = w[1] /\ b = w[2] /\ c = w[3]
  BY DEF VectorOf
<1>2. w = <<a, b, c>>
  BY <1>1 DEF VectorOf
<1>3. Append(<<a, b, c>>, s) = <<a, b, c, s>>
  <2> DEFINE t == Append(<<a, b, c>>, s)
  <2>1. t \in Seq(Scalar) /\ Len(t) = 4
    OBVIOUS
  <2>2. t[1] = a /\ t[2] = b /\ t[3] = c /\ t[4] = s
    OBVIOUS
  <2> HIDE DEF t
  <2>3. t = <<a, b, c, s>>
    BY <2>1, <2>2
  <2> QED
    BY <2>3 DEF t
<1>4. <<a, b, c, s>> \in VectorOf(4)
  BY Tuple4Closed
<1> QED
  BY <1>1, <1>2, <1>3, <1>4

\* What is added to the columns of a matrix may as well be added to the point:
\* the two integer forms of a product with a vector.
LEMMA Entry4 ==
  ASSUME NEW x, NEW y, NEW j \in 1 .. 4
  PROVE  IntMatVec(4, x, y)[j] = x[1][j] * y[1] + x[2][j] * y[2] + x[3][j] * y[3] + x[4][j] * y[4]
BY DEF IntMatVec, IntDot, IntRow, Dot4

LEMMA SameProduct ==
  ASSUME ExactArithmetic, NEW g \in MatrixOf(4, 4), NEW m \in MatrixOf(4, 4),
         NEW p \in VectorOf(4), NEW q \in VectorOf(4),
         NEW y, NEW z, RepresentsAll(4, y, m), Represents(4, z, q),
         \A j \in 1 .. 4 : y[1][j] * p[1] + y[2][j] * p[2] + y[3][j] * p[3] + y[4][j] * p[4]
                           = g[1][j] * z[1] + g[2][j] * z[2] + g[3][j] * z[3] + g[4][j] * z[4]
  PROVE  MatVec(m, p) = MatVec(g, q)
<1>0. 4 \in 3 .. 4 /\ 4 \in Nat
  OBVIOUS
<1>1. RepresentsAll(4, g, g) /\ Represents(4, p, p)
  BY <1>0, MatrixRepresents, ScalarsRepresent
<1>2. DOMAIN g = 1 .. 4 /\ Rows(g) = 4 /\ DOMAIN m = 1 .. 4 /\ Rows(m) = 4
  BY MatricesClosed
<1>3. Represents(4, IntMatVec(4, y, p), MatVec(m, p))
  BY <1>0, <1>1, <1>2, OfMatVec
<1>4. Represents(4, IntMatVec(4, g, z), MatVec(g, q))
  BY <1>0, <1>1, <1>2, OfMatVec
<1>5. \A j \in 1 .. 4 : IntMatVec(4, y, p)[j] = IntMatVec(4, g, z)[j]
  BY Entry4
<1>6. IntMatVec(4, y, p) = IntMatVec(4, g, z)
  BY <1>5 DEF IntMatVec
<1>7. MatVec(m, p) \in [1 .. 4 -> Scalar] /\ MatVec(g, q) \in [1 .. 4 -> Scalar]
  BY ProductsClosed DEF VectorOf
<1> QED
  BY <1>3, <1>4, <1>6, <1>7, SameVector

LEMMA ColumnParts ==
  ASSUME ExactArithmetic, NEW g \in MatrixOf(4, 4)
  PROVE  /\ g[1] \in VectorOf(4) /\ g[2] \in VectorOf(4) /\ g[3] \in VectorOf(4) /\ g[4] \in VectorOf(4)
         /\ Represents(4, g[1], g[1]) /\ Represents(4, g[2], g[2])
         /\ Represents(4, g[3], g[3]) /\ Represents(4, g[4], g[4])
<1>1. g[1] \in VectorOf(4) /\ g[2] \in VectorOf(4) /\ g[3] \in VectorOf(4) /\ g[4] \in VectorOf(4)
  BY MatricesClosed
<1> QED
  BY <1>1, ScalarsRepresent

\* A sum of the first three columns.
IntCombined(g, a, b, d) == IntPlus(4, IntPlus(4, IntTimes(4, g[1], a), IntTimes(4, g[2], b)), IntTimes(4, g[3], d))

LEMMA OfCombined ==
  ASSUME ExactArithmetic, NEW g \in MatrixOf(4, 4), NEW a \in Int, NEW b \in Int, NEW d \in Int
  PROVE  LET sum == Plus(Plus(Times(g[1], Of(a)), Times(g[2], Of(b))), Times(g[3], Of(d)))
         IN  Represents(4, IntCombined(g, a, b, d), sum) /\ sum \in VectorOf(4)
<1>1. 4 \in Nat /\ Of(a) \in Scalar /\ Of(b) \in Scalar /\ Of(d) \in Scalar
  BY OfIsExact
<1>2. PICK u1 \in VectorOf(4) : u1 = Times(g[1], Of(a)) /\ Represents(4, IntTimes(4, g[1], a), u1)
  BY <1>1, ColumnParts, TimesClosed, OfTimes
<1>3. PICK u2 \in VectorOf(4) : u2 = Times(g[2], Of(b)) /\ Represents(4, IntTimes(4, g[2], b), u2)
  BY <1>1, ColumnParts, TimesClosed, OfTimes
<1>4. PICK u3 \in VectorOf(4) : u3 = Times(g[3], Of(d)) /\ Represents(4, IntTimes(4, g[3], d), u3)
  BY <1>1, ColumnParts, TimesClosed, OfTimes
<1>5. PICK w \in VectorOf(4) :
        /\ w = Plus(u1, u2)
        /\ Represents(4, IntPlus(4, IntTimes(4, g[1], a), IntTimes(4, g[2], b)), w)
  BY <1>1, <1>2, <1>3, SumClosed, OfPlus
<1>6. Plus(w, u3) \in VectorOf(4) /\ Represents(4, IntCombined(g, a, b, d), Plus(w, u3))
  BY <1>1, <1>4, <1>5, SumClosed, OfPlus DEF IntCombined
<1> QED
  BY <1>2, <1>3, <1>4, <1>5, <1>6

LEMMA CombinedEntry ==
  ASSUME NEW g, NEW a, NEW b, NEW d, NEW j \in 1 .. 4
  PROVE  IntCombined(g, a, b, d)[j] = g[1][j] * a + g[2][j] * b + g[3][j] * d
BY DEF IntCombined, IntPlus, IntTimes

LEMMA FourScalars ==
  ASSUME ExactArithmetic, NEW p \in VectorOf(4)
  PROVE  \E a \in Int, b \in Int, c \in Int, d \in Int :
           /\ p[1] = a /\ p[2] = b /\ p[3] = c /\ p[4] = d
           /\ a = Of(a) /\ b = Of(b) /\ c = Of(c) /\ d = Of(d)
<1>1. p[1] \in Scalar /\ p[2] \in Scalar /\ p[3] \in Scalar /\ p[4] \in Scalar
  BY DEF VectorOf
<1>2. \A s \in Scalar : s \in Int /\ s = Of(s)
  BY OfIsExact
<1> QED
  BY <1>1, <1>2

LEMMA TranslateMoves ==
  ASSUME ExactArithmetic, NEW g \in MatrixOf(4, 4), NEW p \in VectorOf(4), NEW v \in VectorOf(3)
  PROVE  MatVec(translate(g, v), p) = MatVec(g, Along(v, p))
<1>1. PICK a \in Int, b \in Int, d \in Int :
        /\ v[1] = Of(a) /\ v[2] = Of(b) /\ v[3] = Of(d) /\ a = v[1] /\ b = v[2] /\ d = v[3]
  BY ThreeScalars
<1>2. PICK p1 \in Int, p2 \in Int, p3 \in Int, p4 \in Int :
        /\ p[1] = p1 /\ p[2] = p2 /\ p[3] = p3 /\ p[4] = p4
        /\ p1 = Of(p1) /\ p2 = Of(p2) /\ p3 = Of(p3) /\ p4 = Of(p4)
  BY FourScalars
<1>3. 4 \in Nat /\ 3 \in Nat /\ Of(0) = 0 /\ 0 \in Scalar
  BY OfIsExact, ScalarsClosed
<1>4. translate(g, v) \in MatrixOf(4, 4)
  BY TransformsClosed
<1> DEFINE sum == Plus(Plus(Times(g[1], Of(a)), Times(g[2], Of(b))), Times(g[3], Of(d)))
           moved == IntPlus(4, IntCombined(g, a, b, d), g[4])
           y == Four4(g[1], g[2], g[3], moved)
<1>5. Represents(4, moved, Plus(sum, g[4]))
  <2>1. Represents(4, IntCombined(g, a, b, d), sum) /\ sum \in VectorOf(4)
    BY OfCombined
  <2> HIDE DEF sum
  <2> QED
    BY <1>3, <2>1, ColumnParts, OfPlus
<1>6. translate(g, v) = <<g[1], g[2], g[3], Plus(sum, g[4])>>
  BY <1>1 DEF translate
<1> HIDE DEF sum
<1>7. /\ RepresentsAll(4, y, translate(g, v))
      /\ y[1] = g[1] /\ y[2] = g[2] /\ y[3] = g[3] /\ y[4] = moved
  <2>1. /\ Represents(4, g[1], g[1]) /\ Represents(4, g[2], g[2]) /\ Represents(4, g[3], g[3])
    BY ColumnParts
  <2> HIDE DEF moved
  <2>2. Represents(4, moved, Plus(sum, g[4]))
    BY <1>5
  <2>3. /\ RepresentsAll(4, y, <<g[1], g[2], g[3], Plus(sum, g[4])>>)
        /\ y[1] = g[1] /\ y[2] = g[2] /\ y[3] = g[3] /\ y[4] = moved
    BY <2>1, <2>2, FourColumns
  <2> HIDE DEF y
  <2> QED
    BY <1>6, <2>3
<1>8. \A j \in 1 .. 4 : moved[j] = g[1][j] * a + g[2][j] * b + g[3][j] * d + g[4][j]
  BY CombinedEntry DEF IntPlus
<1> HIDE DEF y, moved
<1>9. PICK z \in [1 .. 4 -> Int] : /\ z[1] = p1 + a * p4 /\ z[2] = p2 + b * p4 /\ z[3] = p3 + d * p4 /\ z[4] = p4
                                   /\ Represents(4, z, Along(v, p)) /\ Along(v, p) \in VectorOf(4)
  <2>1. PICK w \in VectorOf(3) : w = Times(v, p[4]) /\ Represents(3, IntTimes(3, v, p4), w)
    <3>1. Represents(3, v, v)
      BY <1>3, ScalarsRepresent
    <3>2. p[4] = Of(p4) /\ Of(p4) \in Scalar
      BY <1>2, OfIsExact
    <3> QED
      BY <1>3, <3>1, <3>2, TimesClosed, OfTimes
  <2>2. PICK w1 \in Int, w2 \in Int, w3 \in Int :
          /\ w1 = a * p4 /\ w2 = b * p4 /\ w3 = d * p4
          /\ w[1] = Of(w1) /\ w[2] = Of(w2) /\ w[3] = Of(w3)
    BY <1>1, <2>1 DEF Represents, IntTimes
  <2>3. Append(w, 0) = <<Of(w1), Of(w2), Of(w3), Of(0)>> /\ Append(w, 0) \in VectorOf(4)
    BY <1>3, <2>2, Appended
  <2>4. PICK x \in [1 .. 4 -> Int] : /\ x[1] = w1 /\ x[2] = w2 /\ x[3] = w3 /\ x[4] = 0
                                     /\ Represents(4, x, <<Of(w1), Of(w2), Of(w3), Of(0)>>)
    <3>1. 0 \in Int
      OBVIOUS
    <3> QED
      BY <3>1, FourIs
  <2>5. PICK u \in VectorOf(4) : u = Append(w, 0) /\ Represents(4, x, u)
    BY <2>3, <2>4
  <2>6. Along(v, p) = Plus(p, u)
    BY <2>1, <2>5 DEF Along
  <2>7. Represents(4, p, p)
    BY <1>3, ScalarsRepresent
  <2>8. Represents(4, IntPlus(4, p, x), Plus(p, u)) /\ Plus(p, u) \in VectorOf(4)
    BY <1>3, <2>5, <2>7, OfPlus, SumClosed
  <2> DEFINE z == IntPlus(4, p, x)
  <2>9. /\ z[1] = p1 + w1 /\ z[2] = p2 + w2 /\ z[3] = p3 + w3 /\ z[4] = p4 + 0
    BY <1>2, <2>4 DEF IntPlus
  <2>10. z \in [1 .. 4 -> Int] /\ Represents(4, z, Along(v, p)) /\ Along(v, p) \in VectorOf(4)
    BY <2>6, <2>8 DEF Represents
  <2> HIDE DEF z
  <2> QED
    BY <2>2, <2>9, <2>10
<1>10. ASSUME NEW j \in 1 .. 4
       PROVE  y[1][j] * p[1] + y[2][j] * p[2] + y[3][j] * p[3] + y[4][j] * p[4]
              = g[1][j] * z[1] + g[2][j] * z[2] + g[3][j] * z[3] + g[4][j] * z[4]
  <2>1. PICK g1 \in Int, g2 \in Int, g3 \in Int, g4 \in Int :
          g[1][j] = g1 /\ g[2][j] = g2 /\ g[3][j] = g3 /\ g[4][j] = g4
    BY ColumnParts DEF Represents
  <2>2. y[1][j] = g1 /\ y[2][j] = g2 /\ y[3][j] = g3 /\ y[4][j] = g1 * a + g2 * b + g3 * d + g4
    BY <1>7, <1>8, <2>1
  <2>3. g1 * p1 + g2 * p2 + g3 * p3 + (g1 * a + g2 * b + g3 * d + g4) * p4
          = g1 * (p1 + a * p4) + g2 * (p2 + b * p4) + g3 * (p3 + d * p4) + g4 * p4
    OBVIOUS
  <2> QED
    BY <1>2, <1>9, <2>1, <2>2, <2>3
<1> QED
  BY <1>4, <1>7, <1>9, <1>10, SameProduct

LEMMA ScaleStretches ==
  ASSUME ExactArithmetic, NEW g \in MatrixOf(4, 4), NEW p \in VectorOf(4), NEW v \in VectorOf(3)
  PROVE  MatVec(scale(g, v), p) = MatVec(g, Stretched(v, p))
<1>1. PICK a \in Int, b \in Int, d \in Int :
        /\ v[1] = Of(a) /\ v[2] = Of(b) /\ v[3] = Of(d) /\ a = v[1] /\ b = v[2] /\ d = v[3]
  BY ThreeScalars
<1>2. PICK p1 \in Int, p2 \in Int, p3 \in Int, p4 \in Int :
        /\ p[1] = p1 /\ p[2] = p2 /\ p[3] = p3 /\ p[4] = p4
        /\ p1 = Of(p1) /\ p2 = Of(p2) /\ p3 = Of(p3) /\ p4 = Of(p4)
  BY FourScalars
<1>3. 4 \in Nat /\ Of(1) = 1 /\ 1 \in Scalar
  BY OfIsExact, ScalarsClosed
<1>4. scale(g, v) \in MatrixOf(4, 4)
  BY TransformsClosed
<1> DEFINE y == Four4(IntTimes(4, g[1], a), IntTimes(4, g[2], b), IntTimes(4, g[3], d), g[4])
<1>5. /\ RepresentsAll(4, y, scale(g, v))
      /\ y[1] = IntTimes(4, g[1], a) /\ y[2] = IntTimes(4, g[2], b)
      /\ y[3] = IntTimes(4, g[3], d) /\ y[4] = g[4]
  <2>1. /\ Represents(4, IntTimes(4, g[1], a), Times(g[1], v[1]))
        /\ Represents(4, IntTimes(4, g[2], b), Times(g[2], v[2]))
        /\ Represents(4, IntTimes(4, g[3], d), Times(g[3], v[3]))
    BY <1>1, <1>3, ColumnParts, OfTimes
  <2>2. scale(g, v) = <<Times(g[1], v[1]), Times(g[2], v[2]), Times(g[3], v[3]), g[4]>>
    BY DEF scale
  <2> QED
    BY <2>1, <2>2, ColumnParts, FourColumns
<1> HIDE DEF y
<1>6. PICK z \in [1 .. 4 -> Int] : /\ z[1] = p1 * a /\ z[2] = p2 * b /\ z[3] = p3 * d /\ z[4] = p4
                                   /\ Represents(4, z, Stretched(v, p)) /\ Stretched(v, p) \in VectorOf(4)
  <2>1. Append(v, 1) = <<v[1], v[2], v[3], 1>> /\ Append(v, 1) \in VectorOf(4)
    BY <1>3, Appended
  <2>2. PICK u \in VectorOf(4) : u = Append(v, 1) /\ u[1] = Of(a) /\ u[2] = Of(b) /\ u[3] = Of(d) /\ u[4] = Of(1)
    <3>1. PICK u \in VectorOf(4) : u = Append(v, 1)
      BY <2>1
    <3>2. u[1] = v[1] /\ u[2] = v[2] /\ u[3] = v[3] /\ u[4] = 1
      <4>1. PICK x1, x2, x3 : x1 = v[1] /\ x2 = v[2] /\ x3 = v[3]
        OBVIOUS
      <4>2. u = <<x1, x2, x3, 1>>
        BY <2>1, <3>1, <4>1
      <4> QED
        BY <4>1, <4>2
    <3> QED
      BY <1>1, <1>3, <3>1, <3>2
  <2>3. DOMAIN p = 1 .. 4
    BY <1>3, VectorParts
  <2>4. Stretched(v, p) = [i \in 1 .. 4 |-> p[i] \otimes u[i]]
    BY <2>2, <2>3 DEF Stretched, VecOp, \otimes
  <2>5. Stretched(v, p) \in VectorOf(4)
    <3>1. \A i \in 1 .. 4 : p[i] \in Scalar /\ u[i] \in Scalar
      BY DEF VectorOf
    <3>2. \A i \in 1 .. 4 : p[i] \otimes u[i] \in Scalar
      BY <3>1, ScalarsClosed
    <3> QED
      BY <2>4, <3>2 DEF VectorOf
  <2>6. PICK w1 \in Int : w1 = p1 * a /\ Of(p1) \otimes Of(a) = Of(w1)
    BY OfProduct
  <2>7. PICK w2 \in Int : w2 = p2 * b /\ Of(p2) \otimes Of(b) = Of(w2)
    BY OfProduct
  <2>8. PICK w3 \in Int : w3 = p3 * d /\ Of(p3) \otimes Of(d) = Of(w3)
    BY OfProduct
  <2>9. Of(p4) \otimes Of(1) = Of(p4)
    <3>1. Of(p4) \otimes Of(1) = Of(p4 * 1) /\ p4 * 1 = p4
      BY OfProduct
    <3> QED
      BY <3>1
  <2>10. PICK z \in [1 .. 4 -> Int] : /\ z[1] = w1 /\ z[2] = w2 /\ z[3] = w3 /\ z[4] = p4
                                      /\ Represents(4, z, <<Of(w1), Of(w2), Of(w3), Of(p4)>>)
    BY FourIs
  <2>11. Stretched(v, p) = <<Of(w1), Of(w2), Of(w3), Of(p4)>>
    <3>1. Stretched(v, p) = <<p[1] \otimes u[1], p[2] \otimes u[2], p[3] \otimes u[3], p[4] \otimes u[4]>>
      BY <2>4
    <3> QED
      BY <1>2, <2>2, <2>6, <2>7, <2>8, <2>9, <3>1
  <2> QED
    BY <2>5, <2>6, <2>7, <2>8, <2>10, <2>11
<1>7. ASSUME NEW j \in 1 .. 4
      PROVE  y[1][j] * p[1] + y[2][j] * p[2] + y[3][j] * p[3] + y[4][j] * p[4]
             = g[1][j] * z[1] + g[2][j] * z[2] + g[3][j] * z[3] + g[4][j] * z[4]
  <2>1. PICK g1 \in Int, g2 \in Int, g3 \in Int, g4 \in Int :
          g[1][j] = g1 /\ g[2][j] = g2 /\ g[3][j] = g3 /\ g[4][j] = g4
    BY ColumnParts DEF Represents
  <2>2. y[1][j] = g1 * a /\ y[2][j] = g2 * b /\ y[3][j] = g3 * d /\ y[4][j] = g4
    BY <1>5, <2>1 DEF IntTimes
  <2>3. (g1 * a) * p1 + (g2 * b) * p2 + (g3 * d) * p3 + g4 * p4
          = g1 * (p1 * a) + g2 * (p2 * b) + g3 * (p3 * d) + g4 * p4
    OBVIOUS
  <2> QED
    BY <1>2, <1>6, <2>1, <2>2, <2>3
<1> QED
  BY <1>4, <1>5, <1>6, <1>7, SameProduct

\* The components of what Turned returns.
IsTurned(n, p, s, c, z) ==
  /\ z[1] = p[1] * c + (n[2] * p[3] - n[3] * p[2]) * s + n[1] * (Dot3(n, p) * (1 - c))
  /\ z[2] = p[2] * c + (n[3] * p[1] - n[1] * p[3]) * s + n[2] * (Dot3(n, p) * (1 - c))
  /\ z[3] = p[3] * c + (n[1] * p[2] - n[2] * p[1]) * s + n[3] * (Dot3(n, p) * (1 - c))
  /\ z[4] = p[4]

LEMMA FirstThree ==
  ASSUME NEW p \in VectorOf(4)
  PROVE  /\ SubSeq(p, 1, 3) \in VectorOf(3)
         /\ SubSeq(p, 1, 3)[1] = p[1] /\ SubSeq(p, 1, 3)[2] = p[2] /\ SubSeq(p, 1, 3)[3] = p[3]
<1>1. PICK a \in Scalar, b \in Scalar, c \in Scalar, d \in Scalar : p = <<a, b, c, d>>
  <2>1. PICK a \in Scalar, b \in Scalar, c \in Scalar, d \in Scalar : p[1] = a /\ p[2] = b /\ p[3] = c /\ p[4] = d
    BY DEF VectorOf
  <2>2. p = <<a, b, c, d>>
    BY <2>1 DEF VectorOf
  <2> QED
    BY <2>2
<1> DEFINE t == <<a, b, c, d>>
           v == SubSeq(t, 1, 3)
<1>2. t \in Seq(Scalar) /\ Len(t) = 4 /\ t[1] = a /\ t[2] = b /\ t[3] = c /\ t[4] = d
  OBVIOUS
<1> HIDE DEF t
<1>3. v = [i \in 1 .. 3 |-> t[i]]
  BY <1>2
<1> HIDE DEF v
<1>4. v \in [1 .. 3 -> Scalar] /\ v[1] = a /\ v[2] = b /\ v[3] = c
  BY <1>2, <1>3
<1>5. v = SubSeq(p, 1, 3) /\ p[1] = a /\ p[2] = b /\ p[3] = c
  BY <1>1, <1>2 DEF t, v
<1> QED
  BY <1>4, <1>5 DEF VectorOf

LEMMA OfTurned ==
  ASSUME ExactArithmetic, NEW n \in VectorOf(3), NEW p \in VectorOf(4), NEW s \in Int, NEW c \in Int,
         NEW angle, angle[1] = Of(s), angle[2] = Of(c)
  PROVE  /\ \E z \in [1 .. 4 -> Int] : IsTurned(n, p, s, c, z) /\ Represents(4, z, Turned(angle, n, p))
         /\ Turned(angle, n, p) \in VectorOf(4)
<1>0. 3 \in Nat /\ 3 \in 2 .. 4 /\ Of(1) = 1 /\ Of(s) \in Scalar /\ Of(c) \in Scalar
  <2>1. (\A i \in Int : Of(i) \in Scalar) /\ Of(1) = 1
    BY OfIsExact
  <2>2. 3 \in Nat /\ 3 \in 2 .. 4
    OBVIOUS
  <2> QED
    BY <2>1, <2>2
<1>1. PICK v \in VectorOf(3) : v = SubSeq(p, 1, 3) /\ v[1] = p[1] /\ v[2] = p[2] /\ v[3] = p[3]
  BY FirstThree
<1>2. /\ Represents(3, v, v) /\ Represents(3, n, n) /\ Len(n) = 3
      /\ v \in [1 .. 3 -> Int] /\ n \in [1 .. 3 -> Int]
  BY <1>0, ScalarsRepresent, VectorParts DEF Represents
<1>3. PICK w1 \in VectorOf(3) : w1 = Times(v, angle[2]) /\ Represents(3, IntTimes(3, v, c), w1)
  BY <1>0, <1>2, TimesClosed, OfTimes
<1>4. PICK x \in [1 .. 3 -> Int] : IsCross(n, v, x) /\ Represents(3, x, cross(n, v))
  BY <1>2, OfCross
<1>5. cross(n, v) \in VectorOf(3)
  BY <1>0, FunctionsClosed
<1>6. PICK w2 \in VectorOf(3) : w2 = Times(cross(n, v), angle[1]) /\ Represents(3, IntTimes(3, x, s), w2)
  BY <1>0, <1>4, <1>5, TimesClosed, OfTimes
<1>7. PICK f \in Int : f = Dot3(n, v) * (1 - c) /\ dot(n, v) \otimes (1 \ominus angle[2]) = Of(f)
  <2>1. PICK e \in Int : e = Dot3(n, v) /\ dot(n, v) = Of(e)
    BY <1>2, OfDot3
  <2>2. PICK k \in Int : k = 1 - c /\ Of(1) \ominus Of(c) = Of(k)
    BY OfProduct
  <2>3. Of(e) \otimes Of(k) = Of(e * k) /\ e * k \in Int
    BY OfProduct
  <2> QED
    BY <1>0, <2>1, <2>2, <2>3
<1>8. PICK w3 \in VectorOf(3) :
        w3 = Times(n, dot(n, v) \otimes (1 \ominus angle[2])) /\ Represents(3, IntTimes(3, n, f), w3)
  <2>1. Of(f) \in Scalar
    BY <1>7, OfIsExact
  <2> QED
    BY <1>0, <1>2, <1>7, <2>1, TimesClosed, OfTimes
<1>9. PICK w4 \in VectorOf(3) :
        w4 = Plus(w1, w2) /\ Represents(3, IntPlus(3, IntTimes(3, v, c), IntTimes(3, x, s)), w4)
  BY <1>0, <1>3, <1>6, SumClosed, OfPlus
<1> DEFINE y == IntPlus(3, IntPlus(3, IntTimes(3, v, c), IntTimes(3, x, s)), IntTimes(3, n, f))
<1>10. PICK w \in VectorOf(3) : w = Plus(w4, w3) /\ Represents(3, y, w)
  BY <1>0, <1>8, <1>9, SumClosed, OfPlus
<1>11. \A i \in 1 .. 3 : y[i] = v[i] * c + x[i] * s + n[i] * f
  BY DEF IntPlus, IntTimes
<1> HIDE DEF y
<1>12. PICK y1 \in Int, y2 \in Int, y3 \in Int :
         /\ y1 = v[1] * c + x[1] * s + n[1] * f
         /\ y2 = v[2] * c + x[2] * s + n[2] * f
         /\ y3 = v[3] * c + x[3] * s + n[3] * f
         /\ w[1] = Of(y1) /\ w[2] = Of(y2) /\ w[3] = Of(y3)
  BY <1>10, <1>11 DEF Represents
<1>13. PICK p4 \in Int : p4 = p[4] /\ p[4] = Of(p4) /\ p[4] \in Scalar
  <2>1. PICK p4 \in Int : p[4] = p4 /\ p4 = Of(p4)
    BY FourScalars
  <2>2. p[4] \in Scalar
    BY DEF VectorOf
  <2> QED
    BY <2>1, <2>2
<1>14. Append(w, p[4]) = <<Of(y1), Of(y2), Of(y3), Of(p4)>> /\ Append(w, p[4]) \in VectorOf(4)
  BY <1>12, <1>13, Appended
<1>15. PICK z \in [1 .. 4 -> Int] : /\ z[1] = y1 /\ z[2] = y2 /\ z[3] = y3 /\ z[4] = p4
                                    /\ Represents(4, z, <<Of(y1), Of(y2), Of(y3), Of(p4)>>)
  BY FourIs
<1>16. Turned(angle, n, p) = Append(w, p[4])
  BY <1>1, <1>3, <1>6, <1>8, <1>9, <1>10 DEF Turned
<1>17. /\ x[1] = n[2] * p[3] - n[3] * p[2] /\ x[2] = n[3] * p[1] - n[1] * p[3]
       /\ x[3] = n[1] * p[2] - n[2] * p[1] /\ f = Dot3(n, p) * (1 - c)
  BY <1>1, <1>4, <1>7 DEF IsCross, Dot3
<1>18. IsTurned(n, p, s, c, z)
  BY <1>1, <1>12, <1>13, <1>15, <1>17 DEF IsTurned
<1> QED
  BY <1>14, <1>15, <1>16, <1>18

\* The components of Turned are those of the rotation times the point.
IsMoved(x, p, z) ==
  /\ z[1] = x[1][1] * p[1] + x[2][1] * p[2] + x[3][1] * p[3]
  /\ z[2] = x[1][2] * p[1] + x[2][2] * p[2] + x[3][2] * p[3]
  /\ z[3] = x[1][3] * p[1] + x[2][3] * p[2] + x[3][3] * p[3]
  /\ z[4] = p[4]

LEMMA RotationTurns ==
  ASSUME NEW n \in [1 .. 3 -> Int], NEW p \in [1 .. 4 -> Int], NEW s \in Int, NEW c \in Int,
         NEW x, IsRotation(s, c, n[1], n[2], n[3], x), NEW z, IsTurned(n, p, s, c, z)
  PROVE  IsMoved(x, p, z)
<1>1. PICK a \in Int, b \in Int, d \in Int : a = n[1] /\ b = n[2] /\ d = n[3]
  OBVIOUS
<1>2. PICK q1 \in Int, q2 \in Int, q3 \in Int : q1 = p[1] /\ q2 = p[2] /\ q3 = p[3]
  OBVIOUS
<1>3. Dot3(n, p) = a * q1 + b * q2 + d * q3
  BY <1>1, <1>2 DEF Dot3
<1>4. /\ z[1] = q1 * c + (b * q3 - d * q2) * s + a * ((a * q1 + b * q2 + d * q3) * (1 - c))
      /\ z[2] = q2 * c + (d * q1 - a * q3) * s + b * ((a * q1 + b * q2 + d * q3) * (1 - c))
      /\ z[3] = q3 * c + (a * q2 - b * q1) * s + d * ((a * q1 + b * q2 + d * q3) * (1 - c))
      /\ z[4] = p[4]
  BY <1>1, <1>2, <1>3 DEF IsTurned
<1>5. /\ x[1][1] = c + a * (1 - c) * a /\ x[1][2] = a * (1 - c) * b + s * d /\ x[1][3] = a * (1 - c) * d - s * b
      /\ x[2][1] = b * (1 - c) * a - s * d /\ x[2][2] = c + b * (1 - c) * b /\ x[2][3] = b * (1 - c) * d + s * a
      /\ x[3][1] = d * (1 - c) * a + s * b /\ x[3][2] = d * (1 - c) * b - s * a /\ x[3][3] = c + d * (1 - c) * d
  BY <1>1 DEF IsRotation
<1>6. /\ q1 * c + (b * q3 - d * q2) * s + a * ((a * q1 + b * q2 + d * q3) * (1 - c))
         = (c + a * (1 - c) * a) * q1 + (b * (1 - c) * a - s * d) * q2 + (d * (1 - c) * a + s * b) * q3
      /\ q2 * c + (d * q1 - a * q3) * s + b * ((a * q1 + b * q2 + d * q3) * (1 - c))
         = (a * (1 - c) * b + s * d) * q1 + (c + b * (1 - c) * b) * q2 + (d * (1 - c) * b - s * a) * q3
      /\ q3 * c + (a * q2 - b * q1) * s + d * ((a * q1 + b * q2 + d * q3) * (1 - c))
         = (a * (1 - c) * d - s * b) * q1 + (b * (1 - c) * d + s * a) * q2 + (c + d * (1 - c) * d) * q3
  OBVIOUS
<1> QED
  BY <1>2, <1>4, <1>5, <1>6 DEF IsMoved

LEMMA RotateTurns ==
  ASSUME ExactArithmetic, NEW g \in MatrixOf(4, 4), NEW p \in VectorOf(4), NEW n \in VectorOf(3),
         NEW angle \in Scalar \X Scalar
  PROVE  MatVec(rotate(g, angle[1], angle[2], n), p) = MatVec(g, Turned(angle, n, p))
<1>1. PICK s \in Int, c \in Int : angle[1] = Of(s) /\ angle[2] = Of(c)
  <2>1. angle[1] \in Scalar /\ angle[2] \in Scalar
    OBVIOUS
  <2>2. \A z \in Scalar : z \in Int /\ z = Of(z)
    BY OfIsExact
  <2> QED
    BY <2>1, <2>2
<1> DEFINE R == Rotation(Of(s), Of(c), n)
           m == rotate(g, Of(s), Of(c), n)
<1>2. PICK x \in IntMatrix(3) : IsRotation(s, c, n[1], n[2], n[3], x) /\ RepresentsAll(3, x, R)
  BY OfRotationOf
<1>3. m \in MatrixOf(4, 4)
  BY <1>1, TransformsClosed
<1> DEFINE turned(i) == Plus(Plus(Times(g[1], R[i][1]), Times(g[2], R[i][2])), Times(g[3], R[i][3]))
           col(i) == IntCombined(g, x[i][1], x[i][2], x[i][3])
           y == Four4(col(1), col(2), col(3), g[4])
<1>4. m = <<turned(1), turned(2), turned(3), g[4]>>
  BY DEF rotate
<1> HIDE DEF R, m
<1>5. ASSUME NEW i \in 1 .. 3 PROVE Represents(4, col(i), turned(i))
  <2>1. PICK a \in Int, b \in Int, d \in Int :
          /\ x[i][1] = a /\ x[i][2] = b /\ x[i][3] = d
          /\ R[i][1] = Of(a) /\ R[i][2] = Of(b) /\ R[i][3] = Of(d)
    BY <1>2 DEF RepresentsAll, Represents
  <2>2. Represents(4, IntCombined(g, a, b, d), Plus(Plus(Times(g[1], Of(a)), Times(g[2], Of(b))), Times(g[3], Of(d))))
    BY OfCombined
  <2> QED
    BY <2>1, <2>2
<1>6. ASSUME NEW i \in 1 .. 3, NEW j \in 1 .. 4
      PROVE  col(i)[j] = g[1][j] * x[i][1] + g[2][j] * x[i][2] + g[3][j] * x[i][3]
  BY CombinedEntry
<1> HIDE DEF turned, col
<1>7. /\ RepresentsAll(4, y, m)
      /\ y[1] = col(1) /\ y[2] = col(2) /\ y[3] = col(3) /\ y[4] = g[4]
  <2>1. /\ Represents(4, col(1), turned(1)) /\ Represents(4, col(2), turned(2))
        /\ Represents(4, col(3), turned(3)) /\ Represents(4, g[4], g[4])
    BY <1>5, ColumnParts
  <2>2. /\ RepresentsAll(4, y, <<turned(1), turned(2), turned(3), g[4]>>)
        /\ y[1] = col(1) /\ y[2] = col(2) /\ y[3] = col(3) /\ y[4] = g[4]
    BY <2>1, FourColumns
  <2> HIDE DEF y
  <2> QED
    BY <1>4, <2>2
<1> HIDE DEF y
<1>8. PICK z \in [1 .. 4 -> Int] :
        IsTurned(n, p, s, c, z) /\ Represents(4, z, Turned(angle, n, p)) /\ Turned(angle, n, p) \in VectorOf(4)
  BY <1>1, OfTurned
<1>9. p \in [1 .. 4 -> Int] /\ n \in [1 .. 3 -> Int]
  <2>1. 3 \in Nat /\ 4 \in Nat
    OBVIOUS
  <2> QED
    BY <2>1, ScalarsRepresent DEF Represents
<1>10. IsMoved(x, p, z)
  BY <1>2, <1>8, <1>9, RotationTurns
<1>11. ASSUME NEW j \in 1 .. 4
       PROVE  y[1][j] * p[1] + y[2][j] * p[2] + y[3][j] * p[3] + y[4][j] * p[4]
              = g[1][j] * z[1] + g[2][j] * z[2] + g[3][j] * z[3] + g[4][j] * z[4]
  <2>1. PICK g1 \in Int, g2 \in Int, g3 \in Int, g4 \in Int :
          g[1][j] = g1 /\ g[2][j] = g2 /\ g[3][j] = g3 /\ g[4][j] = g4
    BY ColumnParts DEF Represents
  <2>2. PICK p1 \in Int, p2 \in Int, p3 \in Int, p4 \in Int : p[1] = p1 /\ p[2] = p2 /\ p[3] = p3 /\ p[4] = p4
    BY <1>9
  <2>3. PICK a1 \in Int, a2 \in Int, a3 \in Int : a1 = x[1][1] /\ a2 = x[1][2] /\ a3 = x[1][3]
    BY DEF IntMatrix
  <2>4. PICK b1 \in Int, b2 \in Int, b3 \in Int : b1 = x[2][1] /\ b2 = x[2][2] /\ b3 = x[2][3]
    BY DEF IntMatrix
  <2>5. PICK c1 \in Int, c2 \in Int, c3 \in Int : c1 = x[3][1] /\ c2 = x[3][2] /\ c3 = x[3][3]
    BY DEF IntMatrix
  <2>6. /\ y[1][j] = g1 * a1 + g2 * a2 + g3 * a3
        /\ y[2][j] = g1 * b1 + g2 * b2 + g3 * b3
        /\ y[3][j] = g1 * c1 + g2 * c2 + g3 * c3
        /\ y[4][j] = g4
    BY <1>6, <1>7, <2>1, <2>3, <2>4, <2>5
  <2>7. /\ z[1] = a1 * p1 + b1 * p2 + c1 * p3 /\ z[2] = a2 * p1 + b2 * p2 + c2 * p3
        /\ z[3] = a3 * p1 + b3 * p2 + c3 * p3 /\ z[4] = p4
    BY <1>10, <2>2, <2>3, <2>4, <2>5 DEF IsMoved
  <2>8. (g1 * a1 + g2 * a2 + g3 * a3) * p1 + (g1 * b1 + g2 * b2 + g3 * b3) * p2
        + (g1 * c1 + g2 * c2 + g3 * c3) * p3 + g4 * p4
        = g1 * (a1 * p1 + b1 * p2 + c1 * p3) + g2 * (a2 * p1 + b2 * p2 + c2 * p3)
          + g3 * (a3 * p1 + b3 * p2 + c3 * p3) + g4 * p4
    OBVIOUS
  <2> QED
    BY <2>1, <2>2, <2>6, <2>7, <2>8
<1>12. MatVec(m, p) = MatVec(g, Turned(angle, n, p))
  <2> DEFINE q == Turned(angle, n, p)
  <2>1. q \in VectorOf(4) /\ Represents(4, z, q) /\ RepresentsAll(4, y, m)
    BY <1>7, <1>8
  <2> HIDE DEF q
  <2>2. MatVec(m, p) = MatVec(g, q)
    BY <1>3, <1>11, <2>1, SameProduct, ZenonT(30)
  <2> QED
    BY <2>2 DEF q
<1> QED
  BY <1>1, <1>12 DEF m

LEMMA TransformsObey ==
  ASSUME ExactArithmetic, Typed, NEW p \in Vectors4, NEW v \in Vectors3
  PROVE  /\ Translate(v) => MatVec(general', p) = MatVec(general, Along(v, p))
         /\ Scale(v) => MatVec(general', p) = MatVec(general, Stretched(v, p))
         /\ \A angle \in Angles, n \in Axes :
              Rotate(angle, n) => MatVec(general', p) = MatVec(general, Turned(angle, n, p))
<1>1. p \in VectorOf(4) /\ v \in VectorOf(3)
  <2>1. p \in Operands(4) /\ v \in Operands(3) /\ 3 \in 2 .. 4 /\ 4 \in 2 .. 4
    BY DEF Vectors3, Vectors4, Operands
  <2> QED
    BY <2>1, OperandTyped
<1>2. kind = "matrix" => general \in MatrixOf(4, 4)
  BY DEF Typed
<1>3. ASSUME Translate(v) PROVE MatVec(general', p) = MatVec(general, Along(v, p))
  <2>1. kind = "matrix" /\ general' = translate(general, v)
    BY <1>3 DEF Translate, MatrixCompute, MatrixCall, Calling
  <2> QED
    BY <1>1, <1>2, <2>1, TranslateMoves
<1>4. ASSUME Scale(v) PROVE MatVec(general', p) = MatVec(general, Stretched(v, p))
  <2>1. kind = "matrix" /\ general' = scale(general, v)
    BY <1>4 DEF Scale, MatrixCompute, MatrixCall, Calling
  <2> QED
    BY <1>1, <1>2, <2>1, ScaleStretches
<1>5. ASSUME NEW angle \in Angles, NEW n \in Axes, Rotate(angle, n)
      PROVE  MatVec(general', p) = MatVec(general, Turned(angle, n, p))
  <2>1. kind = "matrix" /\ general' = rotate(general, angle[1], angle[2], n)
    BY <1>5 DEF Rotate, MatrixCompute, MatrixCall, Calling
  <2>2. angle \in Scalar \X Scalar /\ n \in VectorOf(3)
    BY OperandsAssumption
  <2> QED
    BY <1>1, <1>2, <2>1, <2>2, RotateTurns
<1> QED
  BY <1>3, <1>4, <1>5

\* In an exact arithmetic translate, scale and rotate return the matrix that
\* moves, stretches or turns a point first and maps it as before then, for
\* every matrix a program reaches; the axis need not have length 1.
THEOREM TransformsComposeHolds ==
  ASSUME ExactArithmetic
  PROVE  Spec => TransformsCompose
<1> DEFINE Composed ==
      \A p \in Vectors4, v \in Vectors3 :
        /\ Translate(v) => MatVec(general', p) = MatVec(general, Along(v, p))
        /\ Scale(v) => MatVec(general', p) = MatVec(general, Stretched(v, p))
        /\ \A angle \in Angles, n \in Axes :
             Rotate(angle, n) => MatVec(general', p) = MatVec(general, Turned(angle, n, p))
<1>1. Typed => Composed
  BY TransformsObey
<1>2. Typed /\ [Next]_vars => [Composed]_vars
  BY <1>1
<1> HIDE DEF Composed
<1>3. Spec => [][Composed]_vars
  BY <1>2, TypesCorrect, PTL DEF Spec
<1> QED
  BY <1>3 DEF Composed, TransformsCompose

-----------------------------------------------------------------------------
(* Projections, in the components and in the integers. *)

\* Two integers that are the value of one component.
Same(a, b) == a \in Int /\ b \in Int /\ Of(a) = Of(b)

\* Sums, products and negations of the same values are the same.
LEMMA SameSum ==
  ASSUME ExactArithmetic, NEW a, NEW b, NEW c, NEW d, Same(a, b), Same(c, d)
  PROVE  Same(a + c, b + d)
<1>1. a \in Int /\ b \in Int /\ c \in Int /\ d \in Int /\ Of(a) = Of(b) /\ Of(c) = Of(d)
  BY DEF Same
<1>2. /\ Of(a) \oplus Of(c) = Of(a + c) /\ a + c \in Int
      /\ Of(b) \oplus Of(d) = Of(b + d) /\ b + d \in Int
  BY <1>1, OfProduct
<1> QED
  BY <1>1, <1>2 DEF Same

LEMMA SameTimes ==
  ASSUME ExactArithmetic, NEW a, NEW b, NEW c, NEW d, Same(a, b), Same(c, d)
  PROVE  Same(a * c, b * d)
<1>1. a \in Int /\ b \in Int /\ c \in Int /\ d \in Int /\ Of(a) = Of(b) /\ Of(c) = Of(d)
  BY DEF Same
<1>2. /\ Of(a) \otimes Of(c) = Of(a * c) /\ a * c \in Int
      /\ Of(b) \otimes Of(d) = Of(b * d) /\ b * d \in Int
  BY <1>1, OfProduct
<1> QED
  BY <1>1, <1>2 DEF Same

LEMMA SameSelf ==
  ASSUME NEW a \in Int PROVE Same(a, a)
BY DEF Same

\* What is not 0 may be divided by.
LEMMA SameCancels ==
  ASSUME ExactArithmetic, Divides, NEW a \in Int, NEW b \in Int, NEW c \in Int,
         Of(c) # 0, Same(a * c, b * c)
  PROVE  Same(a, b)
<1>1. PICK k \in Int : Same(c * k, 1)
  <2>1. Of(c) \in Scalar /\ 1 \in Scalar
    BY OfIsExact, ScalarsClosed
  <2>2. PICK s \in Scalar : s = 1 \oslash Of(c)
    BY <2>1, ScalarsClosed
  <2>3. s \otimes Of(c) = 1
    BY <2>1, <2>2 DEF Divides
  <2>4. s \in Int /\ Of(s) = s /\ Of(1) = 1 /\ 1 \in Int
    BY OfIsExact
  <2>5. Of(s) \otimes Of(c) = Of(s * c) /\ s * c \in Int
    BY <2>4, OfProduct
  <2>6. c * s = s * c
    BY <2>4
  <2> QED
    BY <2>3, <2>4, <2>5, <2>6 DEF Same
<1>2. Same((a * c) * k, (b * c) * k)
  BY <1>1, SameSelf, SameTimes
<1>3. Same(a * (c * k), a * 1) /\ Same(b * (c * k), b * 1)
  BY <1>1, SameSelf, SameTimes
<1>4. (a * c) * k = a * (c * k) /\ (b * c) * k = b * (c * k) /\ a * 1 = a /\ b * 1 = b
  OBVIOUS
<1> QED
  BY <1>2, <1>3, <1>4 DEF Same

\* A quotient times its divisor is what was divided.
LEMMA SameQuotient ==
  ASSUME ExactArithmetic, Divides, NEW a \in Scalar, NEW b \in Scalar, b # 0
  PROVE  a \oslash b \in Int /\ Same((a \oslash b) * b, a)
<1>1. PICK s \in Scalar : s = a \oslash b
  BY ScalarsClosed
<1>2. s \otimes b = a
  BY <1>1 DEF Divides
<1>3. /\ s \in Int /\ Of(s) = s /\ a \in Int /\ Of(a) = a /\ b \in Int /\ Of(b) = b
  BY OfIsExact
<1>4. Of(s) \otimes Of(b) = Of(s * b) /\ s * b \in Int
  BY <1>3, OfProduct
<1> QED
  BY <1>1, <1>2, <1>3, <1>4 DEF Same

\* The depths of the near and of the far plane.
LEMMA DepthsAre ==
  ASSUME ExactArithmetic, Divides, NEW D \in Int, NEW S \in Int, NEW n \in Int, NEW f \in Int,
         Of(f - n) # 0, Same(D * (f - n), f + n), Same(S * (f - n), -(2 * f * n))
  PROVE  Same(D * n + S, -n) /\ Same(D * f + S, f)
<1>1. PICK h \in Int : h = f - n
  OBVIOUS
<1>2. Same(D * h, f + n) /\ Same(S * h, -(2 * f * n)) /\ Of(h) # 0
  BY <1>1
<1>3. Same((D * h) * n, (f + n) * n) /\ Same((D * h) * f, (f + n) * f)
  BY <1>2, SameSelf, SameTimes
<1>4. /\ Same((D * h) * n + S * h, (f + n) * n + -(2 * f * n))
      /\ Same((D * h) * f + S * h, (f + n) * f + -(2 * f * n))
  BY <1>2, <1>3, SameSum
<1>5. /\ (D * h) * n + S * h = (D * n + S) * h
      /\ (D * h) * f + S * h = (D * f + S) * h
  OBVIOUS
<1>6. /\ (f + n) * n + -(2 * f * n) = (-n) * h
      /\ (f + n) * f + -(2 * f * n) = f * h
  BY <1>1
<1>7. Same((D * n + S) * h, (-n) * h) /\ Same((D * f + S) * h, f * h)
  BY <1>4, <1>5, <1>6
<1>8. PICK p \in Int, q \in Int, m \in Int : p = D * n + S /\ q = D * f + S /\ m = -n
  OBVIOUS
<1>9. Same(p * h, m * h) /\ Same(q * h, f * h)
  BY <1>7, <1>8
<1>10. Same(p, m) /\ Same(q, f)
  BY <1>2, <1>9, SameCancels
<1> QED
  BY <1>8, <1>10

\* Where a side of a frustum comes to be: side / n of the distance d, moved by k.
IsSide(y, z, k, n, h, u, w, e, d) ==
  /\ y \in Int /\ z \in Int /\ k \in Int /\ n \in Int /\ h \in Int
  /\ u \in Int /\ w \in Int /\ e \in Int /\ d \in Int
  /\ Of(h) # 0 /\ Same(y * h, 2 * n) /\ Same(z * n, u) /\ Same(k * h, -w)
  /\ 2 * u - w = e * h

\* A corner stays on its side: what the projection adds to it cancels.
LEMMA SidesAre ==
  ASSUME ExactArithmetic, Divides, NEW y, NEW z, NEW k, NEW n, NEW h, NEW u, NEW w, NEW e, NEW d,
         IsSide(y, z, k, n, h, u, w, e, d)
  PROVE  Same(y * (z * d) + k * d, e * d)
<1> USE DEF IsSide
<1>1. Same((y * h) * (z * d), (2 * n) * (z * d))
  BY SameSelf, SameTimes
<1>2. Same((z * n) * (2 * d), u * (2 * d))
  <2>1. PICK g \in Int : g = 2 * d
    OBVIOUS
  <2>2. Same((z * n) * g, u * g)
    BY SameSelf, SameTimes
  <2> QED
    BY <2>1, <2>2
<1>3. Same((k * h) * d, (-w) * d)
  BY SameSelf, SameTimes
<1>4. (2 * n) * (z * d) = (z * n) * (2 * d)
  OBVIOUS
<1>5. Same((y * h) * (z * d), u * (2 * d))
  BY <1>1, <1>2, <1>4 DEF Same
<1>6. Same((y * h) * (z * d) + (k * h) * d, u * (2 * d) + (-w) * d)
  BY <1>3, <1>5, SameSum
<1>7. (y * h) * (z * d) + (k * h) * d = (y * (z * d) + k * d) * h
  OBVIOUS
<1>8. u * (2 * d) + (-w) * d = (e * d) * h
  <2>1. u * (2 * d) + (-w) * d = (2 * u - w) * d
    OBVIOUS
  <2>2. (e * h) * d = (e * d) * h
    OBVIOUS
  <2> QED
    BY <2>1, <2>2
<1>9. PICK p \in Int, q \in Int : p = y * (z * d) + k * d /\ q = e * d
  OBVIOUS
<1>10. Same(p * h, q * h)
  BY <1>6, <1>7, <1>8, <1>9
<1> QED
  BY <1>9, <1>10, SameCancels

\* A component is the integer it is the value of.
LEMMA ScalarIs ==
  ASSUME ExactArithmetic, NEW a \in Scalar
  PROVE  a \in Int /\ Of(a) = a
BY OfIsExact

\* The operations on components are those on integers.
LEMMA ScalarSums ==
  ASSUME ExactArithmetic, NEW a \in Scalar, NEW b \in Scalar
  PROVE  /\ Same(a \oplus b, a + b) /\ Same(a \ominus b, a - b) /\ Same(a \otimes b, a * b)
         /\ Same(Neg(a), -a)
<1>1. a \in Int /\ Of(a) = a /\ b \in Int /\ Of(b) = b
  BY ScalarIs
<1>2. /\ a \oplus b \in Scalar /\ a \ominus b \in Scalar /\ a \otimes b \in Scalar /\ Neg(a) \in Scalar
  BY ScalarsClosed
<1>3. /\ a \oplus b = Of(a + b) /\ a \ominus b = Of(a - b) /\ a \otimes b = Of(a * b)
      /\ a + b \in Int /\ a - b \in Int /\ a * b \in Int
  <2>1. /\ Of(a) \oplus Of(b) = Of(a + b) /\ Of(a) \ominus Of(b) = Of(a - b)
        /\ Of(a) \otimes Of(b) = Of(a * b)
        /\ a + b \in Int /\ a - b \in Int /\ a * b \in Int
    BY <1>1, OfProduct
  <2> QED
    BY <1>1, <2>1
<1>4. Neg(a) = Of(-a) /\ -a \in Int
  <2>1. Neg(Of(a)) = Of(-a)
    BY <1>1, OfIsExact
  <2> QED
    BY <1>1, <2>1
<1>5. \A s \in Scalar : s \in Int /\ Of(s) = s
  BY ScalarIs
<1> QED
  BY <1>2, <1>3, <1>4, <1>5 DEF Same

LEMMA TwoIs ==
  ASSUME ExactArithmetic PROVE Two \in Scalar /\ Same(Two, 2)
<1>1. 1 \in Scalar
  BY ScalarsClosed
<1>2. Same(1 \oplus 1, 1 + 1)
  BY <1>1, ScalarSums
<1> QED
  BY <1>1, <1>2, ScalarsClosed DEF Two

\* The entries for the depth take near to -near and far to far.
LEMMA DepthIs ==
  ASSUME ExactArithmetic, Divides, NEW near \in Scalar, NEW far \in Scalar, far \ominus near # 0
  PROVE  /\ Depth(near, far) \in Scalar /\ Shift(near, far) \in Scalar
         /\ Same(Depth(near, far) * near + Shift(near, far), -near)
         /\ Same(Depth(near, far) * far + Shift(near, far), far)
         /\ near # far
<1>1. /\ near \in Int /\ far \in Int /\ Of(near) = near /\ Of(far) = far
      /\ Of(0) = 0 /\ Of(1) = 1
  BY ScalarIs, OfIsExact
<1>2. PICK h \in Scalar, s \in Scalar : h = far \ominus near /\ s = far \oplus near
  BY ScalarsClosed
<1>3. Same(h, far - near) /\ Same(s, far + near)
  BY <1>2, ScalarSums
<1>4. Two \in Scalar /\ Same(Two, 2)
  BY TwoIs
<1>5. PICK t \in Scalar : t = Two \otimes far /\ Same(t, 2 * far)
  <2>1. PICK t \in Scalar : t = Two \otimes far
    BY <1>4, ScalarsClosed
  <2>2. Same(t, Two * far)
    BY <1>4, <2>1, ScalarSums
  <2>3. Same(Two * far, 2 * far)
    BY <1>1, <1>4, SameSelf, SameTimes
  <2> QED
    BY <2>1, <2>2, <2>3 DEF Same
<1>6. PICK v \in Scalar : v = t \otimes near /\ Same(v, 2 * far * near)
  <2>1. PICK v \in Scalar : v = t \otimes near
    BY ScalarsClosed
  <2>2. Same(v, t * near)
    BY <2>1, ScalarSums
  <2>3. Same(t * near, (2 * far) * near)
    BY <1>1, <1>5, SameSelf, SameTimes
  <2> QED
    BY <2>1, <2>2, <2>3 DEF Same
<1>7. PICK w \in Scalar : w = Neg(v) /\ Same(w, -(2 * far * near))
  <2>1. PICK w \in Scalar : w = Neg(v)
    BY ScalarsClosed
  <2>2. Same(w, -v)
    BY <2>1, ScalarSums
  <2>3. Same((-1) * v, (-1) * (2 * far * near))
    BY <1>6, SameSelf, SameTimes
  <2>4. PICK g \in Int : g = 2 * far * near
    BY <1>1
  <2>5. v \in Int /\ (-1) * v = -v /\ (-1) * g = -g
    BY ScalarIs
  <2> QED
    BY <2>1, <2>2, <2>3, <2>4, <2>5 DEF Same
<1>8. PICK D \in Scalar, S \in Scalar : D = s \oslash h /\ S = w \oslash h
  BY ScalarsClosed
<1>9. Depth(near, far) = D /\ Shift(near, far) = S
  BY <1>2, <1>5, <1>6, <1>7, <1>8 DEF Depth, Shift
<1>10. D \in Int /\ S \in Int /\ h \in Int /\ Same(D * h, s) /\ Same(S * h, w) /\ Of(h) = h
  <2>1. h # 0
    BY <1>2
  <2> QED
    BY <1>8, <2>1, SameQuotient, ScalarIs
<1>11. PICK f \in Int : f = far - near
  BY <1>1
<1>12. Same(D * f, far + near) /\ Same(S * f, -(2 * far * near))
  <2>1. Same(D * h, D * f) /\ Same(S * h, S * f)
    BY <1>3, <1>10, <1>11, SameSelf, SameTimes
  <2> QED
    BY <1>3, <1>7, <1>10, <2>1 DEF Same
<1>13. Of(f) # 0
  BY <1>2, <1>3, <1>10, <1>11 DEF Same
<1>14. Same(D * near + S, -near) /\ Same(D * far + S, far)
  BY <1>1, <1>10, <1>11, <1>12, <1>13, DepthsAre
<1>15. near # far
  BY <1>1, <1>11, <1>13
<1> QED
  BY <1>8, <1>9, <1>14, <1>15

\* What a projection does to a point.
MapsPoint(xx, yy, zx, zy, zz, zw, wz, a, b, c) ==
  LET clip == MatVec(Projection(xx, yy, zx, zy, zz, zw, wz), <<a, b, c, 1>>)
  IN  /\ clip \in VectorOf(4)
      /\ clip[1] = Of(xx * a + zx * c) /\ clip[2] = Of(yy * b + zy * c)
      /\ clip[3] = Of(zz * c + wz) /\ clip[4] = Of(zw * c)

\* A projection maps a point entry by entry.
LEMMA ProjectionMaps ==
  ASSUME ExactArithmetic, NEW xx \in Scalar, NEW yy \in Scalar, NEW zx \in Scalar, NEW zy \in Scalar,
         NEW zz \in Scalar, NEW zw \in Scalar, NEW wz \in Scalar,
         NEW a \in Scalar, NEW b \in Scalar, NEW c \in Scalar
  PROVE  MapsPoint(xx, yy, zx, zy, zz, zw, wz, a, b, c)
<1> DEFINE m == Projection(xx, yy, zx, zy, zz, zw, wz)
           p == <<a, b, c, 1>>
<1>1. /\ xx \in Int /\ yy \in Int /\ zx \in Int /\ zy \in Int /\ zz \in Int /\ zw \in Int /\ wz \in Int
      /\ a \in Int /\ b \in Int /\ c \in Int
  BY ScalarIs
<1>2. /\ m[1][1] = xx /\ m[1][2] = 0 /\ m[1][3] = 0 /\ m[1][4] = 0
      /\ m[2][1] = 0 /\ m[2][2] = yy /\ m[2][3] = 0 /\ m[2][4] = 0
      /\ m[3][1] = zx /\ m[3][2] = zy /\ m[3][3] = zz /\ m[3][4] = zw
      /\ m[4][1] = 0 /\ m[4][2] = 0 /\ m[4][3] = wz /\ m[4][4] = 0
  BY DEF Projection
<1>3. p[1] = a /\ p[2] = b /\ p[3] = c /\ p[4] = 1
  OBVIOUS
<1>4. m \in MatrixOf(4, 4)
  BY ProjectionClosed
<1>5. p \in VectorOf(4)
  BY Tuple4Closed, ScalarsClosed
<1> HIDE DEF m, p
<1>6. 4 \in 3 .. 4 /\ 4 \in Nat
  OBVIOUS
<1>7. RepresentsAll(4, m, m) /\ DOMAIN m = 1 .. 4 /\ Rows(m) = 4 /\ Represents(4, p, p)
  BY <1>4, <1>5, <1>6, MatrixRepresents, ScalarsRepresent
<1>8. Represents(4, IntMatVec(4, m, p), MatVec(m, p))
  BY <1>6, <1>7, OfMatVec
<1>9. MatVec(m, p) \in VectorOf(4)
  BY <1>4, <1>5, ProductsClosed
<1>10. \A j \in 1 .. 4 :
         MatVec(m, p)[j] = Of(m[1][j] * p[1] + m[2][j] * p[2] + m[3][j] * p[3] + m[4][j] * p[4])
  BY <1>8, Entry4 DEF Represents
<1>11. /\ m[1][1] * p[1] + m[2][1] * p[2] + m[3][1] * p[3] + m[4][1] * p[4] = xx * a + zx * c
       /\ m[1][2] * p[1] + m[2][2] * p[2] + m[3][2] * p[3] + m[4][2] * p[4] = yy * b + zy * c
       /\ m[1][3] * p[1] + m[2][3] * p[2] + m[3][3] * p[3] + m[4][3] * p[4] = zz * c + wz
       /\ m[1][4] * p[1] + m[2][4] * p[2] + m[3][4] * p[3] + m[4][4] * p[4] = zw * c
  BY <1>1, <1>2, <1>3
<1>12. /\ MatVec(m, p)[1] = Of(xx * a + zx * c) /\ MatVec(m, p)[2] = Of(yy * b + zy * c)
       /\ MatVec(m, p)[3] = Of(zz * c + wz) /\ MatVec(m, p)[4] = Of(zw * c)
  <2>1. /\ MatVec(m, p)[1] = Of(m[1][1] * p[1] + m[2][1] * p[2] + m[3][1] * p[3] + m[4][1] * p[4])
        /\ MatVec(m, p)[2] = Of(m[1][2] * p[1] + m[2][2] * p[2] + m[3][2] * p[3] + m[4][2] * p[4])
        /\ MatVec(m, p)[3] = Of(m[1][3] * p[1] + m[2][3] * p[2] + m[3][3] * p[3] + m[4][3] * p[4])
        /\ MatVec(m, p)[4] = Of(m[1][4] * p[1] + m[2][4] * p[2] + m[3][4] * p[3] + m[4][4] * p[4])
    BY <1>10
  <2> QED
    BY <1>11, <2>1
<1> QED
  BY <1>9, <1>12 DEF m, p, MapsPoint

\* Two integers for each component of a corner: its direction and its depth.
LEMMA SameEntry ==
  ASSUME ExactArithmetic, NEW y \in Scalar, NEW z \in Scalar, NEW v \in Scalar, NEW hand \in Scalar, NEW d \in Scalar
  PROVE  Same(y * (v \otimes d) + z * (hand \otimes d), y * (v * d) + (z * hand) * d)
<1>1. y \in Int /\ z \in Int /\ v \in Int /\ hand \in Int /\ d \in Int
  BY ScalarIs
<1>2. Same(v \otimes d, v * d) /\ Same(hand \otimes d, hand * d)
  BY ScalarSums
<1>3. Same(y * (v \otimes d), y * (v * d)) /\ Same(z * (hand \otimes d), z * (hand * d))
  BY <1>1, <1>2, SameSelf, SameTimes
<1>4. Same(y * (v \otimes d) + z * (hand \otimes d), y * (v * d) + z * (hand * d))
  BY <1>3, SameSum
<1>5. z * (hand * d) = (z * hand) * d
  BY <1>1
<1> QED
  BY <1>4, <1>5

MapsCorner(xx, yy, zx, zy, zz, zw, wz, u, v, hand, d) ==
  LET clip == MatVec(Projection(xx, yy, zx, zy, zz, zw, wz), Corner(u \otimes d, v \otimes d, d, hand))
  IN  /\ clip[1] = Of(xx * (u * d) + (zx * hand) * d)
      /\ clip[2] = Of(yy * (v * d) + (zy * hand) * d)
      /\ clip[3] = Of((zz * hand) * d + wz)
      /\ clip[4] = Of((zw * hand) * d)

\* The same of a corner of the volume.
LEMMA CornerMaps ==
  ASSUME ExactArithmetic, NEW xx \in Scalar, NEW yy \in Scalar, NEW zx \in Scalar, NEW zy \in Scalar,
         NEW zz \in Scalar, NEW zw \in Scalar, NEW wz \in Scalar,
         NEW u \in Scalar, NEW v \in Scalar, NEW hand \in Scalar, NEW d \in Scalar
  PROVE  MapsCorner(xx, yy, zx, zy, zz, zw, wz, u, v, hand, d)
<1>1. PICK a \in Scalar, b \in Scalar, c \in Scalar : a = u \otimes d /\ b = v \otimes d /\ c = hand \otimes d
  BY ScalarsClosed
<1> DEFINE clip == MatVec(Projection(xx, yy, zx, zy, zz, zw, wz), <<a, b, c, 1>>)
<1>2. /\ clip[1] = Of(xx * a + zx * c) /\ clip[2] = Of(yy * b + zy * c)
      /\ clip[3] = Of(zz * c + wz) /\ clip[4] = Of(zw * c)
  <2>1. MapsPoint(xx, yy, zx, zy, zz, zw, wz, a, b, c)
    BY ProjectionMaps
  <2> QED
    BY <2>1 DEF MapsPoint
<1>3. MatVec(Projection(xx, yy, zx, zy, zz, zw, wz), Corner(u \otimes d, v \otimes d, d, hand)) = clip
  BY <1>1 DEF Corner
<1> HIDE DEF clip
<1>4. Same(xx * a + zx * c, xx * (u * d) + (zx * hand) * d) /\ Same(yy * b + zy * c, yy * (v * d) + (zy * hand) * d)
  BY <1>1, SameEntry
<1>5. zz \in Int /\ zw \in Int /\ wz \in Int /\ hand \in Int /\ d \in Int /\ c \in Int
  BY ScalarIs
<1>6. Same(zz * c, (zz * hand) * d) /\ Same(zw * c, (zw * hand) * d)
  <2>1. Same(c, hand * d)
    BY <1>1, ScalarSums
  <2>2. Same(zz * c, zz * (hand * d)) /\ Same(zw * c, zw * (hand * d))
    BY <1>5, <2>1, SameSelf, SameTimes
  <2>3. zz * (hand * d) = (zz * hand) * d /\ zw * (hand * d) = (zw * hand) * d
    BY <1>5
  <2> QED
    BY <2>2, <2>3
<1>7. Same(zz * c + wz, (zz * hand) * d + wz)
  BY <1>5, <1>6, SameSelf, SameSum
<1> QED
  BY <1>2, <1>3, <1>4, <1>6, <1>7 DEF Same, MapsCorner

\* What the entries of a projection have to be for it to fill the depths and the sides.
Deep(zz, zw, wz, hand, near, far) ==
  /\ near # far
  /\ Same(zw * hand, 1)
  /\ Same((zz * hand) * near + wz, -near) /\ Same((zz * hand) * far + wz, far)
Wide(yy, zy, hand, d, v) ==
  /\ Same(yy * (v[1] * d) + (zy * hand) * d, d)
  /\ Same(yy * (v[-1] * d) + (zy * hand) * d, -d)
WideBy(yy, zy, hand, d, v, e) ==   \* but for e times the depth
  /\ Same(yy * (v[1] * d) + (zy * hand) * d, (1 + e) * d)
  /\ Same(yy * (v[-1] * d) + (zy * hand) * d, (-1 + e) * d)
SidesTyped(v) == v[1] \in Scalar /\ v[-1] \in Scalar

\* What fills the clip volume: the depths and the sides, each on its own.
LEMMA FillsWhen ==
  ASSUME ExactArithmetic, NEW xx \in Scalar, NEW yy \in Scalar, NEW zx \in Scalar, NEW zy \in Scalar,
         NEW zz \in Scalar, NEW zw \in Scalar, NEW wz \in Scalar,
         NEW hand \in Scalar, NEW near \in Scalar, NEW far \in Scalar,
         NEW x, NEW y, NEW miss \in Scalar, SidesTyped(x), SidesTyped(y),
         Deep(zz, zw, wz, hand, near, far),
         \A d \in {near, far} : Wide(yy, zy, hand, d, y),
         \A d \in {near, far} : WideBy(xx, zx, hand, d, x, miss)
  PROVE  Fills(Projection(xx, yy, zx, zy, zz, zw, wz), hand, near, far, x, y, miss)
<1> DEFINE m == Projection(xx, yy, zx, zy, zz, zw, wz)
<1>1. SUFFICES ASSUME NEW d \in {near, far}, NEW ends \in {-1, 1}
               PROVE  LET clip == MatVec(m, Corner(x[ends] \otimes d, y[ends] \otimes d, d, hand))
                      IN  /\ clip[4] = d
                          /\ clip[3] = IF d = near THEN Neg(d) ELSE d
                          /\ clip[2] = ends \otimes d
                          /\ clip[1] = (ends \oplus miss) \otimes d
  BY DEF Fills
<1>2. PICK u \in Scalar, v \in Scalar : u = x[ends] /\ v = y[ends]
  BY DEF SidesTyped
<1>3. d \in Scalar /\ d \in Int /\ Of(d) = d
  BY ScalarIs
<1> DEFINE clip == MatVec(m, Corner(u \otimes d, v \otimes d, d, hand))
<1>4. /\ clip[1] = Of(xx * (u * d) + (zx * hand) * d)
      /\ clip[2] = Of(yy * (v * d) + (zy * hand) * d)
      /\ clip[3] = Of((zz * hand) * d + wz)
      /\ clip[4] = Of((zw * hand) * d)
  <2>1. MapsCorner(xx, yy, zx, zy, zz, zw, wz, u, v, hand, d)
    BY <1>3, CornerMaps
  <2> QED
    BY <2>1 DEF MapsCorner
<1> HIDE DEF m, clip
<1>5. clip[4] = d
  <2>1. Same((zw * hand) * d, 1 * d)
    BY <1>3, SameSelf, SameTimes DEF Deep
  <2>2. 1 * d = d
    BY <1>3
  <2> QED
    BY <1>3, <1>4, <2>1, <2>2 DEF Same
<1>6. clip[3] = IF d = near THEN Neg(d) ELSE d
  <2>1. CASE d = near
    <3>1. Same(Neg(d), -d) /\ Of(Neg(d)) = Neg(d)
      BY <1>3, ScalarSums, ScalarsClosed, ScalarIs
    <3> QED
      BY <1>4, <2>1, <3>1 DEF Deep, Same
  <2>2. CASE d = far
    BY <1>3, <1>4, <2>2 DEF Deep, Same
  <2> QED
    BY <2>1, <2>2 DEF Deep
<1>7. Of(d) = 1 \otimes d /\ Of(-d) = (-1) \otimes d
  <2>1. 1 \in Scalar /\ -1 \in Scalar
    BY ScalarsClosed
  <2>2. Same(1 \otimes d, 1 * d) /\ Same((-1) \otimes d, (-1) * d)
    BY <1>3, <2>1, ScalarSums
  <2>3. 1 \otimes d \in Scalar /\ (-1) \otimes d \in Scalar
    BY <1>3, <2>1, ScalarsClosed
  <2>4. Of(1 \otimes d) = 1 \otimes d /\ Of((-1) \otimes d) = (-1) \otimes d
    BY <2>3, ScalarIs
  <2>5. 1 * d = d /\ (-1) * d = -d
    BY <1>3
  <2> QED
    BY <2>2, <2>4, <2>5 DEF Same
<1>8. clip[2] = ends \otimes d
  <2>1. CASE ends = 1
    BY <1>2, <1>4, <1>7, <2>1 DEF Wide, Same
  <2>2. CASE ends = -1
    BY <1>2, <1>4, <1>7, <2>2 DEF Wide, Same
  <2> QED
    BY <2>1, <2>2
<1>9. clip[1] = (ends \oplus miss) \otimes d
  <2>0. WideBy(xx, zx, hand, d, x, miss) /\ miss \in Int /\ ends \in Int /\ ends \in Scalar
    BY ScalarIs, ScalarsClosed
  <2>1. PICK g \in Scalar : g = ends \oplus miss /\ Same(g, ends + miss)
    BY <2>0, ScalarsClosed, ScalarSums
  <2>2. Same(g \otimes d, g * d) /\ g \otimes d \in Scalar
    BY <1>3, <2>1, ScalarSums, ScalarsClosed
  <2>3. Same(g * d, (ends + miss) * d)
    BY <1>3, <2>1, SameSelf, SameTimes
  <2>4. Of((ends + miss) * d) = g \otimes d
    <3>1. Of(g \otimes d) = g \otimes d
      BY <2>2, ScalarIs
    <3> QED
      BY <2>2, <2>3, <3>1 DEF Same
  <2>5. clip[1] = Of((ends + miss) * d)
    <3>1. CASE ends = 1
      BY <1>2, <1>4, <2>0, <3>1 DEF WideBy, Same
    <3>2. CASE ends = -1
      BY <1>2, <1>4, <2>0, <3>2 DEF WideBy, Same
    <3> QED
      BY <3>1, <3>2
  <2> QED
    BY <2>1, <2>4, <2>5
<1> QED
  BY <1>2, <1>5, <1>6, <1>8, <1>9 DEF clip

\* The component -1.
LEMMA NegOne ==
  ASSUME ExactArithmetic PROVE Neg(1) = -1
<1>1. Of(1) = 1 /\ Of(-1) = -1 /\ 1 \in Int /\ Neg(Of(1)) = Of(-1)
  BY OfIsExact
<1> QED
  BY <1>1

\* Negations are the values of negations.
LEMMA SameNegated ==
  ASSUME ExactArithmetic, NEW a, NEW b, Same(a, b)
  PROVE  Same(-a, -b)
<1>1. Same((-1) * a, (-1) * b)
  BY SameSelf, SameTimes
<1>2. a \in Int /\ b \in Int /\ (-1) * a = -a /\ (-1) * b = -b
  BY DEF Same
<1> QED
  BY <1>1, <1>2

\* The depths of the projections of both hands.
LEMMA DeepIs ==
  ASSUME ExactArithmetic, Divides, NEW near \in Scalar, NEW far \in Scalar, far \ominus near # 0
  PROVE  /\ Deep(Neg(Depth(near, far)), Neg(1), Shift(near, far), Neg(1), near, far)
         /\ Deep(Depth(near, far), 1, Shift(near, far), 1, near, far)
<1>1. PICK D \in Scalar, S \in Scalar :
        /\ D = Depth(near, far) /\ S = Shift(near, far)
        /\ Same(D * near + S, -near) /\ Same(D * far + S, far) /\ near # far
  BY DepthIs
<1>2. D \in Int /\ S \in Int /\ near \in Int /\ far \in Int /\ Neg(1) = -1
  BY ScalarIs, NegOne
<1>3. Deep(D, 1, S, 1, near, far)
  <2>1. 1 * 1 = 1 /\ D * 1 = D /\ Same(1, 1)
    BY <1>2, SameSelf
  <2> QED
    BY <1>1, <2>1 DEF Deep
<1>4. PICK m \in Scalar : m = Neg(D) /\ Same(m * (-1), D)
  <2>1. PICK m \in Scalar : m = Neg(D) /\ Same(m, -D)
    BY ScalarsClosed, ScalarSums
  <2>2. Same(-m, -(-D))
    BY <2>1, SameNegated
  <2>3. m \in Int /\ -m = m * (-1) /\ -(-D) = D
    BY <1>2, ScalarIs
  <2> QED
    BY <2>1, <2>2, <2>3
<1>5. /\ Same((m * (-1)) * near + S, D * near + S)
      /\ Same((m * (-1)) * far + S, D * far + S)
  BY <1>2, <1>4, SameSelf, SameTimes, SameSum
<1>6. Deep(m, -1, S, -1, near, far)
  <2>1. (-1) * (-1) = 1 /\ Same(1, 1)
    BY SameSelf
  <2> QED
    BY <1>1, <1>5, <2>1 DEF Deep, Same
<1> QED
  BY <1>1, <1>2, <1>3, <1>4, <1>6

\* The sides of a perspective, which lie evenly.
LEMMA EvenWide ==
  ASSUME ExactArithmetic, Divides, NEW half \in Scalar, half # 0, NEW hand \in Scalar, NEW d \in Scalar
  PROVE  Wide(1 \oslash half, 0, hand, d, Even(half))
<1>1. PICK q \in Scalar : q = 1 \oslash half /\ Same(q * half, 1)
  BY ScalarsClosed, SameQuotient
<1>2. PICK m \in Scalar : m = Neg(half) /\ Same(m, -half)
  BY ScalarsClosed, ScalarSums
<1>3. q \in Int /\ half \in Int /\ hand \in Int /\ d \in Int /\ m \in Int
  BY ScalarIs
<1>4. Even(half)[1] = half /\ Even(half)[-1] = m
  BY <1>2 DEF Even, Sides
<1>5. Same(q * (half * d) + (0 * hand) * d, d)
  <2>1. Same((q * half) * d, 1 * d)
    BY <1>1, <1>3, SameSelf, SameTimes
  <2>2. (q * half) * d = q * (half * d) + (0 * hand) * d /\ 1 * d = d
    BY <1>3
  <2> QED
    BY <2>1, <2>2
<1>6. Same(q * (m * d) + (0 * hand) * d, -d)
  <2>1. Same((q * d) * m, (q * d) * (-half))
    <3>1. PICK g \in Int : g = q * d
      BY <1>3
    <3> QED
      BY <1>2, <3>1, SameSelf, SameTimes
  <2>2. Same(-((q * half) * d), -(1 * d))
    BY <1>1, <1>3, SameSelf, SameTimes, SameNegated
  <2>3. /\ (q * d) * m = q * (m * d) + (0 * hand) * d
        /\ (q * d) * (-half) = -((q * half) * d) /\ -(1 * d) = -d
    BY <1>3
  <2> QED
    BY <2>1, <2>2, <2>3 DEF Same
<1> QED
  BY <1>1, <1>4, <1>5, <1>6 DEF Wide

\* The sides of a frustum.
LEMMA SidesWide ==
  ASSUME ExactArithmetic, Divides, NEW low \in Scalar, NEW high \in Scalar, NEW near \in Scalar,
         NEW z \in Scalar, NEW hand \in Scalar, NEW d \in Scalar,
         near # 0, high \ominus low # 0, Same((z * hand) * (high - low), -(high + low))
  PROVE  Wide((Two \otimes near) \oslash (high \ominus low), z, hand, d, Sides(low \oslash near, high \oslash near))
<1>1. PICK y \in Scalar, a \in Scalar, b \in Scalar :
        /\ y = (Two \otimes near) \oslash (high \ominus low)
        /\ a = low \oslash near /\ b = high \oslash near
  BY ScalarsClosed DEF Two
<1>2. /\ y \in Int /\ a \in Int /\ b \in Int /\ low \in Int /\ high \in Int /\ near \in Int
      /\ z \in Int /\ hand \in Int /\ d \in Int
  BY ScalarIs
<1>3. Same(a * near, low) /\ Same(b * near, high)
  BY <1>1, SameQuotient
<1>4. PICK h \in Int, k \in Int, w \in Int : h = high - low /\ k = z * hand /\ w = high + low
  BY <1>2
<1>5. PICK g \in Scalar : g = high \ominus low /\ Same(g, h) /\ g = Of(g)
  <2>1. PICK g \in Scalar : g = high \ominus low
    BY ScalarsClosed
  <2> QED
    BY <1>4, <2>1, ScalarSums, ScalarIs
<1>6. Of(h) # 0
  BY <1>5 DEF Same
<1>7. Same(y * h, 2 * near)
  <2>1. PICK t \in Scalar : t = Two \otimes near /\ Same(t, 2 * near)
    <3>1. Two \in Scalar /\ Same(Two, 2)
      BY TwoIs
    <3>2. PICK t \in Scalar : t = Two \otimes near
      BY <3>1, ScalarsClosed
    <3>3. Same(t, Two * near)
      BY <3>1, <3>2, ScalarSums
    <3>4. Same(Two * near, 2 * near)
      BY <1>2, <3>1, SameSelf, SameTimes
    <3> QED
      BY <3>2, <3>3, <3>4 DEF Same
  <2>2. Same(y * g, t)
    BY <1>1, <1>5, <2>1, SameQuotient
  <2>3. Same(y * g, y * h)
    BY <1>2, <1>5, SameSelf, SameTimes
  <2> QED
    BY <2>1, <2>2, <2>3 DEF Same
<1>8. Same(k * h, -w)
  BY <1>4
<1>9. Same(y * (b * d) + k * d, 1 * d)
  <2>1. 2 * high - w = 1 * h
    BY <1>2, <1>4
  <2>2. IsSide(y, b, k, near, h, high, w, 1, d)
    BY <1>2, <1>3, <1>6, <1>7, <1>8, <2>1 DEF IsSide
  <2> QED
    BY <2>2, SidesAre
<1>10. Same(y * (a * d) + k * d, (-1) * d)
  <2>1. 2 * low - w = (-1) * h
    BY <1>2, <1>4
  <2>2. IsSide(y, a, k, near, h, low, w, -1, d)
    BY <1>2, <1>3, <1>6, <1>7, <1>8, <2>1 DEF IsSide
  <2> QED
    BY <2>2, SidesAre
<1>11. 1 * d = d /\ (-1) * d = -d
  BY <1>2
<1>12. Sides(a, b)[1] = b /\ Sides(a, b)[-1] = a
  BY DEF Sides
<1> QED
  BY <1>1, <1>4, <1>9, <1>10, <1>11, <1>12 DEF Wide

\* Where a shift z lies e off the one that is right, the width is e off.
LEMMA MissesBy ==
  ASSUME ExactArithmetic, NEW xx \in Int, NEW right \in Int, NEW z \in Int, NEW hand \in Int,
         NEW d \in Int, NEW v, v[1] \in Int, v[-1] \in Int, NEW e \in Int,
         Wide(xx, right, hand, d, v), Same(z * hand - right * hand, e)
  PROVE  WideBy(xx, z, hand, d, v, e)
<1>1. PICK k \in Int, k0 \in Int : k = z * hand /\ k0 = right * hand
  OBVIOUS
<1>2. Same((k - k0) * d, e * d)
  BY <1>1, SameSelf, SameTimes
<1>3. ASSUME NEW u \in Int, NEW side \in Int, Same(xx * (u * d) + k0 * d, side * d)
      PROVE  Same(xx * (u * d) + k * d, (side + e) * d)
  <2>1. PICK g \in Int, s \in Int : g = xx * (u * d) /\ s = side * d
    OBVIOUS
  <2>2. Same((g + k0 * d) + (k - k0) * d, s + e * d)
    BY <1>2, <1>3, <2>1, SameSum
  <2>3. (g + k0 * d) + (k - k0) * d = g + k * d /\ s + e * d = (side + e) * d
    BY <2>1
  <2> QED
    BY <2>1, <2>2, <2>3
<1>4. PICK one \in Int, less \in Int : one = 1 /\ less = -1
  OBVIOUS
<1>5. d = one * d /\ -d = less * d
  BY <1>4
<1>6. Same(xx * (v[1] * d) + k0 * d, one * d) /\ Same(xx * (v[-1] * d) + k0 * d, less * d)
  BY <1>1, <1>5 DEF Wide
<1>7. /\ Same(xx * (v[1] * d) + k * d, (one + e) * d)
      /\ Same(xx * (v[-1] * d) + k * d, (less + e) * d)
  BY <1>3, <1>6
<1> QED
  BY <1>1, <1>4, <1>7 DEF WideBy

\* The sides that are right miss by nothing.
LEMMA MissesNothing ==
  ASSUME NEW yy, NEW zy, NEW hand, NEW d \in Int, NEW v, Wide(yy, zy, hand, d, v)
  PROVE  WideBy(yy, zy, hand, d, v, 0)
<1>1. (1 + 0) * d = d /\ (-1 + 0) * d = -d
  OBVIOUS
<1> QED
  BY <1>1 DEF Wide, WideBy

\* The perspectives of either hand, through even sides.
LEMMA PerspectiveFills ==
  ASSUME ExactArithmetic, Divides, NEW t \in Scalar, NEW a \in Scalar, NEW near \in Scalar, NEW far \in Scalar,
         t # 0, a \otimes t # 0, far \ominus near # 0
  PROVE  /\ Fills(perspective_rh(t, a, near, far), Neg(1), near, far, Even(t \otimes a), Even(t), 0)
         /\ Fills(perspective_lh(t, a, near, far), 1, near, far, Even(t \otimes a), Even(t), 0)
<1>1. t \otimes a = a \otimes t
  <2>1. t \in Int /\ a \in Int /\ Of(t) = t /\ Of(a) = a
    BY ScalarIs
  <2>2. Of(t) \otimes Of(a) = Of(t * a) /\ Of(a) \otimes Of(t) = Of(a * t)
    BY <2>1, OfProduct
  <2>3. t * a = a * t
    BY <2>1
  <2> QED
    BY <2>1, <2>2, <2>3
<1>2. PICK g \in Scalar : g = a \otimes t
  BY ScalarsClosed
<1>3. PICK q \in Scalar, p \in Scalar : q = 1 \oslash g /\ p = 1 \oslash t
  BY ScalarsClosed
<1>4. /\ 0 \in Scalar /\ 1 \in Scalar /\ Neg(1) \in Scalar
      /\ Depth(near, far) \in Scalar /\ Shift(near, far) \in Scalar /\ Neg(Depth(near, far)) \in Scalar
  BY ScalarsClosed, DepthClosed
<1>5. ASSUME NEW hand \in Scalar, NEW d \in {near, far}
      PROVE  WideBy(q, 0, hand, d, Even(g), 0) /\ Wide(p, 0, hand, d, Even(t))
  <2>1. Wide(q, 0, hand, d, Even(g)) /\ Wide(p, 0, hand, d, Even(t)) /\ d \in Int
    BY <1>2, <1>3, EvenWide, ScalarIs
  <2> QED
    BY <2>1, MissesNothing
<1>6. SidesTyped(Even(g)) /\ SidesTyped(Even(t))
  BY ScalarsClosed DEF SidesTyped, Even, Sides
<1>7. Fills(Projection(q, p, 0, 0, Neg(Depth(near, far)), Neg(1), Shift(near, far)),
            Neg(1), near, far, Even(g), Even(t), 0)
  BY <1>4, <1>5, <1>6, DeepIs, FillsWhen
<1>8. Fills(Projection(q, p, 0, 0, Depth(near, far), 1, Shift(near, far)),
            1, near, far, Even(g), Even(t), 0)
  BY <1>4, <1>5, <1>6, DeepIs, FillsWhen
<1> QED
  BY <1>1, <1>2, <1>3, <1>7, <1>8 DEF perspective_rh, perspective_lh

\* Quotients of the sum of two sides, as a projection of either hand moves by them.
LEMMA ShiftIs ==
  ASSUME ExactArithmetic, Divides, NEW low \in Scalar, NEW high \in Scalar, NEW g \in Scalar, g # 0
  PROVE  LET q == (high \oplus low) \oslash g
             m == Neg(high \oplus low) \oslash g
         IN  /\ q \in Scalar /\ Same((q * Neg(1)) * g, -(high + low))
             /\ m \in Scalar /\ Same((m * 1) * g, -(high + low))
<1>1. PICK s \in Scalar : s = high \oplus low /\ Same(s, high + low)
  BY ScalarsClosed, ScalarSums
<1>2. PICK k \in Scalar : k = Neg(s) /\ Same(k, -s)
  BY ScalarsClosed, ScalarSums
<1>3. PICK q \in Scalar, m \in Scalar : q = s \oslash g /\ m = k \oslash g
  BY ScalarsClosed
<1>4. Same(q * g, s) /\ Same(m * g, k)
  BY <1>3, SameQuotient
<1>5. q \in Int /\ m \in Int /\ g \in Int /\ Neg(1) = -1
  BY ScalarIs, NegOne
<1>6. Same(-s, -(high + low)) /\ Same(-(q * g), -s)
  BY <1>1, <1>4, SameNegated
<1>7. (q * (-1)) * g = -(q * g) /\ (m * 1) * g = m * g
  BY <1>5
<1>8. Same((q * (-1)) * g, -(high + low)) /\ Same((m * 1) * g, -(high + low))
  BY <1>2, <1>4, <1>6, <1>7 DEF Same
<1> QED
  BY <1>1, <1>2, <1>3, <1>5, <1>8

\* The sides of a frustum whose shift is divided by their distance.
LEMMA FrustumWide ==
  ASSUME ExactArithmetic, Divides, NEW l \in Scalar, NEW r \in Scalar, NEW near \in Scalar,
         NEW hand \in Scalar, NEW z \in Scalar, NEW g \in Scalar,
         near # 0, g # 0, g = r \ominus l, Same((z * hand) * g, -(r + l))
  PROVE  \A d \in Scalar :
           Wide((Two \otimes near) \oslash (r \ominus l), z, hand, d, Sides(l \oslash near, r \oslash near))
<1>1. l \in Int /\ r \in Int /\ z \in Int /\ hand \in Int /\ g \in Int
  BY ScalarIs
<1>2. Same((z * hand) * (r - l), -(r + l))
  <2>1. Same(g, r - l)
    BY ScalarSums
  <2>2. PICK k \in Int : k = z * hand
    BY <1>1
  <2>3. Same(k, k)
    BY SameSelf
  <2>4. Same(k * g, k * (r - l))
    BY <2>1, <2>3, SameTimes
  <2> QED
    BY <2>2, <2>4 DEF Same
<1> QED
  BY <1>2, SidesWide

\* The width of a frustum, missed by the difference of the two quotients.
LEMMA FrustumMisses ==
  ASSUME ExactArithmetic, Divides, NEW l \in Scalar, NEW r \in Scalar, NEW near \in Scalar,
         near # 0, r \ominus l # 0, NEW z \in Scalar, NEW c \in Scalar, NEW hand \in Scalar,
         Same((c * hand) * (r \ominus l), -(r + l)),
         NEW e \in Scalar, Same(z * hand - c * hand, e)
  PROVE  \A d \in Scalar :
           WideBy((Two \otimes near) \oslash (r \ominus l), z, hand, d,
                  Sides(l \oslash near, r \oslash near), e)
<1>1. PICK g \in Scalar : g = r \ominus l
  BY ScalarsClosed
<1>2. PICK xx \in Scalar : xx = (Two \otimes near) \oslash (r \ominus l)
  BY ScalarsClosed, TwoIs
<1>3. PICK x : x = Sides(l \oslash near, r \oslash near)
  OBVIOUS
<1>4. x[1] \in Scalar /\ x[-1] \in Scalar
  BY <1>3, ScalarsClosed DEF Sides
<1>5. \A d \in Scalar : Wide(xx, c, hand, d, x)
  BY <1>1, <1>2, <1>3, FrustumWide
<1>6. SUFFICES ASSUME NEW d \in Scalar PROVE WideBy(xx, z, hand, d, x, e)
  BY <1>2, <1>3
<1>7. /\ xx \in Int /\ c \in Int /\ z \in Int /\ hand \in Int /\ d \in Int /\ e \in Int
      /\ x[1] \in Int /\ x[-1] \in Int
  BY <1>4, ScalarIs
<1>8. Wide(xx, c, hand, d, x)
  BY <1>5
<1> QED
  BY <1>7, <1>8, MissesBy

\* The frustums of either hand, through their sides at the near plane.
LEMMA FrustumFills ==
  ASSUME ExactArithmetic, Divides, NEW l \in Scalar, NEW r \in Scalar, NEW b \in Scalar, NEW t \in Scalar,
         NEW near \in Scalar, NEW far \in Scalar,
         near # 0, far \ominus near # 0, t \ominus b # 0, r \ominus l # 0
  PROVE  LET s == r \oplus l
             x == Sides(l \oslash near, r \oslash near)
             y == Sides(b \oslash near, t \oslash near)
         IN  /\ Fills(frustum_rh(l, r, b, t, near, far), Neg(1), near, far, x, y,
                      s \oslash (r \ominus l) \ominus s \oslash (r \ominus near))
             /\ Fills(frustum_lh(l, r, b, t, near, far), 1, near, far, x, y,
                      Neg(Neg(s) \oslash (r \ominus l) \ominus Neg(s) \oslash (r \ominus near)))
<1>1. /\ 0 \in Scalar /\ 1 \in Scalar /\ Neg(1) \in Scalar /\ Neg(1) = -1
      /\ Depth(near, far) \in Scalar /\ Shift(near, far) \in Scalar /\ Neg(Depth(near, far)) \in Scalar
  BY ScalarsClosed, DepthClosed, NegOne
<1>2. PICK h \in Scalar, g \in Scalar, slip \in Scalar, s \in Scalar, ns \in Scalar :
        /\ h = t \ominus b /\ g = r \ominus l /\ slip = r \ominus near
        /\ s = r \oplus l /\ ns = Neg(s)
  BY ScalarsClosed
<1>3. PICK q \in Scalar, m \in Scalar :
        /\ q = (t \oplus b) \oslash h /\ m = Neg(t \oplus b) \oslash h
        /\ Same((q * Neg(1)) * h, -(t + b)) /\ Same((m * 1) * h, -(t + b))
  BY <1>2, ShiftIs
<1>4. PICK p \in Scalar, k \in Scalar :
        /\ p = s \oslash g /\ k = ns \oslash g
        /\ Same((p * Neg(1)) * g, -(r + l)) /\ Same((k * 1) * g, -(r + l))
  BY <1>2, ShiftIs
<1>5. PICK zp \in Scalar, zk \in Scalar : zp = s \oslash slip /\ zk = ns \oslash slip
  BY <1>2, ScalarsClosed
<1>6. PICK e \in Scalar, f \in Scalar, o \in Scalar :
        e = p \ominus zp /\ f = k \ominus zk /\ o = Neg(f)
  BY ScalarsClosed
<1>7. /\ Same(zp * Neg(1) - p * Neg(1), e)
      /\ Same(zk * 1 - k * 1, o)
  <2>1. /\ p \in Int /\ zp \in Int /\ k \in Int /\ zk \in Int /\ e \in Int /\ f \in Int /\ o \in Int
    BY ScalarIs
  <2>2. Same(e, p - zp) /\ Same(f, k - zk) /\ Same(o, -f)
    BY <1>6, ScalarSums
  <2>3. Same(-f, -(k - zk))
    BY <2>2, SameNegated
  <2>4. zp * (-1) - p * (-1) = p - zp /\ zk * 1 - k * 1 = -(k - zk)
    BY <2>1
  <2> QED
    BY <1>1, <2>2, <2>3, <2>4 DEF Same
<1>8. PICK yy \in Scalar, xx \in Scalar :
        yy = (Two \otimes near) \oslash (t \ominus b) /\ xx = (Two \otimes near) \oslash (r \ominus l)
  BY ScalarsClosed, TwoIs
<1>9. PICK x, y : x = Sides(l \oslash near, r \oslash near) /\ y = Sides(b \oslash near, t \oslash near)
  OBVIOUS
<1>10. SidesTyped(x) /\ SidesTyped(y)
  BY <1>9, ScalarsClosed DEF SidesTyped, Sides
<1>11. \A d \in Scalar : Wide(yy, q, Neg(1), d, y)
  BY <1>1, <1>2, <1>3, <1>8, <1>9, FrustumWide
<1>12. \A d \in Scalar : Wide(yy, m, 1, d, y)
  BY <1>1, <1>2, <1>3, <1>8, <1>9, FrustumWide
<1>13. \A d \in Scalar : WideBy(xx, zp, Neg(1), d, x, e)
  BY <1>1, <1>2, <1>4, <1>7, <1>8, <1>9, FrustumMisses
<1>14. \A d \in Scalar : WideBy(xx, zk, 1, d, x, o)
  BY <1>1, <1>2, <1>4, <1>7, <1>8, <1>9, FrustumMisses
<1>15. PICK zz \in Scalar, nz \in Scalar, wz \in Scalar :
         zz = Depth(near, far) /\ nz = Neg(Depth(near, far)) /\ wz = Shift(near, far)
  BY <1>1
<1>16. Deep(nz, Neg(1), wz, Neg(1), near, far) /\ Deep(zz, 1, wz, 1, near, far)
  BY <1>15, DeepIs
<1>17. Fills(Projection(xx, yy, zp, q, nz, Neg(1), wz), Neg(1), near, far, x, y, e)
  <2>1. /\ \A d \in {near, far} : Wide(yy, q, Neg(1), d, y)
        /\ \A d \in {near, far} : WideBy(xx, zp, Neg(1), d, x, e)
    BY <1>11, <1>13
  <2> QED
    BY <1>1, <1>10, <1>16, <2>1, FillsWhen
<1>18. Fills(Projection(xx, yy, zk, m, zz, 1, wz), 1, near, far, x, y, o)
  <2>1. /\ \A d \in {near, far} : Wide(yy, m, 1, d, y)
        /\ \A d \in {near, far} : WideBy(xx, zk, 1, d, x, o)
    BY <1>12, <1>14
  <2> QED
    BY <1>1, <1>10, <1>16, <2>1, FillsWhen
<1>19. /\ frustum_rh(l, r, b, t, near, far) = Projection(xx, yy, zp, q, nz, Neg(1), wz)
       /\ frustum_lh(l, r, b, t, near, far) = Projection(xx, yy, zk, m, zz, 1, wz)
  BY <1>2, <1>3, <1>5, <1>8, <1>15 DEF frustum_rh, frustum_lh
<1>20. /\ e = (r \oplus l) \oslash (r \ominus l) \ominus (r \oplus l) \oslash (r \ominus near)
       /\ o = Neg(Neg(r \oplus l) \oslash (r \ominus l) \ominus Neg(r \oplus l) \oslash (r \ominus near))
  BY <1>2, <1>4, <1>5, <1>6
<1> QED
  BY <1>9, <1>17, <1>18, <1>19, <1>20

\* What is not 0 one way is not 0 the other.
LEMMA DifferTurned ==
  ASSUME ExactArithmetic, NEW a \in Scalar, NEW b \in Scalar, a \ominus b # 0
  PROVE  b \ominus a # 0
<1>1. SUFFICES ASSUME b \ominus a = 0 PROVE FALSE
  OBVIOUS
<1>2. a \in Int /\ b \in Int /\ Of(0) = 0 /\ 0 \in Scalar
  BY ScalarIs, ScalarsClosed
<1>3. Same(0, b - a) /\ Same(a \ominus b, a - b)
  BY <1>1, ScalarSums
<1>4. PICK m \in Int, n \in Int : m = -1 /\ n = b - a
  BY <1>2
<1>5. Same(m * 0, m * n)
  BY <1>3, <1>4, SameSelf, SameTimes
<1>6. m * 0 = 0 /\ m * n = a - b
  BY <1>2, <1>4
<1>7. a \ominus b \in Scalar /\ Of(a \ominus b) = a \ominus b
  BY ScalarsClosed, ScalarIs
<1> QED
  BY <1>2, <1>3, <1>5, <1>6, <1>7 DEF Same

\* The projections of the cameras, as the calls compute them.
LEMMA CamerasFill ==
  ASSUME ExactArithmetic, Divides, ProperCameras, NEW c \in Cameras
  PROVE  CameraFilled(c)
<1>1. c.tan \in Scalar /\ c.aspect \in Scalar /\ c.near \in Scalar /\ c.far \in Scalar
  BY OperandsAssumption
<1>2. c.tan # 0 /\ c.aspect \otimes c.tan # 0 /\ c.far \ominus c.near # 0
  BY DEF ProperCameras
<1>3. c.near \ominus c.far # 0
  BY <1>1, <1>2, DifferTurned
<1>4. /\ FillsCamera(perspective_rh(c.tan, c.aspect, c.near, c.far), c, Neg(1), c.near, c.far)
      /\ FillsCamera(perspective_lh(c.tan, c.aspect, c.near, c.far), c, 1, c.near, c.far)
  BY <1>1, <1>2, PerspectiveFills DEF FillsCamera
<1>5. FillsCamera(perspective_rh(c.tan, c.aspect, c.far, c.near), c, Neg(1), c.far, c.near)
  BY <1>1, <1>2, <1>3, PerspectiveFills DEF FillsCamera
<1>6. PerspectiveRH(c) => general' = perspective_rh(c.tan, c.aspect, c.near, c.far)
  BY DEF PerspectiveRH, MatrixCompute, MatrixCall
<1>7. PerspectiveLH(c) => general' = perspective_lh(c.tan, c.aspect, c.near, c.far)
  BY DEF PerspectiveLH, MatrixCompute, MatrixCall
<1>8. /\ Perspective(c, FALSE) => general' = perspective_rh(c.tan, c.aspect, c.near, c.far)
      /\ Perspective(c, TRUE) => general' = perspective_rh(c.tan, c.aspect, c.far, c.near)
  BY DEF Perspective, perspective, MatrixCompute, MatrixCall
<1> QED
  BY <1>4, <1>5, <1>6, <1>7, <1>8 DEF CameraFilled

\* What an orthographic projection does to a point.
Orthographic(xx, yy, zx, zy, zz) ==
  <<<<xx, 0, 0, 0>>, <<0, yy, 0, 0>>, <<zx, zy, zz, 0>>, <<0, 0, 0, 1>>>>

MapsOrtho(xx, yy, zx, zy, zz, a, b, c) ==
  LET clip == MatVec(Orthographic(xx, yy, zx, zy, zz), <<a, b, c, 1>>)
  IN  /\ clip[1] = Of(xx * a + zx * c) /\ clip[2] = Of(yy * b + zy * c)
      /\ clip[3] = Of(zz * c) /\ clip[4] = Of(1)

LEMMA OrthoMaps ==
  ASSUME ExactArithmetic, NEW xx \in Scalar, NEW yy \in Scalar, NEW zx \in Scalar, NEW zy \in Scalar,
         NEW zz \in Scalar, NEW a \in Scalar, NEW b \in Scalar, NEW c \in Scalar
  PROVE  MapsOrtho(xx, yy, zx, zy, zz, a, b, c)
<1> DEFINE m == Orthographic(xx, yy, zx, zy, zz)
           p == <<a, b, c, 1>>
<1>1. /\ xx \in Int /\ yy \in Int /\ zx \in Int /\ zy \in Int /\ zz \in Int
      /\ a \in Int /\ b \in Int /\ c \in Int
  BY ScalarIs
<1>2. /\ m[1][1] = xx /\ m[1][2] = 0 /\ m[1][3] = 0 /\ m[1][4] = 0
      /\ m[2][1] = 0 /\ m[2][2] = yy /\ m[2][3] = 0 /\ m[2][4] = 0
      /\ m[3][1] = zx /\ m[3][2] = zy /\ m[3][3] = zz /\ m[3][4] = 0
      /\ m[4][1] = 0 /\ m[4][2] = 0 /\ m[4][3] = 0 /\ m[4][4] = 1
  BY DEF Orthographic
<1>3. p[1] = a /\ p[2] = b /\ p[3] = c /\ p[4] = 1
  OBVIOUS
<1>4. m \in MatrixOf(4, 4)
  <2>1. 0 \in Scalar /\ 1 \in Scalar
    BY ScalarsClosed
  <2>2. /\ <<xx, 0, 0, 0>> \in VectorOf(4) /\ <<0, yy, 0, 0>> \in VectorOf(4)
        /\ <<zx, zy, zz, 0>> \in VectorOf(4) /\ <<0, 0, 0, 1>> \in VectorOf(4)
    BY <2>1, Tuple4Closed
  <2> QED
    BY <2>2, ColumnsClosed DEF Orthographic
<1>5. p \in VectorOf(4)
  BY Tuple4Closed, ScalarsClosed
<1> HIDE DEF m, p
<1>6. 4 \in 3 .. 4 /\ 4 \in Nat
  OBVIOUS
<1>7. RepresentsAll(4, m, m) /\ DOMAIN m = 1 .. 4 /\ Rows(m) = 4 /\ Represents(4, p, p)
  BY <1>4, <1>5, <1>6, MatrixRepresents, ScalarsRepresent
<1>8. Represents(4, IntMatVec(4, m, p), MatVec(m, p))
  BY <1>6, <1>7, OfMatVec
<1>9. \A j \in 1 .. 4 :
        MatVec(m, p)[j] = Of(m[1][j] * p[1] + m[2][j] * p[2] + m[3][j] * p[3] + m[4][j] * p[4])
  BY <1>8, Entry4 DEF Represents
<1>10. /\ m[1][1] * p[1] + m[2][1] * p[2] + m[3][1] * p[3] + m[4][1] * p[4] = xx * a + zx * c
       /\ m[1][2] * p[1] + m[2][2] * p[2] + m[3][2] * p[3] + m[4][2] * p[4] = yy * b + zy * c
       /\ m[1][3] * p[1] + m[2][3] * p[2] + m[3][3] * p[3] + m[4][3] * p[4] = zz * c
       /\ m[1][4] * p[1] + m[2][4] * p[2] + m[3][4] * p[3] + m[4][4] * p[4] = 1
  BY <1>1, <1>2, <1>3
<1>11. /\ MatVec(m, p)[1] = Of(m[1][1] * p[1] + m[2][1] * p[2] + m[3][1] * p[3] + m[4][1] * p[4])
       /\ MatVec(m, p)[2] = Of(m[1][2] * p[1] + m[2][2] * p[2] + m[3][2] * p[3] + m[4][2] * p[4])
       /\ MatVec(m, p)[3] = Of(m[1][3] * p[1] + m[2][3] * p[2] + m[3][3] * p[3] + m[4][3] * p[4])
       /\ MatVec(m, p)[4] = Of(m[1][4] * p[1] + m[2][4] * p[2] + m[3][4] * p[3] + m[4][4] * p[4])
  BY <1>9
<1>12. /\ MatVec(m, p)[1] = Of(xx * a + zx * c) /\ MatVec(m, p)[2] = Of(yy * b + zy * c)
       /\ MatVec(m, p)[3] = Of(zz * c) /\ MatVec(m, p)[4] = Of(1)
  BY <1>10, <1>11
<1> QED
  BY <1>12 DEF m, p, MapsOrtho

\* Where the side of an orthographic projection goes.
LEMMA SpreadIs ==
  ASSUME ExactArithmetic, Divides, NEW low \in Scalar, NEW high \in Scalar, high \ominus low # 0,
         NEW factor \in Scalar, NEW z \in Scalar, NEW ends \in {-1, 1},
         NEW v \in Scalar, v = Sides(low, high)[ends],
         NEW t \in Scalar, t = Neg(high \oplus low) \oslash (high \ominus low)
  PROVE  Of(factor * v + t * z) = ends \oplus Spread(low, high, v, factor, z)
<1>1. PICK g \in Scalar : g = high \ominus low
  BY ScalarsClosed
<1>2. Two \in Scalar /\ Same(Two, 2) /\ 1 \in Scalar /\ ends \in Scalar
  BY TwoIs, ScalarsClosed
<1>3. PICK e \in Scalar : e = Two \oslash g
  BY <1>1, <1>2, ScalarsClosed
<1>4. /\ low \in Int /\ high \in Int /\ factor \in Int /\ z \in Int /\ ends \in Int
      /\ v \in Int /\ t \in Int /\ g \in Int /\ Of(g) = g /\ e \in Int
  BY ScalarIs
<1>5. PICK h \in Int, w \in Int : h = high - low /\ w = high + low
  BY <1>4
<1>6. Same(g, h)
  BY <1>1, <1>5, ScalarSums
<1>7. Same(e * h, 2 * 1)
  <2>1. Same(e * g, Two)
    BY <1>1, <1>2, <1>3, SameQuotient
  <2>2. Same(e * g, e * h)
    BY <1>4, <1>6, SameSelf, SameTimes
  <2> QED
    BY <1>2, <2>1, <2>2 DEF Same
<1>8. Same(t * h, -w)
  <2>1. Same((t * 1) * g, -(high + low))
    BY <1>1, ShiftIs
  <2>2. Same(t * g, t * h)
    BY <1>4, <1>6, SameSelf, SameTimes
  <2>3. t * 1 = t
    BY <1>4
  <2> QED
    BY <1>5, <2>1, <2>2, <2>3 DEF Same
<1>9. 2 * v - w = ends * h
  <2>1. CASE ends = 1
    <3>1. v = high
      BY <2>1 DEF Sides
    <3> QED
      BY <1>4, <1>5, <2>1, <3>1
  <2>2. CASE ends = -1
    <3>1. v = low
      BY <2>2 DEF Sides
    <3> QED
      BY <1>4, <1>5, <2>2, <3>1
  <2> QED
    BY <2>1, <2>2
<1>10. Same(e * v + t, ends)
  <2>1. Of(h) # 0
    BY <1>1, <1>4, <1>6 DEF Same
  <2>2. Same(v * 1, v)
    <3>1. v * 1 = v
      BY <1>4
    <3> QED
      BY <1>4, <3>1, SameSelf
  <2>3. IsSide(e, v, t, 1, h, v, w, ends, 1)
    BY <1>4, <1>5, <1>7, <1>8, <1>9, <2>1, <2>2 DEF IsSide
  <2>4. Same(e * (v * 1) + t * 1, ends * 1)
    BY <2>3, SidesAre
  <2>5. e * (v * 1) + t * 1 = e * v + t /\ ends * 1 = ends
    BY <1>4
  <2> QED
    BY <2>4, <2>5
<1>11. PICK a \in Scalar, b \in Scalar :
         /\ a = factor \ominus e /\ Same(a, factor - e)
         /\ b = z \ominus 1 /\ Same(b, z - 1)
  <2>1. PICK a \in Scalar, b \in Scalar : a = factor \ominus e /\ b = z \ominus 1
    BY <1>2, ScalarsClosed
  <2>2. Same(a, factor - e) /\ Same(b, z - 1)
    BY <1>2, <2>1, ScalarSums
  <2> QED
    BY <2>1, <2>2
<1>12. PICK p \in Scalar, q \in Scalar :
         /\ p = v \otimes a /\ Same(p, v * (factor - e))
         /\ q = t \otimes b /\ Same(q, t * (z - 1))
  <2>1. PICK p \in Scalar, q \in Scalar : p = v \otimes a /\ q = t \otimes b
    BY ScalarsClosed
  <2>2. Same(p, v * a) /\ Same(q, t * b)
    BY <2>1, ScalarSums
  <2>3. Same(v * a, v * (factor - e)) /\ Same(t * b, t * (z - 1))
    BY <1>4, <1>11, SameSelf, SameTimes
  <2> QED
    BY <2>1, <2>2, <2>3 DEF Same
<1>13. PICK s \in Scalar :
         s = p \oplus q /\ Same(s, v * (factor - e) + t * (z - 1))
  <2>1. PICK s \in Scalar : s = p \oplus q
    BY ScalarsClosed
  <2>2. Same(s, p + q)
    BY <2>1, ScalarSums
  <2>3. Same(p + q, v * (factor - e) + t * (z - 1))
    BY <1>12, SameSum
  <2> QED
    BY <2>1, <2>2, <2>3 DEF Same
<1>14. s = Spread(low, high, v, factor, z)
  BY <1>1, <1>3, <1>11, <1>12, <1>13 DEF Spread
<1>15. Same(ends + s, factor * v + t * z)
  <2>1. Same((e * v + t) + (v * (factor - e) + t * (z - 1)), ends + s)
    <3>1. Same(v * (factor - e) + t * (z - 1), s)
      BY <1>13 DEF Same
    <3> QED
      BY <1>10, <3>1, SameSum
  <2>2. (e * v + t) + (v * (factor - e) + t * (z - 1)) = factor * v + t * z
    <3>1. v * (factor - e) = factor * v - e * v /\ t * (z - 1) = t * z - t
      BY <1>4
    <3>2. PICK ev \in Int, fv \in Int, tz \in Int : ev = e * v /\ fv = factor * v /\ tz = t * z
      BY <1>4
    <3> QED
      BY <1>4, <3>1, <3>2
  <2> QED
    BY <2>1, <2>2 DEF Same
<1>16. PICK o \in Scalar : o = ends \oplus s /\ Same(o, ends + s) /\ Of(o) = o
  <2>1. PICK o \in Scalar : o = ends \oplus s
    BY <1>2, ScalarsClosed
  <2> QED
    BY <1>2, <2>1, ScalarSums, ScalarIs
<1> QED
  BY <1>14, <1>15, <1>16 DEF Same

\* An orthographic projection of one hand.
LEMMA OrthoSpreads ==
  ASSUME ExactArithmetic, Divides, ProperBoxes, NEW b \in Boxes,
         NEW hand \in Scalar, NEW depth \in Scalar
  PROVE  Spreads(OrthoOf(depth, b.left, b.right, b.bottom, b.top, b.near, b.far), b, hand, depth)
<1>1. PICK l \in Scalar, r \in Scalar, low \in Scalar, high \in Scalar, near \in Scalar, far \in Scalar :
        /\ l = b.left /\ r = b.right /\ low = b.bottom /\ high = b.top
        /\ near = b.near /\ far = b.far
  BY OperandsAssumption
<1>2. r \ominus l # 0 /\ high \ominus low # 0
  BY <1>1 DEF ProperBoxes
<1>3. Two \in Scalar /\ Neg(Depth(near, far)) \in Scalar
  BY ScalarsClosed, TwoIs, DepthClosed
<1>4. PICK xx \in Scalar, zx \in Scalar, zy \in Scalar, zz \in Scalar :
        /\ xx = Two \oslash (r \ominus l)
        /\ zx = Neg(r \oplus l) \oslash (r \ominus l)
        /\ zy = Neg(high \oplus low) \oslash (high \ominus low)
        /\ zz = Neg(Depth(near, far))
  BY <1>3, ScalarsClosed
<1>5. OrthoOf(depth, b.left, b.right, b.bottom, b.top, b.near, b.far) = Orthographic(xx, depth, zx, zy, zz)
  BY <1>1, <1>4 DEF OrthoOf, Orthographic
<1>6. SUFFICES ASSUME NEW d \in {near, far}, NEW ends \in {-1, 1}
               PROVE  LET x == Sides(l, r)[ends]
                          y == Sides(low, high)[ends]
                          z == hand \otimes d
                          clip == MatVec(Orthographic(xx, depth, zx, zy, zz), Corner(x, y, d, hand))
                      IN  /\ clip[4] = 1
                          /\ clip[3] = Neg(Depth(near, far)) \otimes z
                          /\ clip[2] = ends \oplus Spread(low, high, y, depth, z)
                          /\ clip[1] = ends \oplus Spread(l, r, x, Two \oslash (r \ominus l), z)
  BY <1>1, <1>5 DEF Spreads
<1>7. PICK x \in Scalar, y \in Scalar, z \in Scalar :
        x = Sides(l, r)[ends] /\ y = Sides(low, high)[ends] /\ z = hand \otimes d
  BY ScalarsClosed DEF Sides
<1> DEFINE clip == MatVec(Orthographic(xx, depth, zx, zy, zz), <<x, y, z, 1>>)
<1>8. /\ clip[1] = Of(xx * x + zx * z) /\ clip[2] = Of(depth * y + zy * z)
      /\ clip[3] = Of(zz * z) /\ clip[4] = Of(1)
  <2>1. MapsOrtho(xx, depth, zx, zy, zz, x, y, z)
    BY OrthoMaps
  <2> QED
    BY <2>1 DEF MapsOrtho
<1>9. Corner(x, y, d, hand) = <<x, y, z, 1>>
  BY <1>7 DEF Corner
<1> HIDE DEF clip
<1>10. clip[1] = ends \oplus Spread(l, r, x, Two \oslash (r \ominus l), z)
  BY <1>2, <1>4, <1>7, <1>8, SpreadIs
<1>11. clip[2] = ends \oplus Spread(low, high, y, depth, z)
  BY <1>2, <1>4, <1>7, <1>8, SpreadIs
<1>12. clip[3] = Neg(Depth(near, far)) \otimes z
  <2>1. PICK q \in Scalar : q = zz \otimes z /\ Same(q, zz * z) /\ Of(q) = q
    BY ScalarsClosed, ScalarSums, ScalarIs
  <2> QED
    BY <1>4, <1>8, <2>1 DEF Same
<1>13. clip[4] = 1
  BY <1>8, ScalarsClosed, ScalarIs
<1> QED
  BY <1>7, <1>9, <1>10, <1>11, <1>12, <1>13 DEF clip

\* The frustums and the orthographic projections of the boxes.
LEMMA BoxesFill ==
  ASSUME ExactArithmetic, Divides, ProperBoxes, NEW b \in Boxes
  PROVE  BoxFilled(b)
<1>1. /\ b.left \in Scalar /\ b.right \in Scalar /\ b.bottom \in Scalar /\ b.top \in Scalar
      /\ b.near \in Scalar /\ b.far \in Scalar
  BY OperandsAssumption
<1>2. /\ b.near # 0 /\ b.far \ominus b.near # 0 /\ b.top \ominus b.bottom # 0
      /\ b.right \ominus b.left # 0
  BY DEF ProperBoxes
<1>3. /\ FillsRH(frustum_rh(b.left, b.right, b.bottom, b.top, b.near, b.far), b)
      /\ FillsLH(frustum_lh(b.left, b.right, b.bottom, b.top, b.near, b.far), b)
  BY <1>1, <1>2, FrustumFills DEF FillsRH, FillsLH, FillsBox, Missed
<1>4. /\ FrustumRH(b) \/ Frustum(b, FALSE) =>
           general' = frustum_rh(b.left, b.right, b.bottom, b.top, b.near, b.far)
      /\ FrustumLH(b) \/ Frustum(b, TRUE) =>
           general' = frustum_lh(b.left, b.right, b.bottom, b.top, b.near, b.far)
  BY DEF FrustumRH, FrustumLH, Frustum, frustum, MatrixCompute, MatrixCall
<1>5. /\ SpreadsRH(ortho_rh(b.left, b.right, b.bottom, b.top, b.near, b.far), b)
      /\ SpreadsLH(ortho_lh(b.left, b.right, b.bottom, b.top, b.near, b.far), b)
  <2>1. /\ 1 \in Scalar /\ Neg(1) \in Scalar /\ Two \in Scalar /\ Neg(Two) \in Scalar
        /\ b.far \ominus b.near \in Scalar
    BY <1>1, ScalarsClosed, TwoIs
  <2>2. PICK rh \in Scalar, lh \in Scalar :
          rh = Neg(Two) \oslash (b.far \ominus b.near) /\ lh = Two \oslash (b.far \ominus b.near)
    BY <2>1, ScalarsClosed
  <2>3. /\ Spreads(OrthoOf(rh, b.left, b.right, b.bottom, b.top, b.near, b.far), b, Neg(1), rh)
        /\ Spreads(OrthoOf(lh, b.left, b.right, b.bottom, b.top, b.near, b.far), b, 1, lh)
    BY <2>1, OrthoSpreads
  <2> QED
    BY <2>2, <2>3 DEF SpreadsRH, SpreadsLH, ortho_rh, ortho_lh
<1>6. /\ OrthoRH(b) \/ Ortho(b, FALSE) =>
           general' = ortho_rh(b.left, b.right, b.bottom, b.top, b.near, b.far)
      /\ OrthoLH(b) \/ Ortho(b, TRUE) =>
           general' = ortho_lh(b.left, b.right, b.bottom, b.top, b.near, b.far)
  BY DEF OrthoRH, OrthoLH, Ortho, ortho, MatrixCompute, MatrixCall
<1> QED
  BY <1>3, <1>4, <1>5, <1>6 DEF BoxFilled

\* Where the projections of perspective.hpp map the corners of their volume,
\* whenever the arithmetic is exact and divides and the volume has an extent:
\* to the corners of the clip space, but for the width of a frustum, missed by
\* the difference between the quotient of the code and that of the page it
\* refers to, and for what ortho multiplies by z (perspective.hpp:6, 11-130).
THEOREM ProjectionsFillHolds ==
  ASSUME ExactArithmetic, Divides, ProperCameras, ProperBoxes
  PROVE  Spec => ProjectionsFill
<1> DEFINE Reached == /\ \A c \in Cameras : CameraFilled(c)
                      /\ \A b \in Boxes : BoxFilled(b)
<1>1. Reached
  BY CamerasFill, BoxesFill
<1>2. [Next]_vars => [Reached]_vars
  BY <1>1
<1> HIDE DEF Reached
<1>3. Spec => [][Reached]_vars
  BY <1>2, PTL DEF Spec
<1> QED
  BY <1>3 DEF Reached, ProjectionsFill
=============================================================================
