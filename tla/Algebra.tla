------------------------------- MODULE Algebra -------------------------------
(***************************************************************************)
(* A vector, a matrix or a quaternion of xme::math and the calls a program *)
(* makes on it.  A vector of 2, 3 or 4 components and a 4 by 4 matrix are  *)
(* held twice: `general' as the class template computes them, `special' as *)
(* the specialisation written out by hand does.                            *)
(***************************************************************************)
EXTENDS Quaternions, Projections

CONSTANTS SomeVectors,      \* the vectors of 2, 3 and 4 components to start from and to pass
          SomeMatrices,     \* the 4 by 4 matrices
          SomeQuaternions,
          SomeScalars,
          Angles,           \* <<sine, cosine>>
          Axes,             \* vectors of 3 components and length 1
          Cameras,          \* [tan, aspect, near, far] of a projection
          Boxes,            \* [left, right, bottom, top, near, far] of one
          MaxCalls          \* bound: no program makes more calls

VectorOf(n) == [1 .. n -> Scalar]
MatrixOf(cols, rows) == [1 .. cols -> VectorOf(rows)]
QuaternionSet == [w : Scalar, x : Scalar, y : Scalar, z : Scalar]

ASSUME OperandsAssumption ==
  /\ \A v \in SomeVectors : \E n \in 2 .. 4 : v \in VectorOf(n)
  /\ \A m \in SomeMatrices : m \in MatrixOf(4, 4)
  /\ SomeQuaternions \subseteq QuaternionSet
  /\ SomeScalars \subseteq Scalar /\ Angles \subseteq Scalar \X Scalar
  /\ Axes \subseteq VectorOf(3)
  /\ \A c \in Cameras : {c.tan, c.aspect, c.near, c.far} \subseteq Scalar
  /\ \A b \in Boxes : {b.left, b.right, b.bottom, b.top, b.near, b.far} \subseteq Scalar
  /\ MaxCalls \in Nat

VARIABLES kind,      \* "vector", "matrix" or "quaternion"
          general, special,
          calls

vars == <<kind, general, special, calls>>

-----------------------------------------------------------------------------
(* The specialisation for the number of components v has. *)

Make(v) == CASE Len(v) = 2 -> Vec2(v[1], v[2])
             [] Len(v) = 3 -> Vec3(v[1], v[2], v[3])
             [] Len(v) = 4 -> Vec4(v[1], v[2], v[3], v[4])

At(n, r) == CASE n = 2 -> Vec2At(r) [] n = 3 -> Vec3At(r) [] n = 4 -> Vec4At(r)

SpecialOp(n, op, r, u) ==
  CASE n = 2 -> Vec2Op(op, r, u) [] n = 3 -> Vec3Op(op, r, u) [] n = 4 -> Vec4Op(op, r, u)
SpecialSelfOp(n, op, r, u) ==
  CASE n = 2 -> Vec2SelfOp(op, r, u) [] n = 3 -> Vec3SelfOp(op, r, u)
    [] n = 4 -> Vec4SelfOp(op, r, u)
SpecialNegated(n, r) ==
  CASE n = 2 -> Vec2Negated(r) [] n = 3 -> Vec3Negated(r) [] n = 4 -> Vec4Negated(r)
SpecialAssigned(n, r, u) ==
  CASE n = 2 -> Vec2Assigned(r, u) [] n = 3 -> Vec3Assigned(r, u) [] n = 4 -> Vec4Assigned(r, u)

\* An operand of n components, a scalar among them.
Operands(n) == {v \in SomeVectors : Len(v) = n} \cup {Filled(n, s) : s \in SomeScalars}

\* Division by 0 is no legal call.
Legal(op, v) == op = "/" => \A i \in DOMAIN v : v[i] # 0

-----------------------------------------------------------------------------
Init == /\ calls = 0
        /\ \/ /\ kind = "vector"
              /\ general \in SomeVectors
              /\ special = Make(general)
           \/ /\ kind = "matrix"
              /\ \/ general \in SomeMatrices /\ special = general
                 \/ \E s \in SomeScalars : general = Diagonal(4, 4, s) /\ special = Diagonal4(s)
           \/ /\ kind = "quaternion"
              /\ special \in SomeQuaternions
              /\ general = QuatAt(special)

Calling(what) == kind = what /\ calls < MaxCalls /\ calls' = calls + 1 /\ UNCHANGED kind

VectorOperation(op, u) ==
  /\ Calling("vector") /\ Legal(op, u)
  /\ general' = VecOp(op, general, u)
  /\ special' = SpecialOp(Len(general), op, special, Make(u))

VectorSelfOperation(op, u) ==
  /\ Calling("vector") /\ Legal(op, u)
  /\ general' = VecSelfOp(op, general, u)
  /\ special' = SpecialSelfOp(Len(general), op, special, Make(u))

VectorNegate ==
  /\ Calling("vector")
  /\ general' = VecNegated(general)
  /\ special' = SpecialNegated(Len(general), special)

VectorAssign(u) ==
  /\ Calling("vector")
  /\ general' = VecAssigned(general, u)
  /\ special' = SpecialAssigned(Len(general), special, Make(u))

\* A larger vector is made of the components and of scalars before and after.
VectorPrefix(s) ==
  \/ /\ Calling("vector") /\ Len(general) = 2
     /\ general' = <<s, general[1], general[2]>>
     /\ special' = Vec3SV(s, special)
  \/ /\ Calling("vector") /\ Len(general) = 3
     /\ general' = <<s, general[1], general[2], general[3]>>
     /\ special' = Vec4SV(s, special)

VectorSuffix(s) ==
  \/ /\ Calling("vector") /\ Len(general) = 2
     /\ general' = <<general[1], general[2], s>>
     /\ special' = Vec3VS(special, s)
  \/ /\ Calling("vector") /\ Len(general) = 3
     /\ general' = <<general[1], general[2], general[3], s>>
     /\ special' = Vec4VS(special, s)

VectorSurround(s1, s2) ==
  /\ Calling("vector") /\ Len(general) = 2
  /\ \/ /\ general' = <<s1, s2, general[1], general[2]>>
        /\ special' = Vec4SSV(s1, s2, special)
     \/ /\ general' = <<s1, general[1], general[2], s2>>
        /\ special' = Vec4SVS(s1, special, s2)
     \/ /\ general' = <<general[1], general[2], s1, s2>>
        /\ special' = Vec4VSS(special, s1, s2)

VectorJoin(u) ==
  /\ Calling("vector") /\ Len(general) = 2
  /\ general' = <<general[1], general[2], u[1], u[2]>>
  /\ special' = Vec4VV(special, Make(u))

\* The functions are templates of any size: they read their arguments through
\* operator[] and the operators above, so that what they compute depends on
\* the components alone, which are the same in both (Agree).
VectorCompute(new) ==
  /\ Calling("vector")
  /\ general' = new
  /\ special' = Make(new)

VectorFunction(u) ==
  \/ VectorCompute(reflect(general, u))
  \/ \E i \in Operands(Len(general)) : VectorCompute(faceforward(general, i, u))
  \/ \E percent \in SomeScalars : VectorCompute(lerp(general, u, percent))
  \/ \E percent \in Operands(Len(general)) : VectorCompute(LerpEach(general, u, percent))
  \/ \E percent \in [DOMAIN u -> BOOLEAN] : VectorCompute(LerpBool(general, u, percent))
  \/ Len(u) = 3 /\ VectorCompute(cross(general, u))
  \/ VectorCompute(VecSign(general))

VectorMapped(m) ==
  /\ Calling("vector") /\ Len(general) = 4
  /\ general' = MatVec(m, general)
  /\ special' = Make(Mat4Vec(m, Vec4At(special)))

VectorNext ==
  \/ \E u \in Operands(Len(general)) :
       \/ \E op \in Ops : VectorOperation(op, u) \/ VectorSelfOperation(op, u)
       \/ VectorAssign(u)
       \/ VectorFunction(u)
  \/ VectorNegate
  \/ \E s \in SomeScalars : VectorPrefix(s) \/ VectorSuffix(s)
  \/ \E s1 \in SomeScalars, s2 \in SomeScalars : VectorSurround(s1, s2)
  \/ \E u \in Operands(2) : VectorJoin(u)
  \/ \E m \in SomeMatrices : VectorMapped(m)

-----------------------------------------------------------------------------
MatrixOperands == SomeMatrices \cup {Diagonal(4, 4, s) : s \in SomeScalars}
Vectors3 == {v \in SomeVectors : Len(v) = 3}
Vectors4 == {v \in SomeVectors : Len(v) = 4}

\* The matrix without its last row and column.
Upper(m) == [i \in 1 .. Len(m) - 1 |-> [j \in 1 .. Len(m) - 1 |-> m[i][j]]]

MatrixCall(g, s) == Calling("matrix") /\ general' = g /\ special' = s

MatrixOperation(op) ==
  \/ /\ op \in {"+", "-"}
     /\ \E m \in MatrixOperands :
          \/ MatrixCall(MatOp(op, general, m), Mat4Op(op, special, m))
          \/ MatrixCall(MatSelfOp(op, general, m), Mat4SelfOp(op, special, m))
  \/ \E s \in SomeScalars :
       /\ Legal(op, <<s>>)
       /\ \/ MatrixCall(MatOpScalar(op, general, s), Mat4OpScalar(op, special, s))
          \/ MatrixCall(MatSelfOpScalar(op, general, s), Mat4SelfOpScalar(op, special, s))

MatrixNegate == MatrixCall(MatNegated(general), Mat4Negated(special))

MatrixAssign(m) == MatrixCall(MatAssigned(general, m), Mat4Assigned(special, m))

MatrixTimes(m) == MatrixCall(MatMat(general, m), Mat4Mat(special, m))

\* A matrix of 3 by 3 in one of 4 by 4, and in the identity by a double loop.
Bordered(m) == [i \in 1 .. 4 |-> [j \in 1 .. 4 |->
                  IF i < 4 /\ j < 4 THEN m[i][j] ELSE IF i = j THEN 1 ELSE 0]]
MatrixFrom3(m) == MatrixCall(Bordered(m), Mat4From3(Upper(m)))

\* Of the templates on matrices, which read the columns and nothing else.
MatrixCompute(f(_)) == MatrixCall(f(general), f(special))

Transpose == MatrixCompute(transpose)
Hadamard(n) == MatrixCompute(LAMBDA m : hadamard_product(m, n))
Outer(v, u) == MatrixCompute(LAMBDA m : outer_product(v, u))
Translate(v) == MatrixCompute(LAMBDA m : translate(m, v))
Scale(v) == MatrixCompute(LAMBDA m : scale(m, v))
Rotate(angle, n) == MatrixCompute(LAMBDA m : rotate(m, angle[1], angle[2], n))

PerspectiveRH(c) == MatrixCompute(LAMBDA m : perspective_rh(c.tan, c.aspect, c.near, c.far))
PerspectiveLH(c) == MatrixCompute(LAMBDA m : perspective_lh(c.tan, c.aspect, c.near, c.far))
Perspective(c, clip_lh) ==   \* whether the library is built with XME_MATH_CLIP_LH
  MatrixCompute(LAMBDA m : perspective(clip_lh, c.tan, c.aspect, c.near, c.far))

FrustumRH(b) == MatrixCompute(LAMBDA m : frustum_rh(b.left, b.right, b.bottom, b.top, b.near, b.far))
FrustumLH(b) == MatrixCompute(LAMBDA m : frustum_lh(b.left, b.right, b.bottom, b.top, b.near, b.far))
Frustum(b, clip_lh) ==
  MatrixCompute(LAMBDA m : frustum(clip_lh, b.left, b.right, b.bottom, b.top, b.near, b.far))

OrthoRH(b) == MatrixCompute(LAMBDA m : ortho_rh(b.left, b.right, b.bottom, b.top, b.near, b.far))
OrthoLH(b) == MatrixCompute(LAMBDA m : ortho_lh(b.left, b.right, b.bottom, b.top, b.near, b.far))
Ortho(b, clip_lh) ==
  MatrixCompute(LAMBDA m : ortho(clip_lh, b.left, b.right, b.bottom, b.top, b.near, b.far))

MatrixNext ==
  \/ \E op \in Ops : MatrixOperation(op)
  \/ MatrixNegate \/ Transpose
  \/ \E m \in MatrixOperands :
       MatrixAssign(m) \/ MatrixTimes(m) \/ MatrixFrom3(m) \/ Hadamard(m)
  \/ \E v \in Vectors4, u \in Vectors4 : Outer(v, u)
  \/ \E v \in Vectors3 : Translate(v) \/ Scale(v)
  \/ \E angle \in Angles, n \in Axes : Rotate(angle, n)
  \/ \E c \in Cameras : \/ PerspectiveRH(c) \/ PerspectiveLH(c)
                        \/ \E clip_lh \in BOOLEAN : Perspective(c, clip_lh)
  \/ \E b \in Boxes : \/ FrustumRH(b) \/ FrustumLH(b) \/ OrthoRH(b) \/ OrthoLH(b)
                      \/ \E clip_lh \in BOOLEAN : Frustum(b, clip_lh) \/ Ortho(b, clip_lh)

-----------------------------------------------------------------------------
QuaternionCall(new) ==
  /\ Calling("quaternion")
  /\ special' = new
  /\ general' = QuatAt(new)

QuaternionNext ==
  \E q \in SomeQuaternions : \/ QuaternionCall(QuatPlus(special, q))
                            \/ QuaternionCall(QuatMinus(special, q))
                            \/ QuaternionCall(QuatTimes(special, q))

Done == calls = MaxCalls /\ UNCHANGED vars

Next == VectorNext \/ MatrixNext \/ QuaternionNext \/ Done

Spec == Init /\ [][Next]_vars

-----------------------------------------------------------------------------
\* The specialisations for 2, 3 and 4 components and for 4 by 4 matrices
\* compute what the templates they replace do, whatever calls came before
\* (vector2.hpp, vector3.hpp, vector4.hpp, matrix4x4.hpp).
Agree ==
  CASE kind = "vector" -> special = Make(general) /\ At(Len(general), special) = general
    [] kind = "matrix" -> special = general
    [] kind = "quaternion" -> general = QuatAt(special)

-----------------------------------------------------------------------------
(* What the laws below need.  They are about exact arithmetic: a component *)
(* stands for an integer, or for all those that leave the same remainder,  *)
(* and what Arith returns is exact.  A floating-point type rounds, and     *)
(* obeys them but for what it rounds.                                      *)

\* value[i] is the component that stands for i.
ExactOn(range, value) ==
  /\ Scalar \subseteq Int
  /\ \A a \in Scalar : value[a] = a
  /\ \A a \in range, b \in range : /\ value[a] \oplus value[b] = value[a + b]
                                   /\ value[a] \ominus value[b] = value[a - b]
                                   /\ value[a] \otimes value[b] = value[a * b]
ExactArithmetic == \E value \in [Int -> Scalar] : ExactOn(Int, value)

\* The negation of a component that is not negative is not positive.
Signed == \A a \in Scalar : 0 <= a => Neg(a) <= 0

UnitAxes   == \A n \in Axes : dot(n, n) = 1
UnitAngles == \A angle \in Angles : angle[1] \otimes angle[1] \oplus angle[2] \otimes angle[2] = 1

\* Division undoes multiplication, as in the residues of a prime; cameras and
\* boxes have an extent and are not at the eye.
Divides == \A a \in Scalar, b \in Scalar : b # 0 => (a \oslash b) \otimes b = a
ProperCameras ==
  \A c \in Cameras : c.tan # 0 /\ c.aspect \otimes c.tan # 0 /\ c.far \ominus c.near # 0
ProperBoxes ==
  \A b \in Boxes :
    /\ b.near # 0 /\ b.far \ominus b.near # 0 /\ b.top \ominus b.bottom # 0
    /\ b.right \ominus b.left # 0

-----------------------------------------------------------------------------
\* cross returns the vector orthogonal to both, as geometry.hpp says, on the
\* side and of the length that the determinant of the three tells.
CrossIsNormal ==
  kind = "vector" /\ Len(general) = 3 =>
    \A u \in Vectors3 :
      LET c == cross(general, u)
      IN  /\ dot(c, general) = 0 /\ dot(c, u) = 0
          /\ \A v \in Vectors3 : dot(c, v) = determinant3(<<general, u, v>>)

\* reflect turns the part along the normal over and keeps the rest and the
\* length.  What faceforward makes of a normal never looks along the incident;
\* where the two are at a right angle it returns the negation, and not the
\* vector, as the comment has it (geometry.hpp:59).
ReflectMirrors ==
  kind = "vector" /\ Len(general) = 3 =>
    \A n \in Axes :
      LET r == reflect(general, n)
      IN  /\ dot(r, n) = Neg(dot(general, n))
          /\ cross(r, n) = cross(general, n)
          /\ dot(r, r) = dot(general, general)
          /\ dot(faceforward(n, general, n), general) <= 0
          /\ dot(n, general) = 0 => faceforward(n, general, n) = VecNegated(n)

\* lerp goes from v1 to v2 in a straight line, is the same from the other end,
\* and its forms with a percentage or a bool for each component agree with it.
LerpBetween ==
  kind = "vector" =>
    \A u \in Operands(Len(general)), t \in SomeScalars \cup {0, 1} :
      LET n == Len(general)
          between == lerp(general, u, t)
      IN  /\ Minus(between, general) = Times(Minus(u, general), t)
          /\ between = lerp(u, general, 1 \ominus t)
          /\ between = LerpEach(general, u, Filled(n, t))
          /\ \A percent \in [1 .. n -> {0, 1}] :
               LerpEach(general, u, percent) =
               LerpBool(general, u, [i \in 1 .. n |-> percent[i] = 1])

\* The functions of geometry.hpp and functions.hpp obey these laws on every
\* vector that a program may reach.
VectorLaws == CrossIsNormal /\ ReflectMirrors /\ LerpBetween

\* A product of matrices maps a vector as one after the other does; the
\* transpose swaps the factors, and an outer product maps along its first
\* vector.
ProductComposes ==
  kind = "matrix" =>
    \A m \in MatrixOperands :
      /\ transpose(MatMat(general, m)) = MatMat(transpose(m), transpose(general))
      /\ \A v \in Vectors4 :
           /\ MatVec(MatMat(general, m), v) = MatVec(general, MatVec(m, v))
           /\ \A u \in Vectors4 :
                MatMat(general, outer_product(v, u)) = outer_product(MatVec(general, v), u)

\* The determinant of a product is the product of the determinants, in every
\* size, and a matrix that is bordered by the identity keeps its own.
DeterminantMultiplies ==
  kind = "matrix" =>
    LET m3 == Upper(general)
        m2 == Upper(m3)
    IN  /\ determinant4(transpose(general)) = determinant4(general)
        /\ determinant4(Mat4From3(m3)) = determinant3(m3)
        /\ determinant3(<<<<1, 0, 0>>, <<0>> \o m2[1], <<0>> \o m2[2]>>) = determinant2(m2)
        /\ \A m \in MatrixOperands :
             /\ determinant4(MatMat(general, m)) = determinant4(general) \otimes determinant4(m)
             /\ determinant3(MatMat(m3, Upper(m))) = determinant3(m3) \otimes determinant3(Upper(m))

\* The product and the determinant of matrices are those of the linear maps
\* (matrix.hpp, matrix4x4.hpp, matrices/functions.hpp).
MatrixLaws == ProductComposes /\ DeterminantMultiplies

Along(v, p) == Plus(p, Append(Times(v, p[4]), 0))
Stretched(v, p) == VecOp("*", p, Append(v, 1))
Turned(angle, n, p) ==   \* about n, after Rodrigues
  LET v == SubSeq(p, 1, 3)
  IN  Append(Plus(Plus(Times(v, angle[2]), Times(cross(n, v), angle[1])),
                  Times(n, dot(n, v) \otimes (1 \ominus angle[2]))), p[4])

\* translate, scale and rotate return a matrix that moves, stretches or turns
\* a point first and then does to it what the matrix given did.
TransformsCompose ==
  [][\A p \in Vectors4, v \in Vectors3 :
       /\ Translate(v) => MatVec(general', p) = MatVec(general, Along(v, p))
       /\ Scale(v) => MatVec(general', p) = MatVec(general, Stretched(v, p))
       /\ \A angle \in Angles, n \in Axes :
            Rotate(angle, n) => MatVec(general', p) = MatVec(general, Turned(angle, n, p))]_vars

\* The corner at distance d before an eye that looks along hand \otimes z.
Corner(x, y, d, hand) == <<x, y, hand \otimes d, 1>>

\* A projection maps the near plane to depth -1, the far plane to 1 and the
\* sides to -1 and 1, all times w, the distance from the eye; to the left and
\* right it may miss.
Fills(m, hand, near, far, x, y, miss) ==
  \A d \in {near, far}, ends \in {-1, 1} :
    LET clip == MatVec(m, Corner(x[ends] \otimes d, y[ends] \otimes d, d, hand))
    IN  /\ clip[4] = d
        /\ clip[3] = IF d = near THEN Neg(d) ELSE d
        /\ clip[2] = ends \otimes d
        /\ clip[1] = (ends \oplus miss) \otimes d

Sides(low, high) == [ends \in {-1, 1} |-> IF ends = 1 THEN high ELSE low]
Even(half) == Sides(Neg(half), half)

FillsCamera(m, c, hand, near, far) ==
  Fills(m, hand, near, far, Even(c.tan \otimes c.aspect), Even(c.tan), 0)

\* By how much a frustum misses left and right: the quotient of the page that
\* perspective.hpp:6 refers to, by right - left, less that of the code (59, 74).
Missed(b, sum) == sum \oslash (b.right \ominus b.left) \ominus sum \oslash (b.right \ominus b.near)
FillsBox(m, b, hand, miss) ==
  Fills(m, hand, b.near, b.far, Sides(b.left \oslash b.near, b.right \oslash b.near),
        Sides(b.bottom \oslash b.near, b.top \oslash b.near), miss)
FillsRH(m, b) == FillsBox(m, b, Neg(1), Missed(b, b.right \oplus b.left))
FillsLH(m, b) == FillsBox(m, b, 1, Neg(Missed(b, Neg(b.right \oplus b.left))))

\* An orthographic projection maps the sides to -1 and 1 where z is 1: the
\* quotients that should be added are multiplied by z.  But for z the height
\* is scaled by what should scale the depth, and the depth by what should be
\* added to it, so that neither is that of the page.
Spread(low, high, v, factor, z) ==
  v \otimes (factor \ominus Two \oslash (high \ominus low))
    \oplus (Neg(high \oplus low) \oslash (high \ominus low)) \otimes (z \ominus 1)
Spreads(m, b, hand, factor) ==
  \A d \in {b.near, b.far}, ends \in {-1, 1} :
    LET x == Sides(b.left, b.right)[ends]
        y == Sides(b.bottom, b.top)[ends]
        z == hand \otimes d
        clip == MatVec(m, Corner(x, y, d, hand))
    IN  /\ clip[4] = 1
        /\ clip[3] = Neg(Depth(b.near, b.far)) \otimes z
        /\ clip[2] = ends \oplus Spread(b.bottom, b.top, y, factor, z)
        /\ clip[1] = ends \oplus Spread(b.left, b.right, x, Two \oslash (b.right \ominus b.left), z)
SpreadsRH(m, b) == Spreads(m, b, Neg(1), Neg(Two) \oslash (b.far \ominus b.near))
SpreadsLH(m, b) == Spreads(m, b, 1, Two \oslash (b.far \ominus b.near))

\* Where the projections map the corners of their volume, exactly: to those of
\* the clip space, but for what frustum and ortho miss.  Built with
\* XME_MATH_CLIP_LH a perspective exchanges the planes, and frustum and ortho
\* change their hand.
CameraFilled(c) ==
  /\ PerspectiveRH(c) => FillsCamera(general', c, Neg(1), c.near, c.far)
  /\ PerspectiveLH(c) => FillsCamera(general', c, 1, c.near, c.far)
  /\ Perspective(c, FALSE) => FillsCamera(general', c, Neg(1), c.near, c.far)
  /\ Perspective(c, TRUE) => FillsCamera(general', c, Neg(1), c.far, c.near)
BoxFilled(b) ==
  /\ FrustumRH(b) \/ Frustum(b, FALSE) => FillsRH(general', b)
  /\ FrustumLH(b) \/ Frustum(b, TRUE) => FillsLH(general', b)
  /\ OrthoRH(b) \/ Ortho(b, FALSE) => SpreadsRH(general', b)
  /\ OrthoLH(b) \/ Ortho(b, TRUE) => SpreadsLH(general', b)

ProjectionsFill ==
  [][/\ \A c \in Cameras : CameraFilled(c)
     /\ \A b \in Boxes : BoxFilled(b)]_vars

Norm(q) == dot(QuatAt(q), QuatAt(q))
Pure(v) == Quaternion(0, v[1], v[2], v[3])
Half(angle, n, side) ==   \* of the turn by twice the angle about n
  LET v == Times(n, side \otimes angle[1]) IN Quaternion(angle[2], v[1], v[2], v[3])

\* The product of quaternions multiplies the lengths, distributes, and turns
\* a vector about an axis as rotate does by twice the angle.
QuaternionsTurn ==
  kind = "quaternion" =>
    /\ \A q \in SomeQuaternions :
         /\ Norm(QuatTimes(special, q)) = Norm(special) \otimes Norm(q)
         /\ \A p \in SomeQuaternions :
              QuatTimes(QuatPlus(special, q), p) =
              QuatPlus(QuatTimes(special, p), QuatTimes(q, p))
    /\ \A angle \in Angles, n \in Axes :
         LET v == <<special.x, special.y, special.z>>
             turned == QuatTimes(QuatTimes(Half(angle, n, 1), Pure(v)), Half(angle, n, Neg(1)))
             s == (1 \oplus 1) \otimes angle[1] \otimes angle[2]
             c == angle[2] \otimes angle[2] \ominus angle[1] \otimes angle[1]
         IN  turned = Pure(MatVec(Rotation(s, c, n), v))
=============================================================================
