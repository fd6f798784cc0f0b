------------------------------ MODULE Matrices ------------------------------
(***************************************************************************)
(* xme::math::Matrix, its specialisation for 4 by 4, and the functions on  *)
(* matrices.  A matrix is the sequence of its columns, as in the code;     *)
(* what the code writes m[0][1] is m[1][2] here.                           *)
(***************************************************************************)
EXTENDS Vectors

Columns(m) == Len(m)
Rows(m)    == Len(m[1])

-----------------------------------------------------------------------------
(* Matrix<T, Cols, Rows>. *)

Diagonal(cols, rows, s) ==
  [i \in 1 .. cols |-> [j \in 1 .. rows |-> IF i = j THEN s ELSE 0]]

MatOpScalar(op, m, s)     == [i \in DOMAIN m |-> VecOp(op, m[i], Filled(Rows(m), s))]
MatOp(op, m, n)           == [i \in DOMAIN m |-> VecOp(op, m[i], n[i])]
MatSelfOpScalar(op, m, s) == [i \in DOMAIN m |-> VecSelfOp(op, m[i], Filled(Rows(m), s))]
MatSelfOp(op, m, n)       == [i \in DOMAIN m |-> VecSelfOp(op, m[i], n[i])]
MatNegated(m)             == [i \in DOMAIN m |-> VecNegated(m[i])]
MatAssigned(m, n)         == [i \in DOMAIN m |-> VecAssigned(m[i], n[i])]

row(m, j)    == [i \in DOMAIN m |-> m[i][j]]
column(m, i) == m[i]

MatVec(m, v) == [j \in 1 .. Rows(m) |-> dot(row(m, j), v)]
MatMatRows(m, n) ==   \* mutant: the rows of the other matrix instead of its columns
  [i \in 1 .. Columns(n) |-> [j \in 1 .. Rows(m) |-> dot(row(m, j), row(n, i))]]
MatMat(m, n) ==
  [i \in 1 .. Columns(n) |-> [j \in 1 .. Rows(m) |-> dot(row(m, j), n[i])]]

-----------------------------------------------------------------------------
(* Matrix<T, 4, 4>.  Its columns are Vector<T, 4>, which differ from       *)
(* sequences in nothing (see Agree).                                       *)

Diagonal4(s) == <<<<s, 0, 0, 0>>, <<0, s, 0, 0>>, <<0, 0, s, 0>>, <<0, 0, 0, s>>>>

Mat4From3(m) ==
  <<<<m[1][1], m[1][2], m[1][3], 0>>, <<m[2][1], m[2][2], m[2][3], 0>>,
    <<m[3][1], m[3][2], m[3][3], 0>>, <<0, 0, 0, 1>>>>

Mat4OpScalar(op, m, s) ==
  LET f == Filled(4, s)
  IN  <<VecOp(op, m[1], f), VecOp(op, m[2], f), VecOp(op, m[3], f), VecOp(op, m[4], f)>>
Mat4Op(op, m, n) ==
  <<VecOp(op, m[1], n[1]), VecOp(op, m[2], n[2]), VecOp(op, m[3], n[3]), VecOp(op, m[4], n[4])>>
Mat4SelfOpScalar(op, m, s) == [i \in 1 .. 4 |-> VecSelfOp(op, m[i], Filled(4, s))]
Mat4SelfOp(op, m, n)       == [i \in 1 .. 4 |-> VecSelfOp(op, m[i], n[i])]
Mat4Negated(m) == <<VecNegated(m[1]), VecNegated(m[2]), VecNegated(m[3]), VecNegated(m[4])>>
Mat4Assigned(m, n) == [m EXCEPT ![1] = n[1], ![2] = n[2], ![3] = n[3], ![4] = n[4]]

row4(m, j)    == <<m[1][j], m[2][j], m[3][j], m[4][j]>>
column4(m, i) == m[i]

Mat4Vec(m, v) == <<dot(row4(m, 1), v), dot(row4(m, 2), v), dot(row4(m, 3), v), dot(row4(m, 4), v)>>
Mat4Mat(m, n) ==
  [i \in 1 .. Columns(n) |-> [j \in 1 .. 4 |-> dot(row4(m, j), n[i])]]

-----------------------------------------------------------------------------
(* Functions on matrices. *)

determinant2(m) == m[1][1] \otimes m[2][2] \ominus m[2][1] \otimes m[1][2]

determinant3(m) ==
  LET cofactor(j, k) ==   \* of the rows 2 and 3
        m[j][2] \otimes m[k][3] \ominus m[k][2] \otimes m[j][3]
  IN  (m[1][1] \otimes cofactor(2, 3) \ominus m[2][1] \otimes cofactor(1, 3))
      \oplus m[3][1] \otimes cofactor(1, 2)

Minor(m, i, j, k, cf(_, _)) ==   \* of the rows 2 to 4
  (m[i][2] \otimes cf(j, k) \ominus m[j][2] \otimes cf(i, k)) \oplus m[k][2] \otimes cf(i, j)

Determinant4Unsigned(m) ==   \* mutant: the signs do not alternate
  LET cf(j, k)  == m[j][3] \otimes m[k][4] \ominus m[k][3] \otimes m[j][4]
      factor(i) == m[i][1] \otimes CASE i = 1 -> Minor(m, 2, 3, 4, cf)
                                     [] i = 2 -> Minor(m, 1, 3, 4, cf)
                                     [] i = 3 -> Minor(m, 1, 2, 4, cf)
                                     [] i = 4 -> Minor(m, 1, 2, 3, cf)
  IN  ((factor(1) \ominus factor(2)) \oplus factor(3)) \oplus factor(4)
determinant4(m) ==
  LET cf(j, k)  == m[j][3] \otimes m[k][4] \ominus m[k][3] \otimes m[j][4]
      factor(i) == m[i][1] \otimes CASE i = 1 -> Minor(m, 2, 3, 4, cf)
                                     [] i = 2 -> Minor(m, 1, 3, 4, cf)
                                     [] i = 3 -> Minor(m, 1, 2, 4, cf)
                                     [] i = 4 -> Minor(m, 1, 2, 3, cf)
  IN  ((factor(1) \ominus factor(2)) \oplus factor(3)) \ominus factor(4)

transpose(m) == [j \in 1 .. Rows(m) |-> [i \in 1 .. Columns(m) |-> m[i][j]]]

outer_product(v, u) == [i \in DOMAIN u |-> Times(v, u[i])]

hadamard_product(m, n) == [i \in DOMAIN m |-> VecOp("*", m[i], n[i])]

-----------------------------------------------------------------------------
(* Transformations of a 4 by 4 matrix.  The angle is given by its sine s   *)
(* and its cosine c.                                                       *)

translate(m, v) ==
  <<m[1], m[2], m[3],
    Plus(Plus(Plus(Times(m[1], v[1]), Times(m[2], v[2])), Times(m[3], v[3])), m[4])>>

scale(m, v) == <<Times(m[1], v[1]), Times(m[2], v[2]), Times(m[3], v[3]), m[4]>>

Rotation(s, c, n) ==
  LET temp == Times(n, 1 \ominus c)
      plus(i, j, k)  == temp[i] \otimes n[j] \oplus s \otimes n[k]
      minus(i, j, k) == temp[i] \otimes n[j] \ominus s \otimes n[k]
  IN  <<<<c \oplus temp[1] \otimes n[1], plus(1, 2, 3), minus(1, 3, 2)>>,
        <<minus(2, 1, 3), c \oplus temp[2] \otimes n[2], plus(2, 3, 1)>>,
        <<plus(3, 1, 2), minus(3, 2, 1), c \oplus temp[3] \otimes n[3]>>>>

RotateBefore(m, s, c, n) ==   \* mutant: the rotation from the other side
  Mat4Mat(Mat4From3(Rotation(s, c, n)), m)
rotate(m, s, c, n) ==
  LET Rotate == Rotation(s, c, n)
      turned(i) == Plus(Plus(Times(m[1], Rotate[i][1]), Times(m[2], Rotate[i][2])),
                        Times(m[3], Rotate[i][3]))
  IN  <<turned(1), turned(2), turned(3), m[4]>>
=============================================================================
