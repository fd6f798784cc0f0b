------------------------------ MODULE MCAlgebra ------------------------------
(* The exact arithmetic of the field of 7 elements, -3 to 3. *)
EXTENDS Algebra

P == 7
FieldScalar == -3 .. 3
Wrap(n) == ((n + 3) % P) - 3
Inverse7 == [a \in FieldScalar |->
               IF a = 0 THEN 0 ELSE CHOOSE b \in FieldScalar : Wrap(a * b) = 1]
FieldArith(op, a, b) ==
  CASE op = "+" -> Wrap(a + b)
    [] op = "-" -> Wrap(a - b)
    [] op = "*" -> Wrap(a * b)
    [] op = "/" -> Wrap(a * Inverse7[b])

MCVectors == {<<1, -2>>, <<3, 2>>, <<1, 2, 3>>, <<-1, 3, 2>>, <<0, 1, -2>>,
              <<1, 2, -3, 1>>, <<-2, 3, 0, 2>>}
MCMatrices == {<<<<1, 2, 3, -1>>, <<0, -3, 2, 1>>, <<2, 2, -1, 3>>, <<-2, 1, 0, 1>>>>,
               <<<<3, 1, 0, 2>>, <<-1, 2, 2, 0>>, <<1, -3, 1, 1>>, <<0, 2, 3, -2>>>>}
MCQuaternions == {[w |-> 1, x |-> 2, y |-> -1, z |-> 3], [w |-> 0, x |-> 1, y |-> 1, z |-> -2],
                  [w |-> -3, x |-> 0, y |-> 2, z |-> 1]}
MCScalars == {-1, 3}
MCAngles == {<<1, 0>>, <<2, -2>>}                      \* sine and cosine, squares adding up to 1
MCAxes == {<<0, 1, 0>>, <<3, -3, 2>>}                  \* of length 1
MCCameras == {[tan |-> 2, aspect |-> 3, near |-> 1, far |-> 3]}
MCBoxes == {[left |-> -2, right |-> 2, bottom |-> -1, top |-> 2, near |-> 1, far |-> 3],
            [left |-> 1, right |-> -2, bottom |-> 1, top |-> 3, near |-> 2, far |-> -3]}

\* What the theorems about the laws ask for holds here.
ASSUME FieldAssumption ==
  /\ ExactOn(-10 .. 10, [n \in -100 .. 100 |-> Wrap(n)])
  /\ Signed /\ UnitAxes /\ UnitAngles
  /\ Divides /\ ProperCameras /\ ProperBoxes
=============================================================================
