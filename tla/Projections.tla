----------------------------- MODULE Projections -----------------------------
(***************************************************************************)
(* The projections of matrices/perspective.hpp.  halfTan stands for the    *)
(* tangent of half the field of view; clip_lh tells whether the library is *)
(* built with XME_MATH_CLIP_LH.                                            *)
(***************************************************************************)
EXTENDS Matrices

Two == 1 \oplus 1

\* A matrix of which only these entries of the diagonal, of the third and of
\* the fourth column are not 0.
Projection(xx, yy, zx, zy, zz, zw, wz) ==
  <<<<xx, 0, 0, 0>>, <<0, yy, 0, 0>>, <<zx, zy, zz, zw>>, <<0, 0, wz, 0>>>>

Depth(near, far) == (far \oplus near) \oslash (far \ominus near)
Shift(near, far) == Neg(Two \otimes far \otimes near) \oslash (far \ominus near)

perspective_rh(halfTan, aspect_ratio, near, far) ==
  Projection(1 \oslash (aspect_ratio \otimes halfTan), 1 \oslash halfTan,
             0, 0, Neg(Depth(near, far)), Neg(1), Shift(near, far))
PerspectiveSameSign(halfTan, aspect_ratio, near, far) ==   \* mutant: the depth of the other hand
  Projection(1 \oslash (aspect_ratio \otimes halfTan), 1 \oslash halfTan,
             0, 0, Neg(Depth(near, far)), 1, Shift(near, far))
perspective_lh(halfTan, aspect_ratio, near, far) ==
  Projection(1 \oslash (aspect_ratio \otimes halfTan), 1 \oslash halfTan,
             0, 0, Depth(near, far), 1, Shift(near, far))
perspective(clip_lh, halfTan, aspect_ratio, near, far) ==
  IF clip_lh THEN perspective_rh(halfTan, aspect_ratio, far, near)
             ELSE perspective_rh(halfTan, aspect_ratio, near, far)

\* The third column divides by right - near, as the code does.
frustum_lh(left, right, bottom, top, near, far) ==
  Projection((Two \otimes near) \oslash (right \ominus left),
             (Two \otimes near) \oslash (top \ominus bottom),
             Neg(right \oplus left) \oslash (right \ominus near),
             Neg(top \oplus bottom) \oslash (top \ominus bottom),
             Depth(near, far), 1, Shift(near, far))
frustum_rh(left, right, bottom, top, near, far) ==
  Projection((Two \otimes near) \oslash (right \ominus left),
             (Two \otimes near) \oslash (top \ominus bottom),
             (right \oplus left) \oslash (right \ominus near),
             (top \oplus bottom) \oslash (top \ominus bottom),
             Neg(Depth(near, far)), Neg(1), Shift(near, far))
frustum(clip_lh, left, right, bottom, top, near, far) ==
  IF clip_lh THEN frustum_lh(left, right, bottom, top, near, far)
             ELSE frustum_rh(left, right, bottom, top, near, far)

\* The second entry of the diagonal is assigned twice, so that top and bottom
\* do not reach it.
OrthoOf(depth, left, right, bottom, top, near, far) ==
  <<<<Two \oslash (right \ominus left), 0, 0, 0>>,
    <<0, depth, 0, 0>>,
    <<Neg(right \oplus left) \oslash (right \ominus left),
      Neg(top \oplus bottom) \oslash (top \ominus bottom),
      Neg(Depth(near, far)), 0>>,
    <<0, 0, 0, 1>>>>
ortho_lh(left, right, bottom, top, near, far) ==
  OrthoOf(Two \oslash (far \ominus near), left, right, bottom, top, near, far)
ortho_rh(left, right, bottom, top, near, far) ==
  OrthoOf(Neg(Two) \oslash (far \ominus near), left, right, bottom, top, near, far)
ortho(clip_lh, left, right, bottom, top, near, far) ==
  IF clip_lh THEN ortho_lh(left, right, bottom, top, near, far)
             ELSE ortho_rh(left, right, bottom, top, near, far)
=============================================================================
