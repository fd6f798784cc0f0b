----------------------------- MODULE Quaternions -----------------------------
(***************************************************************************)
(* xme::math::Quaternion: w is the scalar part, x, y and z the vector.     *)
(***************************************************************************)
EXTENDS Vectors

Quaternion(w, x, y, z) == [w |-> w, x |-> x, y |-> y, z |-> z]
QuatAt(q) == <<q.w, q.x, q.y, q.z>>   \* operator[]

QuatPlus(p, q)  == Quaternion(p.w \oplus q.w, p.x \oplus q.x, p.y \oplus q.y, p.z \oplus q.z)
QuatMinus(p, q) == Quaternion(p.w \ominus q.w, p.x \ominus q.x, p.y \ominus q.y, p.z \ominus q.z)

QuatTimesCommuted(p, q) ==   \* mutant: one cross term of x and z has the wrong sign
  Quaternion(
    ((p.w \otimes q.w \ominus p.x \otimes q.x) \ominus p.y \otimes q.y) \ominus p.z \otimes q.z,
    ((p.x \otimes q.w \oplus p.w \otimes q.x) \oplus p.y \otimes q.z) \ominus p.z \otimes q.y,
    ((p.w \otimes q.y \oplus p.x \otimes q.z) \oplus p.y \otimes q.w) \oplus p.z \otimes q.x,
    ((p.w \otimes q.z \oplus p.x \otimes q.y) \ominus p.y \otimes q.x) \oplus p.z \otimes q.w)
QuatTimes(p, q) ==
  Quaternion(
    ((p.w \otimes q.w \ominus p.x \otimes q.x) \ominus p.y \otimes q.y) \ominus p.z \otimes q.z,
    ((p.x \otimes q.w \oplus p.w \otimes q.x) \oplus p.y \otimes q.z) \ominus p.z \otimes q.y,
    ((p.w \otimes q.y \ominus p.x \otimes q.z) \oplus p.y \otimes q.w) \oplus p.z \otimes q.x,
    ((p.w \otimes q.z \oplus p.x \otimes q.y) \ominus p.y \otimes q.x) \oplus p.z \otimes q.w)
=============================================================================
