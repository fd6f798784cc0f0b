SPECIFICATION Spec
CONSTANTS
  Delegates = {d1, d2, d3}
  Functor = {f1, f2, f3, f4}
  t1 = t1
  t2 = t2
  t3 = t3
  small = small
  large = large
  Target = {t1, t2, t3}
  FunctorType = {small, large}
  Type <- TypeOf
  null = null
  undefined = undefined
SYMMETRY Symmetry
INVARIANTS TypeOK FunctorsOwned
PROPERTY Promised
