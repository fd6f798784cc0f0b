SPECIFICATION Spec
CONSTANTS
  Object = {o1, o2, o3}
  Library = {l1, l2}
  Text = {t1, t2}
  null = null
  temp = temp
  MaxArguments = 2
  MaxElements = 4
  MaxOwed = 1
  Classes <- MCClasses
SYMMETRY Symmetry
INVARIANT Balanced
PROPERTY Promised
