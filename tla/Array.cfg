SPECIFICATION Spec
CONSTANTS
  Arrays = {v, w}
  Block = {b1, b2, b3}
  Value = {x, y}
  Junk = Junk
  null = null
  MaxCapacity = 4
  MaxCells = 4
  MaxRange = 2
SYMMETRY Symmetry
INVARIANTS TypeOK BlocksOwned
PROPERTY Promised
