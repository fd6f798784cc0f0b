SPECIFICATION Spec
CONSTANTS
  Arrays = {v}
  Block = {b1, b2}
  Value = {x, y}
  Junk = Junk
  null = null
  MaxCapacity = 2
  MaxCells = 2
  MaxRange = 1
SYMMETRY Symmetry
PROPERTY OthersKept
