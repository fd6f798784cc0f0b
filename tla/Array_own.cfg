SPECIFICATION OwnSpec
CONSTANTS
  Arrays = {v}
  Block = {b1, b2}
  Value = {x, y}
  Junk = Junk
  null = null
  MaxCapacity = 4
  MaxCells = 4
  MaxRange = 1
SYMMETRY Symmetry
PROPERTY InsertsValue
