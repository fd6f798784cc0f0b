SPECIFICATION Spec
CONSTANTS
  Length = 4
  SizeMod = 8
  MaxNesting = 3
INVARIANT EarlierIsLess
