SPECIFICATION Spec
CONSTANTS
  Length = 5
  SizeMod = 8
  MaxNesting = 4
INVARIANTS ViewsNested WalksMirror
PROPERTY PartsPromised
