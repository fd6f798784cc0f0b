SPECIFICATION FairSpec
CONSTANTS
  Node = {n1, n2, n3, n4}
  List = {l1, l2}
  Value = {a, b}
  null = null
  MaxLen = 2
INVARIANTS TypeOK ChainsSound EveryNodeOwned CursorsLive
PROPERTIES GoalReached OperationsEnd
