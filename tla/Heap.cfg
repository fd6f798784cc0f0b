SPECIFICATION Spec
CONSTANTS
  Value = {1, 2, 3, 4}
  Rank <- TwoEqual
  MaxSize = 8
INVARIANTS TypeOK SiftInvariant FrontIsGreatest Logarithmic
PROPERTY ImplementsPriorityQueue
