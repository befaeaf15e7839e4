SPECIFICATION Spec
CONSTANTS
  MaxNode = 3
  MaxEdge = 2
  MaxSize = 5
  MaxDegree = 4
  NoNode = 77
  NoArc = 77
  AnySwap = TRUE
INVARIANT ListsWhole
