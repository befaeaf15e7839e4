SPECIFICATION Spec
CONSTANTS
  nList = 3
  Handles = {l1, l2, l3}
  Master = l1
  NoHandle = NoHandle
  nFamily = 4
  nNested = 2
  mNested = 3
  HashItems = {0, 3, 11}
  HashKeys = {0, 1, 2}
  defaultKey = 0
  nMaxInit = 1
  MaxNode = 3
  MaxEdge = 3
  MaxSize = 5
  MaxDegree = 3
  NoNode = 77
  NoArc = 77
  AnySwap = FALSE
  nBasic = 4
  nBinary = 4
  nFibonacci = 4
  Keys = {1, 2, 3}
  InfFloat = 9
  SparseFactor = 2
  AnyDelete = FALSE
  Careful = TRUE
  AnyChange = FALSE
  nLarge = 9
  MaxOps = 3
INVARIANTS TypeOK StructureWhole OrderKept
PROPERTIES ContainersSpec QueueSpec
CHECK_DEADLOCK FALSE
