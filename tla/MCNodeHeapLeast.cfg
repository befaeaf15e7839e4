SPECIFICATION Spec
CONSTANTS
  nBasic = 3
  nBinary = 3
  nFibonacci = 3
  Keys = {1, 2}
  InfFloat = 9
  SparseFactor = 2
  AnyDelete = FALSE
  Careful = TRUE
  AnyChange = TRUE
INVARIANTS PeekLeast
