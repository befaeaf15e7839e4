SPECIFICATION Spec
CONSTANTS
  Inf = 100
  MaxCost = 4
  Free = 3
  InitialDFS = 1
  Settings <- MCSettings
INVARIANTS TypeOK BoundsValid OptimumFound
CHECK_DEADLOCK FALSE
