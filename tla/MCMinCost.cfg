SPECIFICATION MCSpec
CONSTANTS
  n = 4
  m = 5
  InfFloat = 999
  NoNode = 77
  NoArc = 77
  InfCap = 9
  Most = 3
  K = 2
  J = 1
  CostCalls <- MCCostCalls
INVARIANTS TypeOK BasisValid CostMinimal SlacknessKept
PROPERTIES CostFalls CostEnds
CHECK_DEADLOCK FALSE
