SPECIFICATION Spec
CONSTANTS
  n = 4
  m = 5
  InfFloat = 99
  NoNode = 77
  NoArc = 77
  InfCap = 9
  Kinds = {"cut"}
  Queries <- MCQueries
  CutCalls <- MCCutCalls
  FlowCalls <- MCFlowCalls
  TreeCalls <- MCTreeCalls
INVARIANT CutMinimum
CHECK_DEADLOCK FALSE
