SPECIFICATION Spec
CONSTANTS
  n = 4
  m = 5
  InfFloat = 99
  NoNode = 77
  NoArc = 77
  InfCap = 9
  Kinds = {"tree"}
  Queries <- MCQueries
  CutCalls <- MCCutCalls
  FlowCalls <- MCFlowCalls
  TreeCalls <- MaximumCalls
INVARIANT TreeFinished
CHECK_DEADLOCK FALSE
