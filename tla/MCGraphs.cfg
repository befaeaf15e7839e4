SPECIFICATION Spec
CONSTANTS
  n = 4
  m = 5
  InfFloat = 99
  NoNode = 77
  NoArc = 77
  InfCap = 9
  Kinds = {"flow", "tree", "connect", "cut"}
  Queries <- MCQueries
  CutCalls <- MCCutCalls
  FlowCalls <- MCFlowCalls
  TreeCalls <- MCTreeCalls
INVARIANTS TypeOK FlowStructures FlowMaximum TreesOptimal ComponentsExact CutGenuine
PROPERTY SolversEnd
CHECK_DEADLOCK FALSE
