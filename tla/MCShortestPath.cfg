SPECIFICATION FairSpec
CONSTANTS
  n = 4
  m = 4
  InfFloat = 1000
  MaxLength = 4
  NoNode = NoNode
  NoArc = NoArc
  Calls <- MCCalls
INVARIANTS TypeOK ResultsExact AnswersTrue NearestFirst
PROPERTIES CallReturns
CHECK_DEADLOCK FALSE
