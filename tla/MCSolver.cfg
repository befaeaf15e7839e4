SPECIFICATION FairSpec
CONSTANTS
  UI = UI
  Solvers = {s1, s2}
  NoThread = NoThread
  MaxThreads = 3
  MaxTrace = 2
  MaxTraceRush = 1
INVARIANTS TypeOK IdleMeansDone TableConsistent StopHolds ObjectsSurvive ResultsMatch
PROPERTIES CallsEnd
