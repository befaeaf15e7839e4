SPECIFICATION FairSpec
CONSTANTS
  QSize = 2
  UI = UI
  Solvers = {s1}
  NoThread = NoThread
  MaxMsgs = 4
  QuietRestart = FALSE
  RawClient = TRUE
PROPERTIES UploadEnds
CHECK_DEADLOCK FALSE
