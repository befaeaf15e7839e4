SPECIFICATION Spec
CONSTANTS
  QSize = 3
  UI = UI
  Solvers = {s1, s2}
  NoThread = NoThread
  MaxMsgs = 5
  QuietRestart = TRUE
  RawClient = FALSE
INVARIANTS TypeOK QueueShape ReaderOnQueue NoFault UploadInOrder
PROPERTIES LogSpec
