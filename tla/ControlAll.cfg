SPECIFICATION Spec
CONSTANTS
  Calls = {"run", "pause", "terminate", "insert", "clustering", "getNode", "destroy"}
  Batches = {1, 2}
  MaxExamples = 4
  StartExamples = 0
  StartNodes = 0
  Lambda = 2
  PollsHasStarted = FALSE
INVARIANTS
  TypeOK
  ChangesUnderLock
  LearnsOnlyWhenRunning
CHECK_DEADLOCK FALSE
