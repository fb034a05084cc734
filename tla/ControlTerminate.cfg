SPECIFICATION Spec
CONSTANTS
  Calls = {"run", "terminate", "insert", "destroy"}
  Batches = {1, 2}
  MaxExamples = 4
  StartExamples = 0
  StartNodes = 0
  Lambda = 2
  PollsHasStarted = TRUE
PROPERTIES
  CallsReturn
  TerminateIsFinal
  RunResumes
CHECK_DEADLOCK FALSE
