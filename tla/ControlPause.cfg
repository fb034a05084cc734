SPECIFICATION Spec
CONSTANTS
  Calls = {"run", "pause", "insert", "clustering", "getNode"}
  Batches = {1}
  MaxExamples = 5
  StartExamples = 3
  StartNodes = 0
  Lambda = 2
  PollsHasStarted = TRUE
INVARIANTS
  PauseHolds
