SPECIFICATION Spec
CONSTANTS
  Calls = {"run", "pause"}
  Batches = {1}
  MaxExamples = 4
  StartExamples = 3
  StartNodes = 0
  Lambda = 2
  PollsHasStarted = TRUE
PROPERTIES
  CallsReturn
