SPECIFICATION Spec
CONSTANTS
  Modes = {"offline"}
  Access = {"Sequential"}
  Batches = {2}
  MaxExamples = 2
  Lambda = 1
  MaxNodes = 2
  ShortBatch = 0
  LongBatch = 0
  Capacity = 12
  Window = 5
  MaxIter = 100
  MinImprovement = 1
  Errors = {1}
PROPERTIES
  PatienceCounts
CHECK_DEADLOCK FALSE
