SPECIFICATION Spec
CONSTANTS
  Modes = {"offline", "online"}
  Access = {"Sequential", "Sampling"}
  Batches = {2, 3}
  MaxExamples = 5
  Lambda = 2
  MaxNodes = 3
  ShortBatch = 0
  LongBatch = 2
  Capacity = 2
  Window = 1
  MaxIter = 2
  MinImprovement = 1
  Errors = {1, 2}
INVARIANTS
  HistoryExact
  ExampleInPlace
  ClusteringFinal
PROPERTIES
  TrainingEnds
CHECK_DEADLOCK FALSE
