SPECIFICATION Spec
CONSTANTS
  Numbers = {0, 1, 2, 3, 4, 5, 6, 7}
  Starts = {{0, 1}, {0, 1, 2, 3, 4, 5, 6}}
  MaxNodes = {7, 8}
  m_lambda = 2
  Distances = {8}
  LoadedErrors = {0, 4}
  MaxError = 10
  MaxDeletions = 1
  MaxEffort = 7
INVARIANTS
  HeapSound
  EveryNodeQueued
  EntriesNotBelow
PROPERTIES
  ImplementsPrompt
  SearchEnds
CHECK_DEADLOCK FALSE
