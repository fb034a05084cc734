SPECIFICATION Spec
CONSTANTS
  InitialPool = 1
  MaxNodes = 4
  MaxAge = 0
  Lambda = 2
  UtilityOptions = {"None", "BasicUtility"}
  MinimumNodes = 4
INVARIANTS
  PoolTypeOK
  FreeListExact
  CountExact
  MaximumIndexBounds
  FreeSlotsClear
  EdgesCountExact
  EdgesMirrored
  WinnerSurvives
  TwoNodesLeft
  StuckOnlyByHiding
PROPERTIES
  GrowsOnlyWhenFull
  ImplementsAllocator
