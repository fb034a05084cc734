SPECIFICATION HSpec
CONSTANTS
  InitialPool = 2
  MaxNodes = 3
  MaxAge = 2
  Lambda = 2
  UtilityOptions = {"None", "BasicUtility"}
  MinimumNodes = 2
INVARIANTS
  TypeOK
  NoEdgeTooOld
PROPERTIES
  ScanEnds
  ImplementsNeuralGas
