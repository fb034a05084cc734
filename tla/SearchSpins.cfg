SPECIFICATION Spec
CONSTANTS
  InitialPool = 2
  MaxNodes = 3
  MaxAge = 1
  Lambda = 2
  UtilityOptions = {"None"}
  MinimumNodes = 10
PROPERTIES
  ContinuesRunning
