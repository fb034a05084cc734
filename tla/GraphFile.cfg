SPECIFICATION FSpec
CONSTANTS
  InitialPool = 1
  MaxNodes = 4
  MaxAge = 0
  Lambda = 2
  UtilityOptions = {"None"}
  MinimumNodes = 10
  MaxLoads = 1
INVARIANTS
  RestoredSound
  NumbersFresh
PROPERTIES
  VisibleRestored
