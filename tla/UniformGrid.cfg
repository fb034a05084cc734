SPECIFICATION Spec
CONSTANTS
  Dimensions = {1, 2}
  Line = {0, 900, 1300, 2400}
  Square = {0, 2000}
  Side = 2430
  FirstLength = 2673
  MaxSize = 1000000
  MaxNodes = 4
  SamePoints = FALSE
INVARIANTS
  GridExact
  NearestExact
  TwoFound
PROPERTIES
  GrowthKeepsNodes
