SPECIFICATION Spec
CONSTANTS
  Maps <- ManyMaps
  Base = 4
  Limit = 15
  EndId = 9
  Data = 7
  MaxModels = 3
  Wanted <- Preferences
  Fixed <- FixedOf
  Stride <- StrideOf
  None = None
  MaxParts = 2
  MaxMoves = 2
  MaxFailures = 1
INVARIANT TypeOK
PROPERTIES
  ScanIsExact
  ToldMeansUnmoved
  ShiftIsReal
