SPECIFICATION ProcSpec
CONSTANTS
  a = a
  b = b
  odd = odd
  Images <- MCImages
  OddNames <- MCOddNames
  UnknownImage = UnknownImage
  NoImage = NoImage
  MaxFailuresPerImg = 1
  Severities = {0, 2}
  CountCap = 2
SYMMETRY Symmetry
INVARIANTS UniqueEntries
PROPERTIES FailuresNeverDrop OddNamesAddNoEntry
