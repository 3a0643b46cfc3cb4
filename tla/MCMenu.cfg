SPECIFICATION Spec
CONSTANTS
  new = new
  mid = mid
  old = old
  Images <- MCImages
  OddNames <- MCOddNames
  UnknownImage = UnknownImage
  NoImage = NoImage
  MaxFailuresPerImg = 1
  Severities = {1}
  CountCap = 2
  Newest <- MCNewest
  Undecodable <- OnlyOld
  Unextractable = {}
  PreferredUpdate = ""
  WriteBack = TRUE
  FrFiles <- ClearFr
  MaxFaults = 1
  MaxOutages = 1
  MenuChoices <- AllMenu
  Usbs <- AllUsbs
  Unbootable <- OnlyNew
PROPERTY EmergencyImageOnly
