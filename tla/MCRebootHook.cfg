SPECIFICATION Spec
CONSTANTS
  new = new
  mid = mid
  old = old
  Images <- MCImages
  OddNames <- MCOddNames
  UnknownImage = UnknownImage
  NoImage = NoImage
  MaxFailuresPerImg = 1
  Severities = {1}
  CountCap = 2
  Newest <- MCNewest
  Undecodable = {}
  Unextractable <- OnlyNew
  PreferredUpdate = ""
  WriteBack = FALSE
  FrFiles <- XlogFr
  MaxFaults = 2
  MaxOutages = 1
  MenuChoices = {}
  Usbs <- NoUsbs
  Unbootable = {}
PROPERTY RebootHookKeepsHistory
