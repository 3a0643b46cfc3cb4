\* Only the image between the newest and the oldest is good, and fr.data may ask
\* for the history to be cleared.
SPECIFICATION FairSpec
CONSTANTS
  new = new
  mid = mid
  old = old
  Images <- ThreeImages
  OddNames <- MCOddNames
  UnknownImage = UnknownImage
  NoImage = NoImage
  MaxFailuresPerImg = 1
  Severities = {1}
  CountCap = 2
  Newest <- ThreeNewest
  Undecodable = {}
  Unextractable <- NewAndOld
  PreferredUpdate = ""
  WriteBack = FALSE
  FrFiles <- AnyFr
  MaxFaults = 4
  MaxOutages = 2
  MenuChoices = {}
  Usbs <- NoUsbs
  Unbootable = {}
INVARIANTS TypeOK FlagMeansComplete
PROPERTIES RefinesAppliance OptionsOutliveRestore NetConfigMoved FailureIsCharged EventuallyInstalled
