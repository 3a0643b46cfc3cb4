SPECIFICATION Spec
CONSTANTS
  TextLen = 9
  ListLen = 4
  NoSecondary = 1000
  SkuFields <- MCSkuFields
  Catalogues <- MCCatalogues
  Units <- MCUnits
  Codes <- MCCodes
  BusLists <- MCBusLists
  BusSpecs <- MCBusSpecs
  ImageLists <- MCImageLists
  KernelFiles <- MCKernelFiles
  DiskLists <- MCDiskLists
  Platforms <- MCPlatforms
  DiskSizes <- MCDiskSizes
  Required <- MCRequired
  Sectors <- MCSectors
  Begins <- MCBegins
  Lengths <- MCLengths
  DeviceLists <- MCDeviceLists
  DiskCounts <- MCDiskCounts
CHECK_DEADLOCK FALSE
INVARIANTS TextArrives HardwareJudged InstallIsSound NetworkIsKept BootEntriesRead UnitIsKnown ChoicesAreGood RaidIsKept
