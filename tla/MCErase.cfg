\* Two disks of two regions send up to three estimates through a channel of two;
\* a fault and a power failure.
SPECIFICATION FairSpec
CONSTANTS
  Disks = {d1, d2}
  Regions = 2
  DriveKinds = {"unsupported", "bothTimes", "oneTime"}
  MaxFaults = 1
  MaxOutages = 1
INVARIANTS TypeOK SuccessMeansErased
 
\* The unit stops once it boots something else, or in the deadlock.
CHECK_DEADLOCK FALSE
