\* Three entries reach every combination of replayed, delivered and refused.
SPECIFICATION Spec
CONSTANTS
  MaxEntries = 3
  TestLog = TRUE
  RemoteErrors = TRUE
INVARIANTS NothingLost FileExact DistinctLoggers
