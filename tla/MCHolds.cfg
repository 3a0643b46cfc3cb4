\* A process that calls MonitorHolds, as print_test.go does; two units report
\* and send two or three documents in all.
SPECIFICATION Spec
CONSTANTS
  Units = {"u1", "u2"}
  Made = {}
  MaxHistory = 2
  QAHold = 2
  Monitored = TRUE
  MaxErrors = 1
  Modes = {"normal"}
  MaxTries = 1
  MaxRuns = 2
PROPERTIES DocsAccounted HoldsEnd
CHECK_DEADLOCK FALSE
