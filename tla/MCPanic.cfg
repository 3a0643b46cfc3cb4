SPECIFICATION Spec
CONSTANTS
  Units = {"u1"}
  Made = {"u1"}
  MaxHistory = 1
  QAHold = 0
  Monitored = FALSE
  MaxErrors = 1
  Modes = {"normal"}
  MaxTries = 5
  MaxRuns = 1
INVARIANT PanicIsNoSuccess
CHECK_DEADLOCK FALSE
