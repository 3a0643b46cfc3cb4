\* The server as its main function starts it with qaMaxHold 0s; one unit is
\* made, another reports and sends documents.
SPECIFICATION Spec
CONSTANTS
  Units = {"u1", "u2"}
  Made = {"u1"}
  MaxHistory = 2
  QAHold = 0
  Monitored = FALSE
  MaxErrors = 1
  Modes = {"normal", "altered"}
  MaxTries = 5
  MaxRuns = 2
INVARIANTS LastKnownState FinishedMeansReady DocMeansVerified
PROPERTY RunsEnd
CHECK_DEADLOCK FALSE
