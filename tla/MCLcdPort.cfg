\* One thread with the mutex stands for all of them, since they exclude each
\* other; the second is Spinner.Next.
CONSTANTS
  Holders = {h1}
  Spinners = {s1}
  Commands = {"write", "restore"}
  MaxTries = 1
  InCap = 2
  EventCap = 1
  MaxRequests = 2
  MaxKeys = 1
  MaxFaults = 2
SPECIFICATION MCSpec
INVARIANT DoneIsShown
PROPERTY RequestsEnd
CHECK_DEADLOCK FALSE
