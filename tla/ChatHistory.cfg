SPECIFICATION Spec
CONSTANTS
  N = 3
  Mine = {1}
  HistoryLimit = 1
  OlderLimit = 1
  SyncLimit = 2
  Attempts = 2
  Faults = {"request"}
  Scrolls = TRUE
INVARIANT
  NothingLost
