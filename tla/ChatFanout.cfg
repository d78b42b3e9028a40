SPECIFICATION FairSpec
CONSTANTS
  N = 2
  Mine = {2}
  HistoryLimit = 1
  OlderLimit = 1
  SyncLimit = 2
  Attempts = 2
  Faults = {"fanout", "request"}
  Scrolls = FALSE
INVARIANTS
  TypeOK
  ListIsSeen
  NothingLost
PROPERTIES
  Delivered
  TriesAgain
