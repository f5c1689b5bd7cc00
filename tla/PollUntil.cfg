SPECIFICATION FairSpec
CONSTANTS
  d1 = d1
  d2 = d2
  Items <- Documents
  Known <- DocumentKnown
  Done <- DocumentDone
  Later <- NewStatuses
  Final <- DocumentFinal
  MaxWait = 4
  PollInterval = 2
  MaxFetch = 2
INVARIANTS
  ReturnsOnlyDone
  TimeoutIsDue
  OverrunIsBounded
  UnknownIsDiagnosed
PROPERTIES
  WaitEnds
