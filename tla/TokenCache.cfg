SPECIFICATION FairSpec
CONSTANTS
  t1 = t1
  t2 = t2
  NoThread = NoThread
  Threads <- TwoThreads
  MaxRetries = 1
  Leeway = 1
  MaxDelay = 1
  Lifetimes <- AnyLifetime
  MaxTime = 3
  MaxCalls = 1
INVARIANTS
  CacheIsFresh
  SingleFlight
  FetchIsNeeded
PROPERTIES
  ResendCarriesNewerToken
  ImplementsRenewal
  EveryCallEnds
