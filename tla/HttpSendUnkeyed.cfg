SPECIFICATION FairSpec
CONSTANTS
  c1 = c1
  c2 = c2
  k1 = k1
  NoKey = NoKey
  Calls <- Rerun
  Keys = {k1}
  KeyOf <- NoKeys
  SafeMethod <- PostMethod
  Idempotent <- OneSearch
  MaxRetries = 2
INVARIANTS
  AtMostOnce
  OneShotIsConclusive
PROPERTIES
  EveryCallEnds
