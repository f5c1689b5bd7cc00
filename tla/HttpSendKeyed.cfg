SPECIFICATION Spec
CONSTANTS
  c1 = c1
  c2 = c2
  k1 = k1
  NoKey = NoKey
  Calls <- Rerun
  Keys = {k1}
  KeyOf <- SharedKey
  SafeMethod <- PostMethod
  Idempotent <- UnsetOption
  MaxRetries = 2
SYMMETRY Symmetry
INVARIANTS
  OutcomeIsTrue
  GivesUpLast
PROPERTIES
  ImplementsOnce
