SPECIFICATION Spec
CONSTANTS
  f1 = f1
  f2 = f2
  f3 = f3
  Files <- ThreeFiles
  Prices = {0, 1}
  Limits <- SomeLimits
  MaxCalls = 2
SYMMETRY Symmetry
INVARIANTS
  RejectedFilesStartNothing
