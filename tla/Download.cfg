SPECIFICATION Spec
CONSTANTS
  c1 = c1
  c2 = c2
  original = original
  copy = copy
  a = a
  b = b
  n = n
  l = l
  Handles <- TheHandles
  Original = original
  NoClient = NoClient
  MaxRetries = 1
  UploadMaxRetries <- Unset
  Options <- TheOptions
  Transfers <- TheTransfers
  MayRedirect = FALSE
  Documents <- TheDocuments
  NameOf <- TheNames
  Outside <- TheLinks
SYMMETRY Symmetric
INVARIANTS
  TypeOK
  ReturnMeansMoved
  BudgetIsAsked
  OnlyOriginalCloses
  DownloadIsKept
