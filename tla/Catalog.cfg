SPECIFICATION MCSpec
CONSTANTS
  c1 = c1
  c2 = c2
  u = u
  v = v
  d = d
  Clients <- TwoClients
  PageSize = 2
  MaxProjects = 4
  Callers <- TwoCallers
  AsyncCallers = {v}
  Paths = {"p", "q"}
  Docs = {d}
  MaxFolders = 3
  MaxSends = 2
SYMMETRY Symmetry
INVARIANTS
  TypeOK
  OneProject
  RaceIsResolved
  YieldsOnce
  SkipsNothing
  ReportedIsFinal
  RefusalIsTrue
