SPECIFICATION Spec
CONSTANTS
  r1 = r1
  r2 = r2
  key1 = key1
  tag1 = tag1
  tag2 = tag2
  Runs <- TwoRuns
  BaseKeys = {key1}
  BaseKey <- Persisted
  NumFiles = 3
  BatchSize = 2
  Modes = {"allow", "block"}
  Project <- NewProject
  TagIds = {tag1}
  TagNames = {tag2}
  Wait = TRUE
SYMMETRY Symmetry
INVARIANTS
  TypeOK
  NothingDuplicates
  SameSettings
  NeverMismatched
  ReportIsTrue
  ReportIsComplete
PROPERTIES
  ImplementsImport
