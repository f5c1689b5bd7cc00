SPECIFICATION Spec
CONSTANTS
  r1 = r1
  r2 = r2
  key1 = key1
  tag1 = tag1
  tag2 = tag2
  Runs = {r1}
  BaseKeys = {key1}
  BaseKey <- OneRun
  NumFiles = 2
  BatchSize = 2
  Modes = {"block"}
  Project = 1
  TagIds = {}
  TagNames = {}
  Wait = TRUE
INVARIANTS
  AwaitsUploaded
