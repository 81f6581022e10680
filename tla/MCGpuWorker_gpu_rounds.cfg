SPECIFICATION FairSpec
CONSTANTS
  d1 = d1
  d2 = d2
  b1 = b1
  b2 = b2
  Drives = {d1, d2}
  ChunkCount <- TwoAndOne
  LastOfPlot <- OneEach
  Buffers = {b1, b2}
  Settings <- SomeSettings
  MaxRuns = 2
INVARIANTS BuffersConserved HashesItsOwn RoundIsHashed
PROPERTY TasksEnd
CHECK_DEADLOCK FALSE
