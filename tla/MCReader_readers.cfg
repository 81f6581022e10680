SPECIFICATION FairSpec
CONSTANTS
  d1 = d1
  d2 = d2
  b1 = b1
  b2 = b2
  b3 = b3
  Drives = {d1}
  PlotCount = 2
  ChunkCount <- OneThenTwo
  Threads = 2
  Hashers = 2
  Buffers = {b1, b2, b3}
  PrepareFaults <- FirstPlots
  ReadFaults <- AllPlots
  MaxRuns = 2
INVARIANTS TypeOK BuffersConserved ReadsInOrder ScanIsReported MarkerOvertakesFew
PROPERTY TasksEnd
