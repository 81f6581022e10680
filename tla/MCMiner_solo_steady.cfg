SPECIFICATION FairSpec
CONSTANTS
  d1 = d1
  d2 = d2
  d3 = d3
  a1 = a1
  a2 = a2
  Mode = "SOLO"
  SubmitOnlyBest = TRUE
  Statuses <- LiveOnly
  PrepareFaults <- FirstPlots
  ReadFaults <- LastPlots
  Drives = {d1, d2}
  PlotCount = 2
  Accounts = {a1}
  AccountOf <- OneAccount
  AccountTarget <- NoTarget
  AnnodeTargets <- AnyTarget
  MaxDeadline = 2
  DeadlineOf <- Rotating
  Reorgs = FALSE
  OneHasher = TRUE
  MaxHeight = 2
  MaxBlock = 2
  MaxRuns = 2
INVARIANTS ScanningHasWork BestIsSubmitted
PROPERTY RoundEnds
