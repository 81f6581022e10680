SPECIFICATION Spec
CONSTANTS
  d1 = d1
  d2 = d2
  d3 = d3
  a1 = a1
  a2 = a2
  Mode = "SOLO"
  SubmitOnlyBest = TRUE
  Statuses <- Syncing
  PrepareFaults <- NoFaults
  ReadFaults <- NoFaults
  Drives = {d1}
  PlotCount = 1
  Accounts = {a1}
  AccountOf <- OneAccount
  AccountTarget <- NoTarget
  AnnodeTargets <- AnyTarget
  MaxDeadline = 2
  DeadlineOf <- Rotating
  Reorgs = FALSE
  OneHasher = FALSE
  MaxHeight = 2
  MaxBlock = 2
  MaxRuns = 2
INVARIANT ScanningHasWork
