SPECIFICATION Spec
CONSTANTS
  d1 = d1
  d2 = d2
  d3 = d3
  a1 = a1
  a2 = a2
  Mode = "SHARE"
  SubmitOnlyBest = FALSE
  Statuses <- SharePauses
  PrepareFaults <- NoFaults
  ReadFaults <- OneEach
  Drives = {d1, d2, d3}
  PlotCount = 1
  Accounts = {a1, a2}
  AccountOf <- TwoAccounts
  AccountTarget <- OneTarget
  AnnodeTargets <- AnyTarget
  MaxDeadline = 2
  DeadlineOf <- Rotating
  Reorgs = FALSE
  OneHasher = FALSE
  MaxHeight = 2
  MaxBlock = 2
  MaxRuns = 2
INVARIANTS SubmissionsImprove SubmissionsMatchRound UnreadIsLastResort
PROPERTY QueueSpec
