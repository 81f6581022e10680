SPECIFICATION FairSpec
CONSTANTS
  a1 = a1
  Accounts = {a1}
  MaxDeadline = 2
  MaxBlock = 2
  Reorgs = FALSE
  MaxRetries = 3
INVARIANTS TypeOK HeldOnce NothingIsLost
PROPERTIES AttemptsOnlyImprove IsAttempted QueueSpec
CHECK_DEADLOCK FALSE
