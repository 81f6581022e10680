SPECIFICATION Spec
CONSTANTS
  Files <- MCFiles
  Disks <- MCDisks
  Settings <- MCSettings
  AllowedAccounts = {1, 2}
  Scoops <- MCScoops
  Modulus = 32
INVARIANTS ChunksPlaced ChunksTile PanicsOnlyWhenWarned WarnedIsShared
PROPERTY LittleIsLeftOut
CHECK_DEADLOCK FALSE
