SPECIFICATION StreamSpec
CONSTANTS
  NULL = NULL
  Variants <- AllVariants
  Lengths <- PieceLengths
  NullLanes <- SomeNull
  MaxPieces <- Pieces
  Endings <- BitEndings
  Text <- Bytes_of
INVARIANT StreamsAgree
