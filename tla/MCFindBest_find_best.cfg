SPECIFICATION Spec
CONSTANTS
  NULL = NULL
  NoCall = NoCall
  Machines <- MCMachines
  Calls <- MCCalls
  Deadlines <- MCDeadlines
  MaxDeadline <- MCMaxDeadline
  Smaller <- Below
  VectorSize <- vector_size
  FastContext <- search_context
  Group <- MCGroup
  Scalar <- MCScalar
  DeadlineOf <- MCDeadlineOf
INVARIANTS FirstMinimum ReadsInside ContextKept WinnerFound
