SPECIFICATION Spec
CONSTANTS
  NumStreams = 2
  Video <- OneVideo
  Samples = 2
  Configs <- AllWays
  MaxInterleave = 1
  Capacity = 1
  MaxCalls = 1
INVARIANT TypeOK
PROPERTIES PadSpec UserReturns Ends
CHECK_DEADLOCK FALSE
