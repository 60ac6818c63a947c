CONSTANTS
  Length = 6
  MaxChunk = 2
  Sizes = {1, 2, 3}
  MaxSize = 1
  Pre = 2
  FarSeek = 3
  Seekable = TRUE
SPECIFICATION FairSpec
INVARIANTS TypeOK NoMutualWait Bounded
PROPERTIES ReadsInPlace ReadReturns
