CONSTANTS
  BufSize = 3
  HistorySize = 2
  Interval = 1
  Threshold = 6
  Times <- MCTimes
  Keys = {k1}
  NoKey = NoKey
  MaxAge = 7
  MaxTime = 9
SPECIFICATION Spec
INVARIANTS TypeOK RingAccounting HistoryTotal
PROPERTIES Monotone FifoOrder PoolSpec
VIEW View
CONSTRAINT MCFew
