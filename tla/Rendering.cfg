CONSTANTS
  NumBuffers = 3
  MIN_QUEUE_NUM = 1
  QUEUE_SIZE_HIGH = 2
  StreamOnAt = 1
  DECODE_RETRY_CNT = 2
  QueueSize = 1
  Decoders = {"copy", "vpu"}
  MaxShow = 2
  MaxEvents = 1
SPECIFICATION FairSpec
INVARIANTS TypeOK RefsAccounted PoolExclusive NoTearing ListMirrors CountVpu
INVARIANTS StreamsOn AllFreed
PROPERTIES Fed Stopped
CHECK_DEADLOCK FALSE
