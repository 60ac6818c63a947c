CONSTANTS
  NumBuffers = 3
  MIN_QUEUE_NUM = 1
  QUEUE_SIZE_HIGH = 2
  StreamOnAt = 1
  DECODE_RETRY_CNT = 2
  QueueSize = 1
  Decoders = {"copy"}
  MaxShow = 2
  MaxEvents = 0
SPECIFICATION Spec
INVARIANT CountExact
CHECK_DEADLOCK FALSE
