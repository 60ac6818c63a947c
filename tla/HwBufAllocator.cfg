CONSTANTS
  Sizes = {s1, s2}
  Buffers = {b1, b2, b3}
  Clients = {c1, c2}
  None = None
  Device = Device
  Pool = Pool
SPECIFICATION Spec
INVARIANTS TypeOK Ownership NoIdleZone
PROPERTY PromiseSpec
CHECK_DEADLOCK FALSE
