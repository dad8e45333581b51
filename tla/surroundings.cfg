SPECIFICATION SurroundingsSpec
CONSTANTS
  Threads = {t1, t2, t3}
  BufferSize = 2
  MaxSize = 3
  MaxEvents = 5
  MaxFailures = 1
  MaxChanges = 4
  MaxRestores = 1
  Producers = {p1, p2}
  Consumers = {d1}
  Resetters = {r1}
  MaxQueueDepth = 1
  Modulus = 8
  MaxOps = 4
INVARIANTS
  EachInOnePlace
  BufferBelowSize
  FlushKeepsOrder
  NothingMissed
  OvershootBounded
  DepthCoversBacklog
  PeakIsHighest
PROPERTIES
  Leaves
  CatchesUp
  OperationsEnd
CHECK_DEADLOCK FALSE
