SPECIFICATION MonitorSpec
CONSTANTS
  p1 = p1
  p2 = p2
  d1 = d1
  Producers <- TwoProducers
  Consumers <- OneConsumer
  Resetters = {}
  MaxQueueDepth = 1
  Modulus = 8
  MaxOps = 4
INVARIANTS
  BalancedIsEmpty
CHECK_DEADLOCK FALSE
