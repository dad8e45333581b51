SPECIFICATION Spec
CONSTANTS
  r1 = r1
  t1 = t1
  t2 = t2
  Routes <- MCRoutes
  Threads <- MCThreads
  Configs <- MCConfigs
  WindowSizes = {1, 2}
  Latencies = {0, 7}
  AlphaNum = 1
  AlphaDen = 2
  MaxSamples = 4
  Windows = {0, 10}
  Multiplier = 1
  RatioNum = 3
  RatioDen = 2
  MaxUpdates = 11
  MaxSpans = 3
  MaxEntries = {0, 2}
  MaxStamp = 4
  MaxExports = 6
INVARIANTS
  AnswersFromSamples
PROPERTIES
  OnlyResetsLose
SYMMETRY MCSymmetry
CHECK_DEADLOCK FALSE
