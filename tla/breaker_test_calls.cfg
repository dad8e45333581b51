SPECIFICATION Spec
CONSTANTS
  c1 = c1
  c2 = c2
  c3 = c3
  Callers <- MCCallers
  FailureThreshold = 2
  SuccessThreshold = 2
  HalfOpenMaxCalls = 1
  Timeout = 2
  MaxInterventions = 0
INVARIANTS
  TestCallsLimited
