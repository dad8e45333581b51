SPECIFICATION Spec
CONSTANTS
  w1 = w1
  w2 = w2
  o1 = o1
  o2 = o2
  Workers <- MCWorkers
  Operators <- MCOperators
  GracefulTimeout = 1
  DrainTimeout = 1
  ForceTimeout = 2
  Modulus = 4
  NotStarted = NotStarted
INVARIANTS
  InFlightExact
  DrainedStaysQuiet
  GraceGiven
PROPERTIES
  EventuallyTerminated
