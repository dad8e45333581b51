SPECIFICATION Spec
CONSTANTS
  w1 = w1
  w2 = w2
  shop = shop
  a = a
  b = b
  c = c
  card = card
  usd = usd
  NoPsp = NoPsp
  Workers <- MCWorkers
  Merchants <- MCMerchants
  RouteTables <- MCRouteTables
  Transactions <- MCTransactions
  Preferences <- MCPreferences
  NoPreferences <- MCNoPreferences
  NoWeights <- MCNoWeights
  DefaultWeights <- MCDefaultWeights
  Strategy = "HighestScore"
  FailureThreshold = 1
  SuccessThreshold = 1
  HalfOpenMaxCalls = 1
  Timeout = 1
  MaxRequests = 3
  MaxChanges = 2
INVARIANTS
  AuditMatchesMetrics
  DecisionsSound
  EveryRouteGuarded
PROPERTIES
  ReloadKeepsCircuits
SYMMETRY MCSymmetry
