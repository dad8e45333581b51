SPECIFICATION ServicesSpec
CONSTANTS
  t1 = t1
  t2 = t2
  c1 = c1
  c2 = c2
  Threads <- MCThreads
  Clients <- MCClients
  Targets = {psp}
  Names = {database, cache}
  Modulus = 5
  MaxItems = 5
  Hashes = {hash}
  Limits = {1, 2}
  Window = 2
  Thresholds = {500, 999}
  Timeout = 1
  MaxRequests = 11
  FailureTypes = {Outage}
  MaxHistory = 2
  MaxAsked = 2
  Conditions = {"Partition", "HighLatency"}
  MaxDuration = 1
  Ttl = 2
  Additional = {0, 1}
  Ttls <- MCTtls
  MaxValue = 3
  MaxPublished = 4
  Grace = 1
  MaxFailures = 2
  BatchSize = 2
  MaxEvents = 4
  MaxRecords = 3
  MaxCount = 2
INVARIANTS
  RateLimitKept
  VerdictStable
  LeasesDisjoint
  CountersExpire
  StoreFollowsPublish
  NoSilentLoss
PROPERTIES
  ImplementsContract
  FaultsInForce
  ProbesHonest
SYMMETRY MCSymmetry
CHECK_DEADLOCK FALSE
