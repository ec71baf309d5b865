SPECIFICATION LevelSpec
CONSTANTS
  p1 = p1
  p2 = p2
  h1 = h1
  h2 = h2
  Pools <- MCPools
  Hashes <- MCHashes
  Configs <- MCConfigs
  DnsRows = TRUE
  MaxVersion = 3
  MaxFaults = 2
  MaxEdits = 2
  f1 = f1
  f2 = f2
  Fibers <- MCFibers
  Methods <- MCMethods
  MaxPermits = 2
  MaxRetries = 1
  MaxRevocations = 1
  Items <- MCItems
  Wanted = 4
  PageSize = 2
  MaxPages = 2
INVARIANTS
  ClusterIsWhole
  AnswerIsTrue
  ListingIsWhole
PROPERTIES
  OnlyConfirmedReplaced
  NothingUndercut
  SuccessIsDesired
  DeletedLeavesNothing
  LevelLiveness
