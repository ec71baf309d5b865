SPECIFICATION FairSpec
CONSTANTS
  p1 = p1
  p2 = p2
  h1 = h1
  h2 = h2
  Pools <- MCPools
  Hashes <- MCHashes
  Rank <- MCRank
  Configs <- MCConfigs
  Plans <- MCPlans
  MaxVersion = 2
  MaxFaults = 2
  MaxEdits = 1
  MaxMishaps = 1
INVARIANTS
PROPERTIES
  SuccessIsDesired
  KeepsContract
  DeletedLeavesNothing
  DataSurvives
  EventuallyServed
