SPECIFICATION Spec
CONSTANTS
  p1 = p1
  p2 = p2
  h1 = h1
  h2 = h2
  Pools <- MCPools
  Hashes <- MCHashes
  Rank <- MCRank
  Configs <- MCOneChange
  MaxFaults = 1
  MaxEdits = 1
PROPERTIES
  NewRunsBeforeOldGoes
