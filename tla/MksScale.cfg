SPECIFICATION Spec
CONSTANTS
  p1 = p1
  p2 = p2
  h1 = h1
  h2 = h2
  Pools <- MCPools
  Hashes <- MCHashes
  Configs <- MCScaled
  DnsRows = FALSE
  MaxVersion = 3
  MaxFaults = 0
  MaxEdits = 1
INVARIANTS
  ScaleHasWork
CHECK_DEADLOCK FALSE
