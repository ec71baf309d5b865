SPECIFICATION Spec
CONSTANTS
  m1 = m1
  w1 = w1
  w2 = w2
  h1 = h1
  h2 = h2
  Masters <- MCMasters
  Workers <- MCWorkers
  LooksLikeWorker <- MCWorkers
  AlsoMatches = {}
  Hashes <- MCHashes
  Configs <- MCConfigs
  DnsRows = FALSE
  MaxCopies = 2
  MaxFaults = 1
  MaxEdits = 1
INVARIANT
  NothingToDoIsConverged
