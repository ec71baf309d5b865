SPECIFICATION CloudFairSpec
CONSTANTS
  m1 = m1
  m2 = m2
  w1 = w1
  nodes = nodes
  ssh = ssh
  api = api
  Masters <- MCMasters
  Workers <- MCWorkers
  Cidrs <- MCCidrs
  Rules <- MCRules
  Asks <- MCAsks
  MinSize = 2
  MaxTurns = 2
  MaxFaults = 2
INVARIANTS
  CloudTypeOK
PROPERTIES
  ProvisionedIsComplete
  DeletedLeavesNothing
  DeleteIsExact
  EventuallyAsAsked
