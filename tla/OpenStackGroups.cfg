SPECIFICATION Spec
CONSTANTS
  m1 = m1
  m2 = m2
  w1 = w1
  nodes = nodes
  ssh = ssh
  api = api
  Masters <- MCMasters
  Workers <- MCWorkers
  Cidrs <- MCCidrs
  Rules <- MCRules
  MaxTurns = 0
  MaxFaults = 0
INVARIANTS
  MastersShareAGroup
